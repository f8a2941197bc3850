------------------------------ MODULE DeviceOps ------------------------------
(***************************************************************************)
(* src/src/ops.rs: requests become commands for the device's shell, and    *)
(* what the device prints becomes an answer.  The device is one directory; *)
(* a command and its output are one step, since the device runs it and adb *)
(* collects what it printed.                                               *)
(*                                                                         *)
(* A device with shell protocol v2 keeps stdout and stderr apart and tells *)
(* the exit code; an older one prints all on stdout and exits 0.           *)
(***************************************************************************)
EXTENDS LsLine, FiniteSets

CONSTANTS
  Workers,   \* worker threads of the session
  Dir,       \* the path of the directory
  Names,     \* names in it
  Contents,  \* files there may be
  NewDir,    \* what mkdir makes, and touch of a name that is not there
  NewFile,
  Times,     \* times touch sets
  Unset,     \* an option not given
  NoFile     \* nothing under that name

ASSUME NoFileIsNoFile == \A f \in Contents : f # NoFile
ASSUME TimesAreMinutes == Times \subseteq Int
ASSUME DirIsAbsolute == Dir = <<>> \/ Dir[1] = Slash
ASSUME PathsAreTexts == \A text \in Names \cup {Dir} : text \in Seq(ToSet(text))

ASSUME FilesAreFiles == \A f \in Contents \cup {NewDir, NewFile} : IsFile(f)

VARIABLES
  phone,             \* v2: shell protocol; gnu: touch knows GNU dates; ls: its
                     \* columns; rescan: the media scanner is told of changes
  opts,              \* FsOptions
  asks,              \* bound: the operations the kernel asks for
  files,             \* the directory, on the device
  touch_gnu_mode,    \* DeviceOps::touch_gnu_mode, shared by the workers
  call, stage,       \* the operation a worker runs, and where it stands
  gnu,               \* touch: the flag as it was read
  done,              \* what the device did for it
  last               \* history: the latest operation and its answer

opsVars == <<phone, opts, asks, files, touch_gnu_mode, call, stage, gnu, done, last>>

Call(op, name, to, time) == [op |-> op, name |-> name, to |-> to, time |-> time]
Idle == Call("none", <<>>, <<>>, 0)

Ok == <<"ok">>
Fails(errno) == <<"errno", errno>>

Path(name) == Dir \o <<Slash>> \o name      \* child_path

\* The file a command is about: its argument, as the device's shell reads it.
Meant(name) == {n \in Names : Path(n) = Argument(Path(name))}
FileAt(name) == IF Meant(name) = {} THEN NoFile ELSE files[CHOOSE n \in Meant(name) : TRUE]

NothingYet == [op |-> "none", done |-> "nothing", was |-> NoFile, answer |-> Ok]

OpsInit ==
  /\ touch_gnu_mode = TRUE
  /\ call = [w \in Workers |-> Idle]
  /\ stage = [w \in Workers |-> "idle"]
  /\ gnu = [w \in Workers |-> TRUE]
  /\ done = [w \in Workers |-> "nothing"]
  /\ last = NothingYet

------------------------------------------------------------------------------
(***************************************************************************)
(* What a command prints, and what becomes of it.                          *)
(***************************************************************************)
Output(stdout, stderr, exit) == [stdout |-> stdout, stderr |-> stderr, exit |-> exit]

Silence == Output(<<>>, <<>>, 0)

Printed(line) == IF phone.v2 THEN Output(<<>>, <<line>>, 1) ELSE Output(<<line>>, <<>>, 0)

\* The device is gone before or while it runs the command: adb says so, or dies.
Lost == {Output(<<>>, <<(<<Word("error"), Mark(":"), Space, Word("no_devices")>>)>>, 1),
         Output(<<>>, <<>>, 255)}

Complaint(path, e) == path \o <<Mark(":"), Space, Err(e)>>

\* Errors of the device whose text errno_for_message knows, in its order.
Table == <<"EACCES", "EPERM", "ENOENT", "ENOTEMPTY", "EEXIST", "EROFS", "EISDIR",
           "ENOTDIR", "EXDEV", "ENOSPC", "EBUSY", "ENAMETOOLONG", "EINVAL">>

errno_for_message(line) ==
  LET k == SelectInSeq(Table, LAMBDA e : Err(e) \in ToSet(line))
  IN IF k = 0 THEN "EIO" ELSE Table[k]

\* Bug: stderr only.
FirstOfStderr(o) == IF o.stderr = <<>> THEN NoText ELSE Head(o.stderr)

first_message(o) ==
  LET lines == o.stderr \o o.stdout
      k == SelectInSeq(lines, LAMBDA l : ToSet(l) \ {Space} # {})
  IN IF k = 0 THEN NoText ELSE lines[k]

\* Bug: silence is success.
MutationByMessage(o) ==
  IF first_message(o) # NoText THEN Fails(errno_for_message(first_message(o))) ELSE Ok

run_mutation(o) ==
  IF first_message(o) # NoText THEN Fails(errno_for_message(first_message(o)))
  ELSE IF o.exit # 0 THEN Fails("EIO")
  ELSE Ok

\* AdbCli::shell: an error only if nothing was printed.
shell(o) == IF o.stdout = <<>> /\ o.exit # 0 THEN Fails("EIO") ELSE Ok

\* Bug: what am broadcast prints is taken for an error.
RescanStrict(o) == run_mutation(o)

\* am broadcast prints the intent it sent: no reason to complain.
rescan(o) == shell(o)

get_metadata(o) ==
  LET lines == IF o.stdout = <<>> THEN o.stderr ELSE o.stdout
      parsed == parse_ls_line(Head(lines))
  IN IF lines = <<>> THEN Fails("EAGAIN")
     ELSE IF IsSuffix(<<Mark(":"), Space, Err("EACCES")>>, Head(lines)) THEN Fails("EACCES")
     ELSE IF parsed = None THEN Fails("ENOENT")
     ELSE parsed

\* meta_to_attr, apply_ownership: umask takes the place of the permissions.
meta_to_attr(m) ==
  [m EXCEPT !.uid = IF opts.uid = Unset THEN @ ELSE opts.uid,
            !.gid = IF opts.gid = Unset THEN @ ELSE opts.gid,
            !.perms = IF opts.umask = Unset THEN @
                      ELSE ((1..3) \X {"r", "w", "x"}) \ opts.umask,
            !.type = IF @ = "" THEN "-" ELSE @]

------------------------------------------------------------------------------
(***************************************************************************)
(* Answers.                                                                *)
(***************************************************************************)
Reply(w, c, did, was, answer) ==
  /\ call' = [call EXCEPT ![w] = Idle]
  /\ stage' = [stage EXCEPT ![w] = IF answer = Panic THEN "dead" ELSE "idle"]
  /\ gnu' = [gnu EXCEPT ![w] = TRUE]
  /\ done' = [done EXCEPT ![w] = "nothing"]
  /\ last' = [op |-> c.op, done |-> did, was |-> was, answer |-> answer]

\* A change that went through is told to the media scanner, if it is asked to.
Changed(w, c, did, answer) ==
  IF answer = Ok /\ phone.rescan /\ c.op # "mkdir"
  THEN /\ call' = [call EXCEPT ![w] = c]
       /\ stage' = [stage EXCEPT ![w] = IF c.op = "mv" THEN "rescan_from" ELSE "rescan"]
       /\ done' = [done EXCEPT ![w] = did]
       /\ UNCHANGED <<gnu, last>>
  ELSE Reply(w, c, did, NoFile, answer)

Rescan(w) ==
  /\ stage[w] \in {"rescan_from", "rescan"}
  /\ \E o \in Lost \cup {Output(<<(<<Word("Broadcasting")>>)>>, <<>>, 0)} :
       IF rescan(o) = Ok /\ stage[w] = "rescan_from"
       THEN stage' = [stage EXCEPT ![w] = "rescan"] /\ UNCHANGED <<call, gnu, done, last>>
       ELSE Reply(w, call[w], IF o \in Lost THEN "lost" ELSE done[w], NoFile, rescan(o))
  /\ UNCHANGED <<phone, opts, asks, files, touch_gnu_mode>>

------------------------------------------------------------------------------
(***************************************************************************)
(* mkdir, rm, rmdir and mv.                                                *)
(***************************************************************************)

\* Why the device refuses a command, and what the directory is without refusal.
Refusals(c) ==
  LET f == FileAt(c.name) IN
  {"EROFS", "strange"}
    \cup (IF f = NoFile THEN IF c.op \in {"mkdir", "touch"} THEN {} ELSE {"ENOENT"}
          ELSE CASE c.op = "mkdir" -> {"EEXIST"}
                 [] c.op = "rm" /\ f.type = "d" -> {"EISDIR"}
                 [] c.op = "rmdir" -> IF f.type = "d" THEN {"ENOTEMPTY"} ELSE {"ENOTDIR"}
                 [] OTHER -> {})

MustRefuse(c) == Refusals(c) \cap {"EEXIST", "ENOENT", "EISDIR", "ENOTDIR"} # {} \/ Meant(c.name) = {}

Effect(c) ==
  LET f == FileAt(c.name)
      Named(n) == n \in Meant(c.name)
  IN [n \in Names |->
        CASE c.op = "mkdir" /\ Named(n) -> NewDir
          [] c.op = "touch" /\ Named(n) ->
               [(IF f = NoFile THEN NewFile ELSE f) EXCEPT !.time = c.time]
          [] c.op = "mv" /\ n \in Meant(c.to) -> f
          [] c.op \in {"rm", "rmdir", "mv"} /\ Named(n) -> NoFile
          [] OTHER -> files[n]]

\* How a command ends.
Ends(c) ==
  {[did |-> e, files |-> files, out |-> Printed(Complaint(Path(c.name), e))] : e \in Refusals(c)}
    \cup [did : {"lost"}, files : {files}, out : Lost]
    \cup (IF MustRefuse(c) THEN {}
          ELSE {[did |-> "done", files |-> Effect(c), out |-> Silence]}
                 \cup [did : {"lost"}, files : {Effect(c)}, out : {Output(<<>>, <<>>, 255)}])

\* The kernel does not move a file onto a directory, nor a directory onto a file.
Movable(c) ==
  c.op = "mv" =>
    /\ c.to # c.name
    /\ NoFile \notin {files[c.name], files[c.to]}
         => "d" \notin {files[c.name].type, files[c.to].type}

Mutate(w, c) ==
  /\ stage[w] = "idle"
  /\ Movable(c)
  /\ \E e \in Ends(c) : files' = e.files /\ Changed(w, c, e.did, run_mutation(e.out))
  /\ UNCHANGED <<phone, opts, asks, touch_gnu_mode>>

------------------------------------------------------------------------------
(***************************************************************************)
(* touch tries GNU dates until a device does not know them.  The flag is   *)
(* read, the command run and the flag written in steps of their own.       *)
(***************************************************************************)
Touch(w, name, t) ==
  /\ stage[w] = "idle"
  /\ call' = [call EXCEPT ![w] = Call("touch", name, <<>>, t)]
  /\ stage' = [stage EXCEPT ![w] = "load"]
  /\ UNCHANGED <<phone, opts, asks, files, touch_gnu_mode, gnu, done, last>>

LoadMode(w) ==
  /\ stage[w] = "load"
  /\ gnu' = [gnu EXCEPT ![w] = touch_gnu_mode]
  /\ stage' = [stage EXCEPT ![w] = "touch"]
  /\ UNCHANGED <<phone, opts, asks, files, touch_gnu_mode, call, done, last>>

BadDate == <<Word("touch"), Mark(":"), Space, Word("bad_date")>>

\* A device that does not know the date says so; others run the command.
TouchEnds(w) ==
  IF gnu[w] /\ ~phone.gnu
  THEN {[did |-> "date", files |-> files, out |-> Printed(BadDate)]}
         \cup [did : {"lost"}, files : {files}, out : Lost]
  ELSE Ends(call[w])

\* Without a message it went well, whatever the exit code.
TouchAnswer(w, o, flag) ==
  LET message == first_message(o) IN
  IF message = NoText THEN Ok
  ELSE IF message # BadDate THEN Fails(errno_for_message(message))
  ELSE IF flag THEN <<"fall_back">> ELSE Fails("ENOSYS")

\* Bug: whether to fall back is asked of the flag, not of the command that ran.
RunTouchAsked(w) ==
  /\ stage[w] = "touch"
  /\ \E e \in TouchEnds(w) :
       LET answer == TouchAnswer(w, e.out, touch_gnu_mode) IN
       /\ files' = e.files
       /\ IF answer = <<"fall_back">>
          THEN stage' = [stage EXCEPT ![w] = "store"] /\ UNCHANGED <<call, gnu, done, last>>
          ELSE Changed(w, call[w], e.did, answer)
  /\ UNCHANGED <<phone, opts, asks, touch_gnu_mode>>

RunTouch(w) ==
  /\ stage[w] = "touch"
  /\ \E e \in TouchEnds(w) :
       LET answer == TouchAnswer(w, e.out, gnu[w]) IN
       /\ files' = e.files
       /\ IF answer = <<"fall_back">>
          THEN stage' = [stage EXCEPT ![w] = "store"] /\ UNCHANGED <<call, gnu, done, last>>
          ELSE Changed(w, call[w], e.did, answer)
  /\ UNCHANGED <<phone, opts, asks, touch_gnu_mode>>

\* The flag goes down, and touch calls itself.
FallBack(w) ==
  /\ stage[w] = "store"
  /\ touch_gnu_mode' = FALSE
  /\ stage' = [stage EXCEPT ![w] = "load"]
  /\ UNCHANGED <<phone, opts, asks, files, call, gnu, done, last>>

------------------------------------------------------------------------------
(***************************************************************************)
(* get_metadata and readlink.                                              *)
(***************************************************************************)
Shown(name) ==
  LET f == FileAt(name) IN
  IF f = NoFile THEN {[did |-> "ENOENT", out |-> Printed(Complaint(Path(name), "ENOENT"))]}
  ELSE IF f.denied THEN {[did |-> "EACCES", out |-> Printed(Complaint(Path(name), "EACCES"))]}
  ELSE {[did |-> "done", out |-> Output(<<LsLine(f, Path(name), phone.ls)>>, <<>>, 0)]}

Shows(name) ==
  Shown(name) \cup [did : {"lost"}, out : Lost \cup {Printed(Complaint(Path(name), "strange"))}]

Stat(w, name) ==
  /\ stage[w] = "idle"
  /\ \E s \in Shows(name) :
       LET r == get_metadata(s.out) IN
       Reply(w, Call("stat", name, <<>>, 0), s.did, files[name],
             IF r[1] = "meta" THEN <<"attr", meta_to_attr(r[2])>> ELSE r)
  /\ UNCHANGED <<phone, opts, asks, files, touch_gnu_mode>>

Slashes(text) == Cardinality({k \in DOMAIN text : text[k] = Slash})

\* The kernel asks only of links.
Readlink(w, name) ==
  /\ stage[w] = "idle"
  /\ files[name] # NoFile /\ files[name].type = "l"
  /\ \E s \in Shows(name) :
       LET r == get_metadata(s.out)
           target == parse_symlink_target(Head(s.out.stdout), Slashes(Path(name)))
       IN Reply(w, Call("readlink", name, <<>>, 0), s.did, files[name],
                IF r[1] # "meta" THEN r
                ELSE IF target = NoText THEN Fails("ENOSYS") ELSE <<"target", target>>)
  /\ UNCHANGED <<phone, opts, asks, files, touch_gnu_mode>>

------------------------------------------------------------------------------
OpsRequest(w) ==
  \/ \E n \in Names, op \in asks \cap {"mkdir", "rm", "rmdir"} :
       Mutate(w, Call(op, n, <<>>, 0))
  \/ "mv" \in asks /\ \E n, m \in Names : Mutate(w, Call("mv", n, m, 0))
  \/ "touch" \in asks /\ \E n \in Names, t \in Times : Touch(w, n, t)
  \/ "stat" \in asks /\ \E n \in Names : Stat(w, n)
  \/ "readlink" \in asks /\ \E n \in Names : Readlink(w, n)

OpsStep(w) == LoadMode(w) \/ RunTouch(w) \/ FallBack(w) \/ Rescan(w)

------------------------------------------------------------------------------
(***************************************************************************)
(* Properties.                                                             *)
(***************************************************************************)
Mutations == {"mkdir", "rm", "rmdir", "mv"}

\* An operation answered Ok was carried out, whichever protocol the device
\* speaks.  touch is not among them: it takes silence for success.
OkMeansDone ==
  last.answer = Ok /\ last.op \in Mutations => last.done = "done"

\* What the device did, with adb there until the end, is not reported as failed:
\* the chatter of am broadcast is no error.
DoneMeansOk == last.done = "done" /\ last.op \in Mutations \cup {"touch"} => last.answer = Ok

\* A refusal is told with the errno of the device's message, EIO if unknown.
ErrnoIsTheDevices ==
  last.op \in Mutations \cup {"touch"} /\ last.done \notin {"done", "lost", "nothing"} =>
    last.answer = Fails(IF last.done \in ToSet(Table) THEN last.done ELSE "EIO")

\* No worker gives up on a date because another one has just learnt that this
\* device wants the old format.
TouchFallsBack ==
  last.op = "touch" => last.answer # Fails("ENOSYS") /\ last.done # "date"

\* What lookup and getattr say of a name is what the device has there; "no such
\* file" means that it has none, unless the device did not get to answer.
Expected(f) ==
  [type |-> f.type,
   perms |-> IF opts.umask = Unset THEN f.perms ELSE ((1..3) \X {"r", "w", "x"}) \ opts.umask,
   nlink |-> IF phone.ls.nlink THEN f.nlink ELSE 1,
   uid |-> IF opts.uid = Unset THEN Resolve(f.owner) ELSE opts.uid,
   gid |-> IF opts.gid = Unset THEN Resolve(f.group) ELSE opts.gid,
   size |-> IF f.type = "-" THEN f.size ELSE 0,
   rdev |-> IF IsDevice(f.type) THEN f.major * 256 + f.minor ELSE 0,
   mtime |-> f.time - Zone]

StatTellsTruth ==
  last.op = "stat" =>
    /\ last.answer[1] = "attr" => last.was # NoFile /\ last.answer[2] = Expected(last.was)
    /\ last.answer = Fails("ENOENT") => last.was = NoFile \/ last.done = "lost"
    /\ last.answer = Fails("EACCES") => last.was # NoFile /\ last.was.denied

\* A link leads somewhere, and where it leads on the device: an absolute target,
\* from the top of the mount; above that is the host.
Follow(dir, target) ==
  LET ups == Cardinality({k \in DOMAIN target : target[k] = Mark("..")})
      rest == Without(SubSeq(target, 2 * ups + 1, Len(target)), {Slash})
      parts == Without(dir, {Slash})
  IN IF ups > Len(parts) THEN NoText ELSE SubSeq(parts, 1, Len(parts) - ups) \o rest

LinksResolve ==
  last.op = "readlink" =>
    /\ last.answer # Fails("ENOSYS")
    /\ last.answer[1] = "target" =>
         LET target == last.was.target IN
         Follow(Dir, last.answer[2])
           = IF target[1] = Slash THEN Without(target, {Slash}) ELSE Follow(Dir, target)
=============================================================================
