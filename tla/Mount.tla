-------------------------------- MODULE Mount --------------------------------
(***************************************************************************)
(* A run of adbfs from its command line to the unmount: the options        *)
(* (src/src/mount_opts.rs), the startup (main.rs, mount of fs.rs), and the *)
(* worker threads that serve the requests of DirStream and DeviceOps.      *)
(***************************************************************************)
EXTENDS DirStream

CONSTANTS
  Scenes     \* instances: a command line, a kind of device, what its
             \* directory may hold, and the operations the kernel asks for

ASSUME ScenesAreReal ==
  \A s \in Scenes : /\ s.files \subseteq [Names -> Contents \cup {NoFile}]
                    /\ s.cmd.o \in Seq(ToSet(s.cmd.o))

VARIABLES
  cmd,       \* the command line: o, the -o options, and the flags f, d and s
  at,        \* where main and mount are, or "over"
  to_mount,  \* the options that go to the mount
  tmp,       \* the temporary directory exists
  mounted,   \* the kernel has the mount
  launcher,  \* the process that was started: "running", or its exit
  threads    \* the worker threads there are

mountVars == <<cmd, at, to_mount, tmp, mounted, launcher, threads>>

vars == <<opsVars, dirVars, mountVars>>

------------------------------------------------------------------------------
(***************************************************************************)
(* Options.  An option is a key and a value, NoText for none.              *)
(***************************************************************************)
Timeouts == {"entry_timeout", "attr_timeout", "negative_timeout"}
Ids == {"uid", "gid"}
Flags == {"direct_io", "kernel_cache", "debug"}

Octal(perms) == <<"octal", perms>>

Default ==
  [k \in Timeouts \cup Ids \cup {"umask"} \cup Flags |->
     CASE k \in Timeouts -> Num(IF k = "negative_timeout" THEN 0 ELSE 1)
       [] k \in Flags -> FALSE
       [] OTHER -> Unset]

seconds(value) == IF value[1] = "num" /\ value[2] >= 0 THEN <<"value", value>> ELSE None

\* number, of radix 10 or 8.
number(value, radix) ==
  CASE radix = 10 /\ value[1] = "num" /\ value[2] >= 0 -> <<"value", <<value>> >>
    [] radix = 8 /\ value[1] = "octal" -> <<"value", value[2]>>
    [] OTHER -> None

parse_value(key, value) ==
  IF key \in Timeouts THEN seconds(value) ELSE number(value, IF key = "umask" THEN 8 ELSE 10)

\* Bug: a flag is recognised with a value, too.
ConsumeLoose(fs, key, value) ==
  CASE key \in Flags -> <<"taken", [fs EXCEPT ![key] = TRUE]>>
    [] key \in (DOMAIN fs) \ Flags /\ value # NoText ->
         LET v == parse_value(key, value)
         IN IF v = None THEN <<"invalid">> ELSE <<"taken", [fs EXCEPT ![key] = v[2]]>>
    [] OTHER -> None

\* Bug: a value is taken as it is.
ConsumeUnchecked(fs, key, value) ==
  CASE key \in Flags /\ value = NoText -> <<"taken", [fs EXCEPT ![key] = TRUE]>>
    [] key \in (DOMAIN fs) \ Flags /\ value # NoText -> <<"taken", [fs EXCEPT ![key] = value]>>
    [] OTHER -> None

\* What is set, "invalid", or None if the option is nothing for the filesystem.
consume(fs, key, value) ==
  CASE key \in Flags /\ value = NoText -> <<"taken", [fs EXCEPT ![key] = TRUE]>>
    [] key \in (DOMAIN fs) \ Flags /\ value # NoText ->
         LET v == parse_value(key, value)
         IN IF v = None THEN <<"invalid">> ELSE <<"taken", [fs EXCEPT ![key] = v[2]]>>
    [] OTHER -> None

\* The first value that is invalid ends it.
OptionRead(s, o) ==
  LET r == consume(s.fs, o[1], o[2]) IN
  CASE s.invalid -> s
    [] ~s.invalid /\ r = None -> [s EXCEPT !.mount = Append(@, o)]
    [] ~s.invalid /\ r = <<"invalid">> -> [s EXCEPT !.invalid = TRUE]
    [] OTHER -> [s EXCEPT !.fs = r[2]]

split(options) == FoldLeft(OptionRead, [fs |-> Default, mount |-> <<>>, invalid |-> FALSE], options)

------------------------------------------------------------------------------
(***************************************************************************)
(* Startup.                                                                *)
(***************************************************************************)
Init ==
  /\ \E s \in Scenes :
       /\ phone = s.phone /\ cmd = s.cmd /\ asks = s.asks
       /\ files \in s.files
  /\ OpsInit
  /\ DirInit
  /\ opts = Default
  /\ at = "split"
  /\ to_mount = <<>>
  /\ tmp = FALSE /\ mounted = FALSE
  /\ launcher = "running"
  /\ threads = {}

\* Bug: into the background before the mount.
ForkFirst == <<"split", "on_mounted", "adbfs", "session", "spawn", "join">>

\* Bug: into the background when the workers run.
ForkLast == <<"split", "adbfs", "session", "spawn", "on_mounted", "join">>

\* main, and fs::mount from "session" on.
Startup == <<"split", "adbfs", "session", "on_mounted", "spawn", "join">>

Forward == at' = Startup[Position(Startup, <<at>>) + 1]

\* main returns: what it holds is dropped, the mount and the directory with it.
Leave(exit) ==
  /\ at' = "over"
  /\ tmp' = FALSE /\ mounted' = FALSE
  /\ threads' = {}
  /\ launcher' = IF launcher = "running" THEN exit ELSE launcher

Split ==
  /\ at = "split"
  /\ LET s == split(cmd.o) IN
       IF s.invalid THEN Leave("error") /\ UNCHANGED <<opts, to_mount>>
       ELSE /\ opts' = s.fs /\ to_mount' = s.mount
            /\ Forward
            /\ UNCHANGED <<tmp, mounted, launcher, threads>>

\* AdbFs::new; TempDir::new may fail.
NewFs ==
  /\ at = "adbfs"
  /\ \/ Forward /\ tmp' = TRUE /\ UNCHANGED <<mounted, launcher, threads>>
     \/ Leave("error")
  /\ UNCHANGED <<opts, to_mount>>

\* Options that libfuse handled, and fusermount3 does not know.
IsFsOption(o) == o[1] \in DOMAIN Default /\ (o[1] \in Flags <=> o[2] = NoText)

\* Session::new mounts, and shakes hands with the kernel.
NewSession ==
  /\ at = "session"
  /\ \/ /\ \A k \in DOMAIN to_mount : ~IsFsOption(to_mount[k])
        /\ Forward /\ mounted' = TRUE
        /\ UNCHANGED <<tmp, launcher, threads>>
     \/ Leave("error")
  /\ UNCHANGED <<opts, to_mount>>

foreground == cmd.f \/ cmd.d \/ opts["debug"]

\* on_mounted.  daemonize forks: the parent exits at once and drops nothing, the
\* child has only the thread that called.
OnMounted ==
  /\ at = "on_mounted"
  /\ \/ foreground /\ Forward /\ UNCHANGED <<tmp, mounted, launcher, threads>>
     \/ ~foreground /\ Leave("error")
     \/ /\ ~foreground
        /\ at' = "setsid" /\ launcher' = "ok" /\ threads' = {}
        /\ UNCHANGED <<tmp, mounted>>
  /\ UNCHANGED <<opts, to_mount>>

\* In the child; after a failure nobody is told.
Setsid ==
  /\ at = "setsid"
  /\ \/ /\ at' = Startup[Position(Startup, <<"on_mounted">>) + 1]
        /\ UNCHANGED <<tmp, mounted, launcher, threads>>
     \/ Leave("error")
  /\ UNCHANGED <<opts, to_mount>>

n_threads == IF cmd.s THEN 1 ELSE Cardinality(Workers)

\* Session::spawn; a thread may fail to start.
Spawn ==
  /\ at = "spawn"
  /\ \/ /\ \E T \in SUBSET Workers : Cardinality(T) = n_threads /\ threads' = T
        /\ Forward /\ UNCHANGED <<tmp, mounted, launcher>>
     \/ Leave("error")
  /\ UNCHANGED <<opts, to_mount>>

\* Unmounted while nobody uses the mount: the threads end, and join returns.
Unmounted ==
  /\ at = "join"
  /\ \A h \in Handles : open_dirs[h] = NoDir
  /\ \A w \in threads : stage[w] \in {"idle", "dead"}
  /\ Leave("ok")
  /\ UNCHANGED <<opts, to_mount>>

Begins == Split \/ NewFs \/ NewSession \/ OnMounted \/ Setsid \/ Spawn \/ Unmounted

Request(w) == mounted /\ w \in threads /\ DirRequest(w) /\ UNCHANGED mountVars

Serve(w) == w \in threads /\ DirStep(w) /\ UNCHANGED mountVars

Reread == \E h \in Handles : Rewind(h) /\ UNCHANGED mountVars

Next ==
  \/ Begins
       /\ UNCHANGED <<cmd, phone, asks, files, touch_gnu_mode, call, stage, gnu, done, last, dirVars>>
  \/ \E w \in Workers : Request(w) \/ Serve(w)
  \/ Reread

Spec == Init /\ [][Next]_vars

------------------------------------------------------------------------------
(***************************************************************************)
(* Properties.                                                             *)
(***************************************************************************)
\* Every variable keeps its type; options hold values that were checked.
TypeOK ==
  /\ \A n \in Names : files[n] # NoFile =>
       \E f \in Contents \cup {NewDir, NewFile} : files[n] = [f EXCEPT !.time = files[n].time]
  /\ \A k \in Timeouts : opts[k][1] = "num" /\ opts[k][2] >= 0
  /\ \A k \in Ids : opts[k] = Unset \/ IsNum(opts[k])
  /\ stage \in [Workers -> {"idle", "load", "touch", "store", "rescan_from", "rescan", "dead"}]
  /\ gnu \in [Workers -> BOOLEAN] /\ touch_gnu_mode \in BOOLEAN
  /\ at \in ToSet(Startup) \cup {"setsid", "over"}
  /\ launcher \in {"running", "ok", "error"}
  /\ threads \subseteq Workers
  /\ tmp \in BOOLEAN /\ mounted \in BOOLEAN

\* No file of the device makes a worker thread panic: parse.rs:174 gives a line of
\* 1970 as one of the formats that parse_ls_line handles.
WorkersSurvive == \A w \in Workers : stage[w] # "dead"

\* The launcher does not say that all is well before the mount is there, in the
\* foreground not before it is gone again; "anything that fails afterwards has no
\* way to report a non-zero status" (main.rs:51).  Who fails leaves nothing.
ExitTellsTheMount ==
  [][launcher' # launcher =>
       \/ launcher' = "error" /\ ~mounted' /\ ~tmp'
       \/ launcher' = "ok" /\ mounted]_vars

\* A mount that is served has all its threads, and the directory for its copies.
ServedInFull == at = "join" => mounted /\ tmp /\ Cardinality(threads) = n_threads

\* Where the last option is that sets a key, 0 if there is none.
LastThatSets(options, key) == SelectLastInSeq(options, LAMBDA o : o[1] = key /\ IsFsOption(o))

\* Each -o option is the filesystem's or the mount's, the last one counts, and
\* none of the filesystem's gets the mount refused.
OptionsAreKept ==
  at # "split" /\ at # "over" =>
    /\ to_mount = Without(cmd.o, {o \in ToSet(cmd.o) : IsFsOption(o)})
    /\ \A key \in DOMAIN Default :
         LET k == LastThatSets(cmd.o, key)
         IN opts[key] = IF k = 0 THEN Default[key]
                        ELSE CASE key \in Flags -> TRUE
                               [] key \in Timeouts -> cmd.o[k][2]
                               [] key \in Ids -> <<cmd.o[k][2]>>
                               [] OTHER -> cmd.o[k][2][2]
=============================================================================
