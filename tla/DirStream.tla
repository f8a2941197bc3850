------------------------------ MODULE DirStream ------------------------------
(***************************************************************************)
(* Directory streams: opendir takes a listing (list_dir of src/src/ops.rs, *)
(* opendir of fs.rs), readdir hands it out in pieces, from the offset the  *)
(* kernel asks for, while other requests go on changing the directory.     *)
(***************************************************************************)
EXTENDS DeviceOps

CONSTANTS
  Handles,   \* directory handles
  Rooms,     \* bound: entries that fit into the buffer of a readdir
  NoDir      \* the handle is not open

ASSUME NamesAreFinite == IsFiniteSet(Names)
ASSUME RoomsAreNumbers == Rooms \subseteq Nat

VARIABLES
  open_dirs, \* the listing of a handle
  offset,    \* the kernel's: where its next readdir starts
  got,       \* history: the entries a reader of the handle has got
  there,     \* history: the files that have been there since opendir
  seen       \* history: those that have been there at some time since

dirVars == <<open_dirs, offset, got, there, seen>>

DirInit ==
  /\ open_dirs = [h \in Handles |-> NoDir]
  /\ offset = [h \in Handles |-> 0]
  /\ got = [h \in Handles |-> <<>>]
  /\ there = [h \in Handles |-> {}]
  /\ seen = [h \in Handles |-> {}]

\* A file and its type, as a directory entry tells it: that of a file ls may not
\* look at is not known.
Present ==
  {<<n, IF files[n].denied THEN "-" ELSE files[n].type>> : n \in {m \in Names : files[m] # NoFile}}

\* A device with shell v2 names the files ls may not look at on stderr, which
\* list_dir does not read.
Visible == {e \in Present : ~(phone.v2 /\ files[e[1]].denied)}

\* The directory has changed under the streams.
Watch ==
  /\ there' = [h \in Handles |-> there[h] \cap Visible']
  /\ seen' = [h \in Handles |-> IF open_dirs[h] = NoDir THEN {} ELSE seen[h] \cup Present']

------------------------------------------------------------------------------
Dot(dots) == <<Mark(dots)>>

Self == [type |-> "d", perms |-> {}, nlink |-> 2, owner |-> <<Word("root")>>,
         group |-> <<Word("root")>>, size |-> 0, major |-> 0, minor |-> 0,
         time |-> Zone, target |-> <<>>, denied |-> FALSE]

\* What `ls` says of a file it may not look at.
LstatFailed(name) ==
  <<Word("lstat"), Space, Quote>> \o Path(name)
    \o <<Quote, Space, Word("failed"), Mark(":"), Space, Err("EACCES")>>

LineOf(name) ==
  IF files[name].denied THEN LstatFailed(name) ELSE LsLine(files[name], name, phone.ls)

\* `ls -l -a` of the directory.
Listing ==
  LET names == SetToSeq({n \in Names : files[n] # NoFile})
      denied == {n \in ToSet(names) : files[n].denied}
      shown == IF phone.v2 THEN Without(names, denied) ELSE names
      Lines(ns) == [k \in 1..Len(ns) |-> LineOf(ns[k])]
  IN Output(<<(<<Word("total"), Space, Num(0)>>), LsLine(Self, Dot("."), phone.ls),
              LsLine(Self, Dot(".."), phone.ls)>> \o Lines(shown),
            IF phone.v2 THEN Lines(Without(names, ToSet(names) \ denied)) ELSE <<>>, 0)

extract_name_from_perm_error(line) ==
  LET slash == SelectLastInSeq(line, LAMBDA p : p = Slash)
      end == Position(line, <<Quote, Space>>)
  IN IF slash = 0 \/ end = 0 \/ end < slash THEN NoText ELSE SubSeq(line, slash + 1, end - 1)

\* Name and metadata of a line, none for a file ls may not look at.
EntryOf(line) ==
  IF is_valid_ls_output(line) THEN <<extract_filename(line), parse_ls_line(line)>>
  ELSE <<IF Last(line) = Err("EACCES") THEN extract_name_from_perm_error(line) ELSE NoText, None>>

\* A line of stdout that is neither a file's nor such a message is left out.
list_dir(lines) ==
  LET entries == [k \in 1..Len(lines) |-> EntryOf(lines[k])]
  IN Without(entries, {e \in ToSet(entries) : e[1] = NoText})

\* "." and ".." come first, once; without metadata it is a regular file.
Typed(entry) == <<entry[1], IF entry[2] = None \/ entry[2][2].type = "" THEN "-" ELSE entry[2][2].type>>

Dots == <<(<<Dot("."), "d">>), (<<Dot(".."), "d">>)>>

Entries(listed) ==
  LET others == Without(listed, {e \in ToSet(listed) : e[1] \in {Dot("."), Dot("..")}})
  IN Dots \o [k \in 1..Len(others) |-> Typed(others[k])]

\* adb may die: with nothing printed opendir fails, with a part of the listing it
\* goes on with that, and promises nothing.
Opendir(w, h) ==
  /\ "opendir" \in asks
  /\ stage[w] = "idle" /\ open_dirs[h] = NoDir
  /\ \E n \in 0..Len(Listing.stdout) :
       LET lines == SubSeq(Listing.stdout, 1, n)
           lost == n < Len(Listing.stdout)
           listed == list_dir(lines)
           answer == IF \E k \in DOMAIN listed : listed[k][2] = Panic THEN Panic
                     ELSE shell(Output(lines, <<>>, IF lost THEN 255 ELSE 0))
       IN /\ Reply(w, Call("opendir", <<>>, <<>>, 0), IF lost THEN "lost" ELSE "done", NoFile, answer)
          /\ IF answer = Ok
             THEN /\ open_dirs' = [open_dirs EXCEPT ![h] = Entries(listed)]
                  /\ there' = [there EXCEPT ![h] = IF lost THEN {} ELSE Visible]
                  /\ seen' = [seen EXCEPT ![h] = Present]
             ELSE UNCHANGED <<open_dirs, there, seen>>
  /\ UNCHANGED <<phone, opts, asks, files, touch_gnu_mode, offset, got>>

\* Bug: the offset is the entry's own.
OwnOffset(k) == k - 1

\* The offset that comes with the k-th entry, from 1: that of the next one.
OffsetOf(k) == k

\* From the offset on, what fits; the kernel goes on from that of the last entry.
Readdir(w, h) ==
  /\ stage[w] = "idle" /\ open_dirs[h] # NoDir
  /\ \E room \in Rooms :
       LET end == Min({offset[h] + room, Len(open_dirs[h])}) IN
       /\ end > offset[h]
       /\ got' = [got EXCEPT ![h] = @ \o SubSeq(open_dirs[h], offset[h] + 1, end)]
       /\ offset' = [offset EXCEPT ![h] = OffsetOf(end)]
  /\ UNCHANGED <<opsVars, open_dirs, there, seen>>

\* rewinddir is the kernel's: it asks from 0 again.
Rewind(h) ==
  /\ open_dirs[h] # NoDir /\ offset[h] > 0
  /\ offset' = [offset EXCEPT ![h] = 0]
  /\ got' = [got EXCEPT ![h] = <<>>]
  /\ UNCHANGED <<opsVars, open_dirs, there, seen>>

Releasedir(w, h) ==
  /\ stage[w] = "idle" /\ open_dirs[h] # NoDir
  /\ open_dirs' = [open_dirs EXCEPT ![h] = NoDir]
  /\ offset' = [offset EXCEPT ![h] = 0]
  /\ got' = [got EXCEPT ![h] = <<>>]
  /\ there' = [there EXCEPT ![h] = {}]
  /\ seen' = [seen EXCEPT ![h] = {}]
  /\ UNCHANGED opsVars

------------------------------------------------------------------------------
\* An operation of DeviceOps, while directories may be open.
Beside(operation) == operation /\ Watch /\ UNCHANGED <<open_dirs, offset, got>>

DirRequest(w) ==
  \/ Beside(OpsRequest(w))
  \/ \E h \in Handles : Opendir(w, h) \/ Readdir(w, h) \/ Releasedir(w, h)

DirStep(w) == Beside(OpsStep(w))

------------------------------------------------------------------------------
(***************************************************************************)
(* Properties.                                                             *)
(***************************************************************************)

\* A reader of a directory gets no name twice and no file that was not there;
\* who reads to the end gets all that have been there since opendir.  Files made,
\* removed and renamed meanwhile may or may not be among them.
ReadsTellTheDirectory ==
  \A h \in Handles : open_dirs[h] # NoDir =>
    LET names == SubSeq(got[h], 3, Len(got[h])) IN
    /\ IsInjective(got[h])
    /\ IsPrefix(got[h], Dots) \/ IsPrefix(Dots, got[h])
    /\ ToSet(names) \subseteq seen[h]
    /\ offset[h] = Len(open_dirs[h]) => there[h] \subseteq ToSet(names)
=============================================================================
