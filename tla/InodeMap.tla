------------------------------ MODULE InodeMap ------------------------------
(***************************************************************************)
(* The inode map of src/src/fs.rs: path_to_ino, ino_to_path and next_ino,  *)
(* as get_or_assign_ino and rekey_paths change them, with the handlers     *)
(* that call the two: lookup, opendir, mkdir and mknod, create, unlink and *)
(* rmdir, rename.  Each DashMap call is a step of its own; the two maps    *)
(* have no lock in common.                                                 *)
(*                                                                         *)
(* The other side is the kernel's tree of dentries.  A dentry keeps the    *)
(* inode number it was given and moves with a rename, and the number is    *)
(* all that later requests on the file carry.                              *)
(*                                                                         *)
(* A path is a sequence of names, <<>> is "/".  Left out: the metadata     *)
(* cache in front of the device, and requests that change no map.          *)
(***************************************************************************)
EXTENDS Naturals, FiniteSets, Sequences, SequencesExt

CONSTANTS
  Workers,   \* FUSE worker threads
  Names,     \* file names
  Depth,     \* bound: the longest path
  MaxIno,    \* bound: requests that might assign a number stop before it
  NoPath     \* no entry in ino_to_path

Paths == UNION {[1..n -> Names] : n \in 0..Depth}
Root == 1
Inos == 1..MaxIno
NoIno == 0

ASSUME ThreadsAreFinite == IsFiniteSet(Workers)
ASSUME NamesAreFinite == IsFiniteSet(Names)
ASSUME BoundsArePositive == Depth \in Nat \ {0} /\ MaxIno \in Nat \ {0}
ASSUME NoPathIsNoPath == NoPath \notin Paths

VARIABLES
  path_to_ino,  \* NoIno where there is no entry
  ino_to_path,  \* NoPath where there is no entry
  next_ino,
  at,           \* where a worker stands in its handler
  job,          \* the request it serves and the handler's locals
  tree,         \* the device: "none", "file" or "dir" at each path
  dentry,       \* the kernel: the inode number at each path, or NoIno
  dirs          \* the kernel: inode numbers it takes for directories

maps == <<path_to_ino, ino_to_path, next_ino>>
kernel == <<dentry, dirs>>
vars == <<maps, at, job, tree, kernel>>

(***************************************************************************)
(* A job: the directories whose lock the kernel holds for the request, the *)
(* parent and the name it is about, the device path the handler computed   *)
(* from them, and what is left to do: children to number, or entries to    *)
(* move.  For a rename, dest is where to, destParent and destName say.     *)
(***************************************************************************)
NoJob == [op |-> "none", locks |-> {}, parent |-> NoIno, name |-> "", path |-> <<>>,
          kind |-> "none", num |-> NoIno, todo |-> {}, lost |-> NoIno, entry |-> <<>>,
          destParent |-> NoIno, destName |-> "", dest |-> <<>>]

Jobs ==
  [op : {"none", "lookup", "opendir", "make", "create", "remove", "rename"},
   locks : SUBSET Inos, parent : Inos \cup {NoIno}, name : Names \cup {""}, path : Paths,
   kind : {"none", "file", "dir"}, num : Inos \cup {NoIno},
   todo : SUBSET (Paths \cup (Paths \X Inos)), lost : Inos \cup {NoIno}, entry : Paths,
   destParent : Inos \cup {NoIno}, destName : Names \cup {""}, dest : Paths]

Stages ==
  {"idle", "stat", "list", "make", "push", "rm", "target", "mv", "get", "putPath", "putIno",
   "collect", "next", "replace", "forget", "rekeyPath", "rekeyIno"}

Idle(w) == at[w] = "idle"

Under(p, q) == IsPrefix(q, p)   \* p is q or below it

Child(p, n) == Append(p, n)

Parent(p) == Front(p)

\* The kernel's path of an inode it has a dentry for.
KernelPaths(i) == IF i = Root THEN {<<>>} ELSE {p \in Paths : dentry[p] = i}

KernelPlaces(i, n) == {Child(p, n) : p \in {q \in KernelPaths(i) : Len(q) < Depth}}

Goto(w, s) == at' = [at EXCEPT ![w] = s]

Keep(w, j) == job' = [job EXCEPT ![w] = j]

Done(w) == Goto(w, "idle") /\ Keep(w, NoJob)

\* Bug: the counter starts at the root's own number.
InitAtRoot ==
  /\ path_to_ino = [p \in Paths |-> IF p = <<>> THEN Root ELSE NoIno]
  /\ ino_to_path = [i \in Inos |-> IF i = Root THEN <<>> ELSE NoPath]
  /\ next_ino = Root
  /\ at = [w \in Workers |-> "idle"]
  /\ job = [w \in Workers |-> NoJob]
  /\ tree = [p \in Paths |-> IF p = <<>> THEN "dir" ELSE "none"]
  /\ dentry = [p \in Paths |-> NoIno]
  /\ dirs = {Root}

Init ==
  /\ path_to_ino = [p \in Paths |-> IF p = <<>> THEN Root ELSE NoIno]
  /\ ino_to_path = [i \in Inos |-> IF i = Root THEN <<>> ELSE NoPath]
  /\ next_ino = Root + 1
  /\ at = [w \in Workers |-> "idle"]
  /\ job = [w \in Workers |-> NoJob]
  /\ tree \in {t \in [Paths -> {"none", "file", "dir"}] :
                 /\ t[<<>>] = "dir"
                 /\ \A p \in Paths \ {<<>>} : t[p] # "none" => t[Parent(p)] = "dir"
                 /\ \A p \in Paths : Len(p) = Depth => t[p] # "dir"}
  /\ dentry = [p \in Paths |-> NoIno]
  /\ dirs = {Root}

------------------------------------------------------------------------------
(***************************************************************************)
(* What the kernel sends.  Its directory locks keep changes in a directory *)
(* apart, and a first lookup out of them.  It revalidates a dentry, and    *)
(* opens a directory, without a lock.                                      *)
(***************************************************************************)

Changing(i) ==
  {w \in Workers : i \in job[w].locks
                   /\ job[w].op \in {"make", "create", "remove", "rename"}}

LookingUp(i) == {w \in Workers : i \in job[w].locks /\ job[w].op = "lookup"}

\* Numbers that requests under way may still take.
Reserved == Cardinality({w \in Workers : at[w] # "idle"}) * Cardinality(Names)

Send(w, op) ==
  /\ Idle(w)
  /\ op \in {"remove", "rename"} \/ next_ino + Reserved + Cardinality(Names) <= MaxIno + 1

\* Each handler starts with get_path of the parent; without one it answers
\* ENOENT and is gone.
StartAt(w, i, n, s, j) ==
  /\ i \in dirs /\ KernelPlaces(i, n) # {}
  /\ ino_to_path[i] # NoPath /\ Len(ino_to_path[i]) < Depth
  /\ Keep(w, [j EXCEPT !.parent = i, !.name = n, !.path = Child(ino_to_path[i], n)])
  /\ Goto(w, s)
  /\ UNCHANGED <<maps, tree, kernel>>

Lookup(w, i, n) ==
  /\ Send(w, "lookup")
  /\ LET known == \E p \in KernelPlaces(i, n) : dentry[p] # NoIno IN
       /\ known \/ Changing(i) = {}
       /\ ~\E v \in LookingUp(i) : job[v].name = n
       /\ StartAt(w, i, n, "stat",
            [NoJob EXCEPT !.op = "lookup", !.locks = IF known THEN {} ELSE {i}])

\* opendir: get_path of the directory itself.
Opendir(w, i) ==
  /\ Send(w, "opendir")
  /\ i \in dirs /\ KernelPaths(i) # {}
  /\ ino_to_path[i] # NoPath /\ Len(ino_to_path[i]) < Depth
  /\ Keep(w, [NoJob EXCEPT !.op = "opendir", !.parent = i, !.path = ino_to_path[i]])
  /\ Goto(w, "list")
  /\ UNCHANGED <<maps, tree, kernel>>

Locked(i) == Changing(i) # {} \/ LookingUp(i) # {}

\* mkdir and mknod: the kernel has looked and found nothing there.
Make(w, i, n, k) ==
  /\ Send(w, "make") /\ ~Locked(i)
  /\ \A p \in KernelPlaces(i, n) : dentry[p] = NoIno /\ (k = "dir" => Len(p) < Depth)
  /\ StartAt(w, i, n, "make", [NoJob EXCEPT !.op = "make", !.locks = {i}, !.kind = k])

\* create assigns the number before it touches the device.
Create(w, i, n) ==
  /\ Send(w, "create") /\ ~Locked(i)
  /\ \A p \in KernelPlaces(i, n) : dentry[p] = NoIno
  /\ StartAt(w, i, n, "get", [NoJob EXCEPT !.op = "create", !.locks = {i}, !.kind = "file"])

\* unlink and rmdir.
Unlink(w, i, n) ==
  /\ Send(w, "remove") /\ ~Locked(i)
  /\ \A p \in KernelPlaces(i, n) : dentry[p] # NoIno
  /\ StartAt(w, i, n, "rm", [NoJob EXCEPT !.op = "remove", !.locks = {i}])

\* Bound: no directory is the target of a rename, and none moves to where its
\* children would be too deep.
Rename(w, i, n, j, m) ==
  /\ Send(w, "rename") /\ ~Locked(i) /\ ~Locked(j)
  /\ i # j => \A v \in Workers : Cardinality(job[v].locks) < 2
  /\ j \in dirs
  /\ \A p \in KernelPlaces(i, n), q \in KernelPlaces(j, m) :
       /\ dentry[p] # NoIno /\ dentry[q] # dentry[p]
       /\ ~Under(q, p) /\ ~Under(p, q)
       /\ dentry[q] # NoIno => dentry[p] \notin dirs /\ dentry[q] \notin dirs
       /\ dentry[q] = NoIno => tree[q] = "none"
       /\ dentry[p] \in dirs => Len(q) < Depth
  /\ KernelPlaces(j, m) # {}
  /\ StartAt(w, i, n, "target",
       [NoJob EXCEPT !.op = "rename", !.locks = {i, j}, !.destParent = j, !.destName = m])

------------------------------------------------------------------------------
(***************************************************************************)
(* What the kernel does with the answer.                                   *)
(***************************************************************************)

\* A dentry for inode i.  One that held another number goes, with all below it.
\* A directory has one dentry only, a file may have several.
Instantiate(w, i, isDir) ==
  LET new == KernelPlaces(job[w].parent, job[w].name)
      gone == {p \in Paths : \/ \E q \in new : Under(p, q) /\ dentry[q] # i
                             \/ isDir /\ \E q \in Paths \ new : dentry[q] = i /\ Under(p, q)}
  IN  /\ dentry' = IF new = {} THEN dentry
                   ELSE [p \in Paths |-> IF p \in new THEN i
                                         ELSE IF p \in gone THEN NoIno ELSE dentry[p]]
      /\ dirs' = IF isDir THEN dirs \cup {i} ELSE dirs \ {i}

\* The dentry at p and those below it, gone.
Dropped(d, ps) == [p \in Paths |-> IF \E q \in ps : Under(p, q) THEN NoIno ELSE d[p]]

\* A tree d with p, and all below it, moved to q.
Moved(d, p, q, none) ==
  [r \in Paths |->
     IF Under(r, q) THEN LET s == p \o SubSeq(r, Len(q) + 1, Len(r))
                         IN  IF s \in Paths THEN d[s] ELSE none
     ELSE IF Under(r, p) THEN none ELSE d[r]]

------------------------------------------------------------------------------
(***************************************************************************)
(* The device (adb shell): each command is one step.                       *)
(***************************************************************************)

\* lookup: get_metadata finds the file, or the reply is an error.
Stat(w) ==
  /\ at[w] = "stat"
  /\ IF tree[job[w].path] = "none"
       THEN /\ Done(w)
            /\ dentry' = Dropped(dentry, KernelPlaces(job[w].parent, job[w].name))
            /\ UNCHANGED dirs
       ELSE /\ Keep(w, [job[w] EXCEPT !.kind = tree[job[w].path]])
            /\ Goto(w, "get")
            /\ UNCHANGED kernel
  /\ UNCHANGED <<maps, tree>>

\* opendir: list_dir, then a number for every child.
List(w) ==
  /\ at[w] = "list"
  /\ LET d == job[w].path
         found == {Child(d, n) : n \in {m \in Names : tree[Child(d, m)] # "none"}}
     IN  IF tree[d] # "dir" \/ found = {}
           THEN Done(w)
           ELSE \E p \in found :
                  Keep(w, [job[w] EXCEPT !.path = p, !.todo = found \ {p}]) /\ Goto(w, "get")
  /\ UNCHANGED <<maps, tree, kernel>>

\* mkdir or push, and the get_metadata behind it.  Either may fail.
MakeOnDevice(w) ==
  /\ at[w] = "make"
  /\ LET p == job[w].path IN
       \/ /\ tree[p] = "none" /\ tree[Parent(p)] = "dir"
          /\ tree' = [tree EXCEPT ![p] = job[w].kind]
          /\ (Goto(w, "get") /\ UNCHANGED job) \/ Done(w)
       \/ Done(w) /\ UNCHANGED tree
  /\ UNCHANGED <<maps, kernel>>

\* create: the push of the empty file, get_metadata, and the reply.
PushOnDevice(w) ==
  /\ at[w] = "push"
  /\ LET p == job[w].path IN
       \/ /\ tree[p] # "dir" /\ tree[Parent(p)] = "dir"
          /\ tree' = [tree EXCEPT ![p] = "file"]
          /\ Instantiate(w, job[w].num, FALSE) \/ UNCHANGED kernel
       \/ UNCHANGED <<tree, kernel>>
  /\ Done(w)
  /\ UNCHANGED maps

\* rm or rmdir, and the reply.  The maps keep the path.  An error of the media
\* rescan is reported although the file is gone.
RemoveOnDevice(w) ==
  /\ at[w] = "rm"
  /\ LET p == job[w].path IN
       \/ /\ tree[p] # "none"
          /\ \A q \in Paths : q # p /\ Under(q, p) => tree[q] = "none"
          /\ tree' = [tree EXCEPT ![p] = "none"]
          /\ \/ dentry' = Dropped(dentry, KernelPlaces(job[w].parent, job[w].name))
             \/ UNCHANGED dentry
       \/ UNCHANGED <<tree, dentry>>
  /\ Done(w)
  /\ UNCHANGED <<maps, dirs>>

\* rename: get_path of the new parent ...
Target(w) ==
  /\ at[w] = "target"
  /\ LET d == ino_to_path[job[w].destParent] IN
       IF d = NoPath \/ (d # NoPath /\ Len(d) >= Depth)
         THEN Done(w)
         ELSE Keep(w, [job[w] EXCEPT !.dest = Child(d, job[w].destName)]) /\ Goto(w, "mv")
  /\ UNCHANGED <<maps, tree, kernel>>

\* ... and mv, which may fail, as may the media rescan after it.
MoveOnDevice(w) ==
  /\ at[w] = "mv"
  /\ LET p == job[w].path
         q == job[w].dest
     IN  \/ /\ tree[p] # "none" /\ tree[Parent(q)] = "dir"
            /\ ~Under(p, q) /\ ~Under(q, p)
            /\ tree[q] = "none" \/ (tree[p] = "file" /\ tree[q] = "file")
            /\ tree' = Moved(tree, p, q, "none")
            /\ (Goto(w, "collect") /\ UNCHANGED job) \/ Done(w)
         \/ Done(w) /\ UNCHANGED tree
  /\ UNCHANGED <<maps, kernel>>

------------------------------------------------------------------------------
(***************************************************************************)
(* get_or_assign_ino.                                                      *)
(***************************************************************************)

\* The handler has its number.  lookup, mkdir and mknod reply with it, create
\* goes on to push, opendir to its next child.
Numbered(w, i) ==
  CASE job[w].op = "create" ->
         Keep(w, [job[w] EXCEPT !.num = i]) /\ Goto(w, "push") /\ UNCHANGED kernel
    [] job[w].op = "opendir" /\ job[w].todo # {} ->
         /\ \E p \in job[w].todo : Keep(w, [job[w] EXCEPT !.path = p, !.todo = @ \ {p}])
         /\ Goto(w, "get")
         /\ UNCHANGED kernel
    [] job[w].op = "opendir" /\ job[w].todo = {} ->
         Done(w) /\ UNCHANGED kernel
    [] OTHER ->
         Instantiate(w, i, job[w].kind = "dir") /\ Done(w)

\* path_to_ino.get(path): found.
Found(w) ==
  /\ at[w] = "get"
  /\ path_to_ino[job[w].path] # NoIno
  /\ Numbered(w, path_to_ino[job[w].path])
  /\ UNCHANGED <<maps, tree>>

\* Bug: the counter is read, and not advanced.
TakeSame(w) ==
  /\ at[w] = "get"
  /\ path_to_ino[job[w].path] = NoIno
  /\ Keep(w, [job[w] EXCEPT !.num = next_ino])
  /\ Goto(w, "putPath")
  /\ UNCHANGED <<maps, tree, kernel>>

\* Not found: next_ino.fetch_add(1).
Take(w) ==
  /\ at[w] = "get"
  /\ path_to_ino[job[w].path] = NoIno
  /\ Keep(w, [job[w] EXCEPT !.num = next_ino])
  /\ next_ino' = next_ino + 1
  /\ Goto(w, "putPath")
  /\ UNCHANGED <<path_to_ino, ino_to_path, tree, kernel>>

\* path_to_ino.insert(path, ino).
PutPath(w) ==
  /\ at[w] = "putPath"
  /\ path_to_ino' = [path_to_ino EXCEPT ![job[w].path] = job[w].num]
  /\ Goto(w, "putIno")
  /\ UNCHANGED <<ino_to_path, next_ino, job, tree, kernel>>

\* ino_to_path.insert(ino, path).
PutIno(w) ==
  /\ at[w] = "putIno"
  /\ ino_to_path' = [ino_to_path EXCEPT ![job[w].num] = job[w].path]
  /\ Numbered(w, job[w].num)
  /\ UNCHANGED <<path_to_ino, next_ino, tree>>

------------------------------------------------------------------------------
(***************************************************************************)
(* rekey_paths.                                                            *)
(***************************************************************************)

\* Where an entry below `from` goes.
NewPath(w, old) == job[w].dest \o SubSeq(old, Len(job[w].path) + 1, Len(old))

\* Bug: the entry of the path itself moves, those below it stay.
AffectedAlone(w) == {p \in Paths : path_to_ino[p] # NoIno /\ p = job[w].path}

\* The iteration over path_to_ino: `from` and all below it.  Bound: but for
\* leftovers of removed files that would get too long for the model.
Affected(w) ==
  {p \in Paths : /\ path_to_ino[p] # NoIno /\ Under(p, job[w].path)
                 /\ NewPath(w, p) \in Paths}

Collect(w) ==
  /\ at[w] = "collect"
  /\ Keep(w, [job[w] EXCEPT !.todo = {<<p, path_to_ino[p]>> : p \in Affected(w)}])
  /\ Goto(w, "next")
  /\ UNCHANGED <<maps, tree, kernel>>

\* The next entry: path_to_ino.remove(old).
RemoveOld(w) ==
  /\ at[w] = "next"
  /\ \E m \in job[w].todo :
       /\ path_to_ino' = [path_to_ino EXCEPT ![m[1]] = NoIno]
       /\ Keep(w, [job[w] EXCEPT !.num = m[2], !.entry = NewPath(w, m[1]), !.todo = @ \ {m}])
  /\ Goto(w, "replace")
  /\ UNCHANGED <<ino_to_path, next_ino, tree, kernel>>

\* Bug: the replaced file keeps its number.
ReplacedKept(w) ==
  /\ at[w] = "replace"
  /\ Goto(w, "rekeyPath")
  /\ UNCHANGED <<maps, job, tree, kernel>>

\* path_to_ino.remove(new): the file the rename replaces loses its number ...
RemoveReplaced(w) ==
  /\ at[w] = "replace"
  /\ path_to_ino' = [path_to_ino EXCEPT ![job[w].entry] = NoIno]
  /\ IF path_to_ino[job[w].entry] = NoIno
       THEN Goto(w, "rekeyPath") /\ UNCHANGED job
       ELSE Keep(w, [job[w] EXCEPT !.lost = path_to_ino[job[w].entry]]) /\ Goto(w, "forget")
  /\ UNCHANGED <<ino_to_path, next_ino, tree, kernel>>

\* ... and ino_to_path.remove(replaced) its path.
ForgetReplaced(w) ==
  /\ at[w] = "forget"
  /\ ino_to_path' = [ino_to_path EXCEPT ![job[w].lost] = NoPath]
  /\ Goto(w, "rekeyPath")
  /\ UNCHANGED <<path_to_ino, next_ino, job, tree, kernel>>

\* path_to_ino.insert(new, ino).
RekeyPath(w) ==
  /\ at[w] = "rekeyPath"
  /\ path_to_ino' = [path_to_ino EXCEPT ![job[w].entry] = job[w].num]
  /\ Goto(w, "rekeyIno")
  /\ UNCHANGED <<ino_to_path, next_ino, job, tree, kernel>>

\* ino_to_path.insert(ino, new).
RekeyIno(w) ==
  /\ at[w] = "rekeyIno"
  /\ ino_to_path' = [ino_to_path EXCEPT ![job[w].num] = job[w].entry]
  /\ Goto(w, "next")
  /\ UNCHANGED <<path_to_ino, next_ino, job, tree, kernel>>

\* No entry left: the reply, and the kernel moves its dentries.
Renamed(w) ==
  /\ at[w] = "next" /\ job[w].todo = {}
  /\ dentry' = LET ps == KernelPlaces(job[w].parent, job[w].name)
                   qs == KernelPlaces(job[w].destParent, job[w].destName)
               IN  IF ps = {} \/ qs = {} THEN Dropped(dentry, ps \cup qs)
                   ELSE Moved(dentry, CHOOSE p \in ps : TRUE, CHOOSE q \in qs : TRUE, NoIno)
  /\ Done(w)
  /\ UNCHANGED <<maps, tree, dirs>>

------------------------------------------------------------------------------
Request(w) ==
  \/ \E i \in Inos, n \in Names :
       \/ Lookup(w, i, n) \/ Create(w, i, n) \/ Unlink(w, i, n)
       \/ \E k \in {"file", "dir"} : Make(w, i, n, k)
       \/ \E j \in Inos, m \in Names : Rename(w, i, n, j, m)
  \/ \E i \in Inos : Opendir(w, i)

Step(w) ==
  \/ Stat(w) \/ List(w) \/ MakeOnDevice(w) \/ PushOnDevice(w) \/ RemoveOnDevice(w)
  \/ Target(w) \/ MoveOnDevice(w)
  \/ Found(w) \/ Take(w) \/ PutPath(w) \/ PutIno(w)
  \/ Collect(w) \/ RemoveOld(w) \/ RemoveReplaced(w) \/ ForgetReplaced(w)
  \/ RekeyPath(w) \/ RekeyIno(w) \/ Renamed(w)

Next == \E w \in Workers : Request(w) \/ Step(w)

Spec == Init /\ [][Next]_vars

------------------------------------------------------------------------------
(***************************************************************************)
(* Properties.                                                             *)
(***************************************************************************)

\* Every variable keeps its type.
TypeOK ==
  /\ path_to_ino \in [Paths -> Inos \cup {NoIno}]
  /\ ino_to_path \in [Inos -> Paths \cup {NoPath}]
  /\ next_ino \in 2..(MaxIno + 1)
  /\ at \in [Workers -> Stages] /\ job \in [Workers -> Jobs]
  /\ tree \in [Paths -> {"none", "file", "dir"}]
  /\ dentry \in [Paths -> Inos \cup {NoIno}]
  /\ dirs \subseteq Inos

Quiet == \A w \in Workers : Idle(w)

\* "The inode it holds has to resolve to the new path or every later call on
\* the renamed file fails" (fs.rs:145-146): with no request under way, every
\* inode number the kernel has a dentry for leads to that dentry's path.
DentriesResolve ==
  Quiet => \A p \in Paths : dentry[p] # NoIno => ino_to_path[dentry[p]] = p

\* One file, one number, whichever way a request gets at it: the two maps are
\* inverse to each other when no request is under way.  Local copies are
\* shared by inode, so two numbers for a path are two copies of a file.
OneNumberPerPath ==
  Quiet => \A p \in Paths, i \in Inos : path_to_ino[p] = i <=> ino_to_path[i] = p

\* The kernel never gets a number that two files have.
NumbersAreDistinct ==
  \A p, q \in Paths : dentry[p] # NoIno /\ dentry[p] = dentry[q] => p = q

\* The numbers that the maps have, and those the kernel and a handler hold.
Entered == {path_to_ino[p] : p \in Paths} \cup {i \in Inos : ino_to_path[i] # NoPath}

InUse == Entered \cup {dentry[p] : p \in Paths}

Rekeying == {"next", "replace", "forget", "rekeyPath", "rekeyIno"}

HeldIn(s, j) == {j.num, j.lost} \cup {m[2] : m \in IF s \in Rekeying THEN j.todo ELSE {}}

Held(w) == HeldIn(at[w], job[w])

\* get_or_assign_ino takes its numbers from a counter that nothing locks: a number
\* about to be entered for a path is no other path's, and no other handler has it.
NumbersAreNew ==
  \A w \in Workers :
    at[w] = "putPath" => /\ job[w].num \notin InUse
                         /\ \A v \in Workers \ {w} : job[w].num \notin Held(v)
=============================================================================
