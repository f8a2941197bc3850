---------------------------- MODULE FileDataProofs ----------------------------
(***************************************************************************)
(* Proofs about the file handlers.  They use the table of local copies as  *)
(* CopyTable says, and in no other way: FileHandles implements CopyTable,  *)
(* so what is proved of the table holds of the handlers.  And of what they *)
(* do with the data: no acknowledged write is forgotten by push_if_dirty,  *)
(* or lost with the local file unless somebody was told, whatever the      *)
(* threads do in between.                                                  *)
(***************************************************************************)
EXTENDS FileHandles, CopyTableProofs

(***************************************************************************)
(* The handlers and the table.                                             *)
(***************************************************************************)

\* A request that takes or gives back a reference is one of the table's.
LEMMA RequestRefines ==
  ASSUME NEW w \in Workers, KernelRequest(w)
  PROVE  Request(w) \/ UNCHANGED copyVars
<1>1. ASSUME NEW i \in Inodes, Open(w, i) \/ Create(w, i)  PROVE Request(w)
  BY <1>1 DEF Open, Create, Request, Inits
<1>2. ASSUME NEW i \in Inodes, NEW n \in Sizes, Truncate(w, i, n)
      PROVE  Request(w)
  BY <1>2 DEF Truncate, Request, Inits
<1>3. ASSUME NEW h \in Handles, Release(w, h)  PROVE Request(w)
  BY <1>3 DEF Release, Request
<1>4. ASSUME NEW h \in Handles, Flush(w, h) \/ \E x \in Writes : WriteLocal(w, h, x)
      PROVE  UNCHANGED copyVars
  BY <1>4 DEF Flush, WriteLocal
<1>5. ASSUME NEW p \in Paths, NEW q \in Paths, Move(w, p, q) \/ MoveAstray(w, p, q)
      PROVE  UNCHANGED copyVars
  BY <1>5 DEF Move, MoveAstray
<1> QED  BY <1>1, <1>2, <1>3, <1>4, <1>5 DEF KernelRequest, FileRequest

\* A handler's own step is a step of acquire_copy or release_copy, hands the
\* reference over, or leaves the table alone.
LEMMA StepRefines ==
  ASSUME NEW w \in Workers, HandlerStep(w)
  PROVE  Step(w) \/ UNCHANGED copyVars
<1>1. ASSUME NEW c \in Copies, NewCopy(w, c)  PROVE Step(w)
  BY <1>1 DEF NewCopy, Step
<1>2. ASSUME NEW h \in Handles, InstallHandle(w, h)  PROVE Step(w)
  BY <1>2 DEF InstallHandle, Step
<1>3. ASSUME \/ WaitForCopy(w) \/ CreateLocal(w) \/ Pull(w) \/ TakeAsIs(w)
             \/ PopulateError(w) \/ Acquired(w)
      PROVE  Step(w)
  BY <1>3 DEF WaitForCopy, CreateLocal, Pull, TakeAsIs, PopulateError, Acquired, Step
<1>4. ASSUME LocalFail(w) \/ DropReference(w) \/ LastRelease(w) \/ ReleaseDone(w)
      PROVE  Step(w)
  BY <1>4 DEF LocalFail, DropReference, LastRelease, ReleaseDone, Step
<1>5. ASSUME \/ LocalOpen(w) \/ Shrink(w) \/ Mark(w) \/ Swap(w) \/ NoPath(w)
             \/ Capture(w) \/ Land(w) \/ PushFail(w) \/ Sync(w) \/ SyncFail(w) \/ Restore(w)
             \/ FlushReply(w) \/ CreateStat(w) \/ Rekey(w)
      PROVE  UNCHANGED copyVars
  BY <1>5 DEF LocalOpen, Shrink, Mark, Swap, NoPath, Capture, Land, PushFail, Sync, SyncFail,
              Restore, FlushReply, CreateStat, Rekey
<1> QED  BY <1>1, <1>2, <1>3, <1>4, <1>5 DEF HandlerStep, FileStep

\* open, create, setattr, write, flush and release implement the table.
THEOREM HandlersUseTheTable == Spec => CopySpec
<1>1. Init => CopyInitState
  BY DEF Init
<1>2. [Next]_vars => [CopyNext]_copyVars
  <2>1. ASSUME NEW w \in Workers, KernelRequest(w) \/ HandlerStep(w)
        PROVE  CopyNext \/ UNCHANGED copyVars
    BY <2>1, RequestRefines, StepRefines DEF CopyNext
  <2>2. UNCHANGED vars => UNCHANGED copyVars
    BY DEF vars
  <2> QED  BY <2>1, <2>2 DEF Next
<1> QED  BY <1>1, <1>2, PTL DEF Spec, CopySpec

------------------------------------------------------------------------------
(***************************************************************************)
(* A handler that is past acquire_copy, or serves a handle, has an open    *)
(* handle or a reference of its own.  With NoClobber this keeps a pull and *)
(* a push of one file apart, though push_if_dirty takes no lock.           *)
(***************************************************************************)
HandlerTypeOK ==
  /\ op \in [Workers -> Ops]
  /\ stage \in [Workers -> Stages]
  /\ fh \in [Workers -> Handles \cup {NoFh}]

Serving ==
  \A w \in Workers :
    /\ fh[w] # NoFh => fh[w] \in Opened /\ pc[w] = "idle"
    /\ stage[w] # "none" /\ fh[w] = NoFh => pc[w] = "using"
    /\ op[w] \in {"write", "flush"} => fh[w] # NoFh
    /\ op[w] = "rename" => stage[w] = "none" /\ fh[w] = NoFh /\ pc[w] = "idle"
    /\ op[w] = "none" => /\ stage[w] = "none" /\ fh[w] = NoFh
                         /\ pc[w] \in {"idle", "release", "remove", "unmap", "unlock"}

HInv == HandlerTypeOK /\ Serving

\* A new request finds the worker free, and RELEASE finds the handle unused.
LEMMA RequestServing ==
  ASSUME IInv, HInv, NEW w \in Workers, KernelRequest(w)
  PROVE  HInv'
<1>1. ASSUME NEW i \in Inodes, Open(w, i) \/ Create(w, i)  PROVE HInv'
  BY <1>1
  DEF HInv, HandlerTypeOK, Serving, Open, Create, Begin, Free, Acquire, Ops, Opened,
      IInv, CopyTypeOK
<1>2. ASSUME NEW i \in Inodes, NEW n \in Sizes, Truncate(w, i, n)
      PROVE  HInv'
  BY <1>2
  DEF HInv, HandlerTypeOK, Serving, Truncate, Begin, Free, Acquire, Ops, Opened,
      IInv, CopyTypeOK
<1>3. ASSUME NEW h \in Handles, NEW x \in Writes, WriteLocal(w, h, x)  PROVE HInv'
  BY <1>3, NoFhIsNoHandle
  DEF HInv, HandlerTypeOK, Serving, WriteLocal, Free, Goto, Ops, Stages, Opened, copyVars
<1>4. ASSUME NEW h \in Handles, Flush(w, h)  PROVE HInv'
  BY <1>4, NoFhIsNoHandle
  DEF HInv, HandlerTypeOK, Serving, Flush, Free, Goto, Ops, Stages, Opened, copyVars
<1>5. ASSUME NEW h \in Handles, Release(w, h)  PROVE HInv'
  BY <1>5
  DEF HInv, HandlerTypeOK, Serving, Release, ReleaseHandle, Free, Opened, fileVars,
      IInv, CopyTypeOK
<1>6. ASSUME NEW p \in Paths, NEW q \in Paths, Move(w, p, q) \/ MoveAstray(w, p, q)
      PROVE  HInv'
  BY <1>6
  DEF HInv, HandlerTypeOK, Serving, Move, MoveAstray, CanMove, Free, Ops, Opened, copyVars
<1> QED  BY <1>1, <1>2, <1>3, <1>4, <1>5, <1>6 DEF KernelRequest, FileRequest

\* A handler keeps the handle or the reference it has until its last step.
LEMMA StepServing ==
  ASSUME IInv, HInv, NEW w \in Workers, HandlerStep(w)
  PROVE  HInv'
<1> USE DEF HInv, HandlerTypeOK, Serving, Opened
<1>1. ASSUME NEW c \in Copies, NewCopy(w, c)  PROVE HInv'
  BY <1>1 DEF NewCopy, LookupNew, IInv, CopyTypeOK
<1>2. ASSUME NEW h \in Handles, InstallHandle(w, h)  PROVE HInv'
  BY <1>2 DEF InstallHandle, Install, Reply, Ops, Stages, IInv, CopyTypeOK
<1>3. ASSUME WaitForCopy(w)  PROVE HInv'
  BY <1>3 DEF WaitForCopy, LookupMapped, Lock, Retry, fileVars, IInv, CopyTypeOK
<1>4. ASSUME CreateLocal(w) \/ Pull(w) \/ TakeAsIs(w)  PROVE HInv'
  BY <1>4 DEF CreateLocal, Pull, TakeAsIs, Populate, fileVars, IInv, CopyTypeOK
<1>5. ASSUME PopulateError(w)  PROVE HInv'
  BY <1>5 DEF PopulateError, PopulateFail, IInv, CopyTypeOK
<1>6. ASSUME Acquired(w)  PROVE HInv'
  BY <1>6 DEF Acquired, Count, Goto, Stages, IInv, CopyTypeOK
<1>7. ASSUME LocalFail(w) \/ DropReference(w)  PROVE HInv'
  BY <1>7 DEF LocalFail, DropReference, Drop, Goto, Stages, IInv, CopyTypeOK
<1>8. ASSUME \/ LocalOpen(w) \/ Shrink(w) \/ Swap(w) \/ NoPath(w) \/ Capture(w)
             \/ Land(w) \/ PushFail(w)
      PROVE  HInv'
  BY <1>8 DEF LocalOpen, Shrink, Swap, NoPath, Capture, Land, PushFail, Goto, Stages,
              copyVars
<1>9. ASSUME Sync(w) \/ SyncFail(w) \/ Restore(w) \/ CreateStat(w)  PROVE HInv'
  BY <1>9 DEF Sync, SyncFail, Restore, CreateStat, Goto, Stages, copyVars
<1>10. ASSUME Mark(w) \/ FlushReply(w)  PROVE HInv'
  BY <1>10 DEF Mark, FlushReply, Reply, Goto, Ops, Stages, copyVars
<1>11. ASSUME LastRelease(w)  PROVE HInv'
  BY <1>11
  DEF LastRelease, ReleaseLast, RemoveFile, Unmap, fileVars, IInv, CopyTypeOK
<1>12. ASSUME ReleaseDone(w)  PROVE HInv'
  BY <1>12 DEF ReleaseDone, ReleaseShared, Unlock, Reply, Ops, Stages, IInv, CopyTypeOK
<1>13. ASSUME Rekey(w)  PROVE HInv'
  BY <1>13 DEF Rekey, Reply, Ops, Stages, copyVars
<1> QED  BY <1>1, <1>2, <1>3, <1>4, <1>5, <1>6, <1>7, <1>8, <1>9, <1>10, <1>11, <1>12, <1>13
         DEF HandlerStep, FileStep

\* Every handler that works on a copy holds on to it.
LEMMA HandlersHold == Spec => [](IInv /\ HInv)
<1>1. Spec => []IInv
  BY HandlersUseTheTable, Inductive, PTL
<1>2. Init => HInv
  BY DEF Init, CopyInitState, HInv, HandlerTypeOK, Serving, Ops, Stages
<1>3. IInv /\ HInv /\ [Next]_vars => HInv'
  <2>1. ASSUME IInv, HInv, UNCHANGED vars  PROVE HInv'
    BY <2>1 DEF HInv, HandlerTypeOK, Serving, Opened, vars, fileVars, copyVars
  <2> QED  BY <2>1, RequestServing, StepServing DEF Next
<1> QED  BY <1>1, <1>2, <1>3, PTL DEF Spec

\* A pull never reads a file on the device that a push is replacing: the copy it
\* fills has no user, and a push belongs to a user.
THEOREM PullsReadWholeFiles == Spec => []NoPullDuringPush
<1>1. Spec => []NoClobber
  BY HandlersUseTheTable, LocalFileIsSafe, PTL
<1>2. IInv /\ HInv /\ NoClobber => NoPullDuringPush
  <2> SUFFICES ASSUME IInv, HInv, NoClobber,
                      NEW w \in Workers, pc[w] = "populate", init[w] = "Pull",
                      ~pulled[held[w]],
                      NEW v \in Workers, stage[v] \in {"swap", "mark"} \cup Pushing
               PROVE  InodeOf(v) # ino[w]
    BY DEF NoPullDuringPush, WorkingOn
  <2>1. /\ \A h \in Opened : open_files[h].ino # ino[w]
        /\ \A u \in Workers \ {w} : pc[u] = "using" => ino[u] # ino[w]
    BY DEF NoClobber, MustPopulate
  <2>2. CASE fh[v] # NoFh
    BY <2>1, <2>2 DEF HInv, Serving, InodeOf
  <2>3. CASE fh[v] = NoFh
    BY <2>1, <2>3 DEF HInv, Serving, InodeOf, Pushing
  <2> QED  BY <2>2, <2>3
<1> QED  BY <1>1, <1>2, HandlersHold, PTL

------------------------------------------------------------------------------
(***************************************************************************)
(* Types.                                                                  *)
(***************************************************************************)

\* The path a handler has looked up, and the two of a rename.
RemoteOK ==
  \A w \in Workers :
    /\ op[w] \in {"open", "create", "truncate"} => \E p \in Paths : remote[w] = <<p>>
    /\ op[w] = "rename" => \E p, q \in Paths : remote[w] = <<p, q>>

TInv == TypeOK /\ RemoteOK

\* A handler that is past acquire_copy works on an inode and its live copy, which
\* the map shows and which was populated.
LEMMA Where ==
  ASSUME IInv, HInv, NEW w \in Workers, stage[w] # "none" \/ fh[w] # NoFh
  PROVE  /\ InodeOf(w) \in Inodes /\ CopyOf(w) \in Copies
         /\ open_copies[InodeOf(w)] = CopyOf(w)
         /\ ~evicted[CopyOf(w)] /\ pulled[CopyOf(w)]
<1>1. CASE fh[w] # NoFh
  BY <1>1 DEF HInv, Serving, HandlerTypeOK, InodeOf, CopyOf, IInv, CopyTypeOK,
              OneCopyPerInode, FilesOK, Opened, Entry
<1>2. CASE fh[w] = NoFh
  BY <1>2 DEF HInv, Serving, InodeOf, CopyOf, IInv, HeldOK, OneCopyPerInode, FilesOK
<1> QED  BY <1>1, <1>2

\* A worker in acquire_copy runs open, create or setattr.
LEMMA Acquiring ==
  ASSUME HInv, NEW w \in Workers, pc[w] \in {"lookup", "lock", "populate", "count", "using"}
  PROVE  /\ op[w] \in {"open", "create", "truncate"}
         /\ fh[w] = NoFh
         /\ pc[w] # "using" => stage[w] = "none"
BY DEF HInv, HandlerTypeOK, Serving, Ops

\* A request is well typed.
LEMMA RequestTypes ==
  ASSUME IInv, IInv', HInv, HInv', TInv, NEW w \in Workers, KernelRequest(w)
  PROVE  TInv'
<1>0. CopyTypeOK' /\ HandlerTypeOK'
  BY DEF IInv, HInv
<1>1. ASSUME NEW i \in Inodes, NEW n \in Sizes \cup {0}, NEW o \in {"open", "create", "truncate"},
             Begin(w, i, o, n), UNCHANGED pathVars
      PROVE  TInv'
  BY <1>0, <1>1 DEF TInv, TypeOK, HandlerTypeOK, RemoteOK, Begin, pathVars
<1>2. ASSUME NEW i \in Inodes, Open(w, i) \/ Create(w, i), UNCHANGED pathVars
      PROVE  TInv'
  BY <1>1, <1>2 DEF Open, Create
<1>3. ASSUME NEW i \in Inodes, NEW n \in Sizes, Truncate(w, i, n), UNCHANGED pathVars
      PROVE  TInv'
  BY <1>1, <1>3 DEF Truncate
<1>4. ASSUME NEW h \in Handles, NEW x \in Writes, WriteLocal(w, h, x), UNCHANGED pathVars
      PROVE  TInv'
  <2>1. RemoteOK'
    BY <1>4 DEF HInv, HandlerTypeOK, TInv, RemoteOK, WriteLocal
  <2>2. local' \in [Inodes -> Contents] /\ written' \in [Inodes -> SUBSET Writes]
    <3>1. \A j \in Inodes : local[j] \cup {x} \in Contents /\ written[j] \cup {x} \in SUBSET Writes
      BY DEF TInv, TypeOK, Contents
    <3> QED  BY <1>4, <3>1 DEF TInv, TypeOK, WriteLocal
  <2>3. arg' \in [Workers -> Writes \cup Sizes \cup {0}] /\ unflushed' \subseteq Handles
    BY <1>4 DEF TInv, TypeOK, WriteLocal
  <2> QED
    BY <1>0, <1>4, <2>1, <2>2, <2>3 DEF TInv, TypeOK, HandlerTypeOK, WriteLocal, pathVars
<1>5. ASSUME NEW h \in Handles, Flush(w, h), UNCHANGED pathVars
      PROVE  TInv'
  <2>1. open_files[h].ino \in Inodes
    BY <1>5 DEF Flush, Opened, IInv, CopyTypeOK, Entry
  <2>2. Acked(open_files[h].ino) \in SUBSET Writes
    BY <2>1 DEF TInv, TypeOK, Acked
  <2> QED
    BY <1>0, <1>5, <2>2 DEF TInv, TypeOK, HandlerTypeOK, RemoteOK, Flush, pathVars
<1>6. ASSUME NEW h \in Handles, Release(w, h), UNCHANGED pathVars
      PROVE  TInv'
  BY <1>0, <1>6 DEF TInv, TypeOK, HandlerTypeOK, RemoteOK, Release, fileVars, pathVars
<1>7. ASSUME NEW p \in Paths, NEW q \in Paths, Move(w, p, q) \/ MoveAstray(w, p, q)
      PROVE  TInv'
  <2>1. /\ device' \in [Paths -> {Absent} \cup Contents]
        /\ home' \in [Inodes -> Paths \cup {Nowhere}]
    BY <1>7 DEF TInv, TypeOK, Move, MoveAstray, Moved, Renamed
  <2>2. astray' \subseteq Paths
    BY <1>7 DEF TInv, TypeOK, Move, MoveAstray
  <2>3. remote' \in [Workers -> {<<>>} \cup {<<r>> : r \in Paths} \cup (Paths \X Paths)]
    BY <1>7 DEF TInv, TypeOK, Move, MoveAstray
  <2>4. RemoteOK'
    BY <1>7 DEF TInv, TypeOK, RemoteOK, Move, MoveAstray, CanMove, Free
  <2> QED
    BY <1>0, <1>7, <2>1, <2>2, <2>3, <2>4 DEF TInv, TypeOK, HandlerTypeOK, Move, MoveAstray
<1> QED  BY <1>2, <1>3, <1>4, <1>5, <1>6, <1>7 DEF KernelRequest, FileRequest

\* So is what a handler does.
LEMMA StepTypes ==
  ASSUME IInv, IInv', HInv, HInv', TInv, NEW w \in Workers, HandlerStep(w)
  PROVE  TInv'
<1> USE DEF TInv, TypeOK, HandlerTypeOK, RemoteOK
<1>0. CopyTypeOK' /\ HandlerTypeOK'
  BY DEF IInv, HInv
<1>1. ASSUME NEW c \in Copies, NewCopy(w, c), UNCHANGED pathVars  PROVE TInv'
  BY <1>0, <1>1 DEF NewCopy, pathVars
<1>2. ASSUME NEW h \in Handles, InstallHandle(w, h), UNCHANGED pathVars  PROVE TInv'
  BY <1>0, <1>2 DEF InstallHandle, Reply, pathVars, Contents
<1>3. ASSUME WaitForCopy(w) \/ TakeAsIs(w) \/ LastRelease(w), UNCHANGED pathVars  PROVE TInv'
  BY <1>0, <1>3 DEF WaitForCopy, TakeAsIs, LastRelease, fileVars, pathVars
<1>4. ASSUME CreateLocal(w) \/ PopulateError(w), UNCHANGED pathVars  PROVE TInv'
  BY <1>0, <1>4 DEF CreateLocal, PopulateError, pathVars, Contents
<1>5. ASSUME Pull(w), UNCHANGED pathVars  PROVE TInv'
  <2>1. PICK p \in Paths : remote[w] = <<p>>
    BY <1>5, Acquiring DEF Pull, Populate
  <2>2. device[remote[w][1]] \in Contents
    BY <1>5, <2>1 DEF Pull
  <2> QED  BY <1>0, <1>5, <2>2 DEF Pull, pathVars
<1>6. ASSUME Acquired(w) \/ LocalOpen(w) \/ LocalFail(w), UNCHANGED pathVars  PROVE TInv'
  BY <1>0, <1>6 DEF Acquired, LocalOpen, LocalFail, pathVars
<1>7. ASSUME Shrink(w), UNCHANGED pathVars  PROVE TInv'
  BY <1>0, <1>7 DEF Shrink, pathVars, Contents
<1>8. ASSUME Mark(w) \/ FlushReply(w) \/ ReleaseDone(w), UNCHANGED pathVars  PROVE TInv'
  <2>1. CASE Reply(w) /\ UNCHANGED <<local, device, written, unflushed, delivered, failed>>
    <3>1. RemoteOK'
      BY <2>1 DEF Reply
    <3>2. arg' \in [Workers -> Writes \cup Sizes \cup {0}] /\ snap' \in [Workers -> Contents]
      BY <2>1 DEF Reply, Contents
    <3>3. remote' \in [Workers -> {<<>>} \cup {<<p>> : p \in Paths} \cup (Paths \X Paths)]
      BY <2>1 DEF Reply
    <3>4. due' \in [Workers -> SUBSET Writes]
      BY <2>1 DEF Reply
    <3>5. dirty' \in [Copies -> BOOLEAN]
      BY <1>8 DEF Mark, FlushReply, ReleaseDone
    <3> QED  BY <1>0, <1>8, <2>1, <3>1, <3>2, <3>3, <3>4, <3>5 DEF pathVars
  <2>2. CASE /\ Goto(w, "swap")
             /\ UNCHANGED <<local, device, op, fh, arg, snap, remote, due, written,
                            unflushed, delivered, failed>>
    BY <1>0, <1>8, <2>2 DEF Mark, FlushReply, ReleaseDone, pathVars
  <2> QED  BY <1>8, <2>1, <2>2 DEF Mark, FlushReply, ReleaseDone
<1>9. ASSUME Swap(w) \/ SyncFail(w) \/ CreateStat(w) \/ DropReference(w), UNCHANGED pathVars
      PROVE  TInv'
  BY <1>0, <1>9 DEF Swap, SyncFail, CreateStat, DropReference, pathVars
<1>10. ASSUME NoPath(w) \/ Capture(w), UNCHANGED pathVars  PROVE TInv'
  <2>1. InodeOf(w) \in Inodes
    BY <1>10, Where DEF NoPath, Capture
  <2>2. local[InodeOf(w)] \in Contents
    BY <2>1
  <2>3. snap' \in [Workers -> Contents]
    BY <1>10, <2>2 DEF NoPath, Capture
  <2>4. op[w] # "rename"
    BY <1>10 DEF HInv, Serving, NoPath, Capture
  <2>5. CASE NoPath(w)
    BY <1>0, <1>10, <2>3, <2>5 DEF NoPath, pathVars
  <2>6. CASE Capture(w)
    <3>1. path[InodeOf(w)] \in Paths
      BY <2>1, <2>6 DEF Capture
    <3>2. remote' = [remote EXCEPT ![w] = <<path[InodeOf(w)]>>]
      BY <2>6 DEF Capture
    <3>3. remote' \in [Workers -> {<<>>} \cup {<<p>> : p \in Paths} \cup (Paths \X Paths)]
      BY <3>1, <3>2
    <3>4. RemoteOK'
      BY <2>4, <2>6, <3>1, <3>2 DEF Capture
    <3> QED  BY <1>0, <1>10, <2>3, <2>6, <3>3, <3>4 DEF Capture, pathVars
  <2> QED  BY <1>10, <2>5, <2>6
<1>11. ASSUME Land(w) \/ PushFail(w), UNCHANGED pathVars  PROVE TInv'
  BY <1>0, <1>11 DEF Land, PushFail, pathVars, Contents
<1>12. ASSUME Sync(w) \/ Restore(w), UNCHANGED pathVars  PROVE TInv'
  <2>1. delivered' \in [Inodes -> SUBSET Writes] /\ failed' \in [Inodes -> SUBSET Writes]
    BY <1>12 DEF Sync, Restore
  <2>2. dirty' \in [Copies -> BOOLEAN]
    BY <1>12 DEF Sync, Restore
  <2>3. /\ UNCHANGED <<local, device, path, home, astray, arg, snap, remote, written>>
        /\ UNCHANGED <<unflushed, due, op>>
    BY <1>12 DEF Sync, Restore, pathVars
  <2> QED  BY <1>0, <2>1, <2>2, <2>3
<1>13. ASSUME Rekey(w)  PROVE TInv'
  <2>1. PICK p, q \in Paths : remote[w] = <<p, q>>
    BY <1>13 DEF Rekey
  <2>2. path' \in [Inodes -> Paths \cup {Nowhere}]
    BY <1>13, <2>1 DEF Rekey, Renamed
  <2> QED  BY <1>0, <1>13, <2>2 DEF Rekey, Reply, Contents
<1> QED  BY <1>1, <1>2, <1>3, <1>4, <1>5, <1>6, <1>7, <1>8, <1>9, <1>10, <1>11, <1>12, <1>13
         DEF HandlerStep, FileStep

\* The types, together with what they rest on.
LEMMA HandlersTyped == Spec => [](IInv /\ HInv /\ TInv)
<1>1. Init => TInv
  BY InitIInv DEF Init, TInv, TypeOK, RemoteOK, IInv, Contents, Ops, Stages
<1>2. IInv /\ HInv /\ TInv /\ [Next]_vars /\ IInv' /\ HInv' => TInv'
  <2>1. ASSUME TInv, UNCHANGED vars  PROVE TInv'
    BY <2>1 DEF TInv, TypeOK, CopyTypeOK, RemoteOK, vars, copyVars, fileVars, pathVars
  <2> QED  BY <2>1, RequestTypes, StepTypes DEF Next
<1> QED  BY <1>1, <1>2, HandlersHold, PTL DEF Spec

\* Every variable of the handlers keeps its type: a pull finds a path and a file
\* there, a rename two paths, and every push has contents to write.
THEOREM HandlersTypeCorrect == Spec => []TypeOK
<1>1. TInv => TypeOK
  BY DEF TInv
<1> QED  BY <1>1, HandlersTyped, PTL

------------------------------------------------------------------------------
(***************************************************************************)
(* Where a write is.  It is being marked from the moment it is in the      *)
(* local file until the flag is up; it is under way while a push has it,   *)
(* or is about to read the file.                                           *)
(***************************************************************************)
Marking(i, x) ==
  \E w \in Workers : stage[w] = "mark" /\ op[w] = "write" /\ arg[w] = x /\ InodeOf(w) = i

UnderWay(i, x) ==
  \E w \in Workers : /\ stage[w] \in Pushing /\ InodeOf(w) = i
                     /\ stage[w] = "capture" \/ x \in snap[w]

\* A push of the inode's file is about to look at the flag.
Asking(i) == \E w \in Workers : stage[w] = "swap" /\ InodeOf(w) = i

\* A handle of the inode has been written to since its last flush.
Unflushed(i) == \E h \in unflushed \cap Opened : open_files[h].ino = i

\* An acknowledged write in a local file that has been populated.
Held(i, x) ==
  /\ open_copies[i] # NoCopy /\ pulled[open_copies[i]]
  /\ x \in local[i] \cap written[i] /\ ~Marking(i, x)

(***************************************************************************)
(* The invariant.  A write that is held is on the device, under way, or    *)
(* marked by the flag; it is on the device, its loss was reported, or some *)
(* flush is still to come.  What acquire_copy put into a copy that nobody  *)
(* had holds no other writes, and only a populated copy is ever removed.   *)
(***************************************************************************)
Remembered(i, x) ==
  Held(i, x) /\ ~dirty[open_copies[i]] => x \in delivered[i] \/ UnderWay(i, x)

Accounted(i, x) ==
  Held(i, x) => \/ x \in delivered[i] \cup failed[i]
                \/ UnderWay(i, x) \/ Asking(i) \/ Unflushed(i)

WritersUnflushed == \A w \in Workers : op[w] = "write" => fh[w] \in unflushed

FilledFromDevice ==
  \A w \in Workers, x \in Writes :
    pc[w] = "count" /\ ~pulled[held[w]] /\ x \in local[ino[w]] \cap written[ino[w]]
      => x \in delivered[ino[w]]

RemovedWasPulled == \A w \in Workers : pc[w] = "remove" => pulled[held[w]]

DInv == /\ WritersUnflushed /\ FilledFromDevice /\ RemovedWasPulled
        /\ \A i \in Inodes, x \in Writes : Remembered(i, x) /\ Accounted(i, x)

(***************************************************************************)
(* What a step of one worker leaves of the others.                         *)
(***************************************************************************)
Stays(v) == /\ UNCHANGED <<stage[v], op[v], fh[v], arg[v], snap[v], remote[v], due[v]>>
            /\ UNCHANGED <<pc[v], ino[v], held[v], init[v]>>
            /\ stage[v] # "none" \/ fh[v] # NoFh => UNCHANGED <<InodeOf(v), CopyOf(v)>>

\* A handle that a handler serves is neither closed nor given to another file by
\* a request to another worker ...
LEMMA RequestLeaves ==
  ASSUME IInv, HInv, TInv, NEW w \in Workers, KernelRequest(w), NEW v \in Workers \ {w}
  PROVE  Stays(v)
<1> USE DEF IInv, CopyTypeOK, HInv, HandlerTypeOK, Serving, TInv, TypeOK, Stays, InodeOf, CopyOf
<1>1. ASSUME NEW i \in Inodes, Open(w, i) \/ Create(w, i)  PROVE Stays(v)
  BY <1>1 DEF Open, Create, Begin, Acquire
<1>2. ASSUME NEW i \in Inodes, NEW n \in Sizes, Truncate(w, i, n)  PROVE Stays(v)
  BY <1>2 DEF Truncate, Begin, Acquire
<1>3. ASSUME NEW h \in Handles, NEW x \in Writes, WriteLocal(w, h, x)  PROVE Stays(v)
  BY <1>3 DEF WriteLocal, Goto, copyVars
<1>4. ASSUME NEW h \in Handles, Flush(w, h)  PROVE Stays(v)
  BY <1>4 DEF Flush, Goto, copyVars
<1>5. ASSUME NEW h \in Handles, Release(w, h)  PROVE Stays(v)
  BY <1>5 DEF Release, ReleaseHandle, fileVars
<1>6. ASSUME NEW p \in Paths, NEW q \in Paths, Move(w, p, q) \/ MoveAstray(w, p, q)
      PROVE  Stays(v)
  BY <1>6 DEF Move, MoveAstray, copyVars
<1> QED  BY <1>1, <1>2, <1>3, <1>4, <1>5, <1>6 DEF KernelRequest, FileRequest

\* ... or by what another worker does.
LEMMA StepLeaves ==
  ASSUME IInv, HInv, TInv, NEW w \in Workers, HandlerStep(w), NEW v \in Workers \ {w}
  PROVE  Stays(v)
<1> USE DEF IInv, CopyTypeOK, HInv, HandlerTypeOK, Serving, TInv, TypeOK, Stays, InodeOf, CopyOf
<1>1. ASSUME NEW c \in Copies, NewCopy(w, c)  PROVE Stays(v)
  BY <1>1 DEF NewCopy, LookupNew
<1>2. ASSUME NEW h \in Handles, InstallHandle(w, h)  PROVE Stays(v)
  BY <1>2 DEF InstallHandle, Install, Reply, Opened
<1>3. ASSUME WaitForCopy(w)  PROVE Stays(v)
  BY <1>3 DEF WaitForCopy, LookupMapped, Lock, Retry, fileVars
<1>4. ASSUME CreateLocal(w) \/ Pull(w) \/ TakeAsIs(w)  PROVE Stays(v)
  BY <1>4 DEF CreateLocal, Pull, TakeAsIs, Populate, fileVars
<1>5. ASSUME PopulateError(w)  PROVE Stays(v)
  BY <1>5 DEF PopulateError, PopulateFail
<1>6. ASSUME Acquired(w)  PROVE Stays(v)
  BY <1>6 DEF Acquired, Count, Goto
<1>7. ASSUME LocalFail(w) \/ DropReference(w)  PROVE Stays(v)
  BY <1>7 DEF LocalFail, DropReference, Drop, Goto
<1>8. ASSUME LocalOpen(w) \/ Shrink(w) \/ Swap(w) \/ NoPath(w)  PROVE Stays(v)
  BY <1>8 DEF LocalOpen, Shrink, Swap, NoPath, Goto, copyVars
<1>9. ASSUME Capture(w) \/ Land(w) \/ PushFail(w)  PROVE Stays(v)
  BY <1>9 DEF Capture, Land, PushFail, Goto, copyVars
<1>10. ASSUME Sync(w) \/ SyncFail(w) \/ Restore(w) \/ CreateStat(w)  PROVE Stays(v)
  BY <1>10 DEF Sync, SyncFail, Restore, CreateStat, Goto, copyVars
<1>11. ASSUME Mark(w)  PROVE Stays(v)
  BY <1>11 DEF Mark, Reply, Goto, copyVars
<1>12. ASSUME FlushReply(w) \/ Rekey(w)  PROVE Stays(v)
  BY <1>12 DEF FlushReply, Rekey, Reply, copyVars
<1>13. ASSUME LastRelease(w)  PROVE Stays(v)
  BY <1>13 DEF LastRelease, ReleaseLast, RemoveFile, Unmap, fileVars
<1>14. ASSUME ReleaseDone(w)  PROVE Stays(v)
  BY <1>14 DEF ReleaseDone, ReleaseShared, Unlock, Reply
<1> QED  BY <1>1, <1>2, <1>3, <1>4, <1>5, <1>6, <1>7, <1>8, <1>9, <1>10, <1>11, <1>12, <1>13,
            <1>14 DEF HandlerStep, FileStep

------------------------------------------------------------------------------
(***************************************************************************)
(* The stages each handler goes through, and on whose behalf: write and    *)
(* flush serve a handle, open, create and setattr a copy they acquire.     *)
(***************************************************************************)
StagesOf(o) ==
  CASE o = "open" -> {"none", "open", "install"}
    [] o = "create" -> {"none", "open", "install", "swap", "ok", "err"} \cup Pushing
    [] o = "truncate" -> {"none", "shrink", "mark", "swap", "ok", "err"} \cup Pushing
    [] o = "write" -> {"mark"}
    [] o = "flush" -> {"swap", "ok", "err"} \cup Pushing
    [] OTHER -> {"none"}

SInv ==
  \A w \in Workers : /\ stage[w] \in StagesOf(op[w])
                     /\ fh[w] # NoFh <=> op[w] \in {"write", "flush"}

\* Every step takes a handler to one of its own stages.
LEMMA StagesFollow ==
  ASSUME IInv, HInv, TInv, SInv, NEW w \in Workers, KernelRequest(w) \/ HandlerStep(w)
  PROVE  SInv'
<1>1. ASSUME NEW v \in Workers \ {w}
      PROVE  stage'[v] \in StagesOf(op'[v]) /\ (fh'[v] # NoFh <=> op'[v] \in {"write", "flush"})
  BY RequestLeaves, StepLeaves DEF Stays, SInv
<1>2. stage'[w] \in StagesOf(op'[w]) /\ (fh'[w] # NoFh <=> op'[w] \in {"write", "flush"})
  <2> USE DEF SInv, StagesOf, Pushing, HInv, HandlerTypeOK
  <2>1. CASE \/ \E i \in Inodes : Open(w, i) \/ Create(w, i)
             \/ \E i \in Inodes, n \in Sizes : Truncate(w, i, n)
    BY <2>1 DEF Open, Create, Truncate, Begin, Free
  <2>2. CASE \E h \in Handles, x \in Writes : WriteLocal(w, h, x)
    BY <2>2, NoFhIsNoHandle DEF WriteLocal, Goto
  <2>3. CASE \E h \in Handles : Flush(w, h)
    BY <2>3, NoFhIsNoHandle DEF Flush, Goto
  <2>4. CASE \/ \E h \in Handles : Release(w, h)
             \/ WaitForCopy(w) \/ TakeAsIs(w) \/ LastRelease(w)
    BY <2>4 DEF Release, WaitForCopy, TakeAsIs, LastRelease, fileVars
  <2>5. CASE \E p, q \in Paths : Move(w, p, q) \/ MoveAstray(w, p, q)
    BY <2>5 DEF Move, MoveAstray, CanMove, Free
  <2>6. CASE \/ \E c \in Copies : NewCopy(w, c)
             \/ CreateLocal(w) \/ Pull(w) \/ PopulateError(w)
    BY <2>6 DEF NewCopy, CreateLocal, Pull, PopulateError
  <2>7. CASE Acquired(w)
    <3>1. op[w] \in {"open", "create", "truncate"}
      BY <2>7, Acquiring DEF Acquired, Count
    <3> QED  BY <2>7, <3>1 DEF Acquired, Goto
  <2>8. CASE LocalOpen(w) \/ LocalFail(w) \/ Shrink(w) \/ CreateStat(w) \/ DropReference(w)
    BY <2>8 DEF LocalOpen, LocalFail, Shrink, CreateStat, DropReference, Goto
  <2>9. CASE \E h \in Handles : InstallHandle(w, h)
    BY <2>9 DEF InstallHandle, Reply
  <2>10. CASE Mark(w)
    BY <2>10 DEF Mark, Reply, Goto
  <2>11. CASE Swap(w) \/ NoPath(w) \/ Capture(w) \/ Land(w) \/ PushFail(w)
    BY <2>11 DEF Swap, NoPath, Capture, Land, PushFail, Goto
  <2>12. CASE Sync(w) \/ SyncFail(w) \/ Restore(w)
    BY <2>12 DEF Sync, SyncFail, Restore, Goto
  <2>13. CASE FlushReply(w) \/ ReleaseDone(w) \/ Rekey(w)
    BY <2>13 DEF FlushReply, ReleaseDone, Rekey, Reply
  <2> QED
    BY <2>1, <2>2, <2>3, <2>4, <2>5, <2>6, <2>7, <2>8, <2>9, <2>10, <2>11, <2>12, <2>13
    DEF KernelRequest, FileRequest, HandlerStep, FileStep
<1> QED  BY <1>1, <1>2 DEF SInv

\* Every handler is at one of its stages, always.
LEMMA HandlersStaged == Spec => [](IInv /\ HInv /\ TInv /\ SInv)
<1>1. Init => SInv
  BY DEF Init, SInv, StagesOf
<1>2. IInv /\ HInv /\ TInv /\ SInv /\ [Next]_vars => SInv'
  <2>1. ASSUME SInv, UNCHANGED vars  PROVE SInv'
    BY <2>1 DEF SInv, vars, fileVars
  <2> QED  BY <2>1, StagesFollow DEF Next
<1> QED  BY <1>1, <1>2, HandlersTyped, PTL DEF Spec

------------------------------------------------------------------------------
(***************************************************************************)
(* Steps outside the handlers' own part leave every write where it is.     *)
(***************************************************************************)
OthersStay(w) == \A v \in Workers \ {w} : Stays(v)

Resting == {"none", "open", "install", "shrink", "ok", "err"}

\* A step that enters and leaves no part of a push, or of a write, moves no write.
LEMMA SameWork ==
  ASSUME NEW w \in Workers, OthersStay(w), stage[w] \in Resting, stage'[w] \in Resting,
         NEW i, NEW x
  PROVE  /\ Marking(i, x)' <=> Marking(i, x)
         /\ UnderWay(i, x)' <=> UnderWay(i, x)
         /\ Asking(i)' <=> Asking(i)
<1>1. \A v \in Workers \ {w} : stage[v] # "none" =>
        UNCHANGED <<stage[v], op[v], arg[v], snap[v], InodeOf(v)>>
  BY DEF OthersStay, Stays
<1>2. \A v \in Workers \ {w} : stage'[v] = stage[v]
  BY DEF OthersStay, Stays
<1> QED  BY <1>1, <1>2 DEF Marking, UnderWay, Asking, Pushing, Resting

\* The table may lose an entry, nothing else about the data changes.
LEMMA Untouched ==
  ASSUME DInv, NEW w \in Workers, OthersStay(w), stage[w] \in Resting, stage'[w] \in Resting,
         UNCHANGED <<local, written, delivered, failed, dirty, pulled>>,
         \A i \in Inodes : open_copies'[i] \in {open_copies[i], NoCopy},
         \A i \in Inodes : Unflushed(i) => Unflushed(i)',
         NEW i \in Inodes, NEW x \in Writes
  PROVE  Remembered(i, x)' /\ Accounted(i, x)'
<1>1. /\ Marking(i, x)' <=> Marking(i, x)
      /\ UnderWay(i, x)' <=> UnderWay(i, x)
      /\ Asking(i)' <=> Asking(i)
  BY SameWork
<1>2. Held(i, x)' => Held(i, x) /\ open_copies'[i] = open_copies[i]
  BY <1>1 DEF Held
<1>3. Remembered(i, x) /\ Accounted(i, x)
  BY DEF DInv
<1> QED  BY <1>1, <1>2, <1>3 DEF Remembered, Accounted

\* A copy that is being filled is nobody's yet: its inode is not the one a handler
\* or an open handle works on, nor the one another worker is filling.
LEMMA BeingFilled ==
  ASSUME IInv, HInv, NEW v \in Workers, pc[v] = "count", ~pulled[held[v]]
  PROVE  /\ \A w \in Workers : stage[w] # "none" \/ fh[w] # NoFh => InodeOf(w) # ino[v]
         /\ \A h \in Opened : open_files[h].ino # ino[v]
         /\ \A w \in Workers \ {v} : pc[w] = "populate" => ino[w] # ino[v]
<1>1. held[v] \in Copies /\ open_copies[ino[v]] = held[v] /\ owner[held[v]] = v
  BY IdentitiesAreDistinct DEF IInv, HeldOK, LiveOK, MutexOK, Critical
<1>2. \A w \in Workers : stage[w] # "none" \/ fh[w] # NoFh => InodeOf(w) # ino[v]
  BY <1>1, Where
<1>3. \A h \in Opened : open_files[h].ino # ino[v]
  BY <1>1 DEF IInv, OneCopyPerInode, FilesOK
<1>4. \A w \in Workers \ {v} : pc[w] = "populate" => ino[w] # ino[v]
  BY <1>1, IdentitiesAreDistinct DEF IInv, HeldOK, LiveOK, MutexOK, Critical
<1> QED  BY <1>2, <1>3, <1>4

\* What the kernel asks for loses no write.
LEMMA RequestKeepsWrites ==
  ASSUME IInv, HInv, TInv, DInv, NEW w \in Workers, KernelRequest(w),
         NEW i \in Inodes, NEW x \in Writes
  PROVE  Remembered(i, x)' /\ Accounted(i, x)'
<1>0. OthersStay(w)
  BY RequestLeaves DEF OthersStay
<1>1. ASSUME \/ \E j \in Inodes : Open(w, j) \/ Create(w, j)
             \/ \E j \in Inodes, n \in Sizes : Truncate(w, j, n)
      PROVE  Remembered(i, x)' /\ Accounted(i, x)'
  <2>1. stage[w] = "none" /\ stage'[w] = "none"
    BY <1>1 DEF Open, Create, Truncate, Begin, Free, HInv, Serving
  <2>2. /\ UNCHANGED <<local, written, delivered, failed, dirty, pulled>>
        /\ UNCHANGED <<unflushed, open_copies, open_files>>
    BY <1>1 DEF Open, Create, Truncate, Begin, Acquire
  <2> QED  BY <1>0, <2>1, <2>2, Untouched DEF Unflushed, Opened, Resting
<1>2. ASSUME NEW h \in Handles, Release(w, h)
      PROVE  Remembered(i, x)' /\ Accounted(i, x)'
  <2>1. stage[w] = "none" /\ stage'[w] = "none"
    BY <1>2 DEF Release, Free, HInv, Serving, fileVars
  <2>2. UNCHANGED <<local, written, delivered, failed, dirty, pulled, open_copies>>
    BY <1>2 DEF Release, ReleaseHandle, fileVars
  <2>3. \A j \in Inodes : Unflushed(j) => Unflushed(j)'
    BY <1>2 DEF Release, ReleaseHandle, fileVars, Unflushed, Opened, IInv, CopyTypeOK
  <2> QED  BY <1>0, <2>1, <2>2, <2>3, Untouched DEF Resting
<1>3. ASSUME NEW p \in Paths, NEW q \in Paths, Move(w, p, q) \/ MoveAstray(w, p, q)
      PROVE  Remembered(i, x)' /\ Accounted(i, x)'
  <2>1. stage[w] = "none" /\ stage'[w] = "none"
    BY <1>3 DEF Move, MoveAstray, CanMove, Free, HInv, Serving
  <2>2. /\ UNCHANGED <<local, written, delivered, failed, dirty, pulled>>
        /\ UNCHANGED <<unflushed, open_copies, open_files>>
    BY <1>3 DEF Move, MoveAstray, copyVars
  <2> QED  BY <1>0, <2>1, <2>2, Untouched DEF Unflushed, Opened, Resting
<1>4. ASSUME NEW h \in Handles, NEW y \in Writes, WriteLocal(w, h, y)
      PROVE  Remembered(i, x)' /\ Accounted(i, x)'
  <2>1. /\ stage[w] = "none" /\ stage'[w] = "mark" /\ op'[w] = "write" /\ arg'[w] = y
        /\ InodeOf(w)' = open_files[h].ino
        /\ UNCHANGED <<open_copies, pulled, dirty, delivered, failed, open_files>>
    BY <1>4, NoFhIsNoHandle
    DEF WriteLocal, Goto, Free, HInv, HandlerTypeOK, Serving, TInv, TypeOK, InodeOf, copyVars
  <2>2. \A v \in Workers \ {w} : stage[v] # "none" =>
          UNCHANGED <<stage[v], op[v], arg[v], snap[v], InodeOf(v)>>
    BY <1>0 DEF OthersStay, Stays
  <2>3. /\ Marking(i, x) => Marking(i, x)'
        /\ UnderWay(i, x) => UnderWay(i, x)'
        /\ Asking(i) => Asking(i)'
        /\ Unflushed(i) => Unflushed(i)'
    <3>1. (Marking(i, x) => Marking(i, x)') /\ (Asking(i) => Asking(i)')
      BY <2>1, <2>2 DEF Marking, Asking
    <3>2. UnderWay(i, x) => UnderWay(i, x)'
      BY <2>1, <2>2 DEF UnderWay, Pushing
    <3>3. Unflushed(i) => Unflushed(i)'
      BY <1>4, <2>1 DEF WriteLocal, Unflushed, Opened
    <3> QED  BY <3>1, <3>2, <3>3
  <2>4. Held(i, x)' => Held(i, x)
    <3>1. CASE i = open_files[h].ino /\ x = y
      BY <2>1, <3>1 DEF Held, Marking
    <3>2. CASE ~(i = open_files[h].ino /\ x = y)
      BY <1>4, <2>1, <2>3, <3>2 DEF Held, WriteLocal, TInv, TypeOK
    <3> QED  BY <3>1, <3>2
  <2> QED  BY <2>1, <2>3, <2>4 DEF DInv, Remembered, Accounted
<1>5. ASSUME NEW h \in Handles, Flush(w, h)
      PROVE  Remembered(i, x)' /\ Accounted(i, x)'
  <2>1. /\ stage[w] = "none" /\ stage'[w] = "swap"
        /\ InodeOf(w)' = open_files[h].ino
        /\ UNCHANGED <<open_copies, pulled, dirty, delivered, failed, open_files>>
        /\ UNCHANGED <<local, written>>
    BY <1>5, NoFhIsNoHandle
    DEF Flush, Goto, Free, HInv, HandlerTypeOK, Serving, TInv, TypeOK, InodeOf, copyVars
  <2>2. \A v \in Workers \ {w} : stage[v] # "none" =>
          UNCHANGED <<stage[v], op[v], arg[v], snap[v], InodeOf(v)>>
    BY <1>0 DEF OthersStay, Stays
  <2>3. /\ Marking(i, x) => Marking(i, x)'
        /\ Asking(i) => Asking(i)'
        /\ Unflushed(i) => Unflushed(i)' \/ Asking(i)'
    <3>1. (Marking(i, x) => Marking(i, x)') /\ (Asking(i) => Asking(i)')
      BY <2>1, <2>2 DEF Marking, Asking
    <3>2. Unflushed(i) => Unflushed(i)' \/ Asking(i)'
      BY <1>5, <2>1 DEF Flush, Unflushed, Asking, Opened
    <3> QED  BY <3>1, <3>2
  <2>4. UnderWay(i, x) => UnderWay(i, x)'
    BY <2>1, <2>2 DEF UnderWay, Pushing
  <2>5. Held(i, x)' => Held(i, x)
    BY <2>1, <2>3 DEF Held
  <2> QED  BY <2>1, <2>3, <2>4, <2>5 DEF DInv, Remembered, Accounted
<1> QED  BY <1>1, <1>2, <1>3, <1>4, <1>5 DEF KernelRequest, FileRequest

\* acquire_copy and release_copy lose no write.  A copy that has just been filled
\* holds what the device has, or a write made through an earlier open.
LEMMA CopyKeepsWrites ==
  ASSUME IInv, HInv, TInv, DInv, NEW w \in Workers, HandlerStep(w),
         \/ \E c \in Copies : NewCopy(w, c)
         \/ CreateLocal(w) \/ Pull(w) \/ PopulateError(w) \/ Acquired(w),
         NEW i \in Inodes, NEW x \in Writes
  PROVE  Remembered(i, x)' /\ Accounted(i, x)'
<1>0. OthersStay(w)
  BY StepLeaves DEF OthersStay
<1>1. ASSUME NEW c \in Copies, NewCopy(w, c)
      PROVE  Remembered(i, x)' /\ Accounted(i, x)'
  <2>1. stage[w] = "none" /\ stage'[w] = "none"
    BY <1>1, Acquiring DEF NewCopy, LookupNew
  <2>2. Held(i, x)' => /\ Held(i, x) /\ open_copies'[i] = open_copies[i]
                       /\ dirty'[open_copies'[i]] = dirty[open_copies[i]]
    BY <1>0, <1>1, <2>1, SameWork
    DEF Held, NewCopy, LookupNew, Fresh, IInv, CopyTypeOK, TInv, TypeOK, Resting
  <2>3. UNCHANGED <<delivered, failed, unflushed, open_files>>
    BY <1>1 DEF NewCopy, LookupNew
  <2> QED
    BY <1>0, <2>1, <2>2, <2>3, SameWork
    DEF DInv, Remembered, Accounted, Unflushed, Opened, Resting
<1>2. ASSUME CreateLocal(w) \/ Pull(w) \/ PopulateError(w)
      PROVE  Remembered(i, x)' /\ Accounted(i, x)'
  <2>1. stage[w] = "none" /\ stage'[w] = "none"
    BY <1>2, Acquiring DEF CreateLocal, Pull, PopulateError, Populate, PopulateFail
  <2>2. UNCHANGED <<written, open_copies, pulled, dirty, failed, unflushed, open_files>>
    BY <1>2 DEF CreateLocal, Pull, PopulateError, Populate, PopulateFail
  <2>3. delivered[i] \subseteq delivered'[i]
    BY <1>2 DEF CreateLocal, Pull, PopulateError, TInv, TypeOK
  <2>4. Held(i, x)' => Held(i, x) \/ x \in delivered'[i]
    <3>1. x \in local'[i] => x \in local[i] \/ x \in delivered'[i]
      BY <1>2 DEF CreateLocal, Pull, PopulateError, TInv, TypeOK
    <3> QED  BY <1>0, <2>1, <2>2, <3>1, SameWork DEF Held, Resting
  <2> QED
    BY <1>0, <2>1, <2>2, <2>3, <2>4, SameWork
    DEF DInv, Remembered, Accounted, Unflushed, Opened, Resting
<1>3. ASSUME Acquired(w)
      PROVE  Remembered(i, x)' /\ Accounted(i, x)'
  <2>1. stage[w] = "none" /\ stage'[w] \in Resting
    <3>1. pc[w] = "count"
      BY <1>3 DEF Acquired, Count
    <3>2. stage[w] = "none"
      BY <3>1, Acquiring
    <3>3. stage'[w] \in {"open", "shrink"}
      BY <1>3 DEF Acquired, Goto, HInv, HandlerTypeOK
    <3> QED  BY <3>2, <3>3 DEF Resting
  <2>2. UNCHANGED <<local, written, delivered, failed, unflushed, open_files, open_copies>>
    BY <1>3 DEF Acquired, Count
  <2>3. held[w] \in Copies /\ open_copies[ino[w]] = held[w] /\ ino[w] \in Inodes
    BY <1>3, IdentitiesAreDistinct DEF Acquired, Count, IInv, HeldOK, LiveOK
  <2>4. CASE open_copies[i] = held[w] /\ ~pulled[held[w]]
    <3>1. i = ino[w]
      BY <2>3, <2>4, IdentitiesAreDistinct DEF IInv, MapOK
    <3>2. Held(i, x)' => x \in delivered[i]
      BY <1>3, <2>2, <3>1, <2>4 DEF Held, DInv, FilledFromDevice, Acquired, Count
    <3> QED  BY <2>2, <3>2 DEF Remembered, Accounted
  <2>5. CASE ~(open_copies[i] = held[w] /\ ~pulled[held[w]])
    <3>1. open_copies[i] # NoCopy /\ pulled'[open_copies[i]] => pulled[open_copies[i]]
      BY <1>3, <2>3, <2>5 DEF Acquired, Count, IInv, CopyTypeOK
    <3>2. open_copies[i] # NoCopy /\ ~dirty'[open_copies[i]] => ~dirty[open_copies[i]]
      BY <1>3, <2>3 DEF Acquired, TInv, TypeOK, CopyTypeOK
    <3>3. /\ Marking(i, x)' <=> Marking(i, x)
          /\ UnderWay(i, x)' <=> UnderWay(i, x)
          /\ Asking(i)' <=> Asking(i)
      BY <1>0, <2>1, SameWork DEF Resting
    <3>4. Held(i, x)' => Held(i, x)
      BY <2>2, <3>1, <3>3 DEF Held
    <3> QED
      BY <2>2, <3>2, <3>3, <3>4 DEF DInv, Held, Remembered, Accounted, Unflushed, Opened
  <2> QED  BY <2>4, <2>5
<1> QED  BY <1>1, <1>2, <1>3

\* Between its steps a push has no lock: it looks at the flag, reads the local file
\* and replaces the file on the device while others write.  Each write is seen by
\* the flag or by the push.
LEMMA PushKeepsWrites ==
  ASSUME IInv, HInv, TInv, DInv, NEW w \in Workers, HandlerStep(w),
         \/ (LocalOpen(w) /\ op[w] = "create") \/ Shrink(w) \/ Mark(w) \/ Swap(w)
         \/ NoPath(w) \/ Capture(w) \/ Land(w) \/ PushFail(w)
         \/ Sync(w) \/ SyncFail(w) \/ Restore(w),
         NEW i \in Inodes, NEW x \in Writes
  PROVE  Remembered(i, x)' /\ Accounted(i, x)'
<1>1. /\ stage[w] # "none"
      /\ UNCHANGED <<open_copies, open_files, pulled, unflushed, written, pc, ino, held>>
  BY DEF LocalOpen, Shrink, Mark, Swap, NoPath, Capture, Land, PushFail, Sync, SyncFail,
         Restore, copyVars
<1>2. \A v \in Workers \ {w} :
        /\ stage'[v] = stage[v]
        /\ stage[v] # "none" => UNCHANGED <<op[v], arg[v], snap[v], InodeOf(v)>>
  BY StepLeaves DEF Stays
<1>3. /\ InodeOf(w) \in Inodes /\ CopyOf(w) \in Copies
      /\ open_copies[InodeOf(w)] = CopyOf(w)
      /\ i # InodeOf(w) => open_copies[i] # CopyOf(w)
  BY <1>1, Where, IdentitiesAreDistinct DEF IInv, MapOK
<1>4. Remembered(i, x) /\ Accounted(i, x)
  BY DEF DInv
<1>5. ASSUME LocalOpen(w), op[w] = "create"
      PROVE  Remembered(i, x)' /\ Accounted(i, x)'
  <2>1. /\ stage[w] = "open" /\ stage'[w] = "swap"
        /\ UNCHANGED <<local, dirty, delivered, failed>>
    BY <1>5 DEF LocalOpen, Goto, HInv, HandlerTypeOK
  <2>2. Marking(i, x) => Marking(i, x)'
    BY <1>2, <2>1 DEF Marking
  <2>3. UnderWay(i, x) => UnderWay(i, x)'
    BY <1>2, <2>1 DEF UnderWay, Pushing
  <2>4. Asking(i) => Asking(i)'
    BY <1>2, <2>1 DEF Asking
  <2> QED
    BY <1>1, <1>4, <2>1, <2>2, <2>3, <2>4 DEF Held, Remembered, Accounted, Unflushed, Opened
<1>6. ASSUME Shrink(w)
      PROVE  Remembered(i, x)' /\ Accounted(i, x)'
  <2>1. /\ stage[w] = "shrink" /\ stage'[w] = "mark"
        /\ local'[i] \subseteq local[i]
        /\ UNCHANGED <<dirty, delivered, failed>>
    BY <1>6 DEF Shrink, Goto, HInv, HandlerTypeOK, TInv, TypeOK
  <2>2. Marking(i, x) => Marking(i, x)'
    BY <1>2, <2>1 DEF Marking
  <2>3. UnderWay(i, x) => UnderWay(i, x)'
    BY <1>2, <2>1 DEF UnderWay, Pushing
  <2>4. Asking(i) => Asking(i)'
    BY <1>2, <2>1 DEF Asking
  <2> QED
    BY <1>1, <1>4, <2>1, <2>2, <2>3, <2>4 DEF Held, Remembered, Accounted, Unflushed, Opened
<1>7. ASSUME Mark(w)
      PROVE  Remembered(i, x)' /\ Accounted(i, x)'
  <2>1. /\ stage[w] = "mark" /\ stage'[w] \in {"none", "swap"}
        /\ op[w] # "write" => stage'[w] = "swap" /\ InodeOf(w)' = InodeOf(w)
        /\ dirty' = [dirty EXCEPT ![CopyOf(w)] = TRUE]
        /\ UNCHANGED <<local, delivered, failed>>
    BY <1>1, <1>7 DEF Mark, Goto, Reply, HInv, HandlerTypeOK, InodeOf
  <2>2. UnderWay(i, x) => UnderWay(i, x)'
    BY <1>2, <2>1 DEF UnderWay, Pushing
  <2>3. Asking(i) => Asking(i)'
    BY <1>2, <2>1 DEF Asking
  <2>4. CASE i = InodeOf(w)
    <3>1. dirty'[open_copies'[i]] = TRUE
      BY <1>1, <1>3, <2>1, <2>4 DEF TInv, TypeOK
    <3>2. op[w] = "write" => Unflushed(i)'
      BY <1>1, <2>4
      DEF DInv, WritersUnflushed, Unflushed, Opened, InodeOf, HInv, HandlerTypeOK, Serving
    <3>3. op[w] # "write" => Asking(i)'
      BY <2>1, <2>4 DEF Asking
    <3> QED  BY <3>1, <3>2, <3>3 DEF Remembered, Accounted
  <2>5. CASE i # InodeOf(w)
    <3>1. Marking(i, x) => Marking(i, x)'
      BY <1>2, <2>1, <2>5 DEF Marking
    <3>2. dirty'[open_copies[i]] = dirty[open_copies[i]] \/ open_copies[i] = NoCopy
      BY <1>3, <2>1, <2>5 DEF TInv, TypeOK, CopyTypeOK
    <3> QED
      BY <1>1, <1>4, <2>1, <2>2, <2>3, <3>1, <3>2
      DEF Held, Remembered, Accounted, Unflushed, Opened
  <2> QED  BY <2>4, <2>5
<1>8. ASSUME Swap(w)
      PROVE  Remembered(i, x)' /\ Accounted(i, x)'
  <2>1. /\ stage[w] = "swap"
        /\ stage'[w] = IF dirty[CopyOf(w)] THEN "capture" ELSE "ok"
        /\ dirty' = [dirty EXCEPT ![CopyOf(w)] = FALSE]
        /\ InodeOf(w)' = InodeOf(w)
        /\ UNCHANGED <<local, delivered, failed>>
    BY <1>1, <1>8 DEF Swap, Goto, HInv, HandlerTypeOK, InodeOf
  <2>2. Marking(i, x) => Marking(i, x)'
    BY <1>2, <2>1 DEF Marking
  <2>3. UnderWay(i, x) => UnderWay(i, x)'
    BY <1>2, <2>1 DEF UnderWay, Pushing
  <2>4. CASE i = InodeOf(w) /\ dirty[CopyOf(w)]
    <3>1. UnderWay(i, x)'
      BY <2>1, <2>4 DEF UnderWay, Pushing
    <3> QED  BY <3>1 DEF Remembered, Accounted
  <2>5. CASE i = InodeOf(w) /\ ~dirty[CopyOf(w)]
    <3>1. Held(i, x)' => x \in delivered[i] \/ UnderWay(i, x)
      BY <1>1, <1>3, <1>4, <2>1, <2>2, <2>5 DEF Held, Remembered
    <3> QED  BY <2>1, <2>3, <3>1 DEF Remembered, Accounted
  <2>6. CASE i # InodeOf(w)
    <3>1. Asking(i) => Asking(i)'
      BY <1>2, <2>1, <2>6 DEF Asking
    <3>2. dirty'[open_copies[i]] = dirty[open_copies[i]] \/ open_copies[i] = NoCopy
      BY <1>3, <2>1, <2>6 DEF TInv, TypeOK, CopyTypeOK
    <3> QED
      BY <1>1, <1>4, <2>1, <2>2, <2>3, <3>1, <3>2
      DEF Held, Remembered, Accounted, Unflushed, Opened
  <2> QED  BY <2>4, <2>5, <2>6
<1>9. ASSUME NoPath(w) \/ Capture(w) \/ Land(w) \/ PushFail(w) \/ SyncFail(w)
      PROVE  Remembered(i, x)' /\ Accounted(i, x)'
  <2>1. /\ stage[w] \in Pushing /\ stage'[w] \in Pushing
        /\ stage[w] = "capture" => snap'[w] = local[InodeOf(w)]
        /\ stage[w] # "capture" => snap'[w] = snap[w]
        /\ InodeOf(w)' = InodeOf(w)
        /\ UNCHANGED <<local, dirty, delivered, failed>>
    <3>1. CASE NoPath(w) \/ Capture(w)
      BY <1>1, <3>1 DEF NoPath, Capture, Goto, HInv, HandlerTypeOK, TInv, TypeOK, InodeOf, Pushing
    <3>2. CASE Land(w) \/ PushFail(w) \/ SyncFail(w)
      BY <1>1, <3>2 DEF Land, PushFail, SyncFail, Goto, HInv, HandlerTypeOK, InodeOf, Pushing
    <3> QED  BY <1>9, <3>1, <3>2
  <2>2. Marking(i, x) => Marking(i, x)'
    BY <1>2, <2>1 DEF Marking, Pushing
  <2>3. x \in local[i] /\ UnderWay(i, x) => UnderWay(i, x)'
    BY <1>2, <2>1 DEF UnderWay, Pushing
  <2>4. Asking(i) => Asking(i)'
    BY <1>2, <2>1 DEF Asking, Pushing
  <2> QED
    BY <1>1, <1>4, <2>1, <2>2, <2>3, <2>4 DEF Held, Remembered, Accounted, Unflushed, Opened
<1>10. ASSUME Sync(w) \/ Restore(w)
       PROVE  Remembered(i, x)' /\ Accounted(i, x)'
  <2>1. /\ stage[w] \in {"sync", "restore"} /\ stage'[w] \in {"ok", "err"}
        /\ UNCHANGED local
        /\ delivered[i] \subseteq delivered'[i] /\ failed[i] \subseteq failed'[i]
    BY <1>10 DEF Sync, Restore, Goto, HInv, HandlerTypeOK, TInv, TypeOK
  <2>2. Marking(i, x) => Marking(i, x)'
    BY <1>2, <2>1 DEF Marking
  <2>3. Asking(i) => Asking(i)'
    BY <1>2, <2>1 DEF Asking
  <2>4. UnderWay(i, x) => UnderWay(i, x)' \/ (InodeOf(w) = i /\ x \in snap[w])
    BY <1>2, <2>1 DEF UnderWay, Pushing
  <2>5. CASE Sync(w)
    <3>1. UnderWay(i, x) => UnderWay(i, x)' \/ x \in delivered'[i]
      BY <1>3, <2>4, <2>5 DEF Sync, TInv, TypeOK
    <3>2. UNCHANGED dirty
      BY <2>5 DEF Sync
    <3> QED
      BY <1>1, <1>4, <2>1, <2>2, <2>3, <3>1, <3>2
      DEF Held, Remembered, Accounted, Unflushed, Opened
  <2>6. CASE Restore(w)
    <3>1. UnderWay(i, x) => UnderWay(i, x)' \/ (InodeOf(w) = i /\ x \in failed'[i])
      BY <1>3, <2>4, <2>6 DEF Restore, TInv, TypeOK
    <3>2. InodeOf(w) = i => dirty'[open_copies[i]]
      BY <1>3, <2>6 DEF Restore, TInv, TypeOK
    <3>3. InodeOf(w) # i => dirty'[open_copies[i]] = dirty[open_copies[i]] \/ open_copies[i] = NoCopy
      BY <1>3, <2>6 DEF Restore, TInv, TypeOK, CopyTypeOK
    <3> QED
      BY <1>1, <1>4, <2>1, <2>2, <2>3, <3>1, <3>2, <3>3
      DEF Held, Remembered, Accounted, Unflushed, Opened
  <2> QED  BY <1>10, <2>5, <2>6
<1> QED  BY <1>5, <1>6, <1>7, <1>8, <1>9, <1>10

\* What is left: steps of the table that touch no data, and the ends of handlers.
LEMMA StepKeepsWrites ==
  ASSUME IInv, HInv, TInv, DInv, NEW w \in Workers, HandlerStep(w),
         NEW i \in Inodes, NEW x \in Writes
  PROVE  Remembered(i, x)' /\ Accounted(i, x)'
<1>0. OthersStay(w)
  BY StepLeaves DEF OthersStay
<1>1. ASSUME WaitForCopy(w) \/ TakeAsIs(w) \/ LastRelease(w) \/ ReleaseDone(w) \/ Rekey(w)
      PROVE  Remembered(i, x)' /\ Accounted(i, x)'
  <2>1. stage[w] = "none" /\ stage'[w] = "none"
    <3>1. CASE WaitForCopy(w) \/ TakeAsIs(w) \/ LastRelease(w)
      <4>1. pc[w] \notin {"idle", "using"}
        BY <3>1 DEF WaitForCopy, LookupMapped, Lock, Retry, TakeAsIs, Populate, LastRelease,
                    ReleaseLast, RemoveFile, Unmap
      <4>2. UNCHANGED stage
        BY <3>1 DEF WaitForCopy, TakeAsIs, LastRelease, fileVars
      <4> QED  BY <4>1, <4>2 DEF HInv, Serving
    <3>2. CASE ReleaseDone(w) \/ Rekey(w)
      BY <3>2 DEF ReleaseDone, ReleaseShared, Unlock, Rekey, Reply, HInv, HandlerTypeOK, Serving
    <3> QED  BY <1>1, <3>1, <3>2
  <2>2. UNCHANGED <<local, written, delivered, failed, dirty, pulled, open_files, unflushed>>
    <3>1. CASE WaitForCopy(w) \/ TakeAsIs(w) \/ LastRelease(w)
      BY <3>1 DEF WaitForCopy, LookupMapped, Lock, Retry, TakeAsIs, Populate, LastRelease,
                  ReleaseLast, RemoveFile, Unmap, fileVars
    <3>2. CASE ReleaseDone(w) \/ Rekey(w)
      BY <3>2 DEF ReleaseDone, ReleaseShared, Unlock, Rekey, copyVars
    <3> QED  BY <1>1, <3>1, <3>2
  <2>3. \A j \in Inodes : open_copies'[j] \in {open_copies[j], NoCopy}
    BY <1>1 DEF WaitForCopy, LookupMapped, Lock, Retry, TakeAsIs, Populate, LastRelease,
                ReleaseLast, RemoveFile, Unmap, ReleaseDone, ReleaseShared, Unlock, Rekey,
                copyVars, IInv, CopyTypeOK
  <2> QED  BY <1>0, <2>1, <2>2, <2>3, Untouched DEF Unflushed, Opened, Resting
<1>2. ASSUME \/ LocalOpen(w) /\ op[w] # "create"
             \/ LocalFail(w) \/ FlushReply(w) \/ CreateStat(w) \/ DropReference(w)
      PROVE  Remembered(i, x)' /\ Accounted(i, x)'
  <2>1. stage[w] \in Resting /\ stage'[w] \in Resting
    BY <1>2 DEF LocalOpen, LocalFail, FlushReply, CreateStat, DropReference, Reply, Goto,
                HInv, HandlerTypeOK, Resting
  <2>2. /\ UNCHANGED <<local, written, delivered, failed, dirty, pulled, open_copies>>
        /\ UNCHANGED <<open_files, unflushed>>
    BY <1>2 DEF LocalOpen, LocalFail, FlushReply, CreateStat, DropReference, Drop, copyVars
  <2> QED  BY <1>0, <2>1, <2>2, Untouched DEF Unflushed, Opened
<1>3. ASSUME NEW h \in Handles, InstallHandle(w, h)
      PROVE  Remembered(i, x)' /\ Accounted(i, x)'
  <2>1. stage[w] \in Resting /\ stage'[w] \in Resting
    BY <1>3 DEF InstallHandle, Reply, HInv, HandlerTypeOK, Resting
  <2>2. /\ UNCHANGED <<local, written, delivered, failed, dirty, pulled, open_copies>>
        /\ UNCHANGED unflushed
    BY <1>3 DEF InstallHandle, Install
  <2>3. \A j \in Inodes : Unflushed(j) => Unflushed(j)'
    BY <1>3, <2>2, IdentitiesAreDistinct
    DEF InstallHandle, Install, Unflushed, Opened, IInv, CopyTypeOK
  <2> QED  BY <1>0, <2>1, <2>2, <2>3, Untouched
<1> QED
  BY <1>1, <1>2, <1>3, CopyKeepsWrites, PushKeepsWrites DEF HandlerStep, FileStep

------------------------------------------------------------------------------
\* A write is not acknowledged before its handle counts as written to, and another
\* worker cannot flush the handle before it is.
LEMMA WritersStayUnflushed ==
  ASSUME IInv, HInv, TInv, DInv, NEW w \in Workers, KernelRequest(w) \/ HandlerStep(w)
  PROVE  WritersUnflushed'
<1> SUFFICES ASSUME NEW v \in Workers, op'[v] = "write"  PROVE fh'[v] \in unflushed'
  BY DEF WritersUnflushed
<1>1. CASE \E h \in Handles, y \in Writes : WriteLocal(w, h, y)
  <2>1. PICK h \in Handles, y \in Writes : WriteLocal(w, h, y)
    BY <1>1
  <2> QED
    BY <2>1 DEF WriteLocal, DInv, WritersUnflushed, HInv, HandlerTypeOK
<1>2. CASE \E h \in Handles : Flush(w, h)
  <2>1. PICK h \in Handles : Flush(w, h)
    BY <1>2
  <2> QED
    BY <2>1 DEF Flush, Locked, DInv, WritersUnflushed, HInv, HandlerTypeOK
<1>3. CASE ~(\E h \in Handles, y \in Writes : WriteLocal(w, h, y)) /\ ~(\E h \in Handles : Flush(w, h))
  <2>1. UNCHANGED unflushed
    <3>1. CASE KernelRequest(w)
      BY <1>3, <3>1 DEF KernelRequest, FileRequest, Open, Create, Truncate, Begin, Release, Move,
                        MoveAstray, fileVars
    <3>2. CASE HandlerStep(w)
      BY <3>2
      DEF HandlerStep, FileStep, NewCopy, WaitForCopy, CreateLocal, Pull, TakeAsIs, PopulateError,
          Acquired, LocalOpen, LocalFail, Shrink, Mark, InstallHandle, Swap, NoPath, Capture, Land,
          PushFail, Sync, SyncFail, Restore, FlushReply, CreateStat, DropReference, LastRelease,
          ReleaseDone, Rekey, fileVars
    <3> QED  BY <3>1, <3>2
  <2>2. CASE v # w
    <3>1. op[v] = "write" /\ UNCHANGED fh[v]
      BY <2>2, RequestLeaves, StepLeaves DEF Stays
    <3> QED  BY <2>1, <3>1 DEF DInv, WritersUnflushed
  <2>3. CASE v = w
    <3>1. op[w] = "write" /\ UNCHANGED fh[w]
      <4>1. CASE KernelRequest(w)
        BY <1>3, <2>3, <4>1
        DEF KernelRequest, FileRequest, Open, Create, Truncate, Begin, Release, Move, MoveAstray,
            fileVars, HInv, HandlerTypeOK
      <4>2. CASE HandlerStep(w)
        BY <2>3, <4>2
        DEF HandlerStep, FileStep, NewCopy, WaitForCopy, CreateLocal, Pull, TakeAsIs,
            PopulateError, Acquired, LocalOpen, LocalFail, Shrink, Mark, InstallHandle, Swap,
            NoPath, Capture, Land, PushFail, Sync, SyncFail, Restore, FlushReply, CreateStat,
            DropReference, LastRelease, ReleaseDone, Rekey, Reply, fileVars, HInv, HandlerTypeOK
      <4> QED  BY <4>1, <4>2
    <3> QED  BY <2>1, <2>3, <3>1 DEF DInv, WritersUnflushed
  <2> QED  BY <2>2, <2>3
<1> QED  BY <1>1, <1>2, <1>3

\* The table forgets that a copy was populated only when it starts a new one.
LEMMA PulledStays ==
  ASSUME IInv, NEW w \in Workers, Request(w) \/ Step(w) \/ UNCHANGED copyVars
  PROVE  /\ \A c \in Copies : pulled[c] => pulled'[c] \/ c \in Fresh
         /\ pc'[w] = "remove" => \/ pulled[held[w]] /\ held'[w] = held[w] /\ pc[w] = "release"
                                 \/ UNCHANGED <<pc, held>>
         /\ pc'[w] = "count" => \/ Populate(w)
                                \/ UNCHANGED copyVars
<1>1. CASE UNCHANGED copyVars
  BY <1>1 DEF copyVars
<1>2. CASE Request(w)
  BY <1>2 DEF Request, Acquire, ReleaseHandle, IInv, CopyTypeOK
<1>3. CASE Step(w)
  <2>1. \A c \in Copies : pulled[c] => pulled'[c] \/ c \in Fresh
    BY <1>3 DEF Step, LookupMapped, LookupNew, Lock, Retry, Populate, PopulateFail, Count, Install,
                Drop, ReleaseShared, ReleaseLast, RemoveFile, Unmap, Unlock, IInv, CopyTypeOK
  <2>2. pc'[w] = "remove" => ReleaseLast(w)
    BY <1>3 DEF Step, LookupMapped, LookupNew, Lock, Retry, Populate, PopulateFail, Count, Install,
                Drop, ReleaseShared, RemoveFile, Unmap, Unlock, IInv, CopyTypeOK
  <2>3. pc'[w] = "count" => Populate(w)
    BY <1>3 DEF Step, LookupMapped, LookupNew, Lock, Retry, PopulateFail, Count, Install,
                Drop, ReleaseShared, ReleaseLast, RemoveFile, Unmap, Unlock, IInv, CopyTypeOK
  <2> QED  BY <2>1, <2>2, <2>3 DEF ReleaseLast, IInv, FilesOK
<1> QED  BY <1>1, <1>2, <1>3

\* The copy whose local file is being removed was populated.
LEMMA RemovedStaysPulled ==
  ASSUME IInv, HInv, TInv, DInv, NEW w \in Workers, KernelRequest(w) \/ HandlerStep(w)
  PROVE  RemovedWasPulled'
<1> SUFFICES ASSUME NEW v \in Workers, pc'[v] = "remove"  PROVE pulled'[held'[v]]
  BY DEF RemovedWasPulled
<1>1. Request(w) \/ Step(w) \/ UNCHANGED copyVars
  BY RequestRefines, StepRefines
<1>2. pulled[held[v]] /\ held'[v] = held[v] /\ pc[v] \in {"release", "remove"}
  <2>1. CASE v # w
    BY <2>1, RequestLeaves, StepLeaves DEF Stays, DInv, RemovedWasPulled
  <2>2. CASE v = w
    BY <1>1, <2>2, PulledStays DEF DInv, RemovedWasPulled
  <2> QED  BY <2>1, <2>2
<1>3. held[v] \in Copies /\ held[v] \notin Fresh
  BY <1>2 DEF IInv, HeldOK, Fresh
<1> QED  BY <1>1, <1>2, <1>3, PulledStays

\* Nobody writes to a local file before acquire_copy has returned it to somebody.
LEMMA FilledStays ==
  ASSUME IInv, HInv, TInv, SInv, DInv, NEW w \in Workers, KernelRequest(w) \/ HandlerStep(w)
  PROVE  FilledFromDevice'
<1> SUFFICES ASSUME NEW v \in Workers, NEW x \in Writes, pc'[v] = "count",
                    ~pulled'[held'[v]], x \in local'[ino'[v]] \cap written'[ino'[v]]
             PROVE  x \in delivered'[ino'[v]]
  BY DEF FilledFromDevice
<1>1. Request(w) \/ Step(w) \/ UNCHANGED copyVars
  BY RequestRefines, StepRefines
<1>2. CASE v = w /\ Populate(w)
  <2>1. pc[w] = "populate" /\ ino'[w] = ino[w] /\ held'[w] = held[w] /\ pulled' = pulled
    BY <1>2 DEF Populate
  <2>2. ino[w] \in Inodes /\ op[w] \in {"open", "create", "truncate"} /\ stage[w] = "none" /\ fh[w] = NoFh
    BY <2>1, Acquiring DEF IInv, HeldOK
  <2>3. CreateLocal(w) \/ Pull(w) \/ TakeAsIs(w)
    <3>1. CASE KernelRequest(w)
      BY <2>1, <2>2, <3>1 DEF KernelRequest, FileRequest, Open, Create, Truncate, Begin, Release,
                              WriteLocal, Flush, Move, MoveAstray, CanMove, Free
    <3>2. CASE HandlerStep(w)
      BY <1>2, <2>1, <2>2, <3>2
      DEF HandlerStep, FileStep, NewCopy, LookupNew, WaitForCopy, LookupMapped, Lock, Retry,
          PopulateError, PopulateFail, Acquired, Count, LocalOpen, LocalFail, Shrink, Mark,
          InstallHandle, Swap, NoPath, Capture, Land, PushFail, Sync, SyncFail, Restore,
          FlushReply, CreateStat, DropReference, LastRelease, ReleaseLast, RemoveFile, Unmap,
          ReleaseDone, ReleaseShared, Unlock, Rekey, copyVars, IInv, CopyTypeOK
    <3> QED  BY <3>1, <3>2
  <2> QED
    BY <1>2, <2>1, <2>2, <2>3
    DEF CreateLocal, Pull, TakeAsIs, TInv, TypeOK, Contents, fileVars
<1>3. CASE ~(v = w /\ Populate(w))
  <2>1. pc[v] = "count" /\ held'[v] = held[v] /\ ino'[v] = ino[v]
    <3>1. CASE v # w
      BY <3>1, RequestLeaves, StepLeaves DEF Stays
    <3>2. CASE v = w
      BY <1>1, <1>3, <3>2, PulledStays DEF copyVars
    <3> QED  BY <3>1, <3>2
  <2>2. held[v] \in Copies /\ held[v] \notin Fresh /\ ino[v] \in Inodes
    BY <2>1 DEF IInv, HeldOK, Fresh
  <2>3. ~pulled[held[v]]
    BY <1>1, <2>1, <2>2, PulledStays
  <2>4. /\ \A u \in Workers : stage[u] # "none" \/ fh[u] # NoFh => InodeOf(u) # ino[v]
        /\ \A h \in Opened : open_files[h].ino # ino[v]
        /\ \A u \in Workers \ {v} : pc[u] = "populate" => ino[u] # ino[v]
    BY <2>1, <2>3, BeingFilled
  <2>5. pc[w] = "populate" => ino[w] # ino[v]
    BY <2>1, <2>4
  <2>6. /\ local'[ino[v]] = local[ino[v]]
        /\ written'[ino[v]] = written[ino[v]]
        /\ delivered[ino[v]] \subseteq delivered'[ino[v]]
    <3>1. CASE KernelRequest(w)
      BY <2>2, <2>4, <3>1
      DEF KernelRequest, FileRequest, Open, Create, Truncate, Begin, Release, WriteLocal, Flush,
          Move, MoveAstray, fileVars, TInv, TypeOK
    <3>2. CASE Shrink(w)
      <4>1. InodeOf(w) = ino[w] /\ ino[w] # ino[v]
        BY <2>4, <3>2 DEF Shrink, InodeOf, SInv, StagesOf, Pushing, HInv, HandlerTypeOK, Ops
      <4> QED  BY <2>2, <3>2, <4>1 DEF Shrink, TInv, TypeOK
    <3>3. CASE CreateLocal(w) \/ Pull(w) \/ PopulateError(w)
      BY <2>2, <2>5, <3>3
      DEF CreateLocal, Pull, PopulateError, Populate, PopulateFail, TInv, TypeOK
    <3>4. CASE HandlerStep(w) /\ ~(Shrink(w) \/ CreateLocal(w) \/ Pull(w) \/ PopulateError(w))
      BY <2>2, <3>4
      DEF HandlerStep, FileStep, NewCopy, WaitForCopy, TakeAsIs, Acquired, LocalOpen, LocalFail,
          Mark, InstallHandle, Swap, NoPath, Capture, Land, PushFail, Sync, SyncFail, Restore,
          FlushReply, CreateStat, DropReference, LastRelease, ReleaseDone, Rekey, fileVars,
          TInv, TypeOK
    <3> QED  BY <3>1, <3>2, <3>3, <3>4
  <2> QED  BY <2>1, <2>3, <2>6 DEF DInv, FilledFromDevice
<1> QED  BY <1>2, <1>3

\* The invariant holds of every state the handlers reach.
LEMMA WritesAreKept == Spec => [](IInv /\ HInv /\ TInv /\ SInv /\ DInv)
<1>1. Init => DInv
  BY DEF Init, CopyInitState, DInv, WritersUnflushed, FilledFromDevice, RemovedWasPulled,
         Remembered, Accounted, Held
<1>2. IInv /\ HInv /\ TInv /\ SInv /\ DInv /\ [Next]_vars => DInv'
  <2>1. ASSUME DInv, UNCHANGED vars  PROVE DInv'
    BY <2>1
    DEF DInv, WritersUnflushed, FilledFromDevice, RemovedWasPulled, Remembered, Accounted, Held,
        Marking, UnderWay, Asking, Unflushed, Opened, InodeOf, vars, copyVars, fileVars
  <2>2. ASSUME IInv, HInv, TInv, SInv, DInv, NEW w \in Workers,
               KernelRequest(w) \/ HandlerStep(w)
        PROVE  DInv'
    BY <2>2, RequestKeepsWrites, StepKeepsWrites, WritersStayUnflushed, RemovedStaysPulled,
       FilledStays
    DEF DInv
  <2> QED  BY <2>1, <2>2 DEF Next
<1> QED  BY <1>1, <1>2, HandlersStaged, PTL DEF Spec

\* push_if_dirty takes no lock, and yet drops no write: an acknowledged write that a
\* clean copy holds has been pushed, or a push under way has it (fs.rs, the comment
\* on push_if_dirty).
THEOREM NoWriteIsForgotten == Spec => []NoWriteForgotten
<1>1. IInv /\ TInv /\ DInv => NoWriteForgotten
  <2> SUFFICES ASSUME TInv, DInv, NEW i \in Inodes, open_copies[i] # NoCopy,
                      pulled[open_copies[i]], ~dirty[open_copies[i]],
                      NEW x \in local[i] \cap Acked(i)
               PROVE  \/ x \in delivered[i]
                      \/ \E w \in WorkingOn(i, Pushing) : stage[w] = "capture" \/ x \in snap[w]
    BY DEF NoWriteForgotten
  <2>1. x \in Writes /\ Held(i, x)
    BY DEF Acked, WorkingOn, Held, Marking, TInv, TypeOK
  <2>2. x \in delivered[i] \/ UnderWay(i, x)
    BY <2>1 DEF DInv, Remembered
  <2> QED  BY <2>2 DEF UnderWay, WorkingOn
<1> QED  BY <1>1, WritesAreKept, PTL

\* The last release deletes the local file without a look at the flag, and loses no
\* acknowledged write but one whose push failed and was answered with an error.
THEOREM NothingIsLostSilently == Spec => []NoSilentLoss
<1>1. IInv /\ HInv /\ TInv /\ DInv => NoSilentLoss
  <2> SUFFICES ASSUME IInv, HInv, TInv, DInv, NEW w \in Workers, pc[w] = "remove",
                      NEW x \in local[ino[w]] \cap Acked(ino[w])
               PROVE  x \in delivered[ino[w]] \cup failed[ino[w]]
    BY DEF NoSilentLoss
  <2>1. /\ ino[w] \in Inodes /\ held[w] \in Copies
        /\ open_copies[ino[w]] = held[w] /\ evicted[held[w]] /\ pulled[held[w]]
    BY DEF IInv, HeldOK, LiveOK, DInv, RemovedWasPulled
  <2>2. x \in Writes /\ Held(ino[w], x)
    BY <2>1, IdentitiesAreDistinct DEF Acked, WorkingOn, Held, Marking, TInv, TypeOK
  <2>3. ~Unflushed(ino[w])
    BY <2>1 DEF Unflushed, IInv, OneCopyPerInode
  <2>4. \A v \in Workers : stage[v] # "none" => InodeOf(v) # ino[w]
    BY <2>1, Where
  <2> QED  BY <2>1, <2>2, <2>3, <2>4 DEF DInv, Accounted, UnderWay, Asking, Pushing
<1> QED  BY <1>1, WritesAreKept, PTL


------------------------------------------------------------------------------
(***************************************************************************)
(* The handlers implement OneFile.  The users of an inode are its handles  *)
(* and the workers with a reference; its contents are those of the local   *)
(* file while there is a user.  First, which change of the two is which    *)
(* step of OneFile.                                                        *)
(***************************************************************************)
SameUsers(I) == \A j \in I : UsersOf(j)' = UsersOf(j)

LEMMA NobodyMoves ==
  ASSUME SameUsers(Inodes), \A j \in Inodes : UsersOf(j) # {} => local'[j] = local[j]
  PROVE  UNCHANGED Shared!file
BY DEF SameUsers, Shared!file

LEMMA OneEnters ==
  ASSUME NEW i \in Inodes, NEW u \in Handles \cup Workers, SameUsers(Inodes \ {i}),
         u \notin UsersOf(i), UsersOf(i)' = UsersOf(i) \cup {u},
         local[i] \in Contents, UNCHANGED local
  PROVE  Shared!Next
<1>1. local[i] \in SUBSET (Writes \cup Sizes \cup {OnDevice})
  BY DEF Contents
<1>2. Shared!Enter(i, u)
  BY <1>1 DEF Shared!Enter, Shared!Used, SameUsers
<1>3. UsersOf(i)' # UsersOf(i)
  OBVIOUS
<1> QED  BY <1>2, <1>3 DEF Shared!Next

LEMMA OneHands ==
  ASSUME NEW i \in Inodes, NEW u \in Handles \cup Workers, NEW v \in Handles \cup Workers,
         SameUsers(Inodes \ {i}), u \in UsersOf(i), v \notin UsersOf(i),
         UsersOf(i)' = (UsersOf(i) \ {u}) \cup {v}, UNCHANGED local
  PROVE  Shared!Next
<1>1. Shared!Hand(i, u, v)
  BY DEF Shared!Hand, SameUsers
<1>2. UsersOf(i)' # UsersOf(i)
  OBVIOUS
<1> QED  BY <1>1, <1>2 DEF Shared!Next

LEMMA OneLeaves ==
  ASSUME NEW i \in Inodes, NEW u \in Handles \cup Workers, SameUsers(Inodes \ {i}),
         u \in UsersOf(i), UsersOf(i)' = UsersOf(i) \ {u}, UNCHANGED local
  PROVE  Shared!Next
<1>1. UsersOf(i)' = {} <=> UsersOf(i) = {u}
  OBVIOUS
<1>2. Shared!Leave(i, u)
  BY <1>1 DEF Shared!Leave, SameUsers
<1>3. UsersOf(i)' # UsersOf(i)
  OBVIOUS
<1> QED  BY <1>2, <1>3 DEF Shared!Next

LEMMA OneChanges ==
  ASSUME NEW i \in Inodes, SameUsers(Inodes), UsersOf(i) # {},
         \A j \in Inodes \ {i} : local'[j] = local[j],
         \/ \E x \in Writes : local'[i] = local[i] \cup {x}
         \/ \E n \in Writes \cup Sizes \cup {0} : local'[i] = {x \in local[i] : x < n}
  PROVE  Shared!Next \/ UNCHANGED Shared!file
<1>0. CASE local'[i] = local[i]
  BY <1>0, NobodyMoves
<1>1. ASSUME local'[i] # local[i], NEW x \in Writes, local'[i] = local[i] \cup {x}
      PROVE  Shared!Next
  <2>1. Shared!Write(i, x)
    BY <1>1 DEF Shared!Write, Shared!Used, SameUsers
  <2> QED  BY <1>1, <2>1 DEF Shared!Next, SameUsers
<1>2. ASSUME local'[i] # local[i], NEW n \in Writes \cup Sizes \cup {0},
             local'[i] = {x \in local[i] : x < n}
      PROVE  Shared!Next
  <2>1. Shared!Cut(i, n)
    BY <1>2 DEF Shared!Cut, Shared!Used, SameUsers
  <2> QED  BY <1>2, <2>1 DEF Shared!Next, OnDevice, SameUsers
<1> QED  BY <1>0, <1>1, <1>2


\* What acquire_copy fills from the device or empties for want of it is no user's.
LEMMA FilledForNobody ==
  ASSUME IInv, NEW w \in Workers, pc[w] = "populate", ~pulled[held[w]]
  PROVE  ino[w] \in Inodes /\ UsersOf(ino[w]) = {}
<1>1. held[w] \in Copies /\ open_copies[ino[w]] = held[w] /\ ino[w] \in Inodes
  BY IdentitiesAreDistinct DEF IInv, HeldOK, LiveOK
<1>2. \A h \in Opened : open_files[h].ino # ino[w]
  BY <1>1 DEF IInv, OneCopyPerInode, FilesOK
<1>3. \A v \in Workers : pc[v] \in {"using", "release"} => ino[v] # ino[w]
  BY <1>1 DEF IInv, OneCopyPerInode, FilesOK
<1> QED  BY <1>1, <1>2, <1>3 DEF UsersOf

\* Handles and threads that take part in nothing stay users, or no users.
LEMMA UsersStay ==
  ASSUME NEW w \in Workers, OthersStay(w), UNCHANGED open_files,
         pc[w] \in {"using", "release"} <=> pc'[w] \in {"using", "release"},
         pc[w] \in {"using", "release"} => ino'[w] = ino[w]
  PROVE  SameUsers(Inodes)
<1> SUFFICES ASSUME NEW j \in Inodes  PROVE UsersOf(j)' = UsersOf(j)
  BY DEF SameUsers
<1>1. {h \in Opened : open_files[h].ino = j}' = {h \in Opened : open_files[h].ino = j}
  BY DEF Opened
<1>2. \A v \in Workers : pc'[v] \in {"using", "release"} /\ ino'[v] = j
                            <=> pc[v] \in {"using", "release"} /\ ino[v] = j
  BY DEF OthersStay, Stays
<1> QED  BY <1>1, <1>2 DEF UsersOf

\* Of what the kernel asks, a write changes the file, and RELEASE takes the reference
\* from the handle.
LEMMA RequestShares ==
  ASSUME IInv, HInv, TInv, NEW w \in Workers, KernelRequest(w)
  PROVE  Shared!Next \/ UNCHANGED Shared!file
<1> USE DEF HInv, HandlerTypeOK, Serving, IInv, CopyTypeOK
<1>0. OthersStay(w)
  BY RequestLeaves DEF OthersStay
<1>1. CASE \/ \E i \in Inodes : Open(w, i) \/ Create(w, i)
           \/ \E i \in Inodes, n \in Sizes : Truncate(w, i, n)
           \/ \E h \in Handles : Flush(w, h)
           \/ \E p, q \in Paths : Move(w, p, q) \/ MoveAstray(w, p, q)
  <2>1. /\ pc[w] = "idle" /\ pc'[w] \in {"idle", "lookup"}
        /\ UNCHANGED <<open_files, local>>
    BY <1>1 DEF Open, Create, Truncate, Begin, Acquire, Flush, Move, MoveAstray, CanMove, Free,
                copyVars
  <2> QED  BY <1>0, <2>1, UsersStay, NobodyMoves
<1>2. ASSUME NEW h \in Handles, NEW x \in Writes, WriteLocal(w, h, x)
      PROVE  Shared!Next \/ UNCHANGED Shared!file
  <2>1. PICK i \in Inodes : i = open_files[h].ino
    BY <1>2 DEF WriteLocal, Opened, Entry
  <2>2. h \in UsersOf(i)
    BY <1>2, <2>1 DEF WriteLocal, UsersOf
  <2>3. SameUsers(Inodes)
    BY <1>0, <1>2, UsersStay DEF WriteLocal, copyVars
  <2>4. local' = [local EXCEPT ![i] = @ \cup {x}] /\ local \in [Inodes -> Contents]
    BY <1>2, <2>1 DEF WriteLocal, TInv, TypeOK
  <2> QED  BY <2>2, <2>3, <2>4, OneChanges
<1>3. ASSUME NEW h \in Handles, Release(w, h)  PROVE Shared!Next
  <2>1. PICK i \in Inodes : i = open_files[h].ino
    BY <1>3 DEF Release, ReleaseHandle, Opened, Entry
  <2>2. /\ pc[w] = "idle" /\ pc'[w] = "release" /\ ino'[w] = i
        /\ open_files[h] # NoHandle /\ open_files'[h] = NoHandle
        /\ \A g \in Handles \ {h} : open_files'[g] = open_files[g]
        /\ UNCHANGED local
    BY <1>3, <2>1 DEF Release, ReleaseHandle, Opened, fileVars
  <2>3. w \notin Handles
    BY IdentitiesAreDistinct
  <2>4. ASSUME NEW j \in Inodes
        PROVE  UsersOf(j)' = IF j = i THEN (UsersOf(i) \ {h}) \cup {w} ELSE UsersOf(j)
    <3>1. {g \in Opened : open_files[g].ino = j}'
            = {g \in Opened : open_files[g].ino = j} \ {h}
      BY <2>2 DEF Opened
    <3>2. {v \in Workers : pc[v] \in {"using", "release"} /\ ino[v] = j}'
            = {v \in Workers : pc[v] \in {"using", "release"} /\ ino[v] = j}
                \cup (IF j = i THEN {w} ELSE {})
      BY <1>0, <2>2 DEF OthersStay, Stays
    <3>3. h \notin Workers /\ (h \in {g \in Opened : open_files[g].ino = j} => j = i)
      BY <2>1, IdentitiesAreDistinct
    <3>4. h \notin {v \in Workers : pc[v] \in {"using", "release"} /\ ino[v] = j}
      BY <3>3
    <3> QED  BY <3>1, <3>2, <3>3, <3>4 DEF UsersOf
  <2>5. h \in UsersOf(i) /\ w \notin UsersOf(i)
    BY <2>1, <2>2, <2>3 DEF UsersOf, Opened
  <2> QED  BY <2>2, <2>4, <2>5, OneHands DEF SameUsers
<1> QED  BY <1>1, <1>2, <1>3 DEF KernelRequest, FileRequest


\* A worker becomes a user with the reference acquire_copy counts, hands it over to its
\* handle, and is none when release_copy has given it back.
LEMMA StepShares ==
  ASSUME IInv, HInv, TInv, SInv, NEW w \in Workers, HandlerStep(w)
  PROVE  Shared!Next \/ UNCHANGED Shared!file
<1> USE DEF HInv, HandlerTypeOK, Serving, IInv, CopyTypeOK
<1>0. OthersStay(w)
  BY StepLeaves DEF OthersStay
<1>1. CASE \/ \E c \in Copies : NewCopy(w, c)
           \/ WaitForCopy(w) \/ TakeAsIs(w) \/ LocalFail(w) \/ DropReference(w)
           \/ (RemoveFile(w) \/ Unmap(w)) /\ UNCHANGED fileVars
  <2>1. /\ pc[w] \in {"using", "release"} <=> pc'[w] \in {"using", "release"}
        /\ pc[w] \in {"using", "release"} => ino'[w] = ino[w]
        /\ UNCHANGED <<open_files, local>>
    BY <1>1
    DEF NewCopy, LookupNew, WaitForCopy, LookupMapped, Lock, Retry, TakeAsIs, Populate,
        LocalFail, DropReference, Drop, RemoveFile, Unmap, fileVars
  <2> QED  BY <1>0, <2>1, UsersStay, NobodyMoves
<1>2. CASE \/ LocalOpen(w) \/ Mark(w) \/ Swap(w) \/ NoPath(w) \/ Capture(w) \/ Land(w)
           \/ PushFail(w) \/ Sync(w) \/ SyncFail(w) \/ Restore(w) \/ FlushReply(w)
           \/ CreateStat(w) \/ Rekey(w)
  <2>1. UNCHANGED copyVars /\ UNCHANGED local
    BY <1>2
    DEF LocalOpen, Mark, Swap, NoPath, Capture, Land, PushFail, Sync, SyncFail, Restore,
        FlushReply, CreateStat, Rekey
  <2> QED  BY <1>0, <2>1, UsersStay, NobodyMoves DEF copyVars
<1>3. CASE CreateLocal(w) \/ Pull(w) \/ PopulateError(w)
  <2>1. /\ pc[w] = "populate" /\ pc'[w] \notin {"using", "release"} /\ UNCHANGED open_files
        /\ local \in [Inodes -> Contents]
    BY <1>3 DEF CreateLocal, Pull, PopulateError, Populate, PopulateFail, TInv, TypeOK
  <2>2. SameUsers(Inodes)
    BY <1>0, <2>1, UsersStay
  <2>3. CASE CreateLocal(w)
    <3>1. ino[w] \in Inodes
      BY <2>1 DEF HeldOK
    <3>2. CASE UsersOf(ino[w]) = {}
      <4>1. \A j \in Inodes : UsersOf(j) # {} => local'[j] = local[j]
        BY <2>1, <2>3, <3>2 DEF CreateLocal
      <4> QED  BY <2>2, <4>1, NobodyMoves
    <3>3. CASE UsersOf(ino[w]) # {}
      <4>1. local'[ino[w]] = {x \in local[ino[w]] : x < 0}
        <5>1. \A x \in Writes \cup {OnDevice} : ~(x < 0)
          BY WritesHavePlaces DEF OnDevice
        <5>2. local[ino[w]] \subseteq Writes \cup {OnDevice}
          BY <2>1, <3>1 DEF Contents
        <5>3. local'[ino[w]] = {}
          BY <2>1, <2>3, <3>1 DEF CreateLocal
        <5> QED  BY <5>1, <5>2, <5>3
      <4>2. \A j \in Inodes \ {ino[w]} : local'[j] = local[j]
        BY <2>1, <2>3 DEF CreateLocal
      <4> QED  BY <2>2, <3>1, <3>3, <4>1, <4>2, OneChanges
    <3> QED  BY <3>2, <3>3
  <2>4. CASE Pull(w) \/ PopulateError(w)
    <3>1. local' = local \/ ~pulled[held[w]]
      BY <2>4 DEF Pull, PopulateError, PopulateFail, MustPopulate
    <3>2. \A j \in Inodes : UsersOf(j) # {} => local'[j] = local[j]
      <4>1. CASE local' = local
        BY <4>1
      <4>2. CASE ~pulled[held[w]]
        <5>1. UsersOf(ino[w]) = {}
          BY <2>1, <4>2, FilledForNobody
        <5> QED  BY <2>1, <2>4, <5>1 DEF Pull, PopulateError
      <4> QED  BY <3>1, <4>1, <4>2
    <3> QED  BY <2>2, <3>2, NobodyMoves
  <2> QED  BY <1>3, <2>3, <2>4
<1>4. CASE Acquired(w)
  <2>1. PICK i \in Inodes : i = ino[w]
    BY <1>4 DEF Acquired, Count, HeldOK
  <2>2. /\ pc[w] = "count" /\ pc'[w] = "using" /\ ino'[w] = i
        /\ UNCHANGED <<open_files, local>>
    BY <1>4, <2>1 DEF Acquired, Count
  <2>3. w \notin Handles
    BY IdentitiesAreDistinct
  <2>4. ASSUME NEW j \in Inodes
        PROVE  UsersOf(j)' = IF j = i THEN UsersOf(i) \cup {w} ELSE UsersOf(j)
    <3>1. {g \in Opened : open_files[g].ino = j}' = {g \in Opened : open_files[g].ino = j}
      BY <2>2 DEF Opened
    <3>2. {v \in Workers : pc[v] \in {"using", "release"} /\ ino[v] = j}'
            = {v \in Workers : pc[v] \in {"using", "release"} /\ ino[v] = j}
                \cup (IF j = i THEN {w} ELSE {})
      BY <1>0, <2>2 DEF OthersStay, Stays
    <3> QED  BY <3>1, <3>2 DEF UsersOf
  <2>5. w \notin UsersOf(i) /\ local[i] \in Contents
    BY <2>2, <2>3 DEF UsersOf, Opened, TInv, TypeOK
  <2> QED  BY <2>2, <2>4, <2>5, OneEnters DEF SameUsers
<1>5. CASE Shrink(w)
  <2>1. /\ stage[w] = "shrink" /\ UNCHANGED copyVars
        /\ local' = [local EXCEPT ![ino[w]] = {x \in @ : x < arg[w]}]
        /\ local \in [Inodes -> Contents]
    BY <1>5 DEF Shrink, TInv, TypeOK
  <2>2. pc[w] = "using" /\ ino[w] \in Inodes /\ w \in UsersOf(ino[w])
    BY <2>1 DEF SInv, StagesOf, Pushing, Ops, HeldOK, UsersOf
  <2>3. SameUsers(Inodes)
    BY <1>0, <2>1, UsersStay DEF copyVars
  <2>4. arg[w] \in Writes \cup Sizes \cup {0}
    BY DEF TInv, TypeOK
  <2>5. /\ local'[ino[w]] = {x \in local[ino[w]] : x < arg[w]}
        /\ \A j \in Inodes \ {ino[w]} : local'[j] = local[j]
    BY <2>1, <2>2
  <2> QED  BY <2>2, <2>3, <2>4, <2>5, OneChanges
<1>6. ASSUME NEW h \in Handles, InstallHandle(w, h)  PROVE Shared!Next
  <2>1. PICK i \in Inodes : i = ino[w]
    BY <1>6 DEF InstallHandle, Install, HeldOK
  <2>2. /\ pc[w] = "using" /\ pc'[w] = "idle" /\ ino[w] = i
        /\ open_files[h] = NoHandle /\ open_files'[h] # NoHandle /\ open_files'[h].ino = i
        /\ \A g \in Handles \ {h} : open_files'[g] = open_files[g]
        /\ UNCHANGED local
    BY <1>6, <2>1, IdentitiesAreDistinct DEF InstallHandle, Install, HeldOK
  <2>3. h \notin Workers
    BY IdentitiesAreDistinct
  <2>4. ASSUME NEW j \in Inodes
        PROVE  UsersOf(j)' = IF j = i THEN (UsersOf(i) \ {w}) \cup {h} ELSE UsersOf(j)
    <3>1. {g \in Opened : open_files[g].ino = j}'
            = {g \in Opened : open_files[g].ino = j} \cup (IF j = i THEN {h} ELSE {})
      BY <2>2 DEF Opened
    <3>2. {v \in Workers : pc[v] \in {"using", "release"} /\ ino[v] = j}'
            = {v \in Workers : pc[v] \in {"using", "release"} /\ ino[v] = j} \ {w}
      BY <1>0, <2>2 DEF OthersStay, Stays
    <3>3. w \notin {g \in Opened : open_files[g].ino = j}
      BY IdentitiesAreDistinct DEF Opened
    <3>4. j # i => w \notin {v \in Workers : pc[v] \in {"using", "release"} /\ ino[v] = j}
      BY <2>2
    <3> QED  BY <3>1, <3>2, <3>3, <3>4 DEF UsersOf
  <2>5. w \in UsersOf(i) /\ h \notin UsersOf(i)
    BY <2>2, <2>3 DEF UsersOf, Opened
  <2> QED  BY <2>2, <2>4, <2>5, OneHands DEF SameUsers
<1>7. CASE (ReleaseLast(w) /\ UNCHANGED fileVars) \/ ReleaseDone(w)
  <2>1. CASE Unlock(w)
    <3>1. /\ pc[w] = "unlock" /\ pc'[w] = "idle" /\ UNCHANGED <<open_files, local>>
      BY <1>7, <2>1 DEF Unlock, ReleaseLast, ReleaseDone
    <3> QED  BY <1>0, <3>1, UsersStay, NobodyMoves
  <2>2. CASE ~Unlock(w)
    <3>1. /\ pc[w] = "release" /\ pc'[w] \in {"remove", "idle"}
          /\ UNCHANGED <<open_files, local>>
      BY <1>7, <2>2 DEF ReleaseLast, ReleaseDone, ReleaseShared, fileVars
    <3>2. PICK i \in Inodes : i = ino[w]
      BY <3>1 DEF HeldOK
    <3>3. ASSUME NEW j \in Inodes
          PROVE  UsersOf(j)' = IF j = i THEN UsersOf(i) \ {w} ELSE UsersOf(j)
      <4>1. {g \in Opened : open_files[g].ino = j}' = {g \in Opened : open_files[g].ino = j}
        BY <3>1 DEF Opened
      <4>2. {v \in Workers : pc[v] \in {"using", "release"} /\ ino[v] = j}'
              = {v \in Workers : pc[v] \in {"using", "release"} /\ ino[v] = j} \ {w}
        BY <1>0, <3>1 DEF OthersStay, Stays
      <4>3. w \notin {g \in Opened : open_files[g].ino = j}
        BY IdentitiesAreDistinct DEF Opened
      <4>4. j # i => w \notin {v \in Workers : pc[v] \in {"using", "release"} /\ ino[v] = j}
        BY <3>2
      <4> QED  BY <4>1, <4>2, <4>3, <4>4 DEF UsersOf
    <3>4. w \in UsersOf(i)
      BY <3>1, <3>2 DEF UsersOf
    <3> QED  BY <3>1, <3>3, <3>4, OneLeaves DEF SameUsers
  <2> QED  BY <2>1, <2>2
<1> QED
  BY <1>1, <1>2, <1>3, <1>4, <1>5, <1>6, <1>7 DEF HandlerStep, FileStep, LastRelease

\* open, create, setattr, write, flush and release of any number of threads implement
\* one file per inode, shared by all who have it open: local copies "behave like two
\* descriptors on one file" (fs.rs, the comment on LocalCopy).
THEOREM OpensShareOneFile == Spec => SharedFile
<1>1. Init => Shared!Init
  BY DEF Init, CopyInitState, Shared!Init, UsersOf, Opened
<1>2. IInv /\ HInv /\ TInv /\ SInv /\ [Next]_vars => [Shared!Next]_(Shared!file)
  <2>1. ASSUME UNCHANGED vars  PROVE UNCHANGED Shared!file
    BY <2>1 DEF vars, copyVars, fileVars, Shared!file, UsersOf, Opened
  <2> QED  BY <2>1, RequestShares, StepShares DEF Next
<1> QED  BY <1>1, <1>2, HandlersStaged, PTL DEF Spec, SharedFile, Shared!Spec
=============================================================================
