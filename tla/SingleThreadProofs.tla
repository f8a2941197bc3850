-------------------------- MODULE SingleThreadProofs --------------------------
(***************************************************************************)
(* Proofs about where a push goes and what the device has after it, when   *)
(* requests are served one at a time: the mount option -s, or one worker.  *)
(* With more workers the first does not hold: run StaleClean.              *)
(***************************************************************************)
EXTENDS FileDataProofs

OneThread == \A v, w \in Workers : v = w

(***************************************************************************)
(* Renames, with any number of workers.  ino_to_path tells where the       *)
(* device has a file, until a rename has failed half-way; during a rename  *)
(* it is one rekey_paths behind.                                           *)
(***************************************************************************)
Agree(paths, i) ==
  paths[i] = home[i] \/ {paths[i], home[i]} \subseteq astray \cup {Nowhere}

OneRename == \A v, w \in Workers : op[v] = "rename" /\ op[w] = "rename" => v = w

HomesDiffer == \A i, j \in Inodes : home[i] = home[j] /\ home[i] # Nowhere => i = j

PathsAgree ==
  /\ (\A w \in Workers : op[w] # "rename") => \A i \in Inodes : Agree(path, i)
  /\ \A w \in Workers : op[w] = "rename" =>
       \A i \in Inodes : Agree(Renamed(path, remote[w][1], remote[w][2]), i)

PInv == OneRename /\ HomesDiffer /\ PathsAgree

\* Only mv starts a rename, and only rekey_paths ends it.
LEMMA OthersDoNotRename ==
  ASSUME HInv, NEW w \in Workers, FileRequest(w) \/ FileStep(w)
  PROVE  op[w] # "rename" /\ op'[w] # "rename"
<1> USE DEF HInv, HandlerTypeOK, Serving
<1>1. CASE \/ \E i \in Inodes : Open(w, i) \/ Create(w, i)
           \/ \E i \in Inodes, n \in Sizes : Truncate(w, i, n)
  BY <1>1 DEF Open, Create, Truncate, Begin, Free
<1>2. CASE \E h \in Handles : Flush(w, h) \/ Release(w, h) \/ \E x \in Writes : WriteLocal(w, h, x)
  BY <1>2 DEF Flush, Release, WriteLocal, Free, fileVars
<1>3. CASE \/ \E c \in Copies : NewCopy(w, c)
           \/ WaitForCopy(w) \/ CreateLocal(w) \/ Pull(w) \/ TakeAsIs(w) \/ PopulateError(w)
           \/ Acquired(w)
  BY <1>3
  DEF NewCopy, LookupNew, WaitForCopy, LookupMapped, Lock, Retry, CreateLocal, Pull, TakeAsIs,
      PopulateError, Acquired, Populate, PopulateFail, Count, fileVars
<1>4. CASE LastRelease(w) \/ ReleaseDone(w)
  BY <1>4
  DEF LastRelease, ReleaseLast, RemoveFile, Unmap, ReleaseDone, ReleaseShared, Unlock, Reply,
      fileVars
<1>5. CASE \/ LocalOpen(w) \/ LocalFail(w) \/ Shrink(w) \/ Mark(w) \/ Swap(w) \/ NoPath(w)
           \/ Capture(w) \/ Land(w) \/ PushFail(w) \/ Sync(w) \/ SyncFail(w) \/ Restore(w)
           \/ FlushReply(w) \/ CreateStat(w) \/ DropReference(w)
           \/ \E h \in Handles : InstallHandle(w, h)
  BY <1>5
  DEF LocalOpen, LocalFail, Shrink, Mark, Swap, NoPath, Capture, Land, PushFail, Sync, SyncFail,
      Restore, FlushReply, CreateStat, DropReference, InstallHandle, Reply
<1> QED  BY <1>1, <1>2, <1>3, <1>4, <1>5 DEF FileRequest, FileStep

\* A rename moves an inode's path as it moves the file of the inode.
LEMMA PathsStayAgreed ==
  ASSUME IInv, HInv, TInv, PInv, NEW w \in Workers, KernelRequest(w) \/ HandlerStep(w)
  PROVE  PInv'
<1>1. \A v \in Workers \ {w} : op'[v] = op[v] /\ remote'[v] = remote[v]
  BY RequestLeaves, StepLeaves DEF Stays
<1>2. ASSUME FileRequest(w) \/ FileStep(w), UNCHANGED pathVars  PROVE PInv'
  <2>1. op[w] # "rename" /\ op'[w] # "rename"
    BY <1>2, OthersDoNotRename
  <2> QED  BY <1>1, <1>2, <2>1 DEF PInv, OneRename, HomesDiffer, PathsAgree, Agree, Renamed, pathVars
<1>3. ASSUME NEW p \in Paths, NEW q \in Paths, CanMove(w, p, q), home' = Renamed(home, p, q)
      PROVE  HomesDiffer' /\ \A i \in Inodes : Agree(path, i)
  <2>1. p # q /\ p # Nowhere /\ q # Nowhere
    BY <1>3, NowhereIsNoPath DEF CanMove
  <2>2. HomesDiffer'
    BY <1>3, <2>1 DEF PInv, HomesDiffer, Renamed
  <2>3. \A v \in Workers : op[v] # "rename"
    BY <1>3 DEF CanMove
  <2> QED  BY <2>2, <2>3 DEF PInv, PathsAgree
<1>4. ASSUME NEW p \in Paths, NEW q \in Paths, Move(w, p, q)  PROVE PInv'
  <2>1. op'[w] = "rename" /\ remote'[w] = <<p, q>> /\ UNCHANGED path
    BY <1>4 DEF Move, HInv, HandlerTypeOK, TInv, TypeOK
  <2>2. \A i \in Inodes : Agree(Renamed(path, p, q), i)'
    <3> SUFFICES ASSUME NEW i \in Inodes  PROVE Agree(Renamed(path, p, q), i)'
      OBVIOUS
    <3>1. Agree(path, i) /\ home' = Renamed(home, p, q)
      BY <1>3, <1>4 DEF Move
    <3>2. astray \subseteq astray' /\ (p \in astray => q \in astray')
      BY <1>4 DEF Move
    <3>3. p # Nowhere /\ q # Nowhere
      BY NowhereIsNoPath
    <3>4. CASE path[i] = home[i]
      BY <2>1, <3>1, <3>4 DEF Agree, Renamed
    <3>5. CASE {path[i], home[i]} \subseteq astray \cup {Nowhere}
      <4>1. /\ Renamed(path, p, q)[i] \in astray' \cup {Nowhere}
            /\ Renamed(home, p, q)[i] \in astray' \cup {Nowhere}
        BY <3>2, <3>3, <3>5 DEF Renamed
      <4> QED  BY <2>1, <3>1, <4>1 DEF Agree, Renamed
    <3> QED  BY <3>1, <3>4, <3>5 DEF Agree
  <2>3. \A v \in Workers \ {w} : op'[v] # "rename"
    BY <1>1, <1>4 DEF Move, CanMove
  <2>4. HomesDiffer'
    BY <1>3, <1>4 DEF Move
  <2> QED  BY <2>1, <2>2, <2>3, <2>4 DEF PInv, OneRename, PathsAgree
<1>5. ASSUME NEW p \in Paths, NEW q \in Paths, MoveAstray(w, p, q)  PROVE PInv'
  <2>1. \A i \in Inodes : Agree(path, i)'
    BY <1>3, <1>5 DEF MoveAstray, Agree, Renamed
  <2>2. \A v \in Workers : op'[v] # "rename"
    BY <1>5 DEF MoveAstray, CanMove, HInv, HandlerTypeOK
  <2>3. HomesDiffer'
    BY <1>3, <1>5 DEF MoveAstray
  <2> QED  BY <2>1, <2>2, <2>3 DEF PInv, OneRename, PathsAgree
<1>6. ASSUME Rekey(w)  PROVE PInv'
  <2>1. \A v \in Workers : op'[v] # "rename"
    BY <1>1, <1>6 DEF Rekey, Reply, HInv, HandlerTypeOK, PInv, OneRename
  <2>2. \A i \in Inodes : Agree(path, i)'
    BY <1>6 DEF Rekey, PInv, PathsAgree, Agree
  <2> QED  BY <1>6, <2>1, <2>2 DEF Rekey, PInv, OneRename, HomesDiffer, PathsAgree
<1> QED  BY <1>2, <1>4, <1>5, <1>6 DEF KernelRequest, HandlerStep

\* ino_to_path is right, or one step behind, always.
LEMMA PathsTell == Spec => [](IInv /\ HInv /\ TInv /\ SInv /\ PInv)
<1>1. Init => PInv
  BY DEF Init, PInv, OneRename, HomesDiffer, PathsAgree, Agree
<1>2. IInv /\ HInv /\ TInv /\ SInv /\ PInv /\ [Next]_vars => PInv'
  <2>1. ASSUME PInv, UNCHANGED vars  PROVE PInv'
    BY <2>1 DEF PInv, OneRename, HomesDiffer, PathsAgree, Agree, Renamed, vars, fileVars, pathVars
  <2> QED  BY <2>1, PathsStayAgreed DEF Next
<1> QED  BY <1>1, <1>2, HandlersStaged, PTL DEF Spec


------------------------------------------------------------------------------
(***************************************************************************)
(* One worker.  Between requests a clean copy holds what the device has;   *)
(* what a handler has looked up is still so when it uses it.               *)
(***************************************************************************)

\* Nobody has changed the copy of an inode since it was filled or pushed.
Undisturbed(i) ==
  /\ Placed(i)
  /\ open_copies[i] # NoCopy /\ pulled[open_copies[i]] /\ ~evicted[open_copies[i]]
  /\ ~dirty[open_copies[i]]
  /\ \A w \in Workers : stage[w] \in {"mark"} \cup Pushing => InodeOf(w) # i
  /\ \A w \in Workers : pc[w] = "count" /\ init[w] = "Empty" => ino[w] # i

Synced == \A i \in Inodes : Undisturbed(i) => local[i] = device[home[i]]

\* acquire_copy pulls from the path the inode has.
LookedUp ==
  \A w \in Workers :
    pc[w] \in {"lookup", "lock", "populate", "count"} => remote[w] = <<path[ino[w]]>>

JustPulled ==
  \A w \in Workers :
    pc[w] = "count" /\ init[w] = "Pull" /\ ~pulled[held[w]] /\ Placed(ino[w])
      => local[ino[w]] = device[home[ino[w]]]

\* A push writes what the local file has, under the path the inode has.
PushInHand ==
  \A w \in Workers :
    /\ stage[w] \in {"land", "sync"} =>
         /\ path[InodeOf(w)] \in Paths /\ remote[w] = <<path[InodeOf(w)]>>
         /\ snap[w] = local[InodeOf(w)]
    /\ stage[w] = "sync" => device[path[InodeOf(w)]] = snap[w]

FlagDown ==
  \A w \in Workers : stage[w] \in {"capture", "land", "sync", "ok"} => ~dirty[CopyOf(w)]

OneInv == Synced /\ LookedUp /\ JustPulled /\ PushInHand /\ FlagDown

\* When nobody renames, a file that is placed is under the path its inode has, and no
\* other file is.
LEMMA PathIsHome ==
  ASSUME TInv, PInv, \A w \in Workers : op[w] # "rename", NEW i \in Inodes
  PROVE  /\ Placed(i) => path[i] = home[i] /\ home[i] \in Paths
         /\ \A j \in Inodes : path[i] \in Paths /\ Placed(j) /\ home[j] = path[i] => j = i
<1>1. Agree(path, i)
  BY DEF PInv, PathsAgree
<1>2. Placed(i) => path[i] = home[i] /\ home[i] \in Paths
  BY <1>1 DEF Agree, Placed, TInv, TypeOK
<1>3. ASSUME NEW j \in Inodes, path[i] \in Paths, Placed(j), home[j] = path[i]
      PROVE  j = i
  <2>1. path[i] = home[i]
    BY <1>1, <1>3, NowhereIsNoPath DEF Agree, Placed
  <2> QED  BY <1>3, <2>1, NowhereIsNoPath DEF PInv, HomesDiffer
<1> QED  BY <1>2, <1>3

\* A step of the one worker that changes no contents, flag or path, opens no copy and
\* ends no write and no push, keeps every clean copy in step with the device.
LEMMA StillSynced ==
  ASSUME OneThread, OneInv, NEW w \in Workers,
         UNCHANGED <<local, device, dirty, home, astray, pulled>>,
         \A i \in Inodes : open_copies'[i] \in {open_copies[i], NoCopy},
         \A c \in Copies : evicted[c] => evicted'[c],
         \A i \in Inodes : open_copies[i] \in Copies \cup {NoCopy},
         pc[w] = "count" => pc'[w] = "count" /\ init[w] = init'[w] /\ ino[w] = ino'[w],
         stage[w] \in {"mark"} \cup Pushing =>
           stage'[w] \in {"mark"} \cup Pushing /\ InodeOf(w)' = InodeOf(w)
  PROVE  Synced'
<1> SUFFICES ASSUME NEW i \in Inodes, Undisturbed(i)'  PROVE local[i] = device[home[i]]
  BY DEF Synced
<1>1. open_copies'[i] = open_copies[i] /\ open_copies[i] \in Copies
  BY DEF Undisturbed
<1>2. Undisturbed(i)
  BY <1>1 DEF Undisturbed, OneThread, Placed
<1> QED  BY <1>2 DEF OneInv, Synced


\* In acquire_copy and release_copy there is no push, and elsewhere nothing to pull.
LEMMA NoPush ==
  ASSUME OneThread, NEW w \in Workers, stage'[w] = "none"
  PROVE  PushInHand' /\ FlagDown'
BY DEF OneThread, PushInHand, FlagDown

LEMMA NoPull ==
  ASSUME OneThread, NEW w \in Workers, pc'[w] \notin {"lookup", "lock", "populate", "count"}
  PROVE  LookedUp' /\ JustPulled'
BY DEF OneThread, LookedUp, JustPulled

\* Requests.
LEMMA RequestKeepsOne ==
  ASSUME OneThread, IInv, HInv, TInv, PInv, OneInv, NEW w \in Workers, KernelRequest(w)
  PROVE  OneInv'
<1> USE DEF HInv, HandlerTypeOK, Serving, TInv, TypeOK
<1>0. op[w] = "none" /\ pc[w] = "idle" /\ stage[w] = "none" /\ fh[w] = NoFh
  BY DEF KernelRequest, FileRequest, Open, Create, Truncate, WriteLocal, Flush, Release, Begin,
         Move, MoveAstray, CanMove, Free
<1>00. \A i \in Inodes : open_copies[i] \in Copies \cup {NoCopy}
  BY DEF IInv, CopyTypeOK
<1>1. ASSUME NEW i \in Inodes, NEW k \in Inits, NEW o, NEW n,
             Acquire(w, i, k), Begin(w, i, o, n), UNCHANGED pathVars
      PROVE  OneInv'
  <2>1. Synced'
    BY <1>0, <1>00, <1>1, StillSynced DEF Acquire, Begin, pathVars, Pushing
  <2>2. LookedUp' /\ JustPulled'
    BY <1>1 DEF Acquire, Begin, LookedUp, JustPulled, OneThread, pathVars, IInv, CopyTypeOK
  <2>3. stage'[w] = "none"
    BY <1>0, <1>1 DEF Begin
  <2> QED  BY <2>1, <2>2, <2>3, NoPush DEF OneInv
<1>2. ASSUME \/ \E i \in Inodes : Open(w, i) \/ Create(w, i)
             \/ \E i \in Inodes, n \in Sizes : Truncate(w, i, n),
             UNCHANGED pathVars
      PROVE  OneInv'
  BY <1>1, <1>2 DEF Open, Create, Truncate, Inits
<1>3. ASSUME NEW h \in Handles, NEW x \in Writes, WriteLocal(w, h, x), UNCHANGED pathVars
      PROVE  OneInv'
  <2>1. pc'[w] = "idle" /\ stage'[w] = "mark" /\ InodeOf(w)' = open_files[h].ino
    BY <1>0, <1>3, NoFhIsNoHandle DEF WriteLocal, Goto, InodeOf, copyVars
  <2>2. Synced'
    <3> SUFFICES ASSUME NEW i \in Inodes, Undisturbed(i)'  PROVE local'[i] = device'[home'[i]]
      BY DEF Synced
    <3>1. i # open_files[h].ino
      BY <2>1 DEF Undisturbed
    <3>2. Undisturbed(i)
      BY <1>0, <1>3 DEF Undisturbed, OneThread, Placed, WriteLocal, copyVars, pathVars, Pushing
    <3>3. local'[i] = local[i]
      BY <1>3, <3>1 DEF WriteLocal
    <3> QED  BY <1>3, <3>2, <3>3 DEF OneInv, Synced, WriteLocal, pathVars
  <2>3. PushInHand' /\ FlagDown'
    BY <2>1 DEF OneThread, PushInHand, FlagDown
  <2> QED  BY <2>1, <2>2, <2>3, NoPull DEF OneInv
<1>4. ASSUME NEW h \in Handles, Flush(w, h), UNCHANGED pathVars  PROVE OneInv'
  <2>1. pc'[w] = "idle" /\ stage'[w] = "swap"
    BY <1>0, <1>4 DEF Flush, Goto, copyVars
  <2>2. Synced'
    BY <1>0, <1>00, <1>4, StillSynced DEF Flush, copyVars, pathVars, Pushing
  <2>3. PushInHand' /\ FlagDown'
    BY <2>1 DEF OneThread, PushInHand, FlagDown
  <2> QED  BY <2>1, <2>2, <2>3, NoPull DEF OneInv
<1>5. ASSUME NEW h \in Handles, Release(w, h), UNCHANGED pathVars  PROVE OneInv'
  <2>1. pc'[w] = "release" /\ stage'[w] = "none"
    BY <1>0, <1>5 DEF Release, ReleaseHandle, fileVars, IInv, CopyTypeOK
  <2>2. Synced'
    BY <1>0, <1>00, <1>5, StillSynced DEF Release, ReleaseHandle, fileVars, pathVars, Pushing
  <2> QED  BY <2>1, <2>2, NoPush, NoPull DEF OneInv
<1>6. ASSUME NEW p \in Paths, NEW q \in Paths, Move(w, p, q) \/ MoveAstray(w, p, q)
      PROVE  OneInv'
  <2>1. pc'[w] = "idle" /\ stage'[w] = "none"
    BY <1>0, <1>6 DEF Move, MoveAstray, copyVars
  <2>2. Synced'
    <3> SUFFICES ASSUME NEW i \in Inodes, Undisturbed(i)'  PROVE local[i] = device'[home'[i]]
      BY <1>6 DEF Synced, Move, MoveAstray
    <3>1. /\ p # q /\ device' = Moved(p, q) /\ home' = Renamed(home, p, q)
          /\ astray \subseteq astray' /\ (p \in astray => q \in astray')
      BY <1>6 DEF Move, MoveAstray, CanMove
    <3>2. Placed(i)' => /\ Placed(i)
                        /\ \/ home[i] = p /\ home'[i] = q
                           \/ home[i] \notin {p, q} /\ home'[i] = home[i]
      BY <3>1, NowhereIsNoPath DEF Placed, Renamed
    <3>3. Undisturbed(i)
      BY <1>0, <1>6, <3>2 DEF Undisturbed, OneThread, Move, MoveAstray, copyVars, Pushing
    <3>4. local[i] = device[home[i]] /\ Placed(i)'
      BY <3>3 DEF OneInv, Synced, Undisturbed
    <3> QED  BY <3>1, <3>2, <3>4 DEF Moved, Placed
  <2> QED  BY <2>1, <2>2, NoPush, NoPull DEF OneInv
<1> QED  BY <1>2, <1>3, <1>4, <1>5, <1>6 DEF KernelRequest, FileRequest


\* A pull takes what the device has under the inode's path; a fresh copy, an empty one
\* and one whose pull failed are not in anybody's use, or count as changed.
LEMMA AcquireKeepsOne ==
  ASSUME OneThread, IInv, HInv, TInv, PInv, OneInv, NEW w \in Workers, UNCHANGED pathVars,
         \/ \E c \in Copies : NewCopy(w, c)
         \/ WaitForCopy(w) \/ CreateLocal(w) \/ Pull(w) \/ TakeAsIs(w)
         \/ PopulateError(w) \/ Acquired(w)
  PROVE  OneInv'
<1> USE DEF IInv, CopyTypeOK
<1>0. /\ pc[w] \in {"lookup", "lock", "populate", "count"}
      /\ op[w] \in {"open", "create", "truncate"} /\ stage[w] = "none" /\ fh[w] = NoFh
      /\ ino[w] \in Inodes /\ remote[w] = <<path[ino[w]]>>
  <2>1. pc[w] \in {"lookup", "lock", "populate", "count"}
    BY DEF NewCopy, LookupNew, WaitForCopy, LookupMapped, Lock, Retry, CreateLocal, Pull,
           TakeAsIs, Populate, PopulateError, PopulateFail, Acquired, Count
  <2> QED  BY <2>1, Acquiring DEF HeldOK, OneInv, LookedUp
<1>1. Placed(ino[w]) => path[ino[w]] = home[ino[w]] /\ home[ino[w]] \in Paths
  <2>1. \A v \in Workers : op[v] # "rename"
    BY <1>0 DEF OneThread
  <2> QED  BY <1>0, <2>1, PathIsHome
<1>2. pc[w] \in {"populate", "count"} =>
        held[w] \in Copies /\ open_copies[ino[w]] = held[w] /\ ~evicted[held[w]]
  BY IdentitiesAreDistinct DEF HeldOK, LiveOK
<1>3. CASE Acquired(w)
  <2>1. pc'[w] = "using" /\ pc[w] = "count"
    BY <1>3 DEF Acquired, Count
  <2>2. Synced'
    <3> SUFFICES ASSUME NEW i \in Inodes, Undisturbed(i)'  PROVE local[i] = device[home[i]]
      BY <1>3 DEF Synced, Acquired, pathVars
    <3>1. CASE i = ino[w]
      <4>1. init[w] # "Empty" /\ ~dirty[held[w]]
        BY <1>2, <1>3, <2>1, <3>1
        DEF Undisturbed, Acquired, Count, TInv, TypeOK
      <4>2. Placed(i)
        BY DEF Undisturbed, Placed, pathVars
      <4>3. CASE pulled[held[w]]
        <5>1. Undisturbed(i)
          BY <1>0, <1>2, <2>1, <3>1, <4>1, <4>2, <4>3, IdentitiesAreDistinct DEF Undisturbed, OneThread, Pushing
        <5> QED  BY <5>1 DEF OneInv, Synced
      <4>4. CASE ~pulled[held[w]]
        BY <2>1, <3>1, <4>1, <4>2, <4>4 DEF OneInv, JustPulled, Inits
      <4> QED  BY <4>3, <4>4
    <3>2. CASE i # ino[w]
      <4>1. open_copies[i] # held[w]
        BY <1>0, <1>2, <2>1, <3>2, IdentitiesAreDistinct DEF MapOK
      <4>2. Undisturbed(i)
        BY <1>0, <1>2, <1>3, <2>1, <3>2, <4>1
        DEF Undisturbed, OneThread, Placed, Pushing, Acquired, Count, pathVars, TInv, TypeOK
      <4> QED  BY <4>2 DEF OneInv, Synced
    <3> QED  BY <3>1, <3>2
  <2>3. stage'[w] \in {"shrink", "open"}
    BY <1>3 DEF Acquired, Goto, HInv, HandlerTypeOK
  <2>4. PushInHand' /\ FlagDown'
    BY <2>3 DEF OneThread, PushInHand, FlagDown
  <2> QED  BY <2>1, <2>2, <2>4, NoPull DEF OneInv
<1>4. CASE ~Acquired(w)
  <2>1. stage'[w] = "none" /\ UNCHANGED <<remote, ino, init, home, astray, path, device>>
    BY <1>0, <1>4
    DEF NewCopy, LookupNew, WaitForCopy, LookupMapped, Lock, Retry, CreateLocal, Pull,
        TakeAsIs, Populate, PopulateError, PopulateFail, fileVars, pathVars
  <2>2. LookedUp'
    BY <1>0, <2>1 DEF LookedUp, OneThread
  <2>3. Synced' /\ JustPulled'
    <3>1. CASE WaitForCopy(w)
      <4>1. pc[w] \in {"lookup", "lock"} /\ pc'[w] # "count"
        BY <3>1 DEF WaitForCopy, LookupMapped, Lock, Retry
      <4> QED
        BY <1>0, <3>1, <4>1, StillSynced
        DEF WaitForCopy, LookupMapped, Lock, Retry, fileVars, pathVars, JustPulled, OneThread,
            Pushing
    <3>2. ASSUME NEW c \in Copies, NewCopy(w, c)  PROVE Synced' /\ JustPulled'
      <4>1. pc[w] = "lookup" /\ pc'[w] = "lock"
        BY <3>2 DEF NewCopy, LookupNew
      <4>2. ASSUME NEW i \in Inodes, Undisturbed(i)'  PROVE Undisturbed(i) /\ local' = local
        <5>1. /\ open_copies' = [open_copies EXCEPT ![ino[w]] = c]
              /\ pulled' = [pulled EXCEPT ![c] = FALSE]
              /\ evicted' = [evicted EXCEPT ![c] = FALSE]
              /\ dirty' = [dirty EXCEPT ![c] = FALSE]
              /\ c \in Fresh /\ UNCHANGED local
          BY <3>2 DEF NewCopy, LookupNew
        <5>2. i # ino[w]
          BY <4>2, <5>1 DEF Undisturbed
        <5>3. open_copies'[i] = open_copies[i] /\ open_copies[i] # c
          BY <5>1, <5>2 DEF Fresh
        <5>4. /\ pulled[open_copies[i]] /\ ~evicted[open_copies[i]] /\ ~dirty[open_copies[i]]
              /\ open_copies[i] # NoCopy
          BY <4>2, <5>1, <5>3 DEF Undisturbed, TInv, TypeOK
        <5>5. Placed(i)
          BY <2>1, <4>2 DEF Undisturbed, Placed
        <5> QED  BY <1>0, <4>1, <5>1, <5>4, <5>5 DEF Undisturbed, OneThread, Pushing
      <4>3. Synced'
        BY <2>1, <4>2 DEF Synced, OneInv
      <4> QED  BY <4>1, <4>3 DEF JustPulled, OneThread
    <3>3. CASE TakeAsIs(w)
      <4>1. pc[w] = "populate" /\ pulled'[held'[w]]
        BY <3>3 DEF TakeAsIs, Populate
      <4> QED
        BY <1>0, <3>3, <4>1, StillSynced
        DEF TakeAsIs, Populate, fileVars, pathVars, JustPulled, OneThread, Pushing
    <3>4. CASE CreateLocal(w) \/ Pull(w) \/ PopulateError(w)
      <4>1. /\ UNCHANGED <<open_copies, pulled, dirty, held>>
            /\ \A c \in Copies : evicted[c] => evicted'[c]
            /\ pc[w] = "populate"
        BY <3>4, <1>2 DEF CreateLocal, Pull, PopulateError, Populate, PopulateFail
      <4>2. JustPulled'
        <5>1. CASE Pull(w)
          BY <1>0, <1>1, <2>1, <4>1, <5>1 DEF Pull, JustPulled, OneThread, Placed, TInv, TypeOK
        <5>2. CASE CreateLocal(w) \/ PopulateError(w)
          <6>1. pc'[w] # "count" \/ init'[w] # "Pull"
            BY <2>1, <5>2 DEF CreateLocal, PopulateError, PopulateFail
          <6> QED  BY <6>1 DEF JustPulled, OneThread
        <5> QED  BY <3>4, <5>1, <5>2
      <4>3. Synced'
        <5> SUFFICES ASSUME NEW i \in Inodes, Undisturbed(i)'  PROVE local'[i] = device[home[i]]
          BY <2>1 DEF Synced
        <5>1. Undisturbed(i)
          <6>1. Placed(i)
            BY <2>1 DEF Undisturbed, Placed
          <6>2. /\ open_copies[i] \in Copies /\ ~evicted[open_copies[i]]
                /\ open_copies[i] # NoCopy /\ pulled[open_copies[i]] /\ ~dirty[open_copies[i]]
            BY <4>1 DEF Undisturbed
          <6> QED  BY <1>0, <4>1, <6>1, <6>2 DEF Undisturbed, OneThread, Pushing
        <5>2. local'[i] = local[i]
          <6>1. CASE i # ino[w]
            BY <3>4, <6>1 DEF CreateLocal, Pull, PopulateError, TInv, TypeOK
          <6>2. CASE i = ino[w]
            <7>1. pulled[held[w]]
              BY <1>2, <4>1, <5>1, <6>2 DEF Undisturbed
            <7>2. ~CreateLocal(w)
              BY <2>1, <4>1, <6>2
              DEF CreateLocal, Populate, Undisturbed
            <7>3. local' = local
              BY <3>4, <7>1, <7>2 DEF Pull, PopulateError, PopulateFail, MustPopulate
            <7> QED  BY <7>3
          <6> QED  BY <6>1, <6>2
        <5> QED  BY <5>1, <5>2 DEF OneInv, Synced
      <4> QED  BY <4>2, <4>3
    <3> QED  BY <1>4, <3>1, <3>2, <3>3, <3>4
  <2> QED  BY <2>1, <2>2, <2>3, NoPush DEF OneInv
<1> QED  BY <1>3, <1>4


\* A worker past acquire_copy is neither in its critical sections nor in release_copy.
LEMMA AtWork ==
  ASSUME IInv, HInv, NEW w \in Workers, stage[w] # "none"
  PROVE  pc[w] \in {"idle", "using"} /\ op[w] # "rename"
BY DEF HInv, Serving

\* Steps that end a request, or go on with it, and touch neither contents nor flags.
LEMMA QuietKeepsOne ==
  ASSUME OneThread, IInv, HInv, TInv, PInv, OneInv, NEW w \in Workers, UNCHANGED pathVars,
         \/ LocalOpen(w) \/ LocalFail(w) \/ FlushReply(w) \/ CreateStat(w) \/ DropReference(w)
         \/ LastRelease(w) \/ ReleaseDone(w)
         \/ \E h \in Handles : InstallHandle(w, h)
  PROVE  OneInv'
<1> USE DEF HInv, HandlerTypeOK, Serving, IInv, CopyTypeOK
<1>1. /\ stage[w] \in Resting /\ stage'[w] \in {"none", "install", "swap"}
      /\ pc[w] # "count" /\ pc'[w] \notin {"lookup", "lock", "populate", "count"}
  <2>1. CASE LocalOpen(w) \/ LocalFail(w) \/ FlushReply(w) \/ CreateStat(w) \/ DropReference(w)
    BY <2>1, AtWork
    DEF LocalOpen, LocalFail, FlushReply, CreateStat, DropReference, Drop, Reply, Goto, Resting,
        copyVars
  <2>2. CASE LastRelease(w) \/ ReleaseDone(w)
    BY <2>2
    DEF LastRelease, ReleaseLast, RemoveFile, Unmap, ReleaseDone, ReleaseShared, Unlock, Reply,
        fileVars, Resting
  <2>3. CASE \E h \in Handles : InstallHandle(w, h)
    BY <2>3 DEF InstallHandle, Install, Reply, Resting
  <2> QED  BY <2>1, <2>2, <2>3
<1>2. /\ UNCHANGED <<local, device, dirty, pulled>>
      /\ \A i \in Inodes : open_copies'[i] \in {open_copies[i], NoCopy}
      /\ \A c \in Copies : evicted[c] => evicted'[c]
  <2>1. CASE LocalOpen(w) \/ LocalFail(w) \/ FlushReply(w) \/ CreateStat(w) \/ DropReference(w)
    BY <2>1 DEF LocalOpen, LocalFail, FlushReply, CreateStat, DropReference, Drop, copyVars
  <2>2. CASE LastRelease(w) \/ ReleaseDone(w)
    BY <2>2
    DEF LastRelease, ReleaseLast, RemoveFile, Unmap, ReleaseDone, ReleaseShared, Unlock, fileVars
  <2>3. CASE \E h \in Handles : InstallHandle(w, h)
    BY <2>3 DEF InstallHandle, Install
  <2> QED  BY <2>1, <2>2, <2>3
<1>3. Synced'
  <2>1. \A i \in Inodes : open_copies[i] \in Copies \cup {NoCopy}
    OBVIOUS
  <2> QED  BY <1>1, <1>2, <2>1, StillSynced DEF Resting, Pushing, pathVars
<1>4. PushInHand' /\ FlagDown'
  BY <1>1 DEF PushInHand, FlagDown, OneThread
<1> QED  BY <1>1, <1>3, <1>4, NoPull DEF OneInv

\* What a handler changes, it marks; what it pushes, the device then has.
LEMMA PushKeepsOne ==
  ASSUME OneThread, IInv, HInv, TInv, SInv, PInv, OneInv, NEW w \in Workers, UNCHANGED pathVars,
         \/ Shrink(w) \/ Mark(w) \/ Swap(w) \/ NoPath(w) \/ Capture(w)
         \/ Land(w) \/ PushFail(w) \/ Sync(w) \/ SyncFail(w) \/ Restore(w)
  PROVE  OneInv'
<1>1. stage[w] \in {"shrink", "mark", "swap"} \cup Pushing
  BY DEF Shrink, Mark, Swap, NoPath, Capture, Land, PushFail, Sync, SyncFail, Restore, Pushing
<1> PICK i \in Inodes, c \in Copies : i = InodeOf(w) /\ c = CopyOf(w)
  BY <1>1, Where DEF Pushing
<1>2. /\ i = InodeOf(w) /\ c = CopyOf(w) /\ open_copies[i] = c
      /\ pc[w] \in {"idle", "using"} /\ \A v \in Workers : op[v] # "rename"
  BY <1>1, Where, AtWork DEF OneThread, Pushing
<1>3. UNCHANGED copyVars /\ UNCHANGED <<path, home, astray>>
  BY DEF Shrink, Mark, Swap, NoPath, Capture, Land, PushFail, Sync, SyncFail, Restore, pathVars
<1>4. LookedUp' /\ JustPulled'
  BY <1>2, <1>3, NoPull DEF copyVars
<1>5. CASE Mark(w) \/ Restore(w)
  <2>1. /\ dirty' = [dirty EXCEPT ![c] = TRUE] /\ UNCHANGED <<local, device>>
        /\ stage'[w] \in {"none", "swap", "err"}
    BY <1>5 DEF Mark, Restore, Reply, Goto, HInv, HandlerTypeOK
  <2>2. ASSUME NEW j \in Inodes, Undisturbed(j)'  PROVE local[j] = device[home[j]]
    <3>1. open_copies[j] # c
      BY <1>2, <1>3, <2>1, <2>2 DEF Undisturbed, copyVars, TInv, TypeOK
    <3>2. Undisturbed(j)
      BY <1>2, <1>3, <2>1, <2>2, <3>1 DEF Undisturbed, Placed, OneThread, copyVars, TInv, TypeOK
    <3> QED  BY <3>2 DEF OneInv, Synced
  <2>3. Synced'
    BY <1>3, <2>1, <2>2 DEF Synced
  <2>4. PushInHand' /\ FlagDown'
    BY <2>1 DEF PushInHand, FlagDown, OneThread
  <2> QED  BY <1>4, <2>3, <2>4 DEF OneInv
<1>6. CASE ~(Mark(w) \/ Restore(w))
  <2>1. InodeOf(w)' = i /\ CopyOf(w)' = c
    BY <1>3, <1>6
    DEF Shrink, Swap, NoPath, Capture, Land, PushFail, Sync, SyncFail, InodeOf, CopyOf, copyVars
  <2>2. \/ Swap(w) /\ dirty' = [dirty EXCEPT ![c] = FALSE]
        \/ ~Swap(w) /\ dirty' = dirty
    BY <1>6 DEF Shrink, Swap, NoPath, Capture, Land, PushFail, Sync, SyncFail
  <2>3. stage' = [stage EXCEPT ![w] = stage'[w]]
    BY <1>6
    DEF Shrink, Swap, NoPath, Capture, Land, PushFail, Sync, SyncFail, Goto, HInv, HandlerTypeOK
  <2>4. Land(w) \/ PushFail(w) =>
          path[i] \in Paths /\ device' = [device EXCEPT ![path[i]] = device'[path[i]]]
    BY DEF Land, PushFail, OneInv, PushInHand, TInv, TypeOK
  <2>5. ~(Land(w) \/ PushFail(w)) => device' = device
    BY <1>6 DEF Shrink, Swap, NoPath, Capture, Sync, SyncFail
  <2>6. ASSUME NEW j \in Inodes, Undisturbed(j)', j # i  PROVE local'[j] = device'[home[j]]
    <3>1. open_copies[j] # c
      BY <1>2, <2>6, IdentitiesAreDistinct DEF IInv, MapOK
    <3>2. Undisturbed(j)
      BY <1>2, <1>3, <2>2, <2>6, <3>1
      DEF Undisturbed, Placed, OneThread, copyVars, IInv, CopyTypeOK, TInv, TypeOK
    <3>3. local'[j] = local[j]
      <4>1. CASE Shrink(w)
        <5>1. i = ino[w]
          BY <4>1 DEF Shrink, InodeOf, SInv, StagesOf, Pushing, HInv, HandlerTypeOK, Ops
        <5> QED  BY <2>6, <4>1, <5>1 DEF Shrink, TInv, TypeOK
      <4>2. CASE ~Shrink(w)
        BY <1>6, <4>2 DEF Swap, NoPath, Capture, Land, PushFail, Sync, SyncFail
      <4> QED  BY <4>1, <4>2
    <3>4. device'[home[j]] = device[home[j]]
      <4>1. CASE Land(w) \/ PushFail(w)
        <5>1. home[j] # path[i]
          BY <1>2, <2>4, <2>6, <3>2, <4>1, PathIsHome DEF Undisturbed
        <5>2. home[j] \in Paths
          BY <3>2 DEF Undisturbed, Placed, TInv, TypeOK
        <5> QED  BY <2>4, <4>1, <5>1, <5>2 DEF TInv, TypeOK
      <4> QED  BY <2>5, <4>1
    <3> QED  BY <3>2, <3>3, <3>4 DEF OneInv, Synced
  <2>7. ASSUME Undisturbed(i)'  PROVE local'[i] = device'[home[i]]
    <3>1. stage'[w] \notin {"mark"} \cup Pushing
      BY <2>1, <2>7 DEF Undisturbed
    <3>2. Sync(w) \/ (Swap(w) /\ ~dirty[c])
      BY <1>6, <3>1
      DEF Shrink, Swap, NoPath, Capture, Land, PushFail, SyncFail, Goto, Pushing, HInv,
          HandlerTypeOK
    <3>3. UNCHANGED <<local, device>>
      BY <3>2 DEF Sync, Swap
    <3>4. CASE Sync(w)
      <4>1. local[i] = device[path[i]]
        BY <3>4 DEF Sync, OneInv, PushInHand
      <4>2. path[i] = home[i]
        BY <1>2, <1>3, <2>7, PathIsHome DEF Undisturbed, Placed
      <4> QED  BY <3>3, <4>1, <4>2
    <3>5. CASE Swap(w) /\ ~dirty[c]
      <4>1. Undisturbed(i)
        BY <1>2, <1>3, <2>7, <3>5
        DEF Undisturbed, Placed, OneThread, Swap, Pushing, copyVars, IInv, CopyTypeOK
      <4> QED  BY <1>2, <3>3, <4>1 DEF OneInv, Synced
    <3> QED  BY <3>2, <3>4, <3>5
  <2>8. Synced'
    BY <1>3, <2>6, <2>7 DEF Synced
  <2>9. PushInHand'
    <3>1. CASE Capture(w)
      <4>1. path[i] \in Paths
        BY <1>2, <3>1 DEF Capture, TInv, TypeOK
      <4>2. /\ stage'[w] = "land" /\ remote'[w] = <<path[i]>> /\ snap'[w] = local[i]
            /\ local' = local
        BY <3>1 DEF Capture, Goto, HInv, HandlerTypeOK, TInv, TypeOK
      <4> QED  BY <1>3, <2>1, <4>1, <4>2 DEF PushInHand, OneThread
    <3>2. CASE Land(w)
      <4>1. /\ stage[w] = "land" /\ stage'[w] = "sync" /\ UNCHANGED <<local, remote, snap>>
            /\ device' = [device EXCEPT ![remote[w][1]] = snap[w]]
        BY <3>2 DEF Land, Goto, HInv, HandlerTypeOK
      <4>2. path[i] \in Paths /\ remote[w] = <<path[i]>> /\ snap[w] = local[i]
        BY <4>1 DEF OneInv, PushInHand
      <4>3. device'[path[i]] = snap[w]
        BY <4>1, <4>2 DEF TInv, TypeOK
      <4> QED  BY <1>3, <2>1, <4>1, <4>2, <4>3 DEF PushInHand, OneThread
    <3>3. CASE ~Capture(w) /\ ~Land(w)
      <4>1. stage'[w] \notin {"land", "sync"}
        BY <1>6, <3>3
        DEF Shrink, Swap, NoPath, PushFail, Sync, SyncFail, Goto, HInv, HandlerTypeOK
      <4> QED  BY <4>1 DEF PushInHand, OneThread
    <3> QED  BY <3>1, <3>2, <3>3
  <2>10. FlagDown'
    <3>1. stage'[w] \in {"capture", "land", "sync", "ok"} => ~dirty'[c]
      <4>1. CASE Swap(w)
        BY <1>2, <2>2, <4>1 DEF TInv, TypeOK
      <4>2. CASE Capture(w) \/ Land(w) \/ Sync(w)
        BY <2>2, <4>2 DEF Capture, Land, Sync, Swap, OneInv, FlagDown
      <4>3. CASE Shrink(w) \/ NoPath(w) \/ PushFail(w) \/ SyncFail(w)
        BY <4>3 DEF Shrink, NoPath, PushFail, SyncFail, Goto, HInv, HandlerTypeOK
      <4> QED  BY <1>6, <4>1, <4>2, <4>3
    <3> QED  BY <2>1, <3>1 DEF FlagDown, OneThread
  <2> QED  BY <1>4, <2>8, <2>9, <2>10 DEF OneInv
<1> QED  BY <1>5, <1>6


\* The invariant of a mount that serves one request at a time.
LEMMA OneAtATime ==
  ASSUME OneThread
  PROVE  Spec => [](IInv /\ HInv /\ TInv /\ SInv /\ PInv /\ OneInv)
<1>1. Init => OneInv
  BY DEF Init, CopyInitState, OneInv, Synced, Undisturbed, LookedUp, JustPulled, PushInHand,
         FlagDown
<1>2. IInv /\ HInv /\ TInv /\ SInv /\ PInv /\ OneInv /\ [Next]_vars => OneInv'
  <2>1. ASSUME OneInv, UNCHANGED vars  PROVE OneInv'
    BY <2>1
    DEF OneInv, Synced, Undisturbed, Placed, LookedUp, JustPulled, PushInHand, FlagDown, InodeOf,
        CopyOf, vars, copyVars, fileVars, pathVars
  <2>2. ASSUME HInv, OneInv, NEW w \in Workers, Rekey(w)  PROVE OneInv'
    <3>1. pc'[w] = "idle" /\ stage'[w] = "none" /\ stage[w] = "none"
      BY <2>2 DEF Rekey, Reply, HInv, HandlerTypeOK, Serving, copyVars
    <3>2. Synced'
      BY <2>2, <3>1
      DEF OneInv, Synced, Undisturbed, Placed, OneThread, Rekey, Pushing, copyVars
    <3> QED  BY <3>1, <3>2, NoPush, NoPull DEF OneInv
  <2>3. ASSUME IInv, HInv, TInv, SInv, PInv, OneInv, NEW w \in Workers,
               KernelRequest(w) \/ HandlerStep(w)
        PROVE  OneInv'
    BY <2>2, <2>3, RequestKeepsOne, AcquireKeepsOne, QuietKeepsOne, PushKeepsOne
    DEF HandlerStep, FileStep
  <2> QED  BY <2>1, <2>3 DEF Next
<1> QED  BY <1>1, <1>2, PathsTell, PTL DEF Spec

\* Served one request at a time, a clean copy that is open holds what the device has,
\* wherever the file has been renamed to: acquire_copy may hand it out without a pull.
THEOREM CleanCopiesAreSynced == ASSUME OneThread PROVE Spec => []CleanMeansSynced
<1>1. IInv /\ HInv /\ OneInv => CleanMeansSynced
  <2> SUFFICES ASSUME IInv, HInv, OneInv, NEW i \in Inodes, Placed(i),
                      open_copies[i] # NoCopy, refs[open_copies[i]] > 0,
                      ~dirty[open_copies[i]], owner[open_copies[i]] = NoWorker,
                      WorkingOn(i, {"mark"} \cup Pushing) = {}
               PROVE  local[i] = device[home[i]]
    BY DEF CleanMeansSynced
  <2> DEFINE c == open_copies[i]
  <2>1. c \in Copies \ Fresh
    BY DEF IInv, CopyTypeOK, Fresh
  <2>2. pulled[c] /\ ~evicted[c]
    <3>1. Cardinality(Holders(c)) > 0
      BY <2>1 DEF IInv, RefsAreExact
    <3>2. Holders(c) # {}
      BY <3>1, FS_EmptySet
    <3> QED  BY <2>1, <3>2 DEF Holders, HandlesOf, WorkersOf, IInv, OneCopyPerInode, FilesOK
  <2>3. \A w \in Workers : pc[w] = "count" => ino[w] # i
    BY <2>1, IdentitiesAreDistinct DEF IInv, HeldOK, LiveOK, MutexOK, Critical
  <2>4. Undisturbed(i)
    BY <2>1, <2>2, <2>3 DEF Undisturbed, WorkingOn
  <2> QED  BY <2>4 DEF OneInv, Synced
<1> QED  BY <1>1, OneAtATime, PTL

\* Served one request at a time, a flush that is answered Ok has pushed: what was
\* acknowledged before it began is on the device, under whatever path the file has.
THEOREM FlushedIsPushed == ASSUME OneThread PROVE Spec => []FlushOkMeansPushed
<1>1. IInv /\ HInv /\ OneInv => FlushOkMeansPushed
  <2> SUFFICES ASSUME IInv, HInv, OneInv, NEW w \in Workers, op[w] = "flush",
                      stage[w] = "ok", Placed(InodeOf(w))
               PROVE  local[InodeOf(w)] = device[home[InodeOf(w)]]
    BY DEF FlushOkMeansPushed
  <2>1. /\ InodeOf(w) \in Inodes /\ CopyOf(w) \in Copies
        /\ open_copies[InodeOf(w)] = CopyOf(w)
        /\ pulled[CopyOf(w)] /\ ~evicted[CopyOf(w)] /\ ~dirty[CopyOf(w)]
    BY Where DEF OneInv, FlagDown
  <2>2. pc[w] # "count"
    BY DEF HInv, Serving
  <2>3. Undisturbed(InodeOf(w))
    BY <2>1, <2>2, IdentitiesAreDistinct DEF Undisturbed, OneThread, Pushing
  <2> QED  BY <2>1, <2>3 DEF OneInv, Synced
<1> QED  BY <1>1, OneAtATime, PTL

\* Served one request at a time, a push writes to the path the file has at that time,
\* and never over a file that has taken the path since the open (the lookup of the path
\* in push_if_dirty).
THEOREM PushesFindTheFile == ASSUME OneThread PROVE Spec => []PushesHitTheFile
<1>1. IInv /\ HInv /\ TInv /\ PInv /\ OneInv => PushesHitTheFile
  <2> SUFFICES ASSUME IInv, HInv, TInv, PInv, OneInv, NEW w \in Workers, stage[w] = "land",
                      remote[w][1] \notin astray
               PROVE  remote[w][1] = home[InodeOf(w)]
    BY DEF PushesHitTheFile
  <2>1. InodeOf(w) \in Inodes
    BY Where
  <2>2. path[InodeOf(w)] \in Paths /\ remote[w][1] = path[InodeOf(w)]
    BY DEF OneInv, PushInHand
  <2>3. Agree(path, InodeOf(w))
    BY <2>1, AtWork DEF PInv, PathsAgree, OneThread
  <2> QED  BY <2>2, <2>3, NowhereIsNoPath DEF Agree
<1> QED  BY <1>1, OneAtATime, PTL
=============================================================================
