--------------------------- MODULE CopyTableProofs ---------------------------
(***************************************************************************)
(* Proofs about the table of local copies, for any number of workers,      *)
(* inodes and handles.                                                     *)
(***************************************************************************)
EXTENDS CopyTable, FiniteSetTheorems, TLAPS

(***************************************************************************)
(* The inductive invariant.                                                *)
(***************************************************************************)

Critical == {"populate", "count", "remove", "unmap", "unlock"}

\* A worker past entry() has an Arc and knows its inode.
HeldOK ==
  \A w \in Workers :
    /\ pc[w] \in {"idle", "lookup"} => held[w] = NoCopy
    /\ pc[w] \notin {"idle", "lookup"} => held[w] \in Copies
    /\ pc[w] # "idle" => ino[w] \in Inodes

\* The owner of a mutex is the one worker in the critical section of that copy.
MutexOK ==
  /\ \A w \in Workers : pc[w] \in Critical => owner[held[w]] = w
  /\ \A c \in Copies : owner[c] # NoWorker =>
       pc[owner[c]] \in Critical /\ held[owner[c]] = c

\* A copy is mapped at its own inode and nowhere else.
MapOK ==
  /\ \A i, j \in Inodes :
       open_copies[i] # NoCopy /\ open_copies[i] = open_copies[j] => i = j
  /\ \A w \in Workers, j \in Inodes :
       held[w] # NoCopy /\ open_copies[j] = held[w] => j = ino[w]

\* A copy in use is live: not evicted, and the one the map shows.  An evicted
\* one is still mapped until the worker that evicted it gets to remove_if.
LiveOK ==
  /\ \A w \in Workers :
       held[w] # NoCopy => open_copies[ino[w]] = held[w] \/ evicted[held[w]]
  /\ \A w \in Workers :
       pc[w] \in {"populate", "count", "using", "release"} => ~evicted[held[w]]
  /\ \A w \in Workers : pc[w] \in {"remove", "unmap"} =>
       evicted[held[w]] /\ open_copies[ino[w]] = held[w]
  /\ \A i \in Inodes : open_copies[i] # NoCopy /\ evicted[open_copies[i]] =>
       \E w \in Workers : pc[w] \in {"remove", "unmap"} /\ held[w] = open_copies[i]

\* The local file of a populated live copy exists.
FilesOK ==
  /\ \A h \in Opened : pulled[open_files[h].copy]
  /\ \A w \in Workers : pc[w] \in {"using", "release"} => pulled[held[w]]
  /\ \A w \in Workers : pc[w] = "count" => ino[w] \in files
  /\ \A i \in Inodes :
       open_copies[i] # NoCopy /\ pulled[open_copies[i]] /\ ~evicted[open_copies[i]]
         => i \in files

IInv == /\ CopyTypeOK /\ HeldOK /\ MutexOK /\ MapOK /\ LiveOK
        /\ OneCopyPerInode /\ RefsAreExact /\ FilesOK

(***************************************************************************)
(* Facts about the reference count.                                        *)
(***************************************************************************)

\* Finitely many threads and handles can hold a copy.
LEMMA HoldersFinite ==
  ASSUME NEW c \in Copies
  PROVE  IsFiniteSet(Holders(c))
<1>1. HandlesOf(c) \subseteq Handles /\ WorkersOf(c) \subseteq Workers
  BY DEF HandlesOf, Opened, WorkersOf
<1>2. IsFiniteSet(HandlesOf(c)) /\ IsFiniteSet(WorkersOf(c))
  BY <1>1, FS_Subset, ThreadsAndHandlesAreFinite
<1> QED  BY <1>2, FS_Union DEF Holders

\* One reference passed on: as many as before.
LEMMA MoveOne ==
  ASSUME NEW S, IsFiniteSet(S), NEW x \in S, NEW y, y \notin S
  PROVE  Cardinality((S \ {x}) \cup {y}) = Cardinality(S)
<1>1. IsFiniteSet(S \ {x}) /\ Cardinality(S \ {x}) = Cardinality(S) - 1
  BY FS_RemoveElement
<1>2. Cardinality((S \ {x}) \cup {y}) = Cardinality(S \ {x}) + 1
  BY <1>1, FS_AddElement
<1> QED  BY <1>1, <1>2, FS_CardinalityType

\* The last reference is known by the count: refs is 1 only for the one holder.
LEMMA Counted ==
  ASSUME IInv, NEW w \in Workers, pc[w] \in {"using", "release"}
  PROVE  /\ refs[held[w]] \in Nat \ {0}
         /\ refs[held[w]] = 1 =>
              /\ \A h \in Opened : open_files[h].copy # held[w]
              /\ \A v \in Workers \ {w} :
                   pc[v] \in {"using", "release"} => held[v] # held[w]
<1> DEFINE c == held[w]
<1>1. c \in Copies \ Fresh
  BY DEF IInv, HeldOK, Fresh
<1>2. refs[c] = Cardinality(Holders(c)) /\ refs[c] \in Nat
  BY <1>1 DEF IInv, RefsAreExact, CopyTypeOK
<1>3. w \in Holders(c)
  BY DEF Holders, WorkersOf
<1>4. IsFiniteSet(Holders(c))
  BY <1>1, HoldersFinite
<1>5. refs[c] # 0
  BY <1>2, <1>3, <1>4, FS_EmptySet
<1>6. ASSUME refs[c] = 1  PROVE Holders(c) = {w}
  <2>1. \E x : Holders(c) = {x}
    BY <1>2, <1>4, <1>6, FS_Singleton
  <2> QED  BY <1>3, <2>1
<1>7. w \notin Handles
  BY IdentitiesAreDistinct
<1> QED  BY <1>2, <1>5, <1>6, <1>7 DEF Holders, HandlesOf, WorkersOf, Opened

\* A copy whose count is zero is nobody's.
LEMMA Unused ==
  ASSUME IInv, NEW c \in Copies \ Fresh, refs[c] = 0
  PROVE  /\ \A h \in Opened : open_files[h].copy # c
         /\ \A v \in Workers : pc[v] \in {"using", "release"} => held[v] # c
<1>1. Holders(c) = {}
  BY HoldersFinite, FS_EmptySet DEF IInv, RefsAreExact
<1> QED  BY <1>1 DEF Holders, HandlesOf, WorkersOf

------------------------------------------------------------------------------
(***************************************************************************)
(* Every step of every worker keeps the invariant.  Conjuncts fall in this *)
(* order throughout; the reference count is shown copy by copy.            *)
(***************************************************************************)

\* Acquire keeps the invariant.
LEMMA AcquireStep ==
    ASSUME IInv, NEW w \in Workers, NEW i \in Inodes, NEW k \in Inits,
         Acquire(w, i, k)
  PROVE  IInv'
<1>1. CopyTypeOK'
  BY DEF IInv, CopyTypeOK, PCs, Inits, HeldOK, Acquire
<1>2. HeldOK'
  BY DEF IInv, CopyTypeOK, HeldOK, Acquire
<1>3. MutexOK'
  BY IdentitiesAreDistinct
  DEF IInv, CopyTypeOK, HeldOK, MutexOK, Critical, Acquire
<1>4. MapOK'
  BY DEF IInv, CopyTypeOK, HeldOK, MapOK, Acquire
<1>5. LiveOK'
  BY DEF IInv, CopyTypeOK, HeldOK, MutexOK, MapOK, LiveOK, Critical, Acquire
<1>6. OneCopyPerInode'
  BY DEF IInv, CopyTypeOK, HeldOK, MapOK, LiveOK, OneCopyPerInode, Opened,
         Acquire, Entry
<1>7. RefsAreExact'
  BY DEF IInv, CopyTypeOK, HeldOK, RefsAreExact, Fresh, Holders, HandlesOf,
         WorkersOf, Opened, Acquire, Entry
<1>8. FilesOK'
  BY DEF IInv, CopyTypeOK, HeldOK, MutexOK, MapOK, LiveOK, FilesOK,
         OneCopyPerInode, Opened, Critical, Acquire, Entry
<1> QED  BY <1>1, <1>2, <1>3, <1>4, <1>5, <1>6, <1>7, <1>8 DEF IInv

\* LookupMapped keeps the invariant.
LEMMA LookupMappedStep ==
  ASSUME IInv, NEW w \in Workers, LookupMapped(w)
  PROVE  IInv'
<1>1. CopyTypeOK'
  BY DEF IInv, CopyTypeOK, PCs, Inits, HeldOK, LookupMapped
<1>2. HeldOK'
  BY DEF IInv, CopyTypeOK, HeldOK, LookupMapped
<1>3. MutexOK'
  BY IdentitiesAreDistinct
  DEF IInv, CopyTypeOK, HeldOK, MutexOK, Critical, LookupMapped
<1>4. MapOK'
  BY DEF IInv, CopyTypeOK, HeldOK, MapOK, LookupMapped
<1>5. LiveOK'
  BY DEF IInv, CopyTypeOK, HeldOK, MutexOK, MapOK, LiveOK, Critical,
         LookupMapped
<1>6. OneCopyPerInode'
  BY DEF IInv, CopyTypeOK, HeldOK, MapOK, LiveOK, OneCopyPerInode, Opened,
         LookupMapped, Entry
<1>7. RefsAreExact'
  BY DEF IInv, CopyTypeOK, HeldOK, RefsAreExact, Fresh, Holders, HandlesOf,
         WorkersOf, Opened, LookupMapped, Entry
<1>8. FilesOK'
  BY DEF IInv, CopyTypeOK, HeldOK, MutexOK, MapOK, LiveOK, FilesOK,
         OneCopyPerInode, Opened, Critical, LookupMapped, Entry
<1> QED  BY <1>1, <1>2, <1>3, <1>4, <1>5, <1>6, <1>7, <1>8 DEF IInv

\* LookupNew keeps the invariant.
LEMMA LookupNewStep ==
  ASSUME IInv, NEW w \in Workers, NEW c \in Copies, LookupNew(w, c)
  PROVE  IInv'
<1>1. CopyTypeOK'
  BY IdentitiesAreDistinct
  DEF IInv, CopyTypeOK, PCs, Inits, HeldOK, LookupNew, Fresh, HandlesOf,
      Opened, Entry
<1>2. HeldOK'
  BY IdentitiesAreDistinct
  DEF IInv, CopyTypeOK, HeldOK, LookupNew, Fresh, HandlesOf, Opened, Entry
<1>3. MutexOK'
  BY IdentitiesAreDistinct
  DEF IInv, CopyTypeOK, HeldOK, MutexOK, Critical, LookupNew, Fresh,
      HandlesOf, Opened, Entry
<1>4. MapOK'
  BY IdentitiesAreDistinct
  DEF IInv, CopyTypeOK, HeldOK, MapOK, LookupNew, Fresh, HandlesOf, Opened,
      Entry
<1>5. LiveOK'
  BY IdentitiesAreDistinct
  DEF IInv, CopyTypeOK, HeldOK, MutexOK, MapOK, LiveOK, Critical, LookupNew,
      Fresh, HandlesOf, Opened, Entry
<1>6. OneCopyPerInode'
  BY IdentitiesAreDistinct
  DEF IInv, CopyTypeOK, HeldOK, MapOK, LiveOK, OneCopyPerInode, Opened,
      LookupNew, Fresh, HandlesOf, Entry
<1>7. RefsAreExact'
  <2> SUFFICES ASSUME NEW d \in Copies, d \notin Fresh'
               PROVE  refs'[d] = Cardinality(Holders(d)')
    BY DEF RefsAreExact
  <2>1. Holders(d)' = Holders(d)
    BY DEF IInv, CopyTypeOK, HeldOK, Holders, HandlesOf, WorkersOf, Opened,
           LookupNew
  <2>2. CASE d = c
    <3>1. Holders(d) = {}
      BY <2>2, IdentitiesAreDistinct
      DEF IInv, HeldOK, Holders, WorkersOf, Fresh, LookupNew
    <3>2. refs'[d] = 0
      BY <2>2 DEF IInv, CopyTypeOK, LookupNew
    <3> QED  BY <2>1, <3>1, <3>2, FS_EmptySet
  <2>3. CASE d # c
    <3>1. d \notin Fresh
      BY <2>3 DEF IInv, CopyTypeOK, HeldOK, Fresh, HandlesOf, Opened, LookupNew
    <3>2. refs'[d] = refs[d]
      BY <2>3 DEF IInv, CopyTypeOK, LookupNew
    <3> QED  BY <2>1, <3>1, <3>2 DEF IInv, RefsAreExact
  <2> QED  BY <2>2, <2>3
<1>8. FilesOK'
  BY IdentitiesAreDistinct
  DEF IInv, CopyTypeOK, HeldOK, MutexOK, MapOK, LiveOK, FilesOK,
      OneCopyPerInode, Opened, Critical, LookupNew, Fresh, HandlesOf, Entry
<1> QED  BY <1>1, <1>2, <1>3, <1>4, <1>5, <1>6, <1>7, <1>8 DEF IInv

\* Lock keeps the invariant.
LEMMA LockStep ==
  ASSUME IInv, NEW w \in Workers, Lock(w)
  PROVE  IInv'
<1>1. CopyTypeOK'
  BY DEF IInv, CopyTypeOK, PCs, Inits, HeldOK, Lock
<1>2. HeldOK'
  BY DEF IInv, CopyTypeOK, HeldOK, Lock
<1>3. MutexOK'
  BY IdentitiesAreDistinct DEF IInv, CopyTypeOK, HeldOK, MutexOK, Critical, Lock
<1>4. MapOK'
  BY DEF IInv, CopyTypeOK, HeldOK, MapOK, Lock
<1>5. LiveOK'
  BY DEF IInv, CopyTypeOK, HeldOK, MutexOK, MapOK, LiveOK, Critical, Lock
<1>6. OneCopyPerInode'
  BY DEF IInv, CopyTypeOK, HeldOK, MapOK, LiveOK, OneCopyPerInode, Opened,
         Lock, Entry
<1>7. RefsAreExact'
  BY DEF IInv, CopyTypeOK, HeldOK, RefsAreExact, Fresh, Holders, HandlesOf,
         WorkersOf, Opened, Lock, Entry
<1>8. FilesOK'
  BY DEF IInv, CopyTypeOK, HeldOK, MutexOK, MapOK, LiveOK, FilesOK,
         OneCopyPerInode, Opened, Critical, Lock, Entry
<1> QED  BY <1>1, <1>2, <1>3, <1>4, <1>5, <1>6, <1>7, <1>8 DEF IInv

\* Retry keeps the invariant.
LEMMA RetryStep ==
  ASSUME IInv, NEW w \in Workers, Retry(w)
  PROVE  IInv'
<1>1. CopyTypeOK'
  BY DEF IInv, CopyTypeOK, PCs, Inits, HeldOK, Retry
<1>2. HeldOK'
  BY DEF IInv, CopyTypeOK, HeldOK, Retry
<1>3. MutexOK'
  BY IdentitiesAreDistinct
  DEF IInv, CopyTypeOK, HeldOK, MutexOK, Critical, Retry
<1>4. MapOK'
  BY DEF IInv, CopyTypeOK, HeldOK, MapOK, Retry
<1>5. LiveOK'
  BY DEF IInv, CopyTypeOK, HeldOK, MutexOK, MapOK, LiveOK, Critical, Retry
<1>6. OneCopyPerInode'
  BY DEF IInv, CopyTypeOK, HeldOK, MapOK, LiveOK, OneCopyPerInode, Opened,
         Retry, Entry
<1>7. RefsAreExact'
  <2> SUFFICES ASSUME NEW d \in Copies, d \notin Fresh'
               PROVE  refs'[d] = Cardinality(Holders(d)')
    BY DEF RefsAreExact
  <2>1. d \notin Fresh
    BY IdentitiesAreDistinct
    DEF IInv, CopyTypeOK, HeldOK, Fresh, HandlesOf, Opened, Retry
  <2>2. Holders(d)' = Holders(d)
    BY DEF IInv, CopyTypeOK, HeldOK, Holders, HandlesOf, WorkersOf, Opened,
           Retry
  <2> QED  BY <2>1, <2>2 DEF IInv, RefsAreExact, Retry
<1>8. FilesOK'
  BY DEF IInv, CopyTypeOK, HeldOK, MutexOK, MapOK, LiveOK, FilesOK,
         OneCopyPerInode, Opened, Critical, Retry, Entry
<1> QED  BY <1>1, <1>2, <1>3, <1>4, <1>5, <1>6, <1>7, <1>8 DEF IInv

\* Populate keeps the invariant.
LEMMA PopulateStep ==
  ASSUME IInv, NEW w \in Workers, Populate(w)
  PROVE  IInv'
<1>1. CopyTypeOK'
  BY DEF IInv, CopyTypeOK, PCs, Inits, HeldOK, Populate
<1>2. HeldOK'
  BY DEF IInv, CopyTypeOK, HeldOK, Populate
<1>3. MutexOK'
  BY IdentitiesAreDistinct
  DEF IInv, CopyTypeOK, HeldOK, MutexOK, Critical, Populate
<1>4. MapOK'
  BY DEF IInv, CopyTypeOK, HeldOK, MapOK, Populate
<1>5. LiveOK'
  BY DEF IInv, CopyTypeOK, HeldOK, MutexOK, MapOK, LiveOK, Critical, Populate
<1>6. OneCopyPerInode'
  BY DEF IInv, CopyTypeOK, HeldOK, MapOK, LiveOK, OneCopyPerInode, Opened,
         Populate, Entry
<1>7. RefsAreExact'
  BY DEF IInv, CopyTypeOK, HeldOK, RefsAreExact, Fresh, Holders, HandlesOf,
         WorkersOf, Opened, Populate, Entry
<1>8. FilesOK'
  BY IdentitiesAreDistinct
  DEF IInv, CopyTypeOK, HeldOK, MutexOK, MapOK, LiveOK, FilesOK,
      OneCopyPerInode, Opened, Critical, Populate, MustPopulate, Entry
<1> QED  BY <1>1, <1>2, <1>3, <1>4, <1>5, <1>6, <1>7, <1>8 DEF IInv

\* PopulateFail keeps the invariant.
LEMMA PopulateFailStep ==
  ASSUME IInv, NEW w \in Workers, PopulateFail(w)
  PROVE  IInv'
<1>1. CopyTypeOK'
  BY Unused DEF IInv, CopyTypeOK, PCs, Inits, HeldOK, PopulateFail
<1>2. HeldOK'
  BY Unused DEF IInv, CopyTypeOK, HeldOK, PopulateFail
<1>3. MutexOK'
  BY Unused, IdentitiesAreDistinct
  DEF IInv, CopyTypeOK, HeldOK, MutexOK, Critical, PopulateFail
<1>4. MapOK'
  BY Unused DEF IInv, CopyTypeOK, HeldOK, MapOK, PopulateFail
<1>5. LiveOK'
  <2>1. held[w] \in Copies \ Fresh
    BY DEF IInv, HeldOK, Fresh, PopulateFail
  <2>2. refs[held[w]] = 0 =>
          /\ \A h \in Opened : open_files[h].copy # held[w]
          /\ \A v \in Workers : pc[v] \in {"using", "release"} => held[v] # held[w]
    BY <2>1, Unused
  <2> QED
    BY <2>1, <2>2, IdentitiesAreDistinct
    DEF IInv, CopyTypeOK, HeldOK, MutexOK, MapOK, LiveOK, Critical, PopulateFail
<1>6. OneCopyPerInode'
  <2>1. held[w] \in Copies \ Fresh
    BY DEF IInv, HeldOK, Fresh, PopulateFail
  <2>2. refs[held[w]] = 0 =>
          /\ \A h \in Opened : open_files[h].copy # held[w]
          /\ \A v \in Workers : pc[v] \in {"using", "release"} => held[v] # held[w]
    BY <2>1, Unused
  <2> QED
    BY <2>1, <2>2
    DEF IInv, CopyTypeOK, Entry, HeldOK, OneCopyPerInode, Opened, PopulateFail
<1>7. RefsAreExact'
  BY Unused
  DEF IInv, CopyTypeOK, HeldOK, RefsAreExact, Fresh, Holders, HandlesOf,
      WorkersOf, Opened, PopulateFail, Entry
<1>8. FilesOK'
  BY Unused
  DEF IInv, CopyTypeOK, HeldOK, MutexOK, MapOK, LiveOK, FilesOK,
      OneCopyPerInode, Opened, Critical, PopulateFail, MustPopulate, Entry
<1> QED  BY <1>1, <1>2, <1>3, <1>4, <1>5, <1>6, <1>7, <1>8 DEF IInv

\* Count keeps the invariant.
LEMMA CountStep ==
  ASSUME IInv, NEW w \in Workers, Count(w)
  PROVE  IInv'
<1>1. CopyTypeOK'
  BY DEF IInv, CopyTypeOK, PCs, Inits, HeldOK, Count
<1>2. HeldOK'
  BY DEF IInv, CopyTypeOK, HeldOK, Count
<1>3. MutexOK'
  BY IdentitiesAreDistinct
  DEF IInv, CopyTypeOK, HeldOK, MutexOK, Critical, Count
<1>4. MapOK'
  BY DEF IInv, CopyTypeOK, HeldOK, MapOK, Count
<1>5. LiveOK'
  BY DEF IInv, CopyTypeOK, HeldOK, MutexOK, MapOK, LiveOK, Critical, Count
<1>6. OneCopyPerInode'
  BY IdentitiesAreDistinct
  DEF IInv, CopyTypeOK, HeldOK, MapOK, LiveOK, OneCopyPerInode, Opened, Count,
      Entry
<1>7. RefsAreExact'
  <2> SUFFICES ASSUME NEW d \in Copies, d \notin Fresh'
               PROVE  refs'[d] = Cardinality(Holders(d)')
    BY DEF RefsAreExact
  <2>1. d \notin Fresh
    BY IdentitiesAreDistinct
    DEF IInv, CopyTypeOK, HeldOK, Fresh, HandlesOf, Opened, Count
  <2>2. refs[d] = Cardinality(Holders(d)) /\ refs[d] \in Nat
    BY <2>1 DEF IInv, RefsAreExact, CopyTypeOK
  <2>3. CASE d = held[w]
    <3>1. w \notin Holders(d)
      BY IdentitiesAreDistinct DEF Holders, HandlesOf, Opened, WorkersOf, Count
    <3>2. Holders(d)' = Holders(d) \cup {w}
      BY <2>3 DEF IInv, CopyTypeOK, Holders, HandlesOf, WorkersOf, Opened, Count
    <3>3. Cardinality(Holders(d)') = Cardinality(Holders(d)) + 1
      BY <3>1, <3>2, HoldersFinite, FS_AddElement
    <3>4. refs'[d] = refs[d] + 1
      BY <2>3 DEF IInv, CopyTypeOK, Count
    <3> QED  BY <2>2, <3>3, <3>4
  <2>4. CASE d # held[w]
    <3>1. Holders(d)' = Holders(d)
      BY <2>4 DEF IInv, CopyTypeOK, Holders, HandlesOf, WorkersOf, Opened, Count
    <3>2. refs'[d] = refs[d]
      BY <2>4 DEF IInv, CopyTypeOK, Count
    <3> QED  BY <2>2, <3>1, <3>2
  <2> QED  BY <2>3, <2>4
<1>8. FilesOK'
  BY DEF IInv, CopyTypeOK, HeldOK, MutexOK, MapOK, LiveOK, FilesOK,
         OneCopyPerInode, Opened, Critical, Count, Entry
<1> QED  BY <1>1, <1>2, <1>3, <1>4, <1>5, <1>6, <1>7, <1>8 DEF IInv

\* Install keeps the invariant.
LEMMA InstallStep ==
  ASSUME IInv, NEW w \in Workers, NEW h \in Handles, Install(w, h)
  PROVE  IInv'
<1>1. CopyTypeOK'
  BY DEF IInv, CopyTypeOK, PCs, Inits, HeldOK, Install, Entry, Opened
<1>2. HeldOK'
  BY DEF IInv, CopyTypeOK, HeldOK, Install, Entry, Opened
<1>3. MutexOK'
  BY IdentitiesAreDistinct
  DEF IInv, CopyTypeOK, HeldOK, MutexOK, Critical, Install, Entry, Opened
<1>4. MapOK'
  BY DEF IInv, CopyTypeOK, HeldOK, MapOK, Install, Entry, Opened
<1>5. LiveOK'
  BY DEF IInv, CopyTypeOK, HeldOK, MutexOK, MapOK, LiveOK, Critical, Install,
         Entry, Opened
<1>6. OneCopyPerInode'
  BY DEF IInv, CopyTypeOK, HeldOK, MapOK, LiveOK, OneCopyPerInode, Opened,
         Install, Entry
<1>7. RefsAreExact'
  <2> SUFFICES ASSUME NEW d \in Copies, d \notin Fresh'
               PROVE  refs'[d] = Cardinality(Holders(d)')
    BY DEF RefsAreExact
  <2>1. d \notin Fresh
    BY IdentitiesAreDistinct
    DEF IInv, CopyTypeOK, HeldOK, Entry, Fresh, HandlesOf, Opened, Install
  <2>2. refs'[d] = Cardinality(Holders(d))
    BY <2>1 DEF IInv, RefsAreExact, Install
  <2>3. CASE d = held[w]
    <3>1. w \in Holders(d) /\ h \notin Holders(d)
      BY <2>3, IdentitiesAreDistinct
      DEF Holders, HandlesOf, WorkersOf, Opened, Install
    <3>2. Holders(d)' = (Holders(d) \ {w}) \cup {h}
      BY <2>3, IdentitiesAreDistinct
      DEF IInv, CopyTypeOK, HeldOK, Entry, Holders, HandlesOf, WorkersOf, Opened, Install
    <3> QED  BY <2>2, <3>1, <3>2, HoldersFinite, MoveOne
  <2>4. CASE d # held[w]
    <3>1. Holders(d)' = Holders(d)
      BY <2>4, IdentitiesAreDistinct
      DEF IInv, CopyTypeOK, HeldOK, Entry, Holders, HandlesOf, WorkersOf, Opened, Install
    <3> QED  BY <2>2, <3>1
  <2> QED  BY <2>3, <2>4
<1>8. FilesOK'
  BY DEF IInv, CopyTypeOK, HeldOK, MutexOK, MapOK, LiveOK, FilesOK,
         OneCopyPerInode, Opened, Critical, Install, Entry
<1> QED  BY <1>1, <1>2, <1>3, <1>4, <1>5, <1>6, <1>7, <1>8 DEF IInv

\* Drop keeps the invariant.
LEMMA DropStep ==
  ASSUME IInv, NEW w \in Workers, Drop(w)
  PROVE  IInv'
<1>1. CopyTypeOK'
  BY DEF IInv, CopyTypeOK, PCs, Inits, HeldOK, Drop
<1>2. HeldOK'
  BY DEF IInv, CopyTypeOK, HeldOK, Drop
<1>3. MutexOK'
  BY IdentitiesAreDistinct DEF IInv, CopyTypeOK, HeldOK, MutexOK, Critical, Drop
<1>4. MapOK'
  BY DEF IInv, CopyTypeOK, HeldOK, MapOK, Drop
<1>5. LiveOK'
  BY DEF IInv, CopyTypeOK, HeldOK, MutexOK, MapOK, LiveOK, Critical, Drop
<1>6. OneCopyPerInode'
  BY DEF IInv, CopyTypeOK, HeldOK, MapOK, LiveOK, OneCopyPerInode, Opened,
         Drop, Entry
<1>7. RefsAreExact'
  BY DEF IInv, CopyTypeOK, HeldOK, RefsAreExact, Fresh, Holders, HandlesOf,
         WorkersOf, Opened, Drop, Entry
<1>8. FilesOK'
  BY DEF IInv, CopyTypeOK, HeldOK, MutexOK, MapOK, LiveOK, FilesOK,
         OneCopyPerInode, Opened, Critical, Drop, Entry
<1> QED  BY <1>1, <1>2, <1>3, <1>4, <1>5, <1>6, <1>7, <1>8 DEF IInv

\* ReleaseHandle keeps the invariant.
LEMMA ReleaseHandleStep ==
  ASSUME IInv, NEW w \in Workers, NEW h \in Handles, ReleaseHandle(w, h)
  PROVE  IInv'
<1>1. CopyTypeOK'
  BY DEF IInv, CopyTypeOK, PCs, Inits, HeldOK, ReleaseHandle, Entry, Opened,
         OneCopyPerInode, HandlesOf
<1>2. HeldOK'
  BY DEF IInv, CopyTypeOK, HeldOK, ReleaseHandle, Entry, Opened,
         OneCopyPerInode, HandlesOf
<1>3. MutexOK'
  BY IdentitiesAreDistinct
  DEF IInv, CopyTypeOK, HeldOK, MutexOK, Critical, ReleaseHandle, Entry,
      Opened, OneCopyPerInode, HandlesOf
<1>4. MapOK'
  BY DEF IInv, CopyTypeOK, HeldOK, MapOK, ReleaseHandle, Entry, Opened,
         OneCopyPerInode, HandlesOf
<1>5. LiveOK'
  BY DEF IInv, CopyTypeOK, HeldOK, MutexOK, MapOK, LiveOK, Critical,
         ReleaseHandle, Entry, Opened, OneCopyPerInode, HandlesOf
<1>6. OneCopyPerInode'
  BY DEF IInv, CopyTypeOK, HeldOK, MapOK, LiveOK, OneCopyPerInode, Opened,
         ReleaseHandle, Entry, HandlesOf
<1>7. RefsAreExact'
  <2> SUFFICES ASSUME NEW d \in Copies, d \notin Fresh'
               PROVE  refs'[d] = Cardinality(Holders(d)')
    BY DEF RefsAreExact
  <2>1. d \notin Fresh
    BY IdentitiesAreDistinct
    DEF IInv, CopyTypeOK, HeldOK, Entry, Fresh, HandlesOf, Opened,
        ReleaseHandle
  <2>2. refs'[d] = Cardinality(Holders(d))
    BY <2>1 DEF IInv, RefsAreExact, ReleaseHandle
  <2>3. CASE d = open_files[h].copy
    <3>1. h \in Holders(d) /\ w \notin Holders(d)
      BY <2>3, IdentitiesAreDistinct
      DEF Holders, HandlesOf, WorkersOf, Opened, ReleaseHandle
    <3>2. Holders(d)' = (Holders(d) \ {h}) \cup {w}
      BY <2>3, IdentitiesAreDistinct
      DEF IInv, CopyTypeOK, HeldOK, Entry, Holders, HandlesOf, WorkersOf, Opened, ReleaseHandle
    <3> QED  BY <2>2, <3>1, <3>2, HoldersFinite, MoveOne
  <2>4. CASE d # open_files[h].copy
    <3>1. Holders(d)' = Holders(d)
      BY <2>4, IdentitiesAreDistinct
      DEF IInv, CopyTypeOK, HeldOK, Entry, Holders, HandlesOf, WorkersOf, Opened, ReleaseHandle
    <3> QED  BY <2>2, <3>1
  <2> QED  BY <2>3, <2>4
<1>8. FilesOK'
  BY DEF IInv, CopyTypeOK, HeldOK, MutexOK, MapOK, LiveOK, FilesOK,
         OneCopyPerInode, Opened, Critical, ReleaseHandle, Entry, HandlesOf
<1> QED  BY <1>1, <1>2, <1>3, <1>4, <1>5, <1>6, <1>7, <1>8 DEF IInv

\* ReleaseShared keeps the invariant.
LEMMA ReleaseSharedStep ==
  ASSUME IInv, NEW w \in Workers, ReleaseShared(w)
  PROVE  IInv'
<1>1. CopyTypeOK'
  <2>1. refs[held[w]] - 1 \in Nat
    BY Counted DEF ReleaseShared
  <2> QED  BY <2>1 DEF IInv, CopyTypeOK, PCs, Inits, HeldOK, ReleaseShared
<1>2. HeldOK'
  BY Counted DEF IInv, CopyTypeOK, HeldOK, ReleaseShared
<1>3. MutexOK'
  BY Counted, IdentitiesAreDistinct
  DEF IInv, CopyTypeOK, HeldOK, MutexOK, Critical, ReleaseShared
<1>4. MapOK'
  BY Counted DEF IInv, CopyTypeOK, HeldOK, MapOK, ReleaseShared
<1>5. LiveOK'
  BY Counted
  DEF IInv, CopyTypeOK, HeldOK, MutexOK, MapOK, LiveOK, Critical,
      ReleaseShared
<1>6. OneCopyPerInode'
  BY Counted
  DEF IInv, CopyTypeOK, HeldOK, MapOK, LiveOK, OneCopyPerInode, Opened,
      ReleaseShared, Entry
<1>7. RefsAreExact'
  <2> SUFFICES ASSUME NEW d \in Copies, d \notin Fresh'
               PROVE  refs'[d] = Cardinality(Holders(d)')
    BY DEF RefsAreExact
  <2>1. d \notin Fresh
    BY IdentitiesAreDistinct
    DEF IInv, CopyTypeOK, HeldOK, Fresh, HandlesOf, Opened, ReleaseShared
  <2>2. refs[d] = Cardinality(Holders(d)) /\ refs[d] \in Nat
    BY <2>1 DEF IInv, RefsAreExact, CopyTypeOK
  <2>3. CASE d = held[w]
    <3>1. w \in Holders(d) /\ Holders(d)' = Holders(d) \ {w}
      BY <2>3, IdentitiesAreDistinct
      DEF IInv, CopyTypeOK, HeldOK, Holders, HandlesOf, WorkersOf, Opened, ReleaseShared
    <3>2. Cardinality(Holders(d)') = Cardinality(Holders(d)) - 1
      BY <3>1, HoldersFinite, FS_RemoveElement
    <3>3. refs'[d] = refs[d] - 1
      BY <2>2, <2>3 DEF IInv, CopyTypeOK, ReleaseShared
    <3> QED  BY <2>2, <3>2, <3>3
  <2>4. CASE d # held[w]
    <3>1. Holders(d)' = Holders(d)
      BY <2>4
      DEF IInv, CopyTypeOK, HeldOK, Holders, HandlesOf, WorkersOf, Opened,
          ReleaseShared
    <3>2. refs'[d] = refs[d]
      BY <2>4 DEF IInv, CopyTypeOK, ReleaseShared
    <3> QED  BY <2>2, <3>1, <3>2
  <2> QED  BY <2>3, <2>4
<1>8. FilesOK'
  BY Counted
  DEF IInv, CopyTypeOK, HeldOK, MutexOK, MapOK, LiveOK, FilesOK,
      OneCopyPerInode, Opened, Critical, ReleaseShared, Entry
<1> QED  BY <1>1, <1>2, <1>3, <1>4, <1>5, <1>6, <1>7, <1>8 DEF IInv

\* ReleaseLast keeps the invariant.
LEMMA ReleaseLastStep ==
  ASSUME IInv, NEW w \in Workers, ReleaseLast(w)
  PROVE  IInv'
<1>1. CopyTypeOK'
  BY Counted DEF IInv, CopyTypeOK, PCs, Inits, HeldOK, ReleaseLast
<1>2. HeldOK'
  BY Counted DEF IInv, CopyTypeOK, HeldOK, ReleaseLast
<1>3. MutexOK'
  BY Counted, IdentitiesAreDistinct
  DEF IInv, CopyTypeOK, HeldOK, MutexOK, Critical, ReleaseLast
<1>4. MapOK'
  BY Counted DEF IInv, CopyTypeOK, HeldOK, MapOK, ReleaseLast
<1>5. LiveOK'
  <2>1. \A v \in Workers \ {w} :
          pc[v] \in {"using", "release"} => held[v] # held[w]
    BY Counted DEF ReleaseLast
  <2> QED
    BY <2>1, IdentitiesAreDistinct
    DEF IInv, CopyTypeOK, HeldOK, MutexOK, MapOK, LiveOK, Critical, ReleaseLast
<1>6. OneCopyPerInode'
  BY Counted
  DEF IInv, CopyTypeOK, HeldOK, MapOK, LiveOK, OneCopyPerInode, Opened,
      ReleaseLast, Entry
<1>7. RefsAreExact'
  <2> SUFFICES ASSUME NEW d \in Copies, d \notin Fresh'
               PROVE  refs'[d] = Cardinality(Holders(d)')
    BY DEF RefsAreExact
  <2>1. d \notin Fresh
    BY IdentitiesAreDistinct
    DEF IInv, CopyTypeOK, HeldOK, Fresh, HandlesOf, Opened, ReleaseLast
  <2>2. refs[d] = Cardinality(Holders(d)) /\ refs[d] \in Nat
    BY <2>1 DEF IInv, RefsAreExact, CopyTypeOK
  <2>3. CASE d = held[w]
    <3>1. w \in Holders(d) /\ Holders(d)' = Holders(d) \ {w}
      BY <2>3, IdentitiesAreDistinct
      DEF IInv, CopyTypeOK, HeldOK, Holders, HandlesOf, WorkersOf, Opened, ReleaseLast
    <3>2. Cardinality(Holders(d)') = Cardinality(Holders(d)) - 1
      BY <3>1, HoldersFinite, FS_RemoveElement
    <3>3. refs'[d] = refs[d] - 1
      BY <2>2, <2>3 DEF IInv, CopyTypeOK, ReleaseLast
    <3> QED  BY <2>2, <3>2, <3>3
  <2>4. CASE d # held[w]
    <3>1. Holders(d)' = Holders(d)
      BY <2>4
      DEF IInv, CopyTypeOK, HeldOK, Holders, HandlesOf, WorkersOf, Opened,
          ReleaseLast
    <3>2. refs'[d] = refs[d]
      BY <2>4 DEF IInv, CopyTypeOK, ReleaseLast
    <3> QED  BY <2>2, <3>1, <3>2
  <2> QED  BY <2>3, <2>4
<1>8. FilesOK'
  BY Counted
  DEF IInv, CopyTypeOK, HeldOK, MutexOK, MapOK, LiveOK, FilesOK,
      OneCopyPerInode, Opened, Critical, ReleaseLast, Entry
<1> QED  BY <1>1, <1>2, <1>3, <1>4, <1>5, <1>6, <1>7, <1>8 DEF IInv

\* RemoveFile keeps the invariant.
LEMMA RemoveFileStep ==
  ASSUME IInv, NEW w \in Workers, RemoveFile(w)
  PROVE  IInv'
<1>1. CopyTypeOK'
  BY DEF IInv, CopyTypeOK, PCs, Inits, HeldOK, RemoveFile
<1>2. HeldOK'
  BY DEF IInv, CopyTypeOK, HeldOK, RemoveFile
<1>3. MutexOK'
  BY IdentitiesAreDistinct
  DEF IInv, CopyTypeOK, HeldOK, MutexOK, Critical, RemoveFile
<1>4. MapOK'
  BY DEF IInv, CopyTypeOK, HeldOK, MapOK, RemoveFile
<1>5. LiveOK'
  BY DEF IInv, CopyTypeOK, HeldOK, MutexOK, MapOK, LiveOK, Critical, RemoveFile
<1>6. OneCopyPerInode'
  BY DEF IInv, CopyTypeOK, HeldOK, MapOK, LiveOK, OneCopyPerInode, Opened,
         RemoveFile, Entry
<1>7. RefsAreExact'
  BY DEF IInv, CopyTypeOK, HeldOK, RefsAreExact, Fresh, Holders, HandlesOf,
         WorkersOf, Opened, RemoveFile, Entry
<1>8. FilesOK'
  BY IdentitiesAreDistinct
  DEF IInv, CopyTypeOK, HeldOK, MutexOK, MapOK, LiveOK, FilesOK,
      OneCopyPerInode, Opened, Critical, RemoveFile, Entry
<1> QED  BY <1>1, <1>2, <1>3, <1>4, <1>5, <1>6, <1>7, <1>8 DEF IInv

\* Unmap keeps the invariant.
LEMMA UnmapStep ==
  ASSUME IInv, NEW w \in Workers, Unmap(w)
  PROVE  IInv'
<1>1. CopyTypeOK'
  BY DEF IInv, CopyTypeOK, PCs, Inits, HeldOK, Unmap
<1>2. HeldOK'
  BY DEF IInv, CopyTypeOK, HeldOK, Unmap
<1>3. MutexOK'
  BY IdentitiesAreDistinct
  DEF IInv, CopyTypeOK, HeldOK, MutexOK, Critical, Unmap
<1>4. MapOK'
  BY DEF IInv, CopyTypeOK, HeldOK, MapOK, Unmap
<1>5. LiveOK'
  BY DEF IInv, CopyTypeOK, HeldOK, MutexOK, MapOK, LiveOK, Critical, Unmap
<1>6. OneCopyPerInode'
  BY DEF IInv, CopyTypeOK, HeldOK, MapOK, LiveOK, OneCopyPerInode, Opened,
         Unmap, Entry
<1>7. RefsAreExact'
  <2> SUFFICES ASSUME NEW d \in Copies, d \notin Fresh'
               PROVE  refs'[d] = Cardinality(Holders(d)')
    BY DEF RefsAreExact
  <2>1. d \notin Fresh
    BY IdentitiesAreDistinct
    DEF IInv, CopyTypeOK, HeldOK, Fresh, HandlesOf, Opened, Unmap
  <2>2. Holders(d)' = Holders(d)
    BY DEF IInv, CopyTypeOK, HeldOK, Holders, HandlesOf, WorkersOf, Opened,
           Unmap
  <2> QED  BY <2>1, <2>2 DEF IInv, RefsAreExact, Unmap
<1>8. FilesOK'
  BY DEF IInv, CopyTypeOK, HeldOK, MutexOK, MapOK, LiveOK, FilesOK,
         OneCopyPerInode, Opened, Critical, Unmap, Entry
<1> QED  BY <1>1, <1>2, <1>3, <1>4, <1>5, <1>6, <1>7, <1>8 DEF IInv

\* Unlock keeps the invariant.
LEMMA UnlockStep ==
  ASSUME IInv, NEW w \in Workers, Unlock(w)
  PROVE  IInv'
<1>1. CopyTypeOK'
  BY DEF IInv, CopyTypeOK, PCs, Inits, HeldOK, Unlock
<1>2. HeldOK'
  BY DEF IInv, CopyTypeOK, HeldOK, Unlock
<1>3. MutexOK'
  BY IdentitiesAreDistinct
  DEF IInv, CopyTypeOK, HeldOK, MutexOK, Critical, Unlock
<1>4. MapOK'
  BY DEF IInv, CopyTypeOK, HeldOK, MapOK, Unlock
<1>5. LiveOK'
  BY DEF IInv, CopyTypeOK, HeldOK, MutexOK, MapOK, LiveOK, Critical, Unlock
<1>6. OneCopyPerInode'
  BY DEF IInv, CopyTypeOK, HeldOK, MapOK, LiveOK, OneCopyPerInode, Opened,
         Unlock, Entry
<1>7. RefsAreExact'
  <2> SUFFICES ASSUME NEW d \in Copies, d \notin Fresh'
               PROVE  refs'[d] = Cardinality(Holders(d)')
    BY DEF RefsAreExact
  <2>1. d \notin Fresh
    BY IdentitiesAreDistinct
    DEF IInv, CopyTypeOK, HeldOK, Fresh, HandlesOf, Opened, Unlock
  <2>2. Holders(d)' = Holders(d)
    BY DEF IInv, CopyTypeOK, HeldOK, Holders, HandlesOf, WorkersOf, Opened,
           Unlock
  <2> QED  BY <2>1, <2>2 DEF IInv, RefsAreExact, Unlock
<1>8. FilesOK'
  BY DEF IInv, CopyTypeOK, HeldOK, MutexOK, MapOK, LiveOK, FilesOK,
         OneCopyPerInode, Opened, Critical, Unlock, Entry
<1> QED  BY <1>1, <1>2, <1>3, <1>4, <1>5, <1>6, <1>7, <1>8 DEF IInv

------------------------------------------------------------------------------
\* AdbFs::new: no copies, no handles, idle threads.
LEMMA InitIInv == CopyInitState => IInv
<1> SUFFICES ASSUME CopyInitState PROVE IInv
  OBVIOUS
<1>1. CopyTypeOK /\ HeldOK /\ MutexOK /\ MapOK /\ LiveOK /\ OneCopyPerInode /\ FilesOK
  BY IdentitiesAreDistinct
  DEF CopyInitState, CopyTypeOK, PCs, Inits, HeldOK, MutexOK, Critical, MapOK, LiveOK,
      OneCopyPerInode, Opened, FilesOK
<1>2. RefsAreExact
  <2>1. ASSUME NEW c \in Copies  PROVE Holders(c) = {}
    BY DEF CopyInitState, Holders, HandlesOf, WorkersOf, Opened
  <2> QED  BY <2>1, FS_EmptySet DEF RefsAreExact, CopyInitState
<1> QED  BY <1>1, <1>2 DEF IInv

\* Whatever any worker does next keeps the invariant.
LEMMA NextIInv == IInv /\ [CopyNext]_copyVars => IInv'
<1> SUFFICES ASSUME IInv, [CopyNext]_copyVars PROVE IInv'
  OBVIOUS
<1>1. CASE UNCHANGED copyVars
  BY <1>1
  DEF copyVars, IInv, CopyTypeOK, HeldOK, MutexOK, MapOK, LiveOK, OneCopyPerInode,
      RefsAreExact, Fresh, Holders, HandlesOf, WorkersOf, FilesOK, Opened
<1>2. ASSUME NEW w \in Workers, Request(w)  PROVE IInv'
  BY <1>2, AcquireStep, ReleaseHandleStep DEF Request
<1>3. ASSUME NEW w \in Workers, Step(w)  PROVE IInv'
  BY <1>3, LookupMappedStep, LookupNewStep, LockStep, RetryStep, PopulateStep,
     PopulateFailStep, CountStep, InstallStep, DropStep, ReleaseSharedStep,
     ReleaseLastStep, RemoveFileStep, UnmapStep, UnlockStep
  DEF Step
<1> QED  BY <1>1, <1>2, <1>3 DEF CopyNext

\* The table is always in a state the invariant describes.
THEOREM Inductive == CopySpec => []IInv
BY InitIInv, NextIInv, PTL DEF CopySpec

\* Every variable keeps its type; that `refs` stays a natural number says that
\* `refs -= 1` in release_copy never wraps.
THEOREM TypeCorrect == CopySpec => []CopyTypeOK
<1>1. IInv => CopyTypeOK
  BY DEF IInv
<1> QED  BY <1>1, Inductive, PTL

\* Two opens of one file share one local copy, and it is not an evicted one.
THEOREM CopiesAreShared == CopySpec => []OneCopyPerInode
<1>1. IInv => OneCopyPerInode
  BY DEF IInv
<1> QED  BY <1>1, Inductive, PTL

\* refs counts the handles and handlers that hold the copy.
THEOREM RefsCount == CopySpec => []RefsAreExact
<1>1. IInv => RefsAreExact
  BY DEF IInv
<1> QED  BY <1>1, Inductive, PTL

\* The local file of an inode in use exists.
THEOREM LocalFileStays == CopySpec => []FilePresent
<1>1. IInv => FilePresent
  BY IdentitiesAreDistinct
  DEF IInv, CopyTypeOK, Entry, HeldOK, OneCopyPerInode, FilesOK, FilePresent, Opened
<1> QED  BY <1>1, Inductive, PTL

\* No pull overwrites, and no remove_file deletes, a local file in use.
THEOREM LocalFileIsSafe == CopySpec => []NoClobber
<1>1. IInv => NoClobber
  <2> SUFFICES ASSUME IInv, NEW w \in Workers,
                      \/ pc[w] = "populate" /\ init[w] = "Pull" /\ MustPopulate(w)
                      \/ pc[w] = "remove"
               PROVE  /\ \A h \in Opened : open_files[h].ino # ino[w]
                      /\ \A v \in Workers \ {w} :
                           pc[v] \in {"populate", "count", "using", "release", "remove"}
                             => ino[v] # ino[w]
    BY DEF NoClobber
  <2>1. held[w] \in Copies /\ open_copies[ino[w]] = held[w] /\ owner[held[w]] = w
    BY IdentitiesAreDistinct DEF IInv, HeldOK, MutexOK, Critical, LiveOK
  <2>2. pulled[held[w]] => evicted[held[w]]
    BY DEF MustPopulate, IInv, LiveOK
  <2>3. \A h \in Opened : open_files[h].ino # ino[w]
    BY <2>1, <2>2 DEF IInv, OneCopyPerInode, FilesOK
  <2>4. \A v \in Workers : pc[v] \in {"using", "release"} => ino[v] # ino[w]
    BY <2>1, <2>2 DEF IInv, OneCopyPerInode, FilesOK
  <2>5. \A v \in Workers \ {w} :
          pc[v] \in {"populate", "count", "remove"} => ino[v] # ino[w]
    BY <2>1, IdentitiesAreDistinct DEF IInv, HeldOK, MutexOK, Critical, LiveOK
  <2> QED  BY <2>3, <2>4, <2>5
<1> QED  BY <1>1, Inductive, PTL

------------------------------------------------------------------------------
(***************************************************************************)
(* Nothing is left in the map.  The worker that keeps an entry there must  *)
(* still have something to do with it: one that only unlocks is too late.  *)
(***************************************************************************)
Kept(c) == refs[c] > 0 \/ \E w \in Workers : held[w] = c /\ pc[w] # "unlock"

EntriesAreKept ==
  \A i \in Inodes : open_copies[i] # NoCopy => Kept(open_copies[i])

\* A step that neither changes the map nor a count, and after which the worker
\* has the Arc it had, or an Arc that was evicted or still counted.
LEMMA KeptByOthers ==
  ASSUME IInv, EntriesAreKept, NEW w \in Workers,
         UNCHANGED <<open_copies, refs>>,
         \A v \in Workers \ {w} : held'[v] = held[v] /\ pc'[v] = pc[v],
         \/ held'[w] = held[w] /\ pc'[w] # "unlock"
         \/ held[w] = NoCopy
         \/ pc[w] = "unlock"
         \/ refs[held[w]] > 0
         \/ pc[w] = "lock" /\ evicted[held[w]]
  PROVE  EntriesAreKept'
<1> SUFFICES ASSUME NEW i \in Inodes, open_copies[i] # NoCopy
             PROVE  Kept(open_copies[i])'
  BY DEF EntriesAreKept
<1>1. CASE refs[open_copies[i]] > 0
  BY <1>1 DEF Kept
<1>2. CASE refs[open_copies[i]] <= 0
  <2>1. PICK v \in Workers : held[v] = open_copies[i] /\ pc[v] # "unlock"
    BY <1>2 DEF EntriesAreKept, Kept, IInv, CopyTypeOK
  <2>2. CASE v # w
    BY <2>1, <2>2 DEF Kept
  <2>3. CASE v = w /\ pc[w] = "lock" /\ evicted[held[w]]
    BY <2>1, <2>3 DEF Kept, IInv, LiveOK
  <2> QED  BY <1>2, <2>1, <2>2, <2>3 DEF Kept, IInv, CopyTypeOK
<1> QED  BY <1>1, <1>2 DEF IInv, CopyTypeOK

\* Every step of acquire_copy and release_copy leaves only entries that are kept.
LEMMA NextKept ==
  ASSUME IInv, EntriesAreKept, [CopyNext]_copyVars
  PROVE  EntriesAreKept'
<1>1. CASE UNCHANGED copyVars
  BY <1>1 DEF EntriesAreKept, Kept, copyVars
<1>2. ASSUME NEW w \in Workers,
             \/ \E i \in Inodes, k \in Inits : Acquire(w, i, k)
             \/ \E h \in Handles : ReleaseHandle(w, h)
             \/ LookupMapped(w) \/ Lock(w) \/ Populate(w) \/ Drop(w) \/ RemoveFile(w)
             \/ Retry(w)
      PROVE  EntriesAreKept'
  <2>1. \/ held'[w] = held[w] /\ pc'[w] # "unlock"
        \/ held[w] = NoCopy
        \/ pc[w] = "lock" /\ evicted[held[w]]
    BY <1>2 DEF IInv, CopyTypeOK, HeldOK, Acquire, ReleaseHandle, LookupMapped, Lock,
                Populate, Drop, RemoveFile, Retry
  <2>2. /\ UNCHANGED <<open_copies, refs>>
        /\ \A v \in Workers \ {w} : held'[v] = held[v] /\ pc'[v] = pc[v]
    BY <1>2 DEF IInv, CopyTypeOK, Acquire, ReleaseHandle, LookupMapped, Lock,
                Populate, Drop, RemoveFile, Retry
  <2> QED  BY <2>1, <2>2, KeptByOthers
<1>3. ASSUME NEW w \in Workers, PopulateFail(w) \/ Unlock(w)  PROVE EntriesAreKept'
  <2>1. \/ held'[w] = held[w] /\ pc'[w] # "unlock"
        \/ pc[w] = "unlock"
        \/ refs[held[w]] > 0
    BY <1>3 DEF IInv, CopyTypeOK, HeldOK, PopulateFail, Unlock
  <2>2. /\ UNCHANGED <<open_copies, refs>>
        /\ \A v \in Workers \ {w} : held'[v] = held[v] /\ pc'[v] = pc[v]
    BY <1>3 DEF IInv, CopyTypeOK, PopulateFail, Unlock
  <2> QED  BY <2>1, <2>2, KeptByOthers
<1>4. ASSUME NEW w \in Workers, NEW h \in Handles, Install(w, h)
      PROVE  EntriesAreKept'
  <2>1. refs[held[w]] > 0
    BY <1>4, Counted DEF Install
  <2>2. /\ UNCHANGED <<open_copies, refs>>
        /\ \A v \in Workers \ {w} : held'[v] = held[v] /\ pc'[v] = pc[v]
    BY <1>4 DEF IInv, CopyTypeOK, Install
  <2> QED  BY <2>1, <2>2, KeptByOthers
<1>5. ASSUME NEW w \in Workers, NEW c \in Copies, LookupNew(w, c)
      PROVE  EntriesAreKept'
  BY <1>5 DEF EntriesAreKept, Kept, IInv, CopyTypeOK, HeldOK, LookupNew, Fresh
<1>6. ASSUME NEW w \in Workers, Count(w)  PROVE EntriesAreKept'
  BY <1>6 DEF EntriesAreKept, Kept, IInv, CopyTypeOK, HeldOK, Count
<1>7. ASSUME NEW w \in Workers, ReleaseShared(w)  PROVE EntriesAreKept'
  <2>1. refs[held[w]] - 1 > 0 /\ held[w] \in Copies
    BY <1>7, Counted DEF ReleaseShared, IInv, HeldOK
  <2> QED  BY <1>7, <2>1 DEF EntriesAreKept, Kept, IInv, CopyTypeOK, ReleaseShared
<1>8. ASSUME NEW w \in Workers, ReleaseLast(w)  PROVE EntriesAreKept'
  BY <1>8 DEF EntriesAreKept, Kept, IInv, CopyTypeOK, HeldOK, ReleaseLast
<1>9. ASSUME NEW w \in Workers, Unmap(w)  PROVE EntriesAreKept'
  BY <1>9 DEF EntriesAreKept, Kept, IInv, CopyTypeOK, HeldOK, LiveOK, MapOK, Unmap
<1> QED  BY <1>1, <1>2, <1>3, <1>4, <1>5, <1>6, <1>7, <1>8, <1>9 DEF CopyNext, Request, Step

\* A failed pull, or the last release, leaves no entry behind in open_copies.
THEOREM NothingIsLeft == CopySpec => []NoOrphan
<1>1. CopyInitState => EntriesAreKept
  BY DEF CopyInitState, EntriesAreKept
<1>2. IInv /\ EntriesAreKept /\ [CopyNext]_copyVars => EntriesAreKept'
  BY NextKept
<1>3. EntriesAreKept => NoOrphan
  BY DEF EntriesAreKept, Kept, NoOrphan
<1> QED  BY <1>1, <1>2, <1>3, Inductive, PTL DEF CopySpec
=============================================================================
