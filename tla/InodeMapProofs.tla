--------------------------- MODULE InodeMapProofs ---------------------------
(***************************************************************************)
(* Proofs about the inode map.  With one worker thread (-s) the two maps   *)
(* are inverse to each other, and the kernel's dentries lead to where they *)
(* are, through every rename; with two threads they are not (StaleDentry). *)
(* With any number of threads the maps keep their types, the root keeps    *)
(* its number, and a number is new when it is entered.                     *)
(***************************************************************************)
EXTENDS InodeMap, FiniteSetTheorems, SequenceTheorems, TLAPS

(***************************************************************************)
(* Paths.                                                                  *)
(***************************************************************************)

\* A path is a sequence of names, not too long.
LEMMA PathsAreSeqs ==
  /\ \A p : p \in Paths <=> p \in Seq(Names) /\ Len(p) =< Depth
  /\ \A p \in Paths : Len(p) \in Nat
  /\ <<>> \in Paths /\ Depth \in Nat
  <1>1. Depth \in Nat
    BY BoundsArePositive
  <1>2. ASSUME NEW p \in Paths PROVE p \in Seq(Names) /\ Len(p) =< Depth /\ Len(p) \in Nat
    <2>1. PICK n \in 0..Depth : p \in [1..n -> Names]
      BY DEF Paths
    <2>2. p \in Seq(Names)
      BY <2>1, SeqDef
    <2>3. Len(p) = n
      BY <2>1, <2>2, LenProperties
    <2> QED  BY <1>1, <2>1, <2>2, <2>3
  <1>3. ASSUME NEW p \in Seq(Names), Len(p) =< Depth PROVE p \in Paths
    <2>1. p \in [1..Len(p) -> Names] /\ Len(p) \in 0..Depth
      BY <1>1, <1>3, LenProperties
    <2> QED  BY <2>1 DEF Paths
  <1>5. <<>> \in Paths
    <2> DEFINE e == <<>>
    <2>1. e \in Seq(Names) /\ Len(e) = 0
      OBVIOUS
    <2> HIDE DEF e
    <2>3. Len(e) =< Depth
      BY <1>1, <2>1
    <2>2. e \in Paths
      BY <1>3, <2>1, <2>3, Zenon
    <2> QED  BY <2>2 DEF e
  <1> QED  BY <1>1, <1>2, <1>3, <1>5

\* The path r below a, moved to below b.
MovedPath(r, a, b) == b \o SubSeq(r, Len(a) + 1, Len(r))

\* A prefix, element by element.
LEMMA UnderMeans ==
  ASSUME NEW p \in Seq(Names), NEW q \in Seq(Names)
  PROVE  Under(p, q) <=> Len(q) =< Len(p) /\ \A k \in 1..Len(q) : p[k] = q[k]
  <1>1. SubSeq(q, 1, Len(q)) = q
    OBVIOUS
  <1>2. ASSUME Len(q) =< Len(p)
        PROVE  SubSeq(p, 1, Len(q)) = q <=> \A k \in 1..Len(q) : p[k] = q[k]
    <2>1. /\ SubSeq(p, 1, Len(q)) \in Seq(Names) /\ Len(SubSeq(p, 1, Len(q))) = Len(q)
          /\ \A k \in 1..Len(q) : SubSeq(p, 1, Len(q))[k] = p[k]
      BY <1>2
    <2>2. ASSUME \A k \in 1..Len(q) : p[k] = q[k]
          PROVE  SubSeq(p, 1, Len(q)) = q
      BY <2>1, <2>2, SeqEqual
    <2> QED  BY <2>1, <2>2
  <1> QED  BY <1>1, <1>2 DEF Under, IsPrefix

\* Of two paths above another one is above the other.
LEMMA AboveInOrder ==
  ASSUME NEW p \in Seq(Names), NEW a \in Seq(Names), NEW b \in Seq(Names),
         Under(p, a), Under(p, b)
  PROVE  Under(a, b) \/ Under(b, a)
  <1>1. /\ Len(a) \in Nat /\ Len(b) \in Nat
        /\ \A k \in 1..Len(a) : p[k] = a[k]
        /\ \A k \in 1..Len(b) : p[k] = b[k]
    BY UnderMeans
  <1>2. CASE Len(a) =< Len(b)
    <2>1. \A k \in 1..Len(a) : k \in 1..Len(b)
      BY <1>1, <1>2
    <2> QED  BY <1>1, <1>2, <2>1, UnderMeans
  <1>3. CASE Len(b) =< Len(a)
    <2>1. \A k \in 1..Len(b) : k \in 1..Len(a)
      BY <1>1, <1>3
    <2> QED  BY <1>1, <1>3, <2>1, UnderMeans
  <1> QED  BY <1>1, <1>2, <1>3

\* A moved path is below where it was moved, and can be moved back.
LEMMA MovesBack ==
  ASSUME NEW a \in Seq(Names), NEW b \in Seq(Names), NEW r \in Seq(Names), Under(r, a)
  PROVE  /\ MovedPath(r, a, b) \in Seq(Names) /\ Under(MovedPath(r, a, b), b)
         /\ MovedPath(MovedPath(r, a, b), b, a) = r
  <1> DEFINE rest == SubSeq(r, Len(a) + 1, Len(r))
             s == b \o rest
             back == SubSeq(s, Len(b) + 1, Len(s))
  <1>1. /\ Len(a) \in Nat /\ Len(b) \in Nat /\ Len(r) \in Nat /\ Len(a) =< Len(r)
        /\ \A k \in 1..Len(a) : r[k] = a[k]
    BY UnderMeans
  <1>2. /\ rest \in Seq(Names) /\ Len(rest) = Len(r) - Len(a)
        /\ \A k \in 1..Len(rest) : rest[k] = r[Len(a) + k]
    BY <1>1
  <1> HIDE DEF rest
  <1>3. /\ s \in Seq(Names) /\ Len(s) = Len(b) + Len(rest)
        /\ \A k \in 1..Len(b) : s[k] = b[k]
        /\ \A k \in 1..Len(rest) : s[Len(b) + k] = rest[k]
    <2>1. /\ s \in Seq(Names) /\ Len(s) = Len(b) + Len(rest)
          /\ \A i \in 1..Len(b) + Len(rest) :
               s[i] = IF i =< Len(b) THEN b[i] ELSE rest[i - Len(b)]
      BY <1>2, ConcatProperties
    <2> HIDE DEF s
    <2>2. Len(rest) \in Nat
      BY <1>1, <1>2
    <2>3. \A k \in 1..Len(b) : k \in 1..Len(b) + Len(rest) /\ k =< Len(b)
      BY <1>1, <2>2
    <2>4. \A k \in 1..Len(rest) : /\ Len(b) + k \in 1..Len(b) + Len(rest)
                                  /\ ~(Len(b) + k =< Len(b)) /\ (Len(b) + k) - Len(b) = k
      BY <1>1, <2>2
    <2> QED  BY <2>1, <2>3, <2>4
  <1> HIDE DEF s
  <1>4. Under(s, b)
    <2>1. Len(b) =< Len(s)
      BY <1>1, <1>2, <1>3
    <2> QED  BY <1>3, <2>1, UnderMeans
  <1>5. back = rest
    <2>1. /\ back \in Seq(Names) /\ Len(back) = Len(rest)
          /\ \A k \in 1..Len(rest) : back[k] = s[Len(b) + k]
      BY <1>1, <1>2, <1>3
    <2>2. \A k \in 1..Len(back) : back[k] = rest[k]
      BY <1>3, <2>1
    <2> HIDE DEF back
    <2> QED  BY <1>2, <2>1, <2>2, SeqEqual
  <1>6. a \o rest = r
    <2>1. /\ a \o rest \in Seq(Names) /\ Len(a \o rest) = Len(r)
          /\ \A k \in 1..Len(a) : (a \o rest)[k] = a[k]
          /\ \A k \in 1..Len(rest) : (a \o rest)[Len(a) + k] = rest[k]
      BY <1>1, <1>2
    <2>2. ASSUME NEW k \in 1..Len(r)
          PROVE  (a \o rest)[k] = r[k]
      <3>1. CASE k \in 1..Len(a)
        BY <1>1, <2>1, <3>1
      <3>2. CASE k \notin 1..Len(a)
        <4>1. k - Len(a) \in 1..Len(rest) /\ k = Len(a) + (k - Len(a))
          BY <1>1, <1>2, <3>2
        <4> QED  BY <1>2, <2>1, <4>1
      <3> QED  BY <3>1, <3>2
    <2> QED  BY <2>1, <2>2, SeqEqual
  <1> QED  BY <1>3, <1>4, <1>5, <1>6 DEF MovedPath, rest, s, back

\* A child's path is a path, and not the root's.
LEMMA ChildIsPath ==
  ASSUME NEW p \in Paths, NEW n \in Names, Len(p) < Depth
  PROVE  Child(p, n) \in Paths \ {<<>>}
  <1>1. p \in Seq(Names) /\ Len(p) \in Nat /\ Depth \in Nat
    BY PathsAreSeqs
  <1>2. Append(p, n) \in Seq(Names) /\ Len(Append(p, n)) = Len(p) + 1
    BY <1>1
  <1>3. Len(Append(p, n)) =< Depth
    BY <1>1, <1>2
  <1>4. Append(p, n) # <<>>
    <2>1. Len(<<>>) = 0
      OBVIOUS
    <2> QED  BY <1>1, <1>2, <2>1
  <1>5. Append(p, n) \in Paths
    BY <1>2, <1>3, PathsAreSeqs, Zenon
  <1> QED  BY <1>4, <1>5 DEF Child

\* Only the root is above the root.
LEMMA NotAboveRoot ==
  ASSUME NEW p \in Paths \ {<<>>}
  PROVE  ~Under(<<>>, p)
  <1> DEFINE e == <<>>
  <1>1. e \in Seq(Names) /\ Len(e) = 0
    OBVIOUS
  <1>2. p \in Seq(Names) /\ p # e
    BY PathsAreSeqs
  <1>3. Len(p) \in Nat \ {0}
    BY <1>2, EmptySeq
  <1> HIDE DEF e
  <1>4. ~Under(e, p)
    <2>1. Under(e, p) => Len(p) =< Len(e)
      BY <1>1, <1>2, UnderMeans
    <2> QED  BY <1>1, <1>3, <2>1
  <1> QED  BY <1>4 DEF e

------------------------------------------------------------------------------
(***************************************************************************)
(* The invariant.  A number is loose while a worker moves it from path to  *)
(* path; all others have one path, and it is the same in both maps.        *)
(***************************************************************************)
OneThread == \E w : Workers = {w}

Loose(w) ==
  IF at[w] = "forget" THEN {job[w].num, job[w].lost}
  ELSE IF at[w] \in {"putPath", "putIno", "replace", "rekeyPath", "rekeyIno"} THEN {job[w].num}
  ELSE {}

Missing(i) == \A p \in Paths : path_to_ino[p] # i

Only(i, q) == \A p \in Paths : path_to_ino[p] = i <=> p = q

MapsAgree(w) ==
  LET j == job[w] IN
  /\ \A i \in Inos \ Loose(w), p \in Paths : path_to_ino[p] = i <=> ino_to_path[i] = p
  /\ at[w] \in {"putPath", "replace", "forget", "rekeyPath"} =>
       Missing(j.num) /\ j.num < next_ino
  /\ at[w] \in {"putPath", "putIno"} => ino_to_path[j.num] = NoPath
  /\ at[w] = "forget" => Missing(j.lost) /\ j.lost # j.num
  /\ at[w] = "putPath" => path_to_ino[j.path] = NoIno
  /\ at[w] \in {"forget", "rekeyPath"} => path_to_ino[j.entry] = NoIno
  /\ at[w] = "putIno" => Only(j.num, j.path)
  /\ at[w] = "rekeyIno" => Only(j.num, j.entry)

\* The root keeps its number, and the counter is above all that are in use.
RootStays == Only(Root, <<>>) /\ ino_to_path[Root] = <<>>

Fresh == \A p \in Paths : path_to_ino[p] < next_ino

\* What rekey_paths has still to move is where it found it; the rename's two
\* paths are apart.
RekeyFits(w) ==
  LET j == job[w] IN
  /\ at[w] \in Rekeying \cup {"collect"} => ~Under(j.path, j.dest) /\ ~Under(j.dest, j.path)
  /\ at[w] \in Rekeying =>
       \A m \in j.todo : /\ m \in Paths \X Inos /\ Under(m[1], j.path)
                         /\ NewPath(w, m[1]) \in Paths
                         /\ path_to_ino[m[1]] = m[2]
                         /\ dentry[m[1]] \in {NoIno, m[2]}
  /\ at[w] \in Rekeying \ {"next"} =>
       /\ Under(j.entry, j.dest) /\ j.num \in Inos
       /\ \A p \in Paths : Under(p, j.path) /\ NewPath(w, p) = j.entry =>
                             dentry[p] \in {NoIno, j.num}
  /\ at[w] = "forget" => j.lost \in Inos

\* The number of a dentry leads to its path; while a rename is under way, that of
\* a dentry below the old path leads there as long as it is still to be moved, and
\* then to the new one.
DentriesFollow(w) ==
  LET j == job[w] IN
  /\ at[w] \notin Rekeying => \A p \in Paths : dentry[p] # NoIno => ino_to_path[dentry[p]] = p
  /\ at[w] \in Rekeying =>
       \A p \in Paths : dentry[p] # NoIno =>
         /\ ~Under(p, j.path) /\ ~Under(p, j.dest) =>
              ino_to_path[dentry[p]] = p /\ path_to_ino[p] = dentry[p]
         /\ Under(p, j.path) /\ NewPath(w, p) \in Paths =>
              \/ <<p, dentry[p]>> \in j.todo
              \/ at[w] # "next" /\ dentry[p] = j.num /\ j.entry = NewPath(w, p)
              \/ /\ ino_to_path[dentry[p]] = NewPath(w, p)
                 /\ path_to_ino[NewPath(w, p)] = dentry[p]

\* The handler's path is the kernel's.
JobFits(w) ==
  LET j == job[w] IN
  /\ at[w] = "list" => j.op = "opendir" /\ Len(j.path) < Depth
  /\ at[w] \notin {"idle", "list", "get", "putPath", "putIno"} => j.op # "opendir"
  /\ at[w] # "idle" /\ j.op # "opendir" =>
       j.path # <<>> /\ KernelPlaces(j.parent, j.name) \subseteq {j.path}
  /\ at[w] \in {"get", "putPath", "putIno"} /\ j.op = "opendir" => j.todo \subseteq Paths
  /\ at[w] \in {"putPath", "putIno"} => j.num \in Inos
  /\ at[w] = "push" => j.num \in Inos /\ path_to_ino[j.path] = j.num
  /\ at[w] = "target" => j.destParent \in Inos /\ j.destName \in Names
  /\ at[w] \in {"target", "mv", "collect"} \cup Rekeying =>
       KernelPlaces(j.parent, j.name) # {} /\ KernelPlaces(j.destParent, j.destName) # {}
  /\ at[w] \in {"mv", "collect"} \cup Rekeying =>
       j.dest # <<>> /\ KernelPlaces(j.destParent, j.destName) \subseteq {j.dest}

\* The bound on the numbers: those that the request may still take are there.
NumbersLast(w) ==
  LET j == job[w] IN
  /\ at[w] \in {"stat", "make"} \/ (at[w] = "get" /\ j.op # "opendir") => next_ino =< MaxIno
  /\ at[w] = "list" => next_ino + Cardinality(Names) =< MaxIno + 1
  /\ at[w] = "get" /\ j.op = "opendir" =>
       IsFiniteSet(j.todo) /\ next_ino + Cardinality(j.todo) =< MaxIno
  /\ at[w] \in {"putPath", "putIno"} /\ j.op = "opendir" =>
       IsFiniteSet(j.todo) /\ next_ino + Cardinality(j.todo) =< MaxIno + 1

MapInv(w) ==
  /\ TypeOK /\ RootStays /\ Fresh /\ NumbersAreDistinct
  /\ MapsAgree(w) /\ RekeyFits(w) /\ DentriesFollow(w) /\ JobFits(w) /\ NumbersLast(w)

\* At the start the root has its number, and nothing else has one.
LEMMA OnlyTheRoot == ASSUME NEW w, Workers = {w}, Init PROVE MapInv(w)
  <1>1. Root \in Inos /\ NoIno \notin Inos /\ MaxIno \in Nat /\ MaxIno >= 1
    BY BoundsArePositive DEF Root, Inos, NoIno
  <1>2. <<>> \in Paths /\ "idle" \in Stages /\ NoJob \in Jobs
    BY PathsAreSeqs DEF Stages, Jobs, NoJob
  <1>3. TypeOK
    BY <1>1, <1>2 DEF Init, TypeOK, Root
  <1>4. RootStays /\ Fresh /\ NumbersAreDistinct
    BY <1>1, <1>2 DEF Init, RootStays, Only, Fresh, NumbersAreDistinct, NoIno, Root
  <1>5. at[w] = "idle"
    BY DEF Init
  <1>6. \A i \in Inos, p \in Paths : path_to_ino[p] = i <=> ino_to_path[i] = p
    BY <1>1, NoPathIsNoPath DEF Init
  <1>7. \A p \in Paths : dentry[p] = NoIno
    BY DEF Init
  <1> QED  BY <1>3, <1>4, <1>5, <1>6, <1>7 DEF MapInv, MapsAgree, RekeyFits, DentriesFollow,
             JobFits, NumbersLast, Loose, Rekeying


------------------------------------------------------------------------------
(***************************************************************************)
(* Steps that change neither map.                                          *)
(***************************************************************************)

\* A worker goes on with a job.
LEMMA JobStep ==
  ASSUME TypeOK, NEW w \in Workers, NEW j \in Jobs, NEW s \in Stages, Keep(w, j), Goto(w, s)
  PROVE  /\ job' \in [Workers -> Jobs] /\ job'[w] = j
         /\ at' \in [Workers -> Stages] /\ at'[w] = s
  BY DEF TypeOK, Keep, Goto

\* What the kernel has at a name of a directory is below the directory's path.
LEMMA PlacesAreKnown ==
  ASSUME NEW w, MapInv(w), at[w] \notin Rekeying, NEW i \in Inos, NEW n \in Names
  PROVE  /\ KernelPlaces(i, n) \subseteq {Child(ino_to_path[i], n)}
         /\ KernelPlaces(i, n) \subseteq Paths \ {<<>>}
  <1>1. KernelPaths(i) \subseteq {ino_to_path[i]} /\ KernelPaths(i) \subseteq Paths
    <2>1. CASE i = Root
      BY <2>1, PathsAreSeqs DEF KernelPaths, MapInv, RootStays
    <2>2. CASE i # Root
      BY <2>2 DEF KernelPaths, MapInv, DentriesFollow, Inos, NoIno
    <2> QED  BY <2>1, <2>2
  <1>2. ASSUME NEW q \in KernelPlaces(i, n)
        PROVE  q = Child(ino_to_path[i], n) /\ q \in Paths \ {<<>>}
    <2>1. PICK p \in KernelPaths(i) : Len(p) < Depth /\ q = Child(p, n)
      BY DEF KernelPlaces
    <2> QED  BY <1>1, <2>1, ChildIsPath
  <1> QED  BY <1>2

\* As long as the maps and the dentries are as they were, and no number is loose,
\* the parts of the invariant about them stay.
Calm == {"idle", "stat", "list", "make", "push", "rm", "target", "mv", "get", "collect"}

LEMMA MapsStay ==
  ASSUME NEW w, Workers = {w}, MapInv(w), UNCHANGED <<maps, dentry>>,
         at[w] \in Calm, at'[w] \in Calm
  PROVE  /\ (RootStays /\ Fresh /\ NumbersAreDistinct)'
         /\ MapsAgree(w)' /\ DentriesFollow(w)'
  <1>1. /\ at[w] \notin Rekeying \cup {"putPath", "putIno"}
        /\ at'[w] \notin Rekeying \cup {"putPath", "putIno"}
    BY DEF Calm, Rekeying
  <1>2. Loose(w) = {} /\ Loose(w)' = {}
    BY <1>1 DEF Loose, Rekeying
  <1>3. UNCHANGED <<path_to_ino, ino_to_path, next_ino, dentry>>
    BY DEF maps
  <1>4. (RootStays /\ Fresh /\ NumbersAreDistinct)'
    BY <1>3 DEF MapInv, RootStays, Only, Fresh, NumbersAreDistinct
  <1>5. \A i \in Inos, p \in Paths : path_to_ino'[p] = i <=> ino_to_path'[i] = p
    BY <1>2, <1>3 DEF MapInv, MapsAgree
  <1>6. MapsAgree(w)'
    BY <1>1, <1>2, <1>5 DEF MapsAgree, Rekeying
  <1>7. DentriesFollow(w)'
    BY <1>1, <1>3 DEF MapInv, DentriesFollow
  <1> QED  BY <1>4, <1>6, <1>7

\* A request but opendir starts at the path of its parent.
LEMMA StartKeeps ==
  ASSUME NEW w, Workers = {w}, MapInv(w), Idle(w), NEW i \in Inos, NEW n \in Names,
         NEW s \in {"stat", "make", "get", "rm", "target"},
         NEW j \in Jobs, j.op # "opendir", StartAt(w, i, n, s, j),
         s = "target" => /\ j.destParent \in Inos /\ j.destName \in Names
                         /\ KernelPlaces(j.destParent, j.destName) # {},
         s \in {"stat", "make", "get"} => next_ino =< MaxIno
  PROVE  MapInv(w)'
  <1> DEFINE p == Child(ino_to_path[i], n)
             k == [j EXCEPT !.parent = i, !.name = n, !.path = p]
  <1>1. at[w] = "idle" /\ w \in Workers /\ TypeOK
    BY DEF Idle, MapInv
  <1>2. p \in Paths \ {<<>>}
    BY <1>1, ChildIsPath DEF StartAt, TypeOK
  <1> HIDE DEF p
  <1>3. k \in Jobs
    BY <1>2 DEF Jobs
  <1>4. /\ k.op = j.op /\ k.parent = i /\ k.name = n /\ k.path = p /\ k.num = j.num
        /\ k.destParent = j.destParent /\ k.destName = j.destName
    BY DEF Jobs
  <1> HIDE DEF k
  <1>5. /\ job' \in [Workers -> Jobs] /\ job'[w] = k
        /\ at' \in [Workers -> Stages] /\ at'[w] = s
    <2>1. Keep(w, k) /\ Goto(w, s) /\ s \in Stages
      BY DEF StartAt, k, p, Stages
    <2> QED  BY <1>1, <1>3, <2>1, JobStep
  <1>6. UNCHANGED <<maps, tree, kernel>>
    BY DEF StartAt
  <1>7. UNCHANGED <<path_to_ino, ino_to_path, next_ino, tree, dentry, dirs>>
    BY <1>6 DEF maps, kernel
  <1>8. TypeOK'
    BY <1>1, <1>5, <1>7 DEF TypeOK
  <1>9. at[w] \in Calm /\ at'[w] \in Calm /\ at'[w] \notin Rekeying
    BY <1>1, <1>5 DEF Calm, Rekeying
  <1>10. (RootStays /\ Fresh /\ NumbersAreDistinct)' /\ MapsAgree(w)' /\ DentriesFollow(w)'
    BY <1>6, <1>9, MapsStay DEF kernel
  <1>11. RekeyFits(w)'
    BY <1>5, <1>9 DEF RekeyFits, Rekeying
  <1>12. /\ KernelPlaces(i, n) \subseteq {p} /\ KernelPlaces(i, n) # {}
         /\ \A d, m : KernelPlaces(d, m)' = KernelPlaces(d, m)
    <2>1. KernelPlaces(i, n) \subseteq {p}
      BY <1>1, PlacesAreKnown DEF p, Rekeying
    <2>2. \A d, m : KernelPlaces(d, m)' = KernelPlaces(d, m)
      BY <1>7 DEF KernelPlaces, KernelPaths
    <2> QED  BY <2>1, <2>2 DEF StartAt
  <1>13. JobFits(w)'
    BY <1>2, <1>4, <1>5, <1>12 DEF JobFits, Rekeying
  <1>14. NumbersLast(w)'
    BY <1>4, <1>5, <1>7 DEF NumbersLast
  <1> QED  BY <1>8, <1>10, <1>11, <1>13, <1>14 DEF MapInv

\* A request that may take numbers starts when there are some for all names.
LEMMA RoomIsLeft ==
  ASSUME NEW w, Workers = {w}, TypeOK,
         NEW op, op \notin {"remove", "rename"}, Send(w, op)
  PROVE  /\ Cardinality(Names) \in Nat
         /\ next_ino + Cardinality(Names) =< MaxIno + 1
         /\ Names # {} => next_ino =< MaxIno
  <1>1. Cardinality(Names) \in Nat /\ (Names # {} => Cardinality(Names) # 0)
    BY NamesAreFinite, FS_CardinalityType, FS_EmptySet
  <1>2. Reserved \in Nat
    <2>1. {v \in Workers : at[v] # "idle"} = {}
      BY DEF Send, Idle
    <2>2. Cardinality({v \in Workers : at[v] # "idle"}) = 0
      BY <2>1, FS_EmptySet
    <2> QED  BY <1>1, <2>2 DEF Reserved
  <1>3. next_ino + Reserved + Cardinality(Names) =< MaxIno + 1
    BY DEF Send
  <1>4. next_ino \in Nat /\ MaxIno \in Nat
    BY BoundsArePositive DEF TypeOK
  <1> QED  BY <1>1, <1>2, <1>3, <1>4

\* The kernel's requests.
LEMMA RequestKeeps ==
  ASSUME NEW w, Workers = {w}, MapInv(w), Request(w)
  PROVE  MapInv(w)'
  <1>1. w \in Workers /\ TypeOK /\ NoJob \in Jobs
    BY PathsAreSeqs DEF MapInv, NoJob, Jobs, NoIno
  <1>2. ASSUME NEW i \in Inos, NEW n \in Names, Lookup(w, i, n)
        PROVE  MapInv(w)'
    <2> DEFINE j == [NoJob EXCEPT !.op = "lookup",
                       !.locks = IF \E p \in KernelPlaces(i, n) : dentry[p] # NoIno THEN {} ELSE {i}]
    <2>1. j \in Jobs /\ j.op = "lookup"
      <3> DEFINE L == IF \E p \in KernelPlaces(i, n) : dentry[p] # NoIno THEN {} ELSE {i}
      <3>1. L \in SUBSET Inos
        OBVIOUS
      <3> HIDE DEF L
      <3>2. [NoJob EXCEPT !.op = "lookup", !.locks = L] \in Jobs
        BY <1>1, <3>1 DEF Jobs
      <3>3. [NoJob EXCEPT !.op = "lookup", !.locks = L].op = "lookup"
        BY <1>1 DEF Jobs
      <3> QED  BY <3>2, <3>3 DEF L
    <2>2. StartAt(w, i, n, "stat", j) /\ Send(w, "lookup")
      BY <1>2 DEF Lookup
    <2> HIDE DEF j
    <2> QED  BY <1>1, <2>1, <2>2, RoomIsLeft, StartKeeps DEF Send
  <1>3. ASSUME NEW i \in Inos, NEW n \in Names, NEW k \in {"file", "dir"}, Make(w, i, n, k)
        PROVE  MapInv(w)'
    <2> DEFINE j == [NoJob EXCEPT !.op = "make", !.locks = {i}, !.kind = k]
    <2>1. j \in Jobs /\ j.op = "make"
      BY <1>1 DEF Jobs
    <2>2. StartAt(w, i, n, "make", j) /\ Send(w, "make")
      BY <1>3 DEF Make
    <2> HIDE DEF j
    <2> QED  BY <1>1, <2>1, <2>2, RoomIsLeft, StartKeeps DEF Send
  <1>4. ASSUME NEW i \in Inos, NEW n \in Names, Create(w, i, n)
        PROVE  MapInv(w)'
    <2> DEFINE j == [NoJob EXCEPT !.op = "create", !.locks = {i}, !.kind = "file"]
    <2>1. j \in Jobs /\ j.op = "create"
      BY <1>1 DEF Jobs
    <2>2. StartAt(w, i, n, "get", j) /\ Send(w, "create")
      BY <1>4 DEF Create
    <2> HIDE DEF j
    <2> QED  BY <1>1, <2>1, <2>2, RoomIsLeft, StartKeeps DEF Send
  <1>5. ASSUME NEW i \in Inos, NEW n \in Names, Unlink(w, i, n)
        PROVE  MapInv(w)'
    <2> DEFINE j == [NoJob EXCEPT !.op = "remove", !.locks = {i}]
    <2>1. j \in Jobs /\ j.op = "remove"
      BY <1>1 DEF Jobs
    <2>2. StartAt(w, i, n, "rm", j) /\ Send(w, "remove")
      BY <1>5 DEF Unlink
    <2> HIDE DEF j
    <2> QED  BY <1>1, <2>1, <2>2, StartKeeps DEF Send
  <1>6. ASSUME NEW i \in Inos, NEW n \in Names, NEW d \in Inos, NEW m \in Names,
               Rename(w, i, n, d, m)
        PROVE  MapInv(w)'
    <2> DEFINE j == [NoJob EXCEPT !.op = "rename", !.locks = {i, d}, !.destParent = d, !.destName = m]
    <2>1. j \in Jobs /\ j.op = "rename" /\ j.destParent = d /\ j.destName = m
      BY <1>1 DEF Jobs
    <2>2. StartAt(w, i, n, "target", j) /\ Send(w, "rename") /\ KernelPlaces(d, m) # {}
      BY <1>6 DEF Rename
    <2> HIDE DEF j
    <2> QED  BY <1>1, <2>1, <2>2, StartKeeps DEF Send
  <1>7. ASSUME NEW i \in Inos, Opendir(w, i)
        PROVE  MapInv(w)'
    <2> DEFINE j == [NoJob EXCEPT !.op = "opendir", !.parent = i, !.path = ino_to_path[i]]
    <2>1. ino_to_path[i] \in Paths /\ Len(ino_to_path[i]) < Depth
      BY <1>1, <1>7 DEF Opendir, TypeOK
    <2>2. j \in Jobs /\ j.op = "opendir" /\ j.path = ino_to_path[i]
      BY <1>1, <2>1 DEF Jobs
    <2>3. Keep(w, j) /\ Goto(w, "list") /\ UNCHANGED <<maps, tree, kernel>> /\ Send(w, "opendir")
      BY <1>7 DEF Opendir
    <2> HIDE DEF j
    <2>4. UNCHANGED <<path_to_ino, ino_to_path, next_ino, tree, dentry, dirs>>
      BY <2>3 DEF maps, kernel
    <2>5. /\ job' \in [Workers -> Jobs] /\ job'[w] = j
          /\ at' \in [Workers -> Stages] /\ at'[w] = "list"
      BY <1>1, <2>2, <2>3, JobStep DEF Stages
    <2>6. TypeOK'
      BY <1>1, <2>4, <2>5 DEF TypeOK
    <2>7. at[w] \in Calm /\ at'[w] \in Calm /\ at'[w] \notin Rekeying
      BY <2>3, <2>5 DEF Send, Idle, Calm, Rekeying
    <2>8. (RootStays /\ Fresh /\ NumbersAreDistinct)' /\ MapsAgree(w)' /\ DentriesFollow(w)'
      BY <2>3, <2>7, MapsStay DEF kernel
    <2>9. RekeyFits(w)' /\ JobFits(w)'
      BY <2>1, <2>2, <2>5 DEF RekeyFits, JobFits, Rekeying
    <2>10. NumbersLast(w)'
      BY <1>1, <2>3, <2>4, <2>5, RoomIsLeft DEF NumbersLast
    <2> QED  BY <2>6, <2>8, <2>9, <2>10 DEF MapInv
  <1> QED  BY <1>2, <1>3, <1>4, <1>5, <1>6, <1>7 DEF Request

\* At the end of a request the two maps have to be inverse, and the dentries have to
\* lead to where they are.
MapsInverse == \A i \in Inos, p \in Paths : path_to_ino[p] = i <=> ino_to_path[i] = p

Follow == \A p \in Paths : dentry[p] # NoIno => ino_to_path[dentry[p]] = p

MapTypes ==
  /\ path_to_ino \in [Paths -> Inos \cup {NoIno}]
  /\ ino_to_path \in [Inos -> Paths \cup {NoPath}]
  /\ next_ino \in 2..(MaxIno + 1)

KernelTypes == dentry \in [Paths -> Inos \cup {NoIno}] /\ dirs \subseteq Inos

DeviceTypes == tree \in [Paths -> {"none", "file", "dir"}]

LEMMA DoneKeeps ==
  ASSUME NEW w, Workers = {w}, TypeOK, Done(w),
         MapTypes', KernelTypes', DeviceTypes', (RootStays /\ Fresh /\ MapsInverse /\ Follow)'
  PROVE  MapInv(w)'
  <1>1. w \in Workers /\ NoJob \in Jobs /\ "idle" \in Stages
    BY PathsAreSeqs DEF NoJob, Jobs, NoIno, Stages
  <1>2. /\ job' \in [Workers -> Jobs] /\ job'[w] = NoJob
        /\ at' \in [Workers -> Stages] /\ at'[w] = "idle"
    BY <1>1, JobStep DEF Done
  <1>3. TypeOK'
    BY <1>2 DEF TypeOK, MapTypes, KernelTypes, DeviceTypes
  <1>4. NumbersAreDistinct'
    BY DEF Follow, NumbersAreDistinct
  <1>5. MapsAgree(w)'
    BY <1>2 DEF MapsInverse, MapsAgree, Loose
  <1>6. DentriesFollow(w)' /\ RekeyFits(w)' /\ JobFits(w)' /\ NumbersLast(w)'
    BY <1>2 DEF Follow, DentriesFollow, RekeyFits, JobFits, NumbersLast, Rekeying
  <1> QED  BY <1>3, <1>4, <1>5, <1>6 DEF MapInv

\* Nothing is loose between the steps of the maps.
LEMMA CalmMaps ==
  ASSUME NEW w, MapInv(w), at[w] \in Calm
  PROVE  /\ MapTypes /\ KernelTypes /\ DeviceTypes /\ MapsInverse /\ Follow
         /\ RootStays /\ Fresh /\ at[w] \notin Rekeying
  <1>1. at[w] \notin Rekeying \cup {"putPath", "putIno"}
    BY DEF Calm, Rekeying
  <1>2. Loose(w) = {}
    BY <1>1 DEF Loose, Rekeying
  <1>3. MapTypes /\ KernelTypes /\ DeviceTypes
    BY DEF MapInv, TypeOK, MapTypes, KernelTypes, DeviceTypes
  <1> QED  BY <1>1, <1>2, <1>3 DEF MapInv, MapsAgree, DentriesFollow, MapsInverse, Follow

\* A request that ends without a word about the maps, with fewer dentries or as many.
LEMMA EndsCalmly ==
  ASSUME NEW w, Workers = {w}, MapInv(w), at[w] \in Calm, Done(w), UNCHANGED maps,
         DeviceTypes', KernelTypes',
         \A p \in Paths : dentry'[p] # NoIno => ino_to_path[dentry'[p]] = p
  PROVE  MapInv(w)'
  <1>1. UNCHANGED <<path_to_ino, ino_to_path, next_ino>>
    BY DEF maps
  <1>2. MapTypes' /\ (RootStays /\ Fresh /\ MapsInverse)'
    BY <1>1, CalmMaps DEF MapTypes, RootStays, Only, Fresh, MapsInverse
  <1>3. Follow'
    BY <1>1 DEF Follow
  <1>4. TypeOK
    BY DEF MapInv
  <1> QED  BY <1>2, <1>3, <1>4, DoneKeeps

\* A dentry that goes leads nowhere.
LEMMA DroppingKeeps ==
  ASSUME NEW w, MapInv(w), at[w] \in Calm, NEW ps, dentry' = Dropped(dentry, ps)
  PROVE  /\ dentry' \in [Paths -> Inos \cup {NoIno}]
         /\ \A p \in Paths : dentry'[p] # NoIno => ino_to_path[dentry'[p]] = p
  BY CalmMaps DEF Dropped, KernelTypes, Follow

\* So does one that is made for the number of the handler's path.
LEMMA InstantiateKeeps ==
  ASSUME NEW w, KernelTypes, Follow, NEW i \in Inos, NEW isDir, Instantiate(w, i, isDir),
         KernelPlaces(job[w].parent, job[w].name) \subseteq {job[w].path},
         MapTypes', ino_to_path'[i] = job[w].path,
         \A n \in Inos \ {i} : ino_to_path'[n] = ino_to_path[n],
         \A p \in Paths : dentry[p] = i => p = job[w].path
  PROVE  KernelTypes' /\ Follow'
  <1> DEFINE new == KernelPlaces(job[w].parent, job[w].name)
             gone == {p \in Paths :
                        \/ \E q \in new : Under(p, q) /\ dentry[q] # i
                        \/ isDir /\ \E q \in Paths \ new : dentry[q] = i /\ Under(p, q)}
  <1>1. /\ dentry' = IF new = {} THEN dentry
                     ELSE [p \in Paths |-> IF p \in new THEN i
                                           ELSE IF p \in gone THEN NoIno ELSE dentry[p]]
        /\ dirs' = IF isDir THEN dirs \cup {i} ELSE dirs \ {i}
    BY DEF Instantiate
  <1> HIDE DEF gone
  <1>2. new \subseteq {job[w].path}
    OBVIOUS
  <1> HIDE DEF new
  <1>3. KernelTypes'
    BY <1>1 DEF KernelTypes
  <1>4. ASSUME NEW p \in Paths, dentry'[p] # NoIno
        PROVE  ino_to_path'[dentry'[p]] = p
    <2>1. CASE new # {} /\ p \in new
      BY <1>1, <1>2, <2>1
    <2>2. CASE ~(new # {} /\ p \in new)
      <3>1. dentry'[p] = dentry[p]
        BY <1>1, <1>4, <2>2
      <3> QED  BY <1>4, <3>1 DEF KernelTypes, Follow, NoIno
    <2> QED  BY <2>1, <2>2
  <1> QED  BY <1>3, <1>4 DEF Follow

------------------------------------------------------------------------------
(***************************************************************************)
(* The commands on the device.                                             *)
(***************************************************************************)

\* A job goes on with the maps and the dentries as they are.
LEMMA GoesOnCalmly ==
  ASSUME NEW w, Workers = {w}, MapInv(w), at[w] \in Calm, NEW j \in Jobs, NEW s \in Calm,
         Keep(w, j), Goto(w, s), UNCHANGED <<maps, kernel>>, DeviceTypes',
         s = "collect" => ~Under(j.path, j.dest) /\ ~Under(j.dest, j.path)
  PROVE  /\ job'[w] = j /\ at'[w] = s /\ UNCHANGED <<path_to_ino, next_ino>>
         /\ \A i, n : KernelPlaces(i, n)' = KernelPlaces(i, n)
         /\ JobFits(w)' /\ NumbersLast(w)' => MapInv(w)'
  <1>1. w \in Workers /\ TypeOK /\ s \in Stages
    BY DEF MapInv, Calm, Stages
  <1>2. /\ job' \in [Workers -> Jobs] /\ job'[w] = j
        /\ at' \in [Workers -> Stages] /\ at'[w] = s
    BY <1>1, JobStep
  <1>3. UNCHANGED <<path_to_ino, ino_to_path, next_ino, dentry, dirs>>
    BY DEF maps, kernel
  <1>4. TypeOK'
    BY <1>1, <1>2, <1>3 DEF TypeOK, DeviceTypes
  <1>5. (RootStays /\ Fresh /\ NumbersAreDistinct)' /\ MapsAgree(w)' /\ DentriesFollow(w)'
    BY <1>2, <1>3, MapsStay DEF maps
  <1>6. RekeyFits(w)'
    BY <1>2 DEF RekeyFits, Rekeying, Calm
  <1>7. \A i, n : KernelPlaces(i, n)' = KernelPlaces(i, n)
    BY <1>3 DEF KernelPlaces, KernelPaths
  <1> QED  BY <1>2, <1>3, <1>4, <1>5, <1>6, <1>7 DEF MapInv

\* lookup: get_metadata.
LEMMA StatKeeps ==
  ASSUME NEW w, Workers = {w}, MapInv(w), Stat(w)
  PROVE  MapInv(w)'
  <1>1. /\ at[w] = "stat" /\ at[w] \in Calm /\ UNCHANGED <<maps, tree>>
        /\ w \in Workers /\ TypeOK /\ JobFits(w) /\ NumbersLast(w)
    BY DEF Stat, Calm, MapInv
  <1>2. job[w] \in Jobs /\ job[w].path \in Paths /\ DeviceTypes
    BY <1>1 DEF TypeOK, Jobs, DeviceTypes
  <1>3. CASE tree[job[w].path] = "none"
    <2>1. /\ Done(w) /\ UNCHANGED dirs
          /\ dentry' = Dropped(dentry, KernelPlaces(job[w].parent, job[w].name))
      BY <1>3 DEF Stat
    <2>2. /\ dentry' \in [Paths -> Inos \cup {NoIno}]
          /\ \A p \in Paths : dentry'[p] # NoIno => ino_to_path[dentry'[p]] = p
      BY <1>1, <2>1, DroppingKeeps
    <2>3. DeviceTypes' /\ KernelTypes'
      BY <1>1, <1>2, <2>1, <2>2 DEF DeviceTypes, KernelTypes, TypeOK
    <2> QED  BY <1>1, <2>1, <2>2, <2>3, EndsCalmly
  <1>4. CASE tree[job[w].path] # "none"
    <2> DEFINE j == [job[w] EXCEPT !.kind = tree[job[w].path]]
    <2>1. Keep(w, j) /\ Goto(w, "get") /\ UNCHANGED kernel
      BY <1>4 DEF Stat
    <2>2. tree[job[w].path] \in {"none", "file", "dir"}
      BY <1>2 DEF DeviceTypes
    <2>3. job[w].op # "opendir"
      BY <1>1 DEF JobFits
    <2>4. /\ j \in Jobs /\ j.op = job[w].op /\ j.path = job[w].path
          /\ j.parent = job[w].parent /\ j.name = job[w].name
      BY <1>2, <2>2 DEF Jobs
    <2> HIDE DEF j
    <2>5. DeviceTypes' /\ "get" \in Calm
      BY <1>1, <1>2 DEF DeviceTypes, Calm
    <2>6. /\ job'[w] = j /\ at'[w] = "get" /\ UNCHANGED <<path_to_ino, next_ino>>
          /\ \A i, n : KernelPlaces(i, n)' = KernelPlaces(i, n)
          /\ JobFits(w)' /\ NumbersLast(w)' => MapInv(w)'
      BY <1>1, <2>1, <2>4, <2>5, GoesOnCalmly
    <2>7. JobFits(w)'
      BY <1>1, <2>3, <2>4, <2>6 DEF JobFits, Rekeying
    <2>8. NumbersLast(w)'
      BY <1>1, <2>3, <2>4, <2>6 DEF NumbersLast
    <2> QED  BY <2>6, <2>7, <2>8
  <1> QED  BY <1>3, <1>4

\* mkdir and mknod.
LEMMA MakeKeeps ==
  ASSUME NEW w, Workers = {w}, MapInv(w), MakeOnDevice(w)
  PROVE  MapInv(w)'
  <1>1. /\ at[w] = "make" /\ at[w] \in Calm /\ UNCHANGED <<maps, kernel>>
        /\ w \in Workers /\ TypeOK /\ JobFits(w) /\ NumbersLast(w)
    BY DEF MakeOnDevice, Calm, MapInv
  <1>2. job[w] \in Jobs /\ job[w].path \in Paths /\ DeviceTypes
    BY <1>1 DEF TypeOK, Jobs, DeviceTypes
  <1>3. DeviceTypes' /\ KernelTypes' /\ UNCHANGED dentry
    <2>1. UNCHANGED <<dentry, dirs>>
      BY <1>1 DEF kernel
    <2>2. UNCHANGED tree \/ tree' = [tree EXCEPT ![job[w].path] = job[w].kind]
      BY DEF MakeOnDevice
    <2>3. tree[job[w].path] = "none" \/ UNCHANGED tree
      BY DEF MakeOnDevice
    <2>4. job[w].kind \in {"none", "file", "dir"}
      BY <1>2 DEF Jobs
    <2> QED  BY <1>1, <1>2, <2>1, <2>2, <2>4 DEF DeviceTypes, KernelTypes, TypeOK
  <1>4. CASE Done(w)
    BY <1>1, <1>3, <1>4, CalmMaps, EndsCalmly DEF Follow
  <1>5. CASE Goto(w, "get") /\ UNCHANGED job
    <2>1. Keep(w, job[w]) /\ "get" \in Calm
      BY <1>1, <1>5 DEF Keep, TypeOK, Calm
    <2>2. /\ job'[w] = job[w] /\ at'[w] = "get" /\ UNCHANGED <<path_to_ino, next_ino>>
          /\ \A i, n : KernelPlaces(i, n)' = KernelPlaces(i, n)
          /\ JobFits(w)' /\ NumbersLast(w)' => MapInv(w)'
      BY <1>1, <1>2, <1>3, <1>5, <2>1, GoesOnCalmly
    <2>3. JobFits(w)'
      BY <1>1, <2>2 DEF JobFits, Rekeying
    <2>4. NumbersLast(w)'
      BY <1>1, <2>2 DEF NumbersLast, JobFits
    <2> QED  BY <2>2, <2>3, <2>4
  <1> QED  BY <1>4, <1>5 DEF MakeOnDevice

\* opendir: there are no more children than names.
LEMMA ChildrenAreFew ==
  ASSUME NEW d, NEW S \in SUBSET Names
  PROVE  LET found == {Child(d, n) : n \in S}
         IN  IsFiniteSet(found) /\ Cardinality(found) =< Cardinality(Names)
  <1> DEFINE found == {Child(d, n) : n \in S}
             f == [n \in S |-> Child(d, n)]
  <1>1. IsFiniteSet(S) /\ Cardinality(S) =< Cardinality(Names)
    BY NamesAreFinite, FS_Subset
  <1>2. f \in Surjection(S, found)
    BY DEF Surjection
  <1>3. IsFiniteSet(found) /\ Cardinality(found) =< Cardinality(S)
    BY <1>1, <1>2, FS_Surjection
  <1>4. /\ Cardinality(found) \in Nat /\ Cardinality(S) \in Nat /\ Cardinality(Names) \in Nat
    BY <1>1, <1>3, NamesAreFinite, FS_CardinalityType
  <1> HIDE DEF found
  <1>5. Cardinality(found) =< Cardinality(Names)
    BY <1>1, <1>3, <1>4
  <1> QED  BY <1>3, <1>5 DEF found

\* opendir: list_dir.
LEMMA ListKeeps ==
  ASSUME NEW w, Workers = {w}, MapInv(w), List(w)
  PROVE  MapInv(w)'
  <1> DEFINE d == job[w].path
             S == {m \in Names : tree[Child(d, m)] # "none"}
             found == {Child(d, n) : n \in S}
  <1>1. /\ at[w] = "list" /\ at[w] \in Calm /\ UNCHANGED <<maps, tree, kernel>>
        /\ w \in Workers /\ TypeOK
    BY DEF List, Calm, MapInv
  <1>2. job[w] \in Jobs /\ d \in Paths /\ DeviceTypes
    BY <1>1 DEF TypeOK, Jobs, DeviceTypes
  <1>3. DeviceTypes' /\ KernelTypes' /\ UNCHANGED dentry
    BY <1>1, <1>2 DEF DeviceTypes, KernelTypes, TypeOK, kernel
  <1>4. job[w].op = "opendir" /\ Len(d) < Depth
    BY <1>1 DEF JobFits, MapInv
  <1>5. next_ino + Cardinality(Names) =< MaxIno + 1
    BY <1>1 DEF NumbersLast, MapInv
  <1>6. CASE Done(w)
    BY <1>1, <1>3, <1>6, CalmMaps, EndsCalmly DEF Follow
  <1>7. ASSUME NEW p \in found,
               Keep(w, [job[w] EXCEPT !.path = p, !.todo = found \ {p}]), Goto(w, "get")
        PROVE  MapInv(w)'
    <2> DEFINE j == [job[w] EXCEPT !.path = p, !.todo = found \ {p}]
    <2>1. found \subseteq Paths
      BY <1>2, <1>4, ChildIsPath
    <2>2. IsFiniteSet(found) /\ Cardinality(found) =< Cardinality(Names)
      BY ChildrenAreFew
    <2> HIDE DEF found
    <2>3. p \in Paths /\ found \ {p} \in SUBSET Paths
      BY <2>1
    <2>4. /\ IsFiniteSet(found \ {p})
          /\ Cardinality(found \ {p}) = Cardinality(found) - 1
      BY <2>2, FS_RemoveElement
    <2>5. Cardinality(found) \in Nat /\ Cardinality(Names) \in Nat
      BY <2>2, NamesAreFinite, FS_CardinalityType
    <2>6. next_ino \in Nat /\ MaxIno \in Nat
      BY <1>1, BoundsArePositive DEF TypeOK
    <2>7. next_ino + Cardinality(found \ {p}) =< MaxIno
      BY <1>5, <2>2, <2>4, <2>5, <2>6
    <2>8. j \in Jobs /\ j.op = "opendir" /\ j.todo = found \ {p}
      BY <1>2, <1>4, <2>3 DEF Jobs
    <2>9. Keep(w, j) /\ "get" \in Calm
      BY <1>7 DEF Calm
    <2> HIDE DEF j
    <2>10. /\ job'[w] = j /\ at'[w] = "get" /\ UNCHANGED <<path_to_ino, next_ino>>
           /\ JobFits(w)' /\ NumbersLast(w)' => MapInv(w)'
      BY <1>1, <1>3, <1>7, <2>8, <2>9, GoesOnCalmly
    <2>11. JobFits(w)'
      BY <2>3, <2>8, <2>10 DEF JobFits, Rekeying
    <2>12. NumbersLast(w)'
      BY <2>4, <2>7, <2>8, <2>10 DEF NumbersLast
    <2> QED  BY <2>10, <2>11, <2>12
  <1> QED  BY <1>6, <1>7 DEF List

\* create: the push of the empty file.
LEMMA PushKeeps ==
  ASSUME NEW w, Workers = {w}, MapInv(w), PushOnDevice(w)
  PROVE  MapInv(w)'
  <1>1. /\ at[w] = "push" /\ at[w] \in Calm /\ UNCHANGED maps /\ Done(w)
        /\ w \in Workers /\ TypeOK
    BY DEF PushOnDevice, Calm, MapInv
  <1>2. job[w] \in Jobs /\ job[w].path \in Paths
    BY <1>1 DEF TypeOK, Jobs
  <1>3. /\ MapTypes /\ KernelTypes /\ DeviceTypes /\ MapsInverse /\ Follow
    BY <1>1, CalmMaps
  <1>4. /\ job[w].num \in Inos /\ path_to_ino[job[w].path] = job[w].num
        /\ KernelPlaces(job[w].parent, job[w].name) \subseteq {job[w].path}
    BY <1>1 DEF JobFits, MapInv
  <1>5. DeviceTypes'
    BY <1>2, <1>3 DEF DeviceTypes, PushOnDevice
  <1>6. UNCHANGED <<path_to_ino, ino_to_path, next_ino>>
    BY <1>1 DEF maps
  <1>7. KernelTypes' /\ Follow'
    <2>1. CASE UNCHANGED kernel
      BY <1>3, <1>6, <2>1 DEF kernel, KernelTypes, Follow
    <2>2. CASE Instantiate(w, job[w].num, FALSE)
      <3>1. ino_to_path[job[w].num] = job[w].path
        BY <1>2, <1>3, <1>4 DEF MapsInverse
      <3>2. \A p \in Paths : dentry[p] = job[w].num => p = job[w].path
        BY <1>3, <1>4, <3>1 DEF Follow, Inos, NoIno
      <3>3. MapTypes'
        BY <1>3, <1>6 DEF MapTypes
      <3>4. ino_to_path' = ino_to_path
        BY <1>6
      <3> QED  BY <1>3, <1>4, <2>2, <3>1, <3>2, <3>3, <3>4, InstantiateKeeps
    <2> QED  BY <2>1, <2>2 DEF PushOnDevice
  <1>8. \A p \in Paths : dentry'[p] # NoIno => ino_to_path[dentry'[p]] = p
    BY <1>6, <1>7 DEF Follow
  <1> QED  BY <1>1, <1>5, <1>7, <1>8, EndsCalmly

\* unlink and rmdir.
LEMMA RemoveKeeps ==
  ASSUME NEW w, Workers = {w}, MapInv(w), RemoveOnDevice(w)
  PROVE  MapInv(w)'
  <1>1. /\ at[w] = "rm" /\ at[w] \in Calm /\ UNCHANGED <<maps, dirs>> /\ Done(w)
        /\ TypeOK
    BY DEF RemoveOnDevice, Calm, MapInv
  <1>2. KernelTypes /\ DeviceTypes /\ Follow
    BY <1>1, CalmMaps
  <1>3. DeviceTypes'
    BY <1>2 DEF DeviceTypes, RemoveOnDevice
  <1>4. /\ dentry' \in [Paths -> Inos \cup {NoIno}]
        /\ \A p \in Paths : dentry'[p] # NoIno => ino_to_path[dentry'[p]] = p
    <2>1. CASE UNCHANGED dentry
      BY <1>2, <2>1 DEF KernelTypes, Follow
    <2>2. CASE dentry' = Dropped(dentry, KernelPlaces(job[w].parent, job[w].name))
      BY <1>1, <2>2, DroppingKeeps
    <2> QED  BY <2>1, <2>2 DEF RemoveOnDevice
  <1>5. KernelTypes'
    BY <1>1, <1>2, <1>4 DEF KernelTypes
  <1> QED  BY <1>1, <1>3, <1>4, <1>5, EndsCalmly

\* rename: the new parent's path.
LEMMA TargetKeeps ==
  ASSUME NEW w, Workers = {w}, MapInv(w), Target(w)
  PROVE  MapInv(w)'
  <1> DEFINE d == ino_to_path[job[w].destParent]
             q == Child(d, job[w].destName)
             j == [job[w] EXCEPT !.dest = q]
  <1>1. /\ at[w] = "target" /\ at[w] \in Calm /\ UNCHANGED <<maps, tree, kernel>>
        /\ w \in Workers /\ TypeOK
    BY DEF Target, Calm, MapInv
  <1>2. job[w] \in Jobs /\ DeviceTypes
    BY <1>1 DEF TypeOK, DeviceTypes
  <1>3. DeviceTypes' /\ KernelTypes' /\ UNCHANGED dentry
    BY <1>1, <1>2 DEF DeviceTypes, KernelTypes, TypeOK, kernel
  <1>4. /\ job[w].destParent \in Inos /\ job[w].destName \in Names /\ job[w].op # "opendir"
        /\ job[w].path # <<>> /\ KernelPlaces(job[w].parent, job[w].name) \subseteq {job[w].path}
        /\ KernelPlaces(job[w].parent, job[w].name) # {}
        /\ KernelPlaces(job[w].destParent, job[w].destName) # {}
    BY <1>1 DEF JobFits, MapInv
  <1>5. CASE Done(w)
    BY <1>1, <1>3, <1>5, CalmMaps, EndsCalmly DEF Follow
  <1>6. CASE Keep(w, j) /\ Goto(w, "mv") /\ d # NoPath /\ ~(Len(d) >= Depth)
    <2>1. d \in Paths
      BY <1>1, <1>4, <1>6 DEF TypeOK
    <2>2. Len(d) < Depth
      BY <1>6, <2>1, PathsAreSeqs
    <2>3. q \in Paths \ {<<>>}
      BY <1>4, <2>1, <2>2, ChildIsPath
    <2>4. KernelPlaces(job[w].destParent, job[w].destName) \subseteq {q}
      BY <1>1, <1>4, CalmMaps, PlacesAreKnown
    <2> HIDE DEF q
    <2>5. /\ j \in Jobs /\ j.op = job[w].op /\ j.path = job[w].path /\ j.dest = q
          /\ j.parent = job[w].parent /\ j.name = job[w].name
          /\ j.destParent = job[w].destParent /\ j.destName = job[w].destName
      BY <1>2, <2>3 DEF Jobs
    <2>6. Keep(w, j) /\ "mv" \in Calm
      BY <1>6 DEF Calm
    <2> HIDE DEF j
    <2>7. /\ job'[w] = j /\ at'[w] = "mv"
          /\ \A i, n : KernelPlaces(i, n)' = KernelPlaces(i, n)
          /\ JobFits(w)' /\ NumbersLast(w)' => MapInv(w)'
      BY <1>1, <1>3, <1>6, <2>5, <2>6, GoesOnCalmly
    <2>8. JobFits(w)'
      BY <1>4, <2>3, <2>4, <2>5, <2>7 DEF JobFits, Rekeying
    <2>9. NumbersLast(w)'
      BY <2>7 DEF NumbersLast
    <2> QED  BY <2>7, <2>8, <2>9
  <1> QED  BY <1>5, <1>6 DEF Target

\* rename: mv.
LEMMA MoveKeeps ==
  ASSUME NEW w, Workers = {w}, MapInv(w), MoveOnDevice(w)
  PROVE  MapInv(w)'
  <1>1. /\ at[w] = "mv" /\ at[w] \in Calm /\ UNCHANGED <<maps, kernel>>
        /\ w \in Workers /\ TypeOK
    BY DEF MoveOnDevice, Calm, MapInv
  <1>2. job[w] \in Jobs /\ DeviceTypes
    BY <1>1 DEF TypeOK, DeviceTypes
  <1>3. DeviceTypes' /\ KernelTypes' /\ UNCHANGED dentry
    <2>1. UNCHANGED tree \/ tree' = Moved(tree, job[w].path, job[w].dest, "none")
      BY DEF MoveOnDevice
    <2>2. DeviceTypes'
      BY <1>2, <2>1 DEF DeviceTypes, Moved
    <2> QED  BY <1>1, <2>2 DEF KernelTypes, TypeOK, kernel
  <1>4. CASE Done(w)
    BY <1>1, <1>3, <1>4, CalmMaps, EndsCalmly DEF Follow
  <1>5. CASE /\ Goto(w, "collect") /\ UNCHANGED job
             /\ ~Under(job[w].path, job[w].dest) /\ ~Under(job[w].dest, job[w].path)
    <2>1. Keep(w, job[w]) /\ "collect" \in Calm
      BY <1>1, <1>5 DEF Keep, TypeOK, Calm
    <2>2. /\ job'[w] = job[w] /\ at'[w] = "collect"
          /\ \A i, n : KernelPlaces(i, n)' = KernelPlaces(i, n)
          /\ JobFits(w)' /\ NumbersLast(w)' => MapInv(w)'
      BY <1>1, <1>2, <1>3, <1>5, <2>1, GoesOnCalmly
    <2>3. JobFits(w)'
      BY <1>1, <2>2 DEF JobFits, MapInv, Rekeying
    <2>4. NumbersLast(w)'
      BY <2>2 DEF NumbersLast
    <2> QED  BY <2>2, <2>3, <2>4
  <1> QED  BY <1>4, <1>5 DEF MoveOnDevice

------------------------------------------------------------------------------
(***************************************************************************)
(* get_or_assign_ino.                                                      *)
(***************************************************************************)

\* With the two maps inverse again, the handler goes on with its job.
LEMMA SettlesIn ==
  ASSUME NEW w, Workers = {w}, TypeOK, NEW j \in Jobs, NEW s \in {"get", "push"},
         Keep(w, j), Goto(w, s),
         MapTypes', KernelTypes', DeviceTypes', (RootStays /\ Fresh /\ MapsInverse /\ Follow)'
  PROVE  /\ job'[w] = j /\ at'[w] = s
         /\ JobFits(w)' /\ NumbersLast(w)' => MapInv(w)'
  <1>1. w \in Workers /\ s \in Stages
    BY DEF Stages
  <1>2. /\ job' \in [Workers -> Jobs] /\ job'[w] = j
        /\ at' \in [Workers -> Stages] /\ at'[w] = s
    BY <1>1, JobStep
  <1>3. TypeOK'
    BY <1>2 DEF TypeOK, MapTypes, KernelTypes, DeviceTypes
  <1>4. NumbersAreDistinct'
    BY DEF Follow, NumbersAreDistinct
  <1>5. MapsAgree(w)'
    BY <1>2 DEF MapsInverse, MapsAgree, Loose
  <1>6. DentriesFollow(w)' /\ RekeyFits(w)'
    BY <1>2 DEF Follow, DentriesFollow, RekeyFits, Rekeying
  <1> QED  BY <1>2, <1>3, <1>4, <1>5, <1>6 DEF MapInv

\* The handler has the number of its path.
LEMMA NumberedKeeps ==
  ASSUME NEW w, Workers = {w}, MapInv(w), at[w] \in {"get", "putIno"}, NEW i \in Inos,
         Numbered(w, i), UNCHANGED <<path_to_ino, next_ino, tree>>,
         MapTypes', (RootStays /\ Fresh /\ MapsInverse)',
         path_to_ino[job[w].path] = i, ino_to_path'[i] = job[w].path,
         \A n \in Inos \ {i} : ino_to_path'[n] = ino_to_path[n],
         \A p \in Paths : dentry[p] = i => p = job[w].path,
         job[w].op = "opendir" => /\ IsFiniteSet(job[w].todo)
                                  /\ next_ino + Cardinality(job[w].todo) =< MaxIno + 1
  PROVE  MapInv(w)'
  <1>1. /\ w \in Workers /\ TypeOK /\ job[w] \in Jobs /\ at[w] \notin Rekeying
        /\ KernelTypes /\ DeviceTypes' /\ Follow
    <2>1. w \in Workers /\ TypeOK /\ at[w] \notin Rekeying
      BY DEF MapInv, Rekeying
    <2>2. KernelTypes /\ DeviceTypes'
      BY <2>1 DEF TypeOK, KernelTypes, DeviceTypes
    <2> QED  BY <2>1, <2>2 DEF MapInv, DentriesFollow, Follow, TypeOK
  <1>2. /\ job[w].op = "opendir" => job[w].todo \subseteq Paths
        /\ job[w].op # "opendir" => /\ job[w].path # <<>>
                                    /\ KernelPlaces(job[w].parent, job[w].name) \subseteq {job[w].path}
    BY DEF MapInv, JobFits
  <1>3. ASSUME UNCHANGED kernel
        PROVE  KernelTypes' /\ Follow' /\ \A d, m : KernelPlaces(d, m)' = KernelPlaces(d, m)
    <2>1. UNCHANGED <<dentry, dirs>>
      BY <1>3 DEF kernel
    <2>2. ASSUME NEW p \in Paths, dentry[p] # NoIno
          PROVE  ino_to_path'[dentry[p]] = p
      BY <1>1, <2>2 DEF Follow, KernelTypes, NoIno
    <2> QED  BY <1>1, <2>1, <2>2 DEF KernelTypes, Follow, KernelPlaces, KernelPaths
  <1>4. CASE job[w].op = "create"
    <2> DEFINE j == [job[w] EXCEPT !.num = i]
    <2>1. Keep(w, j) /\ Goto(w, "push") /\ UNCHANGED kernel
      BY <1>4 DEF Numbered
    <2>2. /\ j \in Jobs /\ j.op = job[w].op /\ j.num = i /\ j.path = job[w].path
          /\ j.parent = job[w].parent /\ j.name = job[w].name
      BY <1>1 DEF Jobs
    <2> HIDE DEF j
    <2>3. /\ job'[w] = j /\ at'[w] = "push"
          /\ JobFits(w)' /\ NumbersLast(w)' => MapInv(w)'
      BY <1>1, <1>3, <2>1, <2>2, SettlesIn
    <2>4. JobFits(w)'
      BY <1>2, <1>3, <1>4, <2>1, <2>2, <2>3 DEF JobFits, Rekeying
    <2>5. NumbersLast(w)'
      BY <2>3 DEF NumbersLast
    <2> QED  BY <2>3, <2>4, <2>5
  <1>5. CASE job[w].op = "opendir" /\ job[w].todo # {}
    <2>1. PICK p \in job[w].todo :
            /\ Keep(w, [job[w] EXCEPT !.path = p, !.todo = @ \ {p}])
            /\ Goto(w, "get") /\ UNCHANGED kernel
      BY <1>5 DEF Numbered
    <2> DEFINE rest == job[w].todo \ {p}
               j == [job[w] EXCEPT !.path = p, !.todo = @ \ {p}]
    <2>2. p \in Paths /\ rest \in SUBSET Paths
      BY <1>2, <1>5
    <2>3. j \in Jobs /\ j.op = job[w].op /\ j.todo = rest
      BY <1>1, <2>2 DEF Jobs
    <2>4. IsFiniteSet(rest) /\ Cardinality(rest) = Cardinality(job[w].todo) - 1
      BY <1>5, FS_RemoveElement
    <2>5. Cardinality(job[w].todo) \in Nat
      BY <1>5, FS_CardinalityType
    <2> HIDE DEF j, rest
    <2>6. next_ino \in Nat /\ MaxIno \in Nat
      BY <1>1, BoundsArePositive DEF TypeOK
    <2>7. next_ino + Cardinality(rest) =< MaxIno
      BY <1>5, <2>4, <2>5, <2>6
    <2>8. /\ job'[w] = j /\ at'[w] = "get"
          /\ JobFits(w)' /\ NumbersLast(w)' => MapInv(w)'
      BY <1>1, <1>3, <2>1, <2>3, SettlesIn DEF j
    <2>9. JobFits(w)'
      BY <1>5, <2>2, <2>3, <2>8 DEF JobFits, Rekeying
    <2>10. NumbersLast(w)'
      BY <1>5, <2>3, <2>4, <2>7, <2>8 DEF NumbersLast
    <2> QED  BY <2>8, <2>9, <2>10
  <1>6. CASE job[w].op = "opendir" /\ job[w].todo = {}
    <2>1. Done(w) /\ UNCHANGED kernel
      BY <1>6 DEF Numbered
    <2> QED  BY <1>1, <1>3, <2>1, DoneKeeps
  <1>7. CASE job[w].op \notin {"create", "opendir"}
    <2>1. Instantiate(w, i, job[w].kind = "dir") /\ Done(w)
      BY <1>7 DEF Numbered
    <2>2. KernelTypes' /\ Follow'
      BY <1>1, <1>2, <1>7, <2>1, InstantiateKeeps
    <2> QED  BY <1>1, <2>1, <2>2, DoneKeeps
  <1> QED  BY <1>4, <1>5, <1>6, <1>7

\* path_to_ino.get: found.
LEMMA FoundKeeps ==
  ASSUME NEW w, Workers = {w}, MapInv(w), Found(w)
  PROVE  MapInv(w)'
  <1> DEFINE i == path_to_ino[job[w].path]
  <1>1. /\ at[w] = "get" /\ at[w] \in Calm /\ Numbered(w, i) /\ i # NoIno
        /\ UNCHANGED <<maps, tree>> /\ w \in Workers /\ TypeOK
    BY DEF Found, Calm, MapInv
  <1>2. job[w] \in Jobs /\ job[w].path \in Paths
    BY <1>1 DEF TypeOK, Jobs
  <1>3. MapTypes /\ KernelTypes /\ MapsInverse /\ Follow /\ RootStays /\ Fresh
    BY <1>1, CalmMaps
  <1>4. i \in Inos /\ ino_to_path[i] = job[w].path
    BY <1>1, <1>2, <1>3 DEF MapTypes, MapsInverse
  <1>5. \A p \in Paths : dentry[p] = i => p = job[w].path
    BY <1>3, <1>4 DEF Follow, Inos, NoIno
  <1>6. UNCHANGED <<path_to_ino, ino_to_path, next_ino>>
    BY <1>1 DEF maps
  <1>7. MapTypes' /\ (RootStays /\ Fresh /\ MapsInverse)'
    BY <1>3, <1>6 DEF MapTypes, RootStays, Only, Fresh, MapsInverse
  <1>8. job[w].op = "opendir" => /\ IsFiniteSet(job[w].todo)
                                 /\ next_ino + Cardinality(job[w].todo) =< MaxIno + 1
    <2>1. ASSUME job[w].op = "opendir"
          PROVE  IsFiniteSet(job[w].todo) /\ next_ino + Cardinality(job[w].todo) =< MaxIno
      BY <1>1, <2>1 DEF MapInv, NumbersLast
    <2>2. ASSUME job[w].op = "opendir"
          PROVE  next_ino + Cardinality(job[w].todo) =< MaxIno + 1
      <3>1. Cardinality(job[w].todo) \in Nat
        BY <2>1, <2>2, FS_CardinalityType
      <3> QED  BY <1>1, <2>1, <2>2, <3>1, BoundsArePositive DEF TypeOK
    <2> QED  BY <2>1, <2>2
  <1>9. UNCHANGED <<path_to_ino, next_ino, tree>> /\ ino_to_path' = ino_to_path
    BY <1>1, <1>6
  <1> HIDE DEF i
  <1> QED  BY <1>1, <1>4, <1>5, <1>7, <1>8, <1>9, NumberedKeeps DEF i

\* next_ino.fetch_add: a number nothing has.
LEMMA TakeKeeps ==
  ASSUME NEW w, Workers = {w}, MapInv(w), Take(w)
  PROVE  MapInv(w)'
  <1> DEFINE j == [job[w] EXCEPT !.num = next_ino]
  <1>1. /\ at[w] = "get" /\ at[w] \in Calm /\ w \in Workers /\ TypeOK
        /\ path_to_ino[job[w].path] = NoIno /\ next_ino' = next_ino + 1
        /\ Keep(w, j) /\ Goto(w, "putPath")
        /\ UNCHANGED <<path_to_ino, ino_to_path, tree>> /\ UNCHANGED kernel
    BY DEF Take, Calm, MapInv
  <1>2. job[w] \in Jobs /\ job[w].path \in Paths
    BY <1>1 DEF TypeOK, Jobs
  <1>3. MapTypes /\ MapsInverse /\ Follow /\ RootStays /\ Fresh
    BY <1>1, CalmMaps
  <1>4. next_ino \in Nat /\ MaxIno \in Nat /\ 2 =< next_ino
    BY <1>1, BoundsArePositive DEF TypeOK
  <1>5. /\ next_ino =< MaxIno
        /\ job[w].op = "opendir" => /\ IsFiniteSet(job[w].todo)
                                    /\ next_ino' + Cardinality(job[w].todo) =< MaxIno + 1
    <2>1. CASE job[w].op # "opendir"
      BY <1>1, <2>1 DEF MapInv, NumbersLast
    <2>2. CASE job[w].op = "opendir"
      <3>1. IsFiniteSet(job[w].todo) /\ next_ino + Cardinality(job[w].todo) =< MaxIno
        BY <1>1, <2>2 DEF MapInv, NumbersLast
      <3>2. Cardinality(job[w].todo) \in Nat
        BY <3>1, FS_CardinalityType
      <3>3. next_ino' + Cardinality(job[w].todo) =< MaxIno + 1 /\ next_ino =< MaxIno
        BY <1>1, <1>4, <3>1, <3>2
      <3> QED  BY <3>1, <3>3
    <2> QED  BY <2>1, <2>2
  <1>6. next_ino \in Inos /\ next_ino' \in 2..(MaxIno + 1)
    BY <1>1, <1>4, <1>5 DEF Inos
  <1>7. /\ j \in Jobs /\ j.num = next_ino /\ j.op = job[w].op /\ j.path = job[w].path
        /\ j.parent = job[w].parent /\ j.name = job[w].name /\ j.todo = job[w].todo
    BY <1>2, <1>6 DEF Jobs
  <1> HIDE DEF j
  <1>8. /\ job' \in [Workers -> Jobs] /\ job'[w] = j
        /\ at' \in [Workers -> Stages] /\ at'[w] = "putPath"
    BY <1>1, <1>7, JobStep DEF Stages
  <1>9. UNCHANGED <<dentry, dirs>> /\ \A d, m : KernelPlaces(d, m)' = KernelPlaces(d, m)
    BY <1>1 DEF kernel, KernelPlaces, KernelPaths
  <1>10. TypeOK'
    BY <1>1, <1>6, <1>8, <1>9 DEF TypeOK
  <1>11. Missing(next_ino) /\ ino_to_path[next_ino] = NoPath
    <2>1. \A p \in Paths : path_to_ino[p] # next_ino
      BY <1>3, <1>4 DEF Fresh
    <2> QED  BY <1>3, <1>6, <2>1 DEF Missing, MapTypes, MapsInverse
  <1>12. (RootStays /\ NumbersAreDistinct)'
    BY <1>1, <1>3, <1>9 DEF MapInv, RootStays, Only, NumbersAreDistinct
  <1>13. Fresh'
    BY <1>1, <1>3, <1>4 DEF Fresh, MapTypes, Inos, NoIno
  <1>14. MapsAgree(w)'
    <2>1. Loose(w)' = {next_ino}
      BY <1>7, <1>8 DEF Loose
    <2>2. \A i \in Inos \ Loose(w)', p \in Paths : path_to_ino'[p] = i <=> ino_to_path'[i] = p
      BY <1>1, <1>3, <2>1 DEF MapsInverse
    <2>3. /\ \A p \in Paths : path_to_ino'[p] # next_ino
          /\ next_ino < next_ino' /\ ino_to_path'[next_ino] = NoPath
      BY <1>1, <1>4, <1>11 DEF Missing
    <2> QED  BY <1>1, <1>7, <1>8, <2>2, <2>3 DEF MapsAgree, Missing
  <1>15. DentriesFollow(w)' /\ RekeyFits(w)'
    BY <1>1, <1>3, <1>8, <1>9 DEF Follow, DentriesFollow, RekeyFits, Rekeying
  <1>16. JobFits(w)'
    <2>1. JobFits(w)
      BY DEF MapInv
    <2> QED  BY <1>1, <1>6, <1>7, <1>8, <1>9, <2>1 DEF JobFits, Rekeying
  <1>17. NumbersLast(w)'
    BY <1>5, <1>7, <1>8 DEF NumbersLast
  <1> QED  BY <1>10, <1>12, <1>13, <1>14, <1>15, <1>16, <1>17 DEF MapInv

\* path_to_ino.insert: the path has its number in one map.
LEMMA PutPathKeeps ==
  ASSUME NEW w, Workers = {w}, MapInv(w), PutPath(w)
  PROVE  MapInv(w)'
  <1> DEFINE num == job[w].num
             path == job[w].path
  <1>1. /\ at[w] = "putPath" /\ w \in Workers /\ TypeOK /\ UNCHANGED job
        /\ path_to_ino' = [path_to_ino EXCEPT ![path] = num] /\ Goto(w, "putIno")
        /\ UNCHANGED <<ino_to_path, next_ino, tree>> /\ UNCHANGED kernel
    BY DEF PutPath, MapInv
  <1>2. job[w] \in Jobs /\ path \in Paths
    BY <1>1 DEF TypeOK, Jobs
  <1>3. /\ num \in Inos /\ Missing(num) /\ num < next_ino /\ ino_to_path[num] = NoPath
        /\ path_to_ino[path] = NoIno
        /\ \A i \in Inos \ {num}, p \in Paths : path_to_ino[p] = i <=> ino_to_path[i] = p
    BY <1>1 DEF MapInv, MapsAgree, JobFits, Loose
  <1>4. job' \in [Workers -> Jobs] /\ job'[w] = job[w] /\ at' \in [Workers -> Stages] /\ at'[w] = "putIno"
    BY <1>1, JobStep DEF Stages, Goto, TypeOK
  <1>5. UNCHANGED <<dentry, dirs>> /\ \A d, m : KernelPlaces(d, m)' = KernelPlaces(d, m)
    BY <1>1 DEF kernel, KernelPlaces, KernelPaths
  <1>6. path_to_ino \in [Paths -> Inos \cup {NoIno}]
    BY <1>1 DEF TypeOK
  <1> HIDE DEF num, path
  <1>7. TypeOK'
    BY <1>1, <1>3, <1>4, <1>5 DEF TypeOK
  <1>8. \A p \in Paths : path_to_ino'[p] = num <=> p = path
    BY <1>1, <1>2, <1>3, <1>6 DEF Missing
  <1>9. RootStays'
    <2>1. num # Root /\ path # <<>>
      BY <1>3, PathsAreSeqs DEF MapInv, RootStays, Only, Missing, Root, NoIno
    <2> QED  BY <1>1, <1>2, <1>6, <2>1 DEF MapInv, RootStays, Only
  <1>10. Fresh' /\ NumbersAreDistinct'
    BY <1>1, <1>2, <1>3, <1>5, <1>6 DEF MapInv, Fresh, NumbersAreDistinct
  <1>11. MapsAgree(w)'
    <2>1. \A i \in Inos \ {num}, p \in Paths : path_to_ino'[p] = i <=> ino_to_path'[i] = p
      BY <1>1, <1>2, <1>3, <1>6 DEF Inos, NoIno
    <2>2. Loose(w)' = {num}
      BY <1>4 DEF Loose, num
    <2> QED  BY <1>1, <1>3, <1>4, <1>8, <2>1, <2>2 DEF MapsAgree, Only, num, path
  <1>12. DentriesFollow(w)' /\ RekeyFits(w)'
    BY <1>1, <1>4, <1>5 DEF MapInv, DentriesFollow, RekeyFits, Rekeying
  <1>13. JobFits(w)'
    <2>1. JobFits(w)
      BY DEF MapInv
    <2> QED  BY <1>1, <1>3, <1>4, <1>5, <2>1 DEF JobFits, Rekeying, num
  <1>14. NumbersLast(w)'
    BY <1>1, <1>4 DEF MapInv, NumbersLast
  <1> QED  BY <1>7, <1>9, <1>10, <1>11, <1>12, <1>13, <1>14 DEF MapInv

\* ino_to_path.insert: and in the other.
LEMMA PutInoKeeps ==
  ASSUME NEW w, Workers = {w}, MapInv(w), PutIno(w)
  PROVE  MapInv(w)'
  <1> DEFINE num == job[w].num
             path == job[w].path
  <1>1. /\ at[w] = "putIno" /\ w \in Workers /\ TypeOK /\ Numbered(w, num)
        /\ ino_to_path' = [ino_to_path EXCEPT ![num] = path]
        /\ UNCHANGED <<path_to_ino, next_ino, tree>>
    BY DEF PutIno, MapInv
  <1>2. job[w] \in Jobs /\ path \in Paths
    BY <1>1 DEF TypeOK, Jobs
  <1>3. /\ num \in Inos /\ Only(num, path) /\ ino_to_path[num] = NoPath
        /\ \A i \in Inos \ {num}, p \in Paths : path_to_ino[p] = i <=> ino_to_path[i] = p
    BY <1>1 DEF MapInv, MapsAgree, JobFits, Loose
  <1>4. ino_to_path \in [Inos -> Paths \cup {NoPath}]
    BY <1>1 DEF TypeOK
  <1>5. ASSUME job[w].op = "opendir"
        PROVE  IsFiniteSet(job[w].todo) /\ next_ino + Cardinality(job[w].todo) =< MaxIno + 1
    BY <1>1, <1>5 DEF MapInv, NumbersLast
  <1>6. \A p \in Paths : dentry[p] # num
    <2>1. ASSUME NEW p \in Paths, dentry[p] = num PROVE FALSE
      <3>1. ino_to_path[num] = p
        BY <1>1, <1>3, <2>1 DEF MapInv, DentriesFollow, Rekeying, Inos, NoIno
      <3> QED  BY <1>3, <3>1, NoPathIsNoPath
    <2> QED  BY <2>1
  <1> HIDE DEF num, path
  <1>7. /\ ino_to_path'[num] = path
        /\ \A n \in Inos \ {num} : ino_to_path'[n] = ino_to_path[n]
    BY <1>1, <1>3, <1>4
  <1>8. MapTypes'
    BY <1>1, <1>2, <1>3, <1>4 DEF MapTypes, TypeOK
  <1>9. RootStays'
    <2>1. Only(Root, <<>>) /\ ino_to_path[Root] = <<>> /\ Root \in Inos
      BY BoundsArePositive DEF MapInv, RootStays, Root, Inos
    <2>2. Only(Root, <<>>)'
      BY <1>1, <2>1 DEF Only
    <2>3. ino_to_path'[Root] = <<>>
      <3>1. CASE num # Root
        BY <1>7, <2>1, <3>1
      <3>2. CASE num = Root
        BY <1>2, <1>3, <1>7, <2>1, <3>2 DEF Only
      <3> QED  BY <3>1, <3>2
    <2> QED  BY <2>2, <2>3 DEF RootStays
  <1>10. (Fresh /\ MapsInverse)'
    <2>1. Fresh'
      BY <1>1 DEF MapInv, Fresh
    <2>2. MapsInverse'
      BY <1>1, <1>3, <1>7 DEF MapsInverse, Only
    <2> QED  BY <2>1, <2>2
  <1>11. path_to_ino[path] = num
    BY <1>2, <1>3 DEF Only
  <1> QED  BY <1>1, <1>3, <1>5, <1>6, <1>7, <1>8, <1>9, <1>10, <1>11, NumberedKeeps DEF num, path

------------------------------------------------------------------------------
(***************************************************************************)
(* rekey_paths.                                                            *)
(***************************************************************************)

\* The old paths and the new ones are apart, and no two old ones become one.
LEMMA RekeyPaths ==
  ASSUME NEW w \in Workers, MapInv(w), at[w] \in Rekeying \cup {"collect"}
  PROVE  /\ job[w] \in Jobs /\ job[w].path \in Paths /\ job[w].dest \in Paths
         /\ job[w].entry \in Paths
         /\ \A p \in Paths : Under(p, job[w].path) =>
              ~Under(p, job[w].dest) /\ Under(NewPath(w, p), job[w].dest)
         /\ \A p \in Paths : Under(p, job[w].dest) =>
              /\ MovedPath(p, job[w].dest, job[w].path) \in Seq(Names)
              /\ Under(MovedPath(p, job[w].dest, job[w].path), job[w].path)
              /\ NewPath(w, MovedPath(p, job[w].dest, job[w].path)) = p
         /\ \A p, q \in Paths :
              Under(p, job[w].path) /\ Under(q, job[w].path) /\ NewPath(w, p) = NewPath(w, q)
                => p = q
         /\ ~Under(<<>>, job[w].path) /\ ~Under(<<>>, job[w].dest)
  <1> DEFINE a == job[w].path
             b == job[w].dest
  <1>1. job[w] \in Jobs /\ a \in Paths /\ b \in Paths /\ job[w].entry \in Paths
    BY DEF MapInv, TypeOK, Jobs
  <1>2. a # <<>> /\ b # <<>>
    BY DEF MapInv, JobFits, Rekeying
  <1>3. ~Under(a, b) /\ ~Under(b, a)
    BY DEF MapInv, RekeyFits
  <1>4. \A p : NewPath(w, p) = MovedPath(p, a, b)
    BY DEF NewPath, MovedPath
  <1>5. a \in Seq(Names) /\ b \in Seq(Names) /\ \A p \in Paths : p \in Seq(Names)
    BY <1>1, PathsAreSeqs
  <1>6. ~Under(<<>>, a) /\ ~Under(<<>>, b)
    BY <1>1, <1>2, NotAboveRoot
  <1> HIDE DEF a, b
  <1>7. ASSUME NEW p \in Paths, Under(p, a)
        PROVE  ~Under(p, b) /\ Under(NewPath(w, p), b)
    BY <1>3, <1>4, <1>5, <1>7, AboveInOrder, MovesBack
  <1>8. ASSUME NEW p \in Paths, Under(p, b)
        PROVE  /\ MovedPath(p, b, a) \in Seq(Names) /\ Under(MovedPath(p, b, a), a)
               /\ NewPath(w, MovedPath(p, b, a)) = p
    BY <1>4, <1>5, <1>8, MovesBack
  <1>9. ASSUME NEW p \in Paths, NEW q \in Paths, Under(p, a), Under(q, a),
               NewPath(w, p) = NewPath(w, q)
        PROVE  p = q
    <2>1. MovedPath(MovedPath(p, a, b), b, a) = p /\ MovedPath(MovedPath(q, a, b), b, a) = q
      BY <1>5, <1>9, MovesBack
    <2> QED  BY <1>4, <1>9, <2>1
  <1> QED  BY <1>1, <1>6, <1>7, <1>8, <1>9, Zenon DEF a, b

\* What every step of rekey_paths leaves alone.
LEMMA RekeyStep ==
  ASSUME NEW w, Workers = {w}, MapInv(w), at[w] \in Rekeying \cup {"collect"},
         NEW j \in Jobs, NEW s \in Rekeying, Keep(w, j), Goto(w, s),
         UNCHANGED <<next_ino, tree, kernel>>, MapTypes',
         j.op = job[w].op, j.path = job[w].path, j.parent = job[w].parent, j.name = job[w].name,
         j.dest = job[w].dest, j.destParent = job[w].destParent, j.destName = job[w].destName
  PROVE  /\ job'[w] = j /\ at'[w] = s /\ dentry' = dentry
         /\ \A p : NewPath(w, p)' = NewPath(w, p)
         /\ (RootStays /\ Fresh)' /\ MapsAgree(w)' /\ RekeyFits(w)' /\ DentriesFollow(w)'
              => MapInv(w)'
  <1>1. w \in Workers /\ TypeOK /\ s \in Stages /\ s \notin {"putPath", "putIno", "get"}
    BY DEF MapInv, Rekeying, Stages
  <1>2. /\ job' \in [Workers -> Jobs] /\ job'[w] = j
        /\ at' \in [Workers -> Stages] /\ at'[w] = s
    BY <1>1, JobStep
  <1>3. UNCHANGED <<dentry, dirs>> /\ \A d, m : KernelPlaces(d, m)' = KernelPlaces(d, m)
    BY DEF kernel, KernelPlaces, KernelPaths
  <1>4. TypeOK' /\ NumbersAreDistinct'
    BY <1>1, <1>2, <1>3 DEF MapInv, TypeOK, MapTypes, NumbersAreDistinct
  <1>5. \A p : NewPath(w, p)' = NewPath(w, p)
    BY <1>2 DEF NewPath
  <1>6. JobFits(w)'
    <2>1. JobFits(w)
      BY DEF MapInv
    <2>2. /\ j.op # "opendir" /\ j.path # <<>> /\ j.dest # <<>>
          /\ KernelPlaces(j.parent, j.name) \subseteq {j.path}
          /\ KernelPlaces(j.destParent, j.destName) \subseteq {j.dest}
          /\ KernelPlaces(j.parent, j.name) # {} /\ KernelPlaces(j.destParent, j.destName) # {}
      BY <2>1 DEF JobFits, Rekeying
    <2> QED  BY <1>2, <1>3, <2>2 DEF JobFits, Rekeying
  <1>7. NumbersLast(w)'
    BY <1>1, <1>2 DEF NumbersLast, Rekeying
  <1> QED  BY <1>2, <1>3, <1>4, <1>5, <1>6, <1>7 DEF MapInv

\* The iteration over path_to_ino.
LEMMA CollectKeeps ==
  ASSUME NEW w, Workers = {w}, MapInv(w), Collect(w)
  PROVE  MapInv(w)'
  <1> DEFINE todo == {<<p, path_to_ino[p]>> : p \in Affected(w)}
             j == [job[w] EXCEPT !.todo = todo]
  <1>1. /\ at[w] = "collect" /\ at[w] \in Calm /\ w \in Workers /\ TypeOK
        /\ Keep(w, j) /\ Goto(w, "next") /\ UNCHANGED <<maps, tree, kernel>>
    BY DEF Collect, Calm, MapInv
  <1>2. job[w] \in Jobs
    BY <1>1 DEF TypeOK
  <1>3. MapTypes /\ KernelTypes /\ MapsInverse /\ Follow /\ RootStays /\ Fresh
    BY <1>1, CalmMaps
  <1>4. UNCHANGED <<path_to_ino, ino_to_path, next_ino, tree, kernel>>
    BY <1>1 DEF maps
  <1>5. ASSUME NEW m \in todo
        PROVE  /\ m \in Paths \X Inos /\ Under(m[1], job[w].path) /\ NewPath(w, m[1]) \in Paths
               /\ path_to_ino[m[1]] = m[2] /\ dentry[m[1]] \in {NoIno, m[2]}
    <2>1. PICK p \in Affected(w) : m = <<p, path_to_ino[p]>>
      OBVIOUS
    <2>2. /\ p \in Paths /\ path_to_ino[p] # NoIno /\ Under(p, job[w].path)
          /\ NewPath(w, p) \in Paths
      BY DEF Affected
    <2>3. path_to_ino[p] \in Inos
      BY <1>3, <2>2 DEF MapTypes
    <2>4. dentry[p] \in {NoIno, path_to_ino[p]}
      BY <1>3, <2>2 DEF Follow, MapsInverse, KernelTypes
    <2> QED  BY <2>1, <2>2, <2>3, <2>4
  <1>6. ASSUME NEW p \in Paths, dentry[p] # NoIno, Under(p, job[w].path), NewPath(w, p) \in Paths
        PROVE  <<p, dentry[p]>> \in todo
    <2>1. path_to_ino[p] = dentry[p]
      BY <1>3, <1>6 DEF Follow, MapsInverse, KernelTypes
    <2> QED  BY <1>6, <2>1 DEF Affected
  <1> HIDE DEF todo
  <1>7. todo \subseteq Paths \X Inos
    BY <1>5
  <1>8. /\ j \in Jobs /\ j.todo = todo
        /\ j.op = job[w].op /\ j.path = job[w].path /\ j.parent = job[w].parent
        /\ j.name = job[w].name /\ j.dest = job[w].dest
        /\ j.destParent = job[w].destParent /\ j.destName = job[w].destName
    BY <1>2, <1>7 DEF Jobs
  <1> HIDE DEF j
  <1>9. MapTypes' /\ (RootStays /\ Fresh)'
    BY <1>3, <1>4 DEF MapTypes, RootStays, Only, Fresh
  <1>10. /\ job'[w] = j /\ at'[w] = "next" /\ dentry' = dentry
         /\ \A p : NewPath(w, p)' = NewPath(w, p)
         /\ (RootStays /\ Fresh)' /\ MapsAgree(w)' /\ RekeyFits(w)' /\ DentriesFollow(w)'
              => MapInv(w)'
    <2>1. UNCHANGED <<next_ino, tree, kernel>> /\ "next" \in Rekeying
      BY <1>4 DEF Rekeying
    <2> QED  BY <1>1, <1>8, <1>9, <2>1, RekeyStep
  <1>11. MapsAgree(w)'
    BY <1>3, <1>4, <1>10 DEF MapsAgree, MapsInverse, Loose
  <1>12. RekeyFits(w)'
    <2>1. ~Under(job[w].path, job[w].dest) /\ ~Under(job[w].dest, job[w].path)
      BY <1>1 DEF MapInv, RekeyFits
    <2> QED  BY <1>4, <1>5, <1>8, <1>10, <2>1 DEF RekeyFits, Rekeying
  <1>13. DentriesFollow(w)'
    <2>1. ASSUME NEW p \in Paths, dentry[p] # NoIno
          PROVE  ino_to_path[dentry[p]] = p /\ path_to_ino[p] = dentry[p]
      BY <1>3, <2>1 DEF Follow, MapsInverse, KernelTypes
    <2> QED  BY <1>4, <1>6, <1>8, <1>10, <2>1 DEF DentriesFollow, Rekeying
  <1> QED  BY <1>9, <1>10, <1>11, <1>12, <1>13

\* What is left to move is below the old path, and so is apart from all below the new one.
LEMMA RekeyTodo ==
  ASSUME NEW w \in Workers, MapInv(w), at[w] \in Rekeying, NEW m \in job[w].todo
  PROVE  /\ m \in Paths \X Inos /\ m = <<m[1], m[2]>> /\ Under(m[1], job[w].path)
         /\ NewPath(w, m[1]) \in Paths
         /\ path_to_ino[m[1]] = m[2] /\ dentry[m[1]] \in {NoIno, m[2]}
         /\ ~Under(m[1], job[w].dest) /\ m[1] # <<>>
  <1>1. /\ m \in Paths \X Inos /\ m = <<m[1], m[2]>> /\ Under(m[1], job[w].path)
        /\ NewPath(w, m[1]) \in Paths
        /\ path_to_ino[m[1]] = m[2] /\ dentry[m[1]] \in {NoIno, m[2]}
    BY DEF MapInv, RekeyFits
  <1>2. m[1] \in Paths
    BY <1>1
  <1>3. ~Under(m[1], job[w].dest)
    BY <1>1, <1>2, RekeyPaths
  <1>4. m[1] # <<>>
    BY <1>1, RekeyPaths
  <1> QED  BY <1>1, <1>3, <1>4

\* path_to_ino.remove(old): the number is on its way to the new path.
LEMMA RemoveOldKeeps ==
  ASSUME NEW w, Workers = {w}, MapInv(w), RemoveOld(w)
  PROVE  MapInv(w)'
  <1>1. /\ at[w] = "next" /\ at[w] \in Rekeying /\ w \in Workers /\ TypeOK
        /\ UNCHANGED <<ino_to_path, next_ino, tree, kernel>> /\ Goto(w, "replace")
    BY DEF RemoveOld, MapInv, Rekeying
  <1>2. PICK m \in job[w].todo :
          /\ path_to_ino' = [path_to_ino EXCEPT ![m[1]] = NoIno]
          /\ Keep(w, [job[w] EXCEPT !.num = m[2], !.entry = NewPath(w, m[1]), !.todo = @ \ {m}])
    BY DEF RemoveOld
  <1> DEFINE old == m[1]
             num == m[2]
             new == NewPath(w, old)
             j == [job[w] EXCEPT !.num = num, !.entry = new, !.todo = @ \ {m}]
  <1>3. /\ old \in Paths /\ num \in Inos /\ m = <<old, num>> /\ Under(old, job[w].path)
        /\ new \in Paths /\ path_to_ino[old] = num /\ dentry[old] \in {NoIno, num}
        /\ ~Under(old, job[w].dest) /\ old # <<>>
    <2>1. m \in Paths \X Inos
      BY <1>1, RekeyTodo
    <2> QED  BY <1>1, <2>1, RekeyTodo
  <1>4. Under(new, job[w].dest)
    BY <1>1, <1>3, RekeyPaths
  <1>5. path_to_ino' = [path_to_ino EXCEPT ![old] = NoIno] /\ Keep(w, j)
    BY <1>2
  <1> HIDE DEF old, num, new
  <1>6. job[w] \in Jobs /\ path_to_ino \in [Paths -> Inos \cup {NoIno}]
    BY <1>1 DEF TypeOK
  <1>7. job[w].todo \ {m} \in SUBSET (Paths \cup (Paths \X Inos))
    BY <1>6 DEF Jobs
  <1>8. /\ j \in Jobs /\ j.num = num /\ j.entry = new /\ j.todo = job[w].todo \ {m}
        /\ j.op = job[w].op /\ j.path = job[w].path /\ j.parent = job[w].parent
        /\ j.name = job[w].name /\ j.dest = job[w].dest
        /\ j.destParent = job[w].destParent /\ j.destName = job[w].destName
    BY <1>3, <1>6, <1>7 DEF Jobs
  <1> HIDE DEF j
  <1>9. MapTypes'
    BY <1>1, <1>5, <1>6 DEF MapTypes, TypeOK
  <1>10. /\ job'[w] = j /\ at'[w] = "replace" /\ dentry' = dentry
         /\ \A p : NewPath(w, p)' = NewPath(w, p)
         /\ (RootStays /\ Fresh)' /\ MapsAgree(w)' /\ RekeyFits(w)' /\ DentriesFollow(w)'
              => MapInv(w)'
    <2>1. UNCHANGED <<next_ino, tree, kernel>> /\ "replace" \in Rekeying
      BY <1>1 DEF Rekeying
    <2> QED  BY <1>1, <1>5, <1>8, <1>9, <2>1, RekeyStep
  <1>11. \A i \in Inos, p \in Paths : path_to_ino[p] = i <=> ino_to_path[i] = p
    BY <1>1 DEF MapInv, MapsAgree, Loose
  <1>12. RootStays'
    BY <1>1, <1>3, <1>5, <1>6 DEF MapInv, RootStays, Only, Root, NoIno
  <1>13. Fresh' /\ num < next_ino
    <2>1. Fresh /\ next_ino \in 2..(MaxIno + 1)
      BY DEF MapInv, TypeOK
    <2> QED  BY <1>1, <1>3, <1>5, <1>6, <2>1, BoundsArePositive DEF Fresh, NoIno
  <1>14. MapsAgree(w)'
    <2>1. Loose(w)' = {num}
      BY <1>8, <1>10 DEF Loose
    <2>2. ASSUME NEW p \in Paths PROVE path_to_ino'[p] # num
      BY <1>3, <1>5, <1>6, <1>11, <2>2 DEF Inos, NoIno
    <2>3. \A i \in Inos \ {num}, p \in Paths : path_to_ino'[p] = i <=> ino_to_path'[i] = p
      BY <1>1, <1>3, <1>5, <1>6, <1>11 DEF Inos, NoIno
    <2> QED  BY <1>1, <1>8, <1>10, <1>13, <2>1, <2>2, <2>3 DEF MapsAgree, Missing
  <1>15. RekeyFits(w)'
    <2>1. ~Under(job[w].path, job[w].dest) /\ ~Under(job[w].dest, job[w].path)
      BY <1>1 DEF MapInv, RekeyFits
    <2>2. ASSUME NEW n \in job[w].todo \ {m}
          PROVE  /\ n \in Paths \X Inos /\ Under(n[1], job[w].path) /\ NewPath(w, n[1]) \in Paths
                 /\ path_to_ino'[n[1]] = n[2] /\ dentry[n[1]] \in {NoIno, n[2]}
      <3>1. /\ n \in Paths \X Inos /\ n = <<n[1], n[2]>> /\ Under(n[1], job[w].path)
            /\ NewPath(w, n[1]) \in Paths
            /\ path_to_ino[n[1]] = n[2] /\ dentry[n[1]] \in {NoIno, n[2]}
        BY <1>1, RekeyTodo
      <3>2. n[1] # old
        BY <1>3, <3>1
      <3>3. n[1] \in Paths
        BY <3>1
      <3> QED  BY <1>5, <1>6, <3>1, <3>2, <3>3
    <2>3. ASSUME NEW p \in Paths, Under(p, job[w].path), NewPath(w, p) = new
          PROVE  dentry[p] \in {NoIno, num}
      <3>1. p = old
        BY <1>1, <1>3, <2>3, RekeyPaths DEF new
      <3> QED  BY <1>3, <3>1
    <2> QED  BY <1>3, <1>4, <1>8, <1>10, <2>1, <2>2, <2>3 DEF RekeyFits, Rekeying
  <1>16. DentriesFollow(w)'
    <2>1. ASSUME NEW p \in Paths, dentry[p] # NoIno, ~Under(p, job[w].path), ~Under(p, job[w].dest)
          PROVE  ino_to_path[dentry[p]] = p /\ path_to_ino'[p] = dentry[p]
      <3>1. ino_to_path[dentry[p]] = p /\ path_to_ino[p] = dentry[p]
        BY <1>1, <2>1 DEF MapInv, DentriesFollow
      <3>2. p # old
        BY <1>3, <2>1
      <3> QED  BY <1>5, <1>6, <3>1, <3>2
    <2>2. ASSUME NEW p \in Paths, dentry[p] # NoIno, Under(p, job[w].path), NewPath(w, p) \in Paths
          PROVE  \/ <<p, dentry[p]>> \in job[w].todo \ {m}
                 \/ dentry[p] = num /\ new = NewPath(w, p)
                 \/ /\ ino_to_path[dentry[p]] = NewPath(w, p)
                    /\ path_to_ino'[NewPath(w, p)] = dentry[p]
      <3>1. \/ <<p, dentry[p]>> \in job[w].todo
            \/ /\ ino_to_path[dentry[p]] = NewPath(w, p)
               /\ path_to_ino[NewPath(w, p)] = dentry[p]
        BY <1>1, <2>2 DEF MapInv, DentriesFollow
      <3>2. <<p, dentry[p]>> = m => dentry[p] = num /\ new = NewPath(w, p)
        BY <1>3 DEF new
      <3>3. NewPath(w, p) # old
        BY <1>1, <1>3, <2>2, RekeyPaths
      <3> QED  BY <1>5, <1>6, <2>2, <3>1, <3>2, <3>3
    <2> QED  BY <1>1, <1>8, <1>10, <2>1, <2>2 DEF DentriesFollow, Rekeying
  <1> QED  BY <1>10, <1>12, <1>13, <1>14, <1>15, <1>16

\* What the steps between two entries have in common: where the entry goes.
LEMMA RekeyEntry ==
  ASSUME NEW w \in Workers, MapInv(w), at[w] \in Rekeying \ {"next"}
  PROVE  /\ job[w] \in Jobs /\ job[w].entry \in Paths /\ job[w].num \in Inos
         /\ Under(job[w].entry, job[w].dest) /\ job[w].entry # <<>>
         /\ ~Under(job[w].path, job[w].dest) /\ ~Under(job[w].dest, job[w].path)
         /\ \A p \in Paths : Under(p, job[w].path) => p # job[w].entry
         /\ \A p \in Paths : Under(p, job[w].path) /\ NewPath(w, p) = job[w].entry =>
                               dentry[p] \in {NoIno, job[w].num}
         /\ \A m \in job[w].todo : m[1] # job[w].entry
  <1>1. at[w] \in Rekeying
    OBVIOUS
  <1>2. /\ Under(job[w].entry, job[w].dest) /\ job[w].num \in Inos
        /\ ~Under(job[w].path, job[w].dest) /\ ~Under(job[w].dest, job[w].path)
        /\ \A p \in Paths : Under(p, job[w].path) /\ NewPath(w, p) = job[w].entry =>
                              dentry[p] \in {NoIno, job[w].num}
    BY DEF MapInv, RekeyFits
  <1>3. job[w] \in Jobs /\ job[w].entry \in Paths
    BY <1>1, RekeyPaths
  <1>4. /\ job[w].entry # <<>>
        /\ \A p \in Paths : Under(p, job[w].path) => p # job[w].entry
    BY <1>1, <1>2, RekeyPaths
  <1>5. \A m \in job[w].todo : m[1] # job[w].entry
    BY <1>1, <1>2, RekeyTodo
  <1> QED  BY <1>2, <1>3, <1>4, <1>5

\* With the same job, and at most the entry and the number touched, what is left to move
\* is as it was.
LEMMA RekeyFitsStill ==
  ASSUME NEW w \in Workers, MapInv(w), at[w] \in Rekeying \ {"next"},
         job'[w].path = job[w].path, job'[w].dest = job[w].dest, job'[w].todo = job[w].todo,
         job'[w].num = job[w].num, job'[w].entry = job[w].entry, dentry' = dentry,
         at'[w] \in Rekeying, at'[w] = "forget" => job'[w].lost \in Inos,
         \A p : NewPath(w, p)' = NewPath(w, p),
         \A p \in Paths \ {job[w].entry} : path_to_ino'[p] = path_to_ino[p]
  PROVE  RekeyFits(w)'
  <1>1. at[w] \in Rekeying
    OBVIOUS
  <1>2. ASSUME NEW m \in job[w].todo
        PROVE  /\ m \in Paths \X Inos /\ Under(m[1], job[w].path) /\ NewPath(w, m[1]) \in Paths
               /\ path_to_ino'[m[1]] = m[2] /\ dentry[m[1]] \in {NoIno, m[2]}
    <2>1. /\ m \in Paths \X Inos /\ Under(m[1], job[w].path) /\ NewPath(w, m[1]) \in Paths
          /\ path_to_ino[m[1]] = m[2] /\ dentry[m[1]] \in {NoIno, m[2]}
      BY <1>1, RekeyTodo
    <2>2. m[1] \in Paths \ {job[w].entry}
      BY <2>1, RekeyEntry
    <2> QED  BY <2>1, <2>2
  <1> QED  BY <1>2, RekeyEntry DEF RekeyFits

\* path_to_ino.remove(new): the file the rename replaces.
LEMMA RemoveReplacedKeeps ==
  ASSUME NEW w, Workers = {w}, MapInv(w), RemoveReplaced(w)
  PROVE  MapInv(w)'
  <1> DEFINE num == job[w].num
             entry == job[w].entry
             lost == path_to_ino[entry]
  <1>1. /\ at[w] = "replace" /\ at[w] \in Rekeying \ {"next"} /\ w \in Workers /\ TypeOK
        /\ path_to_ino' = [path_to_ino EXCEPT ![entry] = NoIno]
        /\ UNCHANGED <<ino_to_path, next_ino, tree, kernel>>
    BY DEF RemoveReplaced, MapInv, Rekeying
  <1>2. /\ job[w] \in Jobs /\ entry \in Paths /\ num \in Inos
        /\ Under(entry, job[w].dest) /\ entry # <<>>
        /\ \A p \in Paths : Under(p, job[w].path) /\ NewPath(w, p) = entry =>
                              dentry[p] \in {NoIno, num}
    BY <1>1, RekeyEntry
  <1>3. /\ Missing(num) /\ num < next_ino
        /\ \A i \in Inos \ {num}, p \in Paths : path_to_ino[p] = i <=> ino_to_path[i] = p
    BY <1>1 DEF MapInv, MapsAgree, Loose
  <1>4. path_to_ino \in [Paths -> Inos \cup {NoIno}]
    BY <1>1 DEF TypeOK
  <1>5. PICK j \in Jobs, s \in {"rekeyPath", "forget"} :
          /\ Keep(w, j) /\ Goto(w, s)
          /\ j.op = job[w].op /\ j.path = job[w].path /\ j.parent = job[w].parent
          /\ j.name = job[w].name /\ j.dest = job[w].dest
          /\ j.destParent = job[w].destParent /\ j.destName = job[w].destName
          /\ j.todo = job[w].todo /\ j.num = num /\ j.entry = entry
          /\ s = "forget" => j.lost = lost /\ lost # NoIno
    <2>1. CASE lost = NoIno
      <3>1. Goto(w, "rekeyPath") /\ Keep(w, job[w])
        BY <1>1, <2>1 DEF RemoveReplaced, Keep, TypeOK
      <3> QED  BY <1>2, <3>1
    <2>2. CASE lost # NoIno
      <3> DEFINE k == [job[w] EXCEPT !.lost = lost]
      <3>1. lost \in Inos
        BY <1>2, <1>4, <2>2
      <3>2. Goto(w, "forget") /\ Keep(w, k)
        BY <2>2 DEF RemoveReplaced
      <3> HIDE DEF lost
      <3>3. /\ k \in Jobs /\ k.lost = lost
            /\ k.op = job[w].op /\ k.path = job[w].path /\ k.parent = job[w].parent
            /\ k.name = job[w].name /\ k.dest = job[w].dest
            /\ k.destParent = job[w].destParent /\ k.destName = job[w].destName
            /\ k.todo = job[w].todo /\ k.num = num /\ k.entry = entry
        BY <1>2, <3>1 DEF Jobs
      <3> HIDE DEF k
      <3> QED  BY <2>2, <3>2, <3>3
    <2> QED  BY <2>1, <2>2
  <1> HIDE DEF num, entry, lost
  <1>6. MapTypes'
    BY <1>1, <1>4 DEF MapTypes, TypeOK
  <1>7. /\ job'[w] = j /\ at'[w] = s /\ dentry' = dentry
        /\ \A p : NewPath(w, p)' = NewPath(w, p)
        /\ (RootStays /\ Fresh)' /\ MapsAgree(w)' /\ RekeyFits(w)' /\ DentriesFollow(w)'
             => MapInv(w)'
    <2>1. UNCHANGED <<next_ino, tree, kernel>> /\ s \in Rekeying
      BY <1>1, <1>5 DEF Rekeying
    <2> QED  BY <1>1, <1>5, <1>6, <2>1, RekeyStep
  <1>8. lost \in Inos \cup {NoIno} /\ (lost # NoIno => lost # num)
    BY <1>2, <1>3, <1>4 DEF Missing, lost
  <1>9. \A p \in Paths \ {entry} : path_to_ino'[p] = path_to_ino[p]
    BY <1>1, <1>4
  <1>10. path_to_ino'[entry] = NoIno
    BY <1>1, <1>2, <1>4
  <1>11. RootStays'
    BY <1>1, <1>2, <1>9, <1>10 DEF MapInv, RootStays, Only, Root, NoIno
  <1>12. Fresh'
    <2>1. Fresh /\ next_ino \in 2..(MaxIno + 1)
      BY DEF MapInv, TypeOK
    <2> QED  BY <1>1, <1>9, <1>10, <2>1, BoundsArePositive DEF Fresh, NoIno
  <1>13. MapsAgree(w)'
    <2>1. \A p \in Paths : path_to_ino'[p] # num
      BY <1>2, <1>3, <1>9, <1>10 DEF Missing, Inos, NoIno
    <2>2. CASE s = "rekeyPath"
      <3>1. Loose(w)' = {num}
        BY <1>5, <1>7, <2>2 DEF Loose
      <3>2. lost = NoIno
        <4>1. CASE path_to_ino[job[w].entry] = NoIno
          BY <4>1 DEF lost, entry
        <4>2. CASE path_to_ino[job[w].entry] # NoIno
          BY <1>1, <1>7, <2>2, <4>2 DEF RemoveReplaced, Goto, TypeOK
        <4> QED  BY <4>1, <4>2
      <3>3. \A p \in Paths : path_to_ino'[p] = path_to_ino[p]
        BY <1>9, <1>10, <3>2 DEF lost
      <3>4. \A i \in Inos \ {num}, p \in Paths : path_to_ino'[p] = i <=> ino_to_path'[i] = p
        BY <1>1, <1>3, <3>3
      <3> QED  BY <1>1, <1>3, <1>5, <1>7, <1>10, <2>1, <2>2, <3>1, <3>4 DEF MapsAgree, Missing
    <2>3. CASE s = "forget"
      <3>1. Loose(w)' = {num, lost}
        BY <1>5, <1>7, <2>3 DEF Loose
      <3>2. lost # NoIno /\ lost \in Inos \ {num}
        BY <1>5, <1>8, <2>3
      <3>3. \A p \in Paths : path_to_ino'[p] # lost
        <4>1. \A p \in Paths : path_to_ino[p] = lost => p = entry
          BY <1>2, <1>3, <3>2 DEF lost
        <4> QED  BY <1>9, <1>10, <3>2, <4>1
      <3>4. \A i \in Inos \ {num, lost}, p \in Paths : path_to_ino'[p] = i <=> ino_to_path'[i] = p
        <4>1. \A i \in Inos \ {num, lost} : path_to_ino[entry] # i /\ i # NoIno
          BY DEF lost, Inos, NoIno
        <4> QED  BY <1>1, <1>2, <1>3, <1>9, <1>10, <4>1
      <3> QED  BY <1>1, <1>3, <1>5, <1>7, <1>10, <2>1, <2>3, <3>1, <3>2, <3>3, <3>4
               DEF MapsAgree, Missing
    <2> QED  BY <1>5, <2>2, <2>3
  <1>14. RekeyFits(w)'
    <2>1. s \in Rekeying /\ (s = "forget" => j.lost \in Inos)
      BY <1>5, <1>8 DEF Rekeying
    <2> QED  BY <1>1, <1>5, <1>7, <1>9, <2>1, RekeyFitsStill DEF num, entry
  <1>15. DentriesFollow(w)'
    <2>1. ASSUME NEW p \in Paths, dentry[p] # NoIno, ~Under(p, job[w].path), ~Under(p, job[w].dest)
          PROVE  ino_to_path[dentry[p]] = p /\ path_to_ino'[p] = dentry[p]
      <3>1. ino_to_path[dentry[p]] = p /\ path_to_ino[p] = dentry[p]
        BY <1>1, <2>1 DEF MapInv, DentriesFollow
      <3>2. p # entry
        BY <1>2, <2>1
      <3> QED  BY <1>9, <3>1, <3>2
    <2>2. ASSUME NEW p \in Paths, dentry[p] # NoIno, Under(p, job[w].path), NewPath(w, p) \in Paths
          PROVE  \/ <<p, dentry[p]>> \in job[w].todo
                 \/ dentry[p] = num /\ entry = NewPath(w, p)
                 \/ /\ ino_to_path[dentry[p]] = NewPath(w, p)
                    /\ path_to_ino'[NewPath(w, p)] = dentry[p]
      <3>1. \/ <<p, dentry[p]>> \in job[w].todo
            \/ dentry[p] = num /\ entry = NewPath(w, p)
            \/ /\ ino_to_path[dentry[p]] = NewPath(w, p)
               /\ path_to_ino[NewPath(w, p)] = dentry[p]
        BY <1>1, <2>2 DEF MapInv, DentriesFollow, num, entry
      <3>2. NewPath(w, p) = entry => dentry[p] = num
        BY <1>2, <2>2
      <3> QED  BY <1>9, <2>2, <3>1, <3>2
    <2> QED  BY <1>1, <1>5, <1>7, <2>1, <2>2 DEF DentriesFollow, Rekeying, num, entry
  <1> QED  BY <1>7, <1>11, <1>12, <1>13, <1>14, <1>15

\* ino_to_path.remove(replaced).
LEMMA ForgetReplacedKeeps ==
  ASSUME NEW w, Workers = {w}, MapInv(w), ForgetReplaced(w)
  PROVE  MapInv(w)'
  <1> DEFINE num == job[w].num
             entry == job[w].entry
             lost == job[w].lost
  <1>1. /\ at[w] = "forget" /\ at[w] \in Rekeying \ {"next"} /\ w \in Workers /\ TypeOK
        /\ ino_to_path' = [ino_to_path EXCEPT ![lost] = NoPath]
        /\ UNCHANGED <<path_to_ino, next_ino, tree, kernel>> /\ job' = job /\ Goto(w, "rekeyPath")
    BY DEF ForgetReplaced, MapInv, Rekeying
  <1>2. job[w] \in Jobs /\ ino_to_path \in [Inos -> Paths \cup {NoPath}]
    BY <1>1 DEF TypeOK
  <1>3. /\ Missing(num) /\ Missing(lost) /\ lost # num /\ num < next_ino /\ lost \in Inos
        /\ path_to_ino[entry] = NoIno
        /\ \A i \in Inos \ {num, lost}, p \in Paths : path_to_ino[p] = i <=> ino_to_path[i] = p
    BY <1>1 DEF MapInv, MapsAgree, RekeyFits, Loose
  <1>4. Keep(w, job[w]) /\ "rekeyPath" \in Rekeying
    BY <1>1 DEF Keep, TypeOK, Rekeying
  <1>5. MapTypes'
    BY <1>1, <1>2 DEF MapTypes, TypeOK
  <1>6. /\ job'[w] = job[w] /\ at'[w] = "rekeyPath" /\ dentry' = dentry
        /\ \A p : NewPath(w, p)' = NewPath(w, p)
        /\ (RootStays /\ Fresh)' /\ MapsAgree(w)' /\ RekeyFits(w)' /\ DentriesFollow(w)'
             => MapInv(w)'
    <2>1. UNCHANGED <<next_ino, tree, kernel>>
      BY <1>1
    <2> QED  BY <1>1, <1>2, <1>4, <1>5, <2>1, RekeyStep
  <1> HIDE DEF num, entry, lost
  <1>7. \A i \in Inos \ {lost} : ino_to_path'[i] = ino_to_path[i]
    BY <1>1, <1>2
  <1>8. RootStays' /\ Fresh'
    <2>1. /\ Only(Root, <<>>) /\ ino_to_path[Root] = <<>> /\ Root \in Inos /\ <<>> \in Paths /\ Fresh
      BY BoundsArePositive, PathsAreSeqs DEF MapInv, RootStays, Root, Inos
    <2>2. lost # Root
      BY <1>3, <2>1 DEF Only, Missing
    <2> QED  BY <1>1, <1>7, <2>1, <2>2 DEF RootStays, Only, Fresh
  <1>9. MapsAgree(w)'
    <2>1. Loose(w)' = {num}
      BY <1>6 DEF Loose, num
    <2>2. ino_to_path'[lost] = NoPath
      BY <1>1, <1>2, <1>3
    <2>3. \A i \in Inos \ {num}, p \in Paths : path_to_ino'[p] = i <=> ino_to_path'[i] = p
      BY <1>1, <1>3, <1>7, <2>2, NoPathIsNoPath DEF Missing
    <2> QED  BY <1>1, <1>3, <1>6, <2>1, <2>3 DEF MapsAgree, Missing, num, entry
  <1>10. RekeyFits(w)'
    BY <1>1, <1>4, <1>6, RekeyFitsStill
  <1>11. DentriesFollow(w)'
    <2>1. ASSUME NEW p \in Paths, dentry[p] # NoIno, ~Under(p, job[w].path), ~Under(p, job[w].dest)
          PROVE  ino_to_path'[dentry[p]] = p /\ path_to_ino[p] = dentry[p]
      <3>1. ino_to_path[dentry[p]] = p /\ path_to_ino[p] = dentry[p]
        BY <1>1, <2>1 DEF MapInv, DentriesFollow, Rekeying
      <3>2. dentry[p] \in Inos \ {lost}
        BY <1>1, <1>3, <2>1, <3>1 DEF Missing, TypeOK
      <3> QED  BY <1>7, <3>1, <3>2
    <2>2. ASSUME NEW p \in Paths, dentry[p] # NoIno, NewPath(w, p) \in Paths,
                 ino_to_path[dentry[p]] = NewPath(w, p), path_to_ino[NewPath(w, p)] = dentry[p]
          PROVE  ino_to_path'[dentry[p]] = NewPath(w, p)
      <3>1. dentry[p] \in Inos \ {lost}
        BY <1>1, <1>3, <2>2 DEF Missing, TypeOK
      <3> QED  BY <1>7, <2>2, <3>1
    <2>3. DentriesFollow(w)
      BY DEF MapInv
    <2> QED  BY <1>1, <1>6, <2>1, <2>2, <2>3 DEF DentriesFollow, Rekeying
  <1> QED  BY <1>6, <1>8, <1>9, <1>10, <1>11

\* path_to_ino.insert(new, ino).
LEMMA RekeyPathKeeps ==
  ASSUME NEW w, Workers = {w}, MapInv(w), RekeyPath(w)
  PROVE  MapInv(w)'
  <1> DEFINE num == job[w].num
             entry == job[w].entry
  <1>1. /\ at[w] = "rekeyPath" /\ at[w] \in Rekeying \ {"next"} /\ w \in Workers /\ TypeOK
        /\ path_to_ino' = [path_to_ino EXCEPT ![entry] = num]
        /\ UNCHANGED <<ino_to_path, next_ino, tree, kernel>> /\ job' = job /\ Goto(w, "rekeyIno")
    BY DEF RekeyPath, MapInv, Rekeying
  <1>2. /\ job[w] \in Jobs /\ entry \in Paths /\ num \in Inos
        /\ Under(entry, job[w].dest) /\ entry # <<>>
    BY <1>1, RekeyEntry
  <1>3. /\ Missing(num) /\ num < next_ino /\ path_to_ino[entry] = NoIno
        /\ \A i \in Inos \ {num}, p \in Paths : path_to_ino[p] = i <=> ino_to_path[i] = p
    BY <1>1 DEF MapInv, MapsAgree, Loose
  <1>4. Keep(w, job[w]) /\ "rekeyIno" \in Rekeying
    BY <1>1 DEF Keep, TypeOK, Rekeying
  <1>5. path_to_ino \in [Paths -> Inos \cup {NoIno}]
    BY <1>1 DEF TypeOK
  <1> HIDE DEF num, entry
  <1>6. MapTypes'
    BY <1>1, <1>2, <1>5 DEF MapTypes, TypeOK
  <1>7. /\ job'[w] = job[w] /\ at'[w] = "rekeyIno" /\ dentry' = dentry
        /\ \A p : NewPath(w, p)' = NewPath(w, p)
        /\ (RootStays /\ Fresh)' /\ MapsAgree(w)' /\ RekeyFits(w)' /\ DentriesFollow(w)'
             => MapInv(w)'
    <2>1. UNCHANGED <<next_ino, tree, kernel>>
      BY <1>1
    <2> QED  BY <1>1, <1>2, <1>4, <1>6, <2>1, RekeyStep
  <1>8. path_to_ino'[entry] = num /\ \A p \in Paths \ {entry} : path_to_ino'[p] = path_to_ino[p]
    BY <1>1, <1>2, <1>5
  <1>9. RootStays' /\ Fresh'
    <2>1. /\ Only(Root, <<>>) /\ ino_to_path[Root] = <<>> /\ <<>> \in Paths /\ Fresh
      BY PathsAreSeqs DEF MapInv, RootStays
    <2>2. num # Root
      BY <1>3, <2>1 DEF Only, Missing
    <2> QED  BY <1>1, <1>2, <1>3, <1>8, <2>1, <2>2 DEF RootStays, Only, Fresh
  <1>10. MapsAgree(w)'
    <2>1. Loose(w)' = {num}
      BY <1>7 DEF Loose, num
    <2>2. \A p \in Paths : path_to_ino'[p] = num <=> p = entry
      BY <1>3, <1>8 DEF Missing
    <2>3. \A i \in Inos \ {num}, p \in Paths : path_to_ino'[p] = i <=> ino_to_path'[i] = p
      BY <1>1, <1>2, <1>3, <1>8 DEF Inos, NoIno
    <2> QED  BY <1>1, <1>7, <2>1, <2>2, <2>3 DEF MapsAgree, Only, num, entry
  <1>11. RekeyFits(w)'
    BY <1>1, <1>4, <1>7, <1>8, RekeyFitsStill DEF entry
  <1>12. DentriesFollow(w)'
    <2>1. ASSUME NEW p \in Paths, dentry[p] # NoIno, ~Under(p, job[w].dest),
                 path_to_ino[p] = dentry[p]
          PROVE  path_to_ino'[p] = dentry[p]
      BY <1>2, <1>8, <2>1
    <2>2. ASSUME NEW p \in Paths, dentry[p] # NoIno, NewPath(w, p) \in Paths,
                 path_to_ino[NewPath(w, p)] = dentry[p]
          PROVE  path_to_ino'[NewPath(w, p)] = dentry[p]
      BY <1>3, <1>8, <2>2
    <2>3. DentriesFollow(w)
      BY DEF MapInv
    <2> QED  BY <1>1, <1>7, <2>1, <2>2, <2>3 DEF DentriesFollow, Rekeying
  <1> QED  BY <1>7, <1>9, <1>10, <1>11, <1>12

\* ino_to_path.insert(ino, new): the entry is where it goes, in both maps.
LEMMA RekeyInoKeeps ==
  ASSUME NEW w, Workers = {w}, MapInv(w), RekeyIno(w)
  PROVE  MapInv(w)'
  <1> DEFINE num == job[w].num
             entry == job[w].entry
  <1>1. /\ at[w] = "rekeyIno" /\ at[w] \in Rekeying \ {"next"} /\ w \in Workers /\ TypeOK
        /\ ino_to_path' = [ino_to_path EXCEPT ![num] = entry]
        /\ UNCHANGED <<path_to_ino, next_ino, tree, kernel>> /\ job' = job /\ Goto(w, "next")
    BY DEF RekeyIno, MapInv, Rekeying
  <1>2. /\ job[w] \in Jobs /\ entry \in Paths /\ num \in Inos
        /\ Under(entry, job[w].dest) /\ entry # <<>>
    BY <1>1, RekeyEntry
  <1>3. /\ Only(num, entry)
        /\ \A i \in Inos \ {num}, p \in Paths : path_to_ino[p] = i <=> ino_to_path[i] = p
    BY <1>1 DEF MapInv, MapsAgree, Loose
  <1>4. Keep(w, job[w]) /\ "next" \in Rekeying
    BY <1>1 DEF Keep, TypeOK, Rekeying
  <1>5. ino_to_path \in [Inos -> Paths \cup {NoPath}]
    BY <1>1 DEF TypeOK
  <1> HIDE DEF num, entry
  <1>6. MapTypes'
    BY <1>1, <1>2, <1>5 DEF MapTypes, TypeOK
  <1>7. /\ job'[w] = job[w] /\ at'[w] = "next" /\ dentry' = dentry
        /\ \A p : NewPath(w, p)' = NewPath(w, p)
        /\ (RootStays /\ Fresh)' /\ MapsAgree(w)' /\ RekeyFits(w)' /\ DentriesFollow(w)'
             => MapInv(w)'
    <2>1. UNCHANGED <<next_ino, tree, kernel>>
      BY <1>1
    <2> QED  BY <1>1, <1>2, <1>4, <1>6, <2>1, RekeyStep
  <1>8. ino_to_path'[num] = entry /\ \A i \in Inos \ {num} : ino_to_path'[i] = ino_to_path[i]
    BY <1>1, <1>2, <1>5
  <1>9. RootStays' /\ Fresh'
    <2>1. /\ Only(Root, <<>>) /\ ino_to_path[Root] = <<>> /\ Root \in Inos /\ <<>> \in Paths /\ Fresh
      BY BoundsArePositive, PathsAreSeqs DEF MapInv, RootStays, Root, Inos
    <2>2. num # Root
      BY <1>2, <1>3, <2>1 DEF Only
    <2> QED  BY <1>1, <1>8, <2>1, <2>2 DEF RootStays, Only, Fresh
  <1>10. MapsAgree(w)'
    <2>1. Loose(w)' = {}
      BY <1>7 DEF Loose
    <2>2. \A i \in Inos, p \in Paths : path_to_ino'[p] = i <=> ino_to_path'[i] = p
      BY <1>1, <1>3, <1>8 DEF Only
    <2> QED  BY <1>7, <2>1, <2>2 DEF MapsAgree
  <1>11. RekeyFits(w)'
    BY <1>1, <1>4, <1>7, RekeyFitsStill
  <1>12. DentriesFollow(w)'
    <2>1. ASSUME NEW p \in Paths, dentry[p] # NoIno, ~Under(p, job[w].path), ~Under(p, job[w].dest)
          PROVE  ino_to_path'[dentry[p]] = p /\ path_to_ino[p] = dentry[p]
      <3>1. ino_to_path[dentry[p]] = p /\ path_to_ino[p] = dentry[p]
        BY <1>1, <2>1 DEF MapInv, DentriesFollow
      <3>2. dentry[p] \in Inos \ {num}
        BY <1>1, <1>2, <1>3, <2>1, <3>1 DEF Only, TypeOK
      <3> QED  BY <1>8, <3>1, <3>2
    <2>2. ASSUME NEW p \in Paths, dentry[p] # NoIno, Under(p, job[w].path), NewPath(w, p) \in Paths
          PROVE  \/ <<p, dentry[p]>> \in job[w].todo
                 \/ /\ ino_to_path'[dentry[p]] = NewPath(w, p)
                    /\ path_to_ino[NewPath(w, p)] = dentry[p]
      <3>1. \/ <<p, dentry[p]>> \in job[w].todo
            \/ dentry[p] = num /\ entry = NewPath(w, p)
            \/ /\ ino_to_path[dentry[p]] = NewPath(w, p)
               /\ path_to_ino[NewPath(w, p)] = dentry[p]
        BY <1>1, <2>2 DEF MapInv, DentriesFollow, num, entry
      <3>2. dentry[p] \in Inos
        BY <1>1, <2>2 DEF TypeOK
      <3> QED  BY <1>2, <1>3, <1>8, <2>2, <3>1, <3>2 DEF Only
    <2> QED  BY <1>1, <1>7, <2>1, <2>2 DEF DentriesFollow, Rekeying
  <1> QED  BY <1>7, <1>9, <1>10, <1>11, <1>12

\* The reply to rename: the kernel moves its dentries to where their numbers lead.
LEMMA RenamedKeeps ==
  ASSUME NEW w, Workers = {w}, MapInv(w), Renamed(w)
  PROVE  MapInv(w)'
  <1> DEFINE path == job[w].path
             dest == job[w].dest
             ps == KernelPlaces(job[w].parent, job[w].name)
             qs == KernelPlaces(job[w].destParent, job[w].destName)
  <1>1. /\ at[w] = "next" /\ at[w] \in Rekeying /\ w \in Workers /\ TypeOK
        /\ job[w].todo = {} /\ Done(w) /\ UNCHANGED <<maps, tree, dirs>>
        /\ dentry' = IF ps = {} \/ qs = {} THEN Dropped(dentry, ps \cup qs)
                     ELSE Moved(dentry, CHOOSE p \in ps : TRUE, CHOOSE q \in qs : TRUE, NoIno)
    BY DEF Renamed, MapInv, Rekeying
  <1>2. ps = {path} /\ qs = {dest}
    BY <1>1 DEF MapInv, JobFits
  <1>3. dentry' = Moved(dentry, path, dest, NoIno)
    BY <1>1, <1>2
  <1>4. UNCHANGED <<path_to_ino, ino_to_path, next_ino>>
    BY <1>1 DEF maps
  <1>5. \A i \in Inos, p \in Paths : path_to_ino[p] = i <=> ino_to_path[i] = p
    BY <1>1 DEF MapInv, MapsAgree, Loose
  <1>6. MapTypes' /\ DeviceTypes' /\ (RootStays /\ Fresh /\ MapsInverse)'
    BY <1>1, <1>4, <1>5 DEF MapInv, TypeOK, MapTypes, DeviceTypes, RootStays, Only, Fresh, MapsInverse
  <1>7. dentry \in [Paths -> Inos \cup {NoIno}]
    BY <1>1 DEF TypeOK
  <1> HIDE DEF path, dest
  <1>8. \A r \in Paths : dentry'[r] = IF Under(r, dest)
                                      THEN IF MovedPath(r, dest, path) \in Paths
                                           THEN dentry[MovedPath(r, dest, path)] ELSE NoIno
                                      ELSE IF Under(r, path) THEN NoIno ELSE dentry[r]
    BY <1>3 DEF Moved, MovedPath
  <1>9. KernelTypes'
    <2>1. dentry' \in [Paths -> Inos \cup {NoIno}]
      BY <1>3, <1>7 DEF Moved
    <2> QED  BY <1>1, <2>1 DEF KernelTypes, TypeOK
  <1>10. ASSUME NEW r \in Paths, dentry'[r] # NoIno
         PROVE  ino_to_path'[dentry'[r]] = r
    <2>1. CASE ~Under(r, dest)
      <3>1. ~Under(r, path) /\ dentry'[r] = dentry[r]
        BY <1>8, <1>10, <2>1
      <3>2. ino_to_path[dentry[r]] = r
        BY <1>1, <1>10, <2>1, <3>1 DEF MapInv, DentriesFollow, path, dest
      <3> QED  BY <1>4, <3>1, <3>2
    <2>2. CASE Under(r, dest)
      <3> DEFINE s == MovedPath(r, dest, path)
      <3>1. s \in Paths /\ dentry'[r] = dentry[s]
        BY <1>8, <1>10, <2>2
      <3>2. Under(s, path) /\ NewPath(w, s) = r
        BY <1>1, <2>2, RekeyPaths DEF path, dest
      <3> HIDE DEF s
      <3>3. ino_to_path[dentry[s]] = NewPath(w, s)
        BY <1>1, <1>10, <3>1, <3>2 DEF MapInv, DentriesFollow, path
      <3> QED  BY <1>4, <3>1, <3>2, <3>3
    <2> QED  BY <2>1, <2>2
  <1>11. Follow'
    BY <1>10 DEF Follow
  <1> QED  BY <1>1, <1>6, <1>9, <1>11, DoneKeeps

------------------------------------------------------------------------------
(***************************************************************************)
(* The theorems.                                                           *)
(***************************************************************************)

\* The invariant does not depend on the primed variables if none changes.
LEMMA StutterKeeps ==
  ASSUME NEW w, MapInv(w), UNCHANGED vars
  PROVE  MapInv(w)'
  <1>1. UNCHANGED <<path_to_ino, ino_to_path, next_ino, at, job, tree, dentry, dirs>>
    BY DEF vars, maps, kernel
  <1>2. (TypeOK /\ RootStays /\ Fresh /\ NumbersAreDistinct)'
    BY <1>1 DEF MapInv, TypeOK, RootStays, Only, Fresh, NumbersAreDistinct
  <1>3. \A p : NewPath(w, p)' = NewPath(w, p)
    BY <1>1 DEF NewPath
  <1>4. \A i, n : KernelPlaces(i, n)' = KernelPlaces(i, n)
    BY <1>1 DEF KernelPlaces, KernelPaths
  <1>5. MapsAgree(w)'
    BY <1>1 DEF MapInv, MapsAgree, Missing, Only, Loose
  <1>6. RekeyFits(w)' /\ DentriesFollow(w)'
    BY <1>1, <1>3 DEF MapInv, RekeyFits, DentriesFollow
  <1>7. JobFits(w)' /\ NumbersLast(w)'
    BY <1>1, <1>4 DEF MapInv, JobFits, NumbersLast
  <1> QED  BY <1>2, <1>5, <1>6, <1>7 DEF MapInv

\* Every step keeps the invariant.
LEMMA StepsKeep ==
  ASSUME NEW w, Workers = {w}, MapInv(w), [Next]_vars
  PROVE  MapInv(w)'
  <1>1. CASE Request(w)
    BY <1>1, RequestKeeps
  <1>2. CASE Stat(w) \/ List(w) \/ MakeOnDevice(w) \/ PushOnDevice(w) \/ RemoveOnDevice(w)
    BY <1>2, StatKeeps, ListKeeps, MakeKeeps, PushKeeps, RemoveKeeps
  <1>3. CASE Target(w) \/ MoveOnDevice(w)
    BY <1>3, TargetKeeps, MoveKeeps
  <1>4. CASE Found(w) \/ Take(w) \/ PutPath(w) \/ PutIno(w)
    BY <1>4, FoundKeeps, TakeKeeps, PutPathKeeps, PutInoKeeps
  <1>5. CASE Collect(w) \/ RemoveOld(w) \/ RemoveReplaced(w) \/ ForgetReplaced(w)
    BY <1>5, CollectKeeps, RemoveOldKeeps, RemoveReplacedKeeps, ForgetReplacedKeeps
  <1>6. CASE RekeyPath(w) \/ RekeyIno(w) \/ Renamed(w)
    BY <1>6, RekeyPathKeeps, RekeyInoKeeps, RenamedKeeps
  <1>7. CASE UNCHANGED vars
    BY <1>7, StutterKeeps
  <1> QED  BY <1>1, <1>2, <1>3, <1>4, <1>5, <1>6, <1>7 DEF Next, Step

\* With one worker the invariant holds throughout.
LEMMA InvariantHolds == ASSUME NEW w, Workers = {w} PROVE Spec => []MapInv(w)
  <1>1. Init => MapInv(w)
    BY OnlyTheRoot
  <1>2. MapInv(w) /\ [Next]_vars => MapInv(w)'
    BY StepsKeep
  <1> QED  BY <1>1, <1>2, PTL DEF Spec

\* What rekey_paths says of itself: through every rename of a file or a tree, the number
\* the kernel holds for a path resolves to that path when the reply is out.
THEOREM RenamesResolve == ASSUME OneThread PROVE Spec => []DentriesResolve
  <1>1. PICK w : Workers = {w}
    BY DEF OneThread
  <1>2. MapInv(w) => DentriesResolve
    BY <1>1 DEF MapInv, DentriesFollow, DentriesResolve, Quiet, Idle, Rekeying
  <1> QED  BY <1>1, <1>2, InvariantHolds, PTL

\* get_or_assign_ino gives a path one number, and rekey_paths leaves it that one: two
\* opens of a file share its local copy.
THEOREM PathsHaveOneNumber == ASSUME OneThread PROVE Spec => []OneNumberPerPath
  <1>1. PICK w : Workers = {w}
    BY DEF OneThread
  <1>2. MapInv(w) => OneNumberPerPath
    BY <1>1 DEF MapInv, MapsAgree, OneNumberPerPath, Quiet, Idle, Loose
  <1> QED  BY <1>1, <1>2, InvariantHolds, PTL

\* No two paths the kernel knows have the same number, so no handler serves one file
\* from another's local copy.
THEOREM NumbersTellFilesApart == ASSUME OneThread PROVE Spec => []NumbersAreDistinct
  <1>1. PICK w : Workers = {w}
    BY DEF OneThread
  <1>2. MapInv(w) => NumbersAreDistinct
    BY DEF MapInv
  <1> QED  BY <1>1, <1>2, InvariantHolds, PTL

------------------------------------------------------------------------------
(***************************************************************************)
(* Any number of threads.  The maps are not inverse then, and dentries may *)
(* lead astray; what is left is that numbers come from the counter alone:  *)
(* each is new when it is taken, none is above it, and the root keeps its. *)
(***************************************************************************)

\* Paths of one directory.
Siblings(S) ==
  \E d \in Paths : Len(d) < Depth /\ \A p \in S : \E n \in Names : p = Child(d, n)

\* What a handler has in its stages, whatever the maps have become meanwhile.
JobIs(s, j) ==
  /\ s = "list" => j.op = "opendir" /\ Len(j.path) < Depth
  /\ s \notin {"idle", "list", "get", "putPath", "putIno"} => j.op # "opendir"
  /\ s # "idle" /\ j.op # "opendir" => j.path # <<>> /\ j.name \in Names
  /\ s \in {"get", "putPath", "putIno"} /\ j.op = "opendir" =>
       Siblings({j.path} \cup j.todo) /\ j.path \notin j.todo
  /\ s \in {"putPath", "putIno"} => j.num \in Inos \ {Root}
  /\ s = "push" => j.num \in Inos
  /\ s = "target" => j.destParent \in Inos /\ j.destName \in Names
  /\ s \in {"mv", "collect"} \cup Rekeying => j.dest # <<>>
  /\ s \in Rekeying =>
       \A m \in j.todo : /\ m \in Paths \X (Inos \ {Root}) /\ Under(m[1], j.path)
                         /\ MovedPath(m[1], j.path, j.dest) \in Paths
  /\ s \in Rekeying \ {"next"} => j.entry # <<>> /\ j.num \in Inos \ {Root}
  /\ s = "forget" => j.lost \in Inos \ {Root}

JobsAre == \A w \in Workers : JobIs(at[w], job[w])

\* The names a handler may still take a number for.
LastName(p) == p[Len(p)]

ToNumber(s, j) ==
  IF j.op = "opendir"
    THEN CASE s = "list" -> Names
           [] s = "get" -> {LastName(p) : p \in {j.path} \cup j.todo}
           [] s \in {"putPath", "putIno"} -> {LastName(p) : p \in j.todo}
           [] OTHER -> {}
    ELSE IF s \in {"stat", "make", "get"} THEN {j.name} ELSE {}

Pending == {q \in Workers \X Names : q[2] \in ToNumber(at[q[1]], job[q[1]])}

\* The bound: the counter does not get past it.
NumbersSuffice == next_ino + Cardinality(Pending) =< MaxIno + 1

\* No number is above the counter.
Below == \A w \in Workers : \A i \in InUse \cup Held(w) : i < next_ino

CounterInv == TypeOK /\ RootStays /\ JobsAre /\ NumbersSuffice /\ Below /\ NumbersAreNew

\* Those are not too many to be counted.
LEMMA PendingIsFinite ==
  /\ IsFiniteSet(Pending) /\ Cardinality(Pending) \in Nat
  /\ \A S \in SUBSET Pending : IsFiniteSet(S) /\ Cardinality(S) \in Nat /\ Cardinality(S) =< Cardinality(Pending)
  <1>1. IsFiniteSet(Workers \X Names)
    BY ThreadsAreFinite, NamesAreFinite, FS_Product
  <1>2. Pending \subseteq Workers \X Names
    BY DEF Pending
  <1>3. IsFiniteSet(Pending)
    BY <1>1, <1>2, FS_Subset
  <1> QED  BY <1>3, FS_Subset, FS_CardinalityType

\* At the start nobody has a number but the root.
LEMMA CounterStarts == Init => CounterInv
  <1> SUFFICES ASSUME Init PROVE CounterInv
    OBVIOUS
  <1>1. Root \in Inos /\ NoIno \notin Inos /\ MaxIno \in Nat /\ MaxIno >= 1
    BY BoundsArePositive DEF Root, Inos, NoIno
  <1>2. <<>> \in Paths /\ "idle" \in Stages /\ NoJob \in Jobs
    BY PathsAreSeqs DEF Stages, Jobs, NoJob, NoIno
  <1>3. TypeOK
    BY <1>1, <1>2 DEF Init, TypeOK, Root
  <1>4. RootStays
    BY <1>1, <1>2 DEF Init, RootStays, Only, NoIno, Root
  <1>5. /\ \A w \in Workers : at[w] = "idle" /\ job[w] = NoJob
        /\ NoJob.op = "none" /\ NoJob.num = NoIno /\ NoJob.lost = NoIno
    BY DEF Init, NoJob
  <1>6. JobsAre /\ NumbersAreNew
    BY <1>5 DEF JobsAre, JobIs, NumbersAreNew, Rekeying
  <1>7. NumbersSuffice
    <2>1. \A w \in Workers : ToNumber(at[w], job[w]) = {}
      BY <1>5 DEF ToNumber
    <2>2. Pending = {}
      BY <2>1 DEF Pending
    <2>3. Cardinality(Pending) = 0
      BY <2>2, FS_EmptySet
    <2> QED  BY <1>1, <2>3 DEF NumbersSuffice, Init, Root
  <1>8. Below
    <2>1. \A i \in InUse : i \in {NoIno, Root}
      BY <1>1, NoPathIsNoPath DEF InUse, Entered, Init
    <2>2. \A w \in Workers : \A i \in Held(w) : i = NoIno
      BY <1>5 DEF Held, HeldIn, Rekeying
    <2>3. NoIno < next_ino /\ Root < next_ino
      BY DEF Init, Root, NoIno
    <2> QED  BY <2>1, <2>2, <2>3 DEF Below
  <1> QED  BY <1>3, <1>4, <1>6, <1>7, <1>8 DEF CounterInv

\* A step that takes no number, if there are numbers for what is still to be done.
LEMMA WorkerSteps ==
  ASSUME CounterInv, NEW w \in Workers, NEW j \in Jobs, NEW s \in Stages \ {"putPath"},
         Keep(w, j), Goto(w, s), UNCHANGED next_ino, MapTypes', KernelTypes', DeviceTypes', RootStays',
         JobIs(s, j), NumbersSuffice',
         InUse' \cup HeldIn(s, j) \subseteq InUse \cup Held(w) \cup {NoIno}
  PROVE  CounterInv'
  <1>1. /\ job' \in [Workers -> Jobs] /\ job'[w] = j
        /\ at' \in [Workers -> Stages] /\ at'[w] = s
    BY JobStep DEF CounterInv
  <1>2. \A v \in Workers \ {w} : job'[v] = job[v] /\ at'[v] = at[v]
    BY DEF CounterInv, TypeOK, Keep, Goto
  <1>3. TypeOK'
    BY <1>1 DEF TypeOK, MapTypes, KernelTypes, DeviceTypes
  <1>4. JobsAre'
    <2>1. \A v \in Workers : JobIs(at'[v], job'[v])
      BY <1>1, <1>2 DEF CounterInv, JobsAre
    <2> QED  BY <2>1 DEF JobsAre
  <1>5. Held(w)' = HeldIn(s, j) /\ \A v \in Workers \ {w} : Held(v)' = Held(v)
    BY <1>1, <1>2 DEF Held
  <1>6. Below'
    <2>1. \A v \in Workers : \A i \in InUse \cup Held(v) \cup {NoIno} : i < next_ino
      BY DEF CounterInv, Below, TypeOK, NoIno
    <2>2. ASSUME NEW v \in Workers, NEW i \in InUse' \cup Held(v)' PROVE i < next_ino'
      <3>1. i \in InUse \cup Held(w) \cup Held(v) \cup {NoIno}
        BY <1>5, <2>2
      <3> QED  BY <2>1, <3>1
    <2> QED  BY <2>2 DEF Below
  <1>7. NumbersAreNew'
    <2> SUFFICES ASSUME NEW v \in Workers, at'[v] = "putPath"
                 PROVE  /\ job'[v].num \notin InUse'
                        /\ \A u \in Workers \ {v} : job'[v].num \notin Held(u)'
      BY DEF NumbersAreNew
    <2>1. v # w /\ at[v] = "putPath" /\ job'[v] = job[v]
      BY <1>1, <1>2
    <2>2. job[v].num # NoIno
      <3>1. JobIs(at[v], job[v])
        BY DEF CounterInv, JobsAre
      <3>2. job[v].num \in Inos
        BY <2>1, <3>1 DEF JobIs
      <3> QED  BY <3>2 DEF Inos, NoIno
    <2>3. /\ job[v].num \notin InUse
          /\ \A u \in Workers \ {v} : job[v].num \notin Held(u)
      BY <2>1 DEF CounterInv, NumbersAreNew
    <2> QED  BY <1>5, <2>1, <2>2, <2>3
  <1> QED  BY <1>3, <1>4, <1>6, <1>7 DEF CounterInv

\* A handler that goes on needs no more numbers than before.
LEMMA WorkerGoesOn ==
  ASSUME CounterInv, NEW w \in Workers, NEW j \in Jobs, NEW s \in Stages \ {"putPath"},
         Keep(w, j), Goto(w, s), UNCHANGED next_ino, MapTypes', KernelTypes', DeviceTypes', RootStays',
         JobIs(s, j), ToNumber(s, j) \subseteq ToNumber(at[w], job[w]),
         InUse' \cup HeldIn(s, j) \subseteq InUse \cup Held(w) \cup {NoIno}
  PROVE  CounterInv'
  <1>1. \A v \in Workers : ToNumber(at'[v], job'[v]) \subseteq ToNumber(at[v], job[v])
    BY DEF CounterInv, TypeOK, Keep, Goto
  <1>2. Pending' \subseteq Pending
    BY <1>1 DEF Pending
  <1>3. Cardinality(Pending') \in Nat /\ Cardinality(Pending') =< Cardinality(Pending)
    BY <1>2, PendingIsFinite
  <1>4. Cardinality(Pending) \in Nat /\ next_ino \in Nat /\ MaxIno \in Nat
    BY PendingIsFinite, BoundsArePositive DEF CounterInv, TypeOK
  <1>5. NumbersSuffice'
    BY <1>3, <1>4 DEF CounterInv, NumbersSuffice
  <1> QED  BY <1>5, WorkerSteps

\* The types that a step leaves alone.
LEMMA TypesStay ==
  ASSUME CounterInv
  PROVE  /\ UNCHANGED maps => MapTypes' /\ RootStays' /\ Entered' = Entered
         /\ UNCHANGED kernel => KernelTypes'
         /\ UNCHANGED tree => DeviceTypes'
         /\ UNCHANGED <<maps, dentry>> => InUse' = InUse
  BY DEF CounterInv, TypeOK, maps, kernel, MapTypes, KernelTypes, DeviceTypes, RootStays, Only, InUse, Entered

\* A handler goes on, with no number from elsewhere.
LEMMA JobGoesOn ==
  ASSUME CounterInv, NEW w \in Workers, NEW j \in Jobs, NEW s \in Stages \ {"putPath"},
         Keep(w, j), Goto(w, s), UNCHANGED maps, UNCHANGED kernel, DeviceTypes',
         JobIs(s, j), ToNumber(s, j) \subseteq ToNumber(at[w], job[w]),
         HeldIn(s, j) \subseteq InUse \cup Held(w) \cup {NoIno}
  PROVE  CounterInv'
  <1>1. MapTypes' /\ RootStays' /\ KernelTypes' /\ InUse' = InUse
    BY TypesStay DEF kernel
  <1>2. UNCHANGED next_ino
    BY DEF maps
  <1>3. InUse' \cup HeldIn(s, j) \subseteq InUse \cup Held(w) \cup {NoIno}
    BY <1>1
  <1> QED  BY <1>1, <1>2, <1>3, WorkerGoesOn

\* A handler ends, and the maps or the kernel may have a number it had.
LEMMA HandlerEnds ==
  ASSUME CounterInv, NEW w \in Workers, Done(w), UNCHANGED next_ino,
         MapTypes', KernelTypes', DeviceTypes', RootStays',
         InUse' \subseteq InUse \cup Held(w) \cup {NoIno}
  PROVE  CounterInv'
  <1>1. NoJob \in Jobs /\ "idle" \in Stages \ {"putPath"}
    BY PathsAreSeqs DEF NoJob, Jobs, NoIno, Stages
  <1>2. NoJob.op = "none" /\ NoJob.num = NoIno /\ NoJob.lost = NoIno
    BY DEF NoJob
  <1>3. JobIs("idle", NoJob)
    BY DEF JobIs, Rekeying
  <1>4. ToNumber("idle", NoJob) = {}
    BY <1>2 DEF ToNumber
  <1>5. HeldIn("idle", NoJob) \subseteq {NoIno}
    BY <1>2 DEF HeldIn, Rekeying
  <1>6. Keep(w, NoJob) /\ Goto(w, "idle")
    BY DEF Done
  <1> QED  BY <1>1, <1>3, <1>4, <1>5, <1>6, WorkerGoesOn

\* A handler that ends without a word to the kernel.
LEMMA HandlerGivesUp ==
  ASSUME CounterInv, NEW w \in Workers, Done(w), UNCHANGED maps, UNCHANGED kernel, DeviceTypes'
  PROVE  CounterInv'
  <1>1. MapTypes' /\ RootStays' /\ KernelTypes' /\ InUse' = InUse
    BY TypesStay DEF kernel
  <1>2. UNCHANGED next_ino
    BY DEF maps
  <1> QED  BY <1>1, <1>2, HandlerEnds

\* The kernel drops dentries, or makes one for a number it is told.
LEMMA DroppedNumbers ==
  ASSUME CounterInv, NEW S, UNCHANGED <<maps, dirs>>, dentry' = Dropped(dentry, S)
  PROVE  KernelTypes' /\ InUse' \subseteq InUse \cup {NoIno}
  <1>1. KernelTypes' /\ \A p \in Paths : dentry'[p] \in {dentry[p], NoIno}
    BY DEF Dropped, CounterInv, TypeOK, KernelTypes
  <1>2. Entered' = Entered
    BY DEF Entered, maps
  <1> QED  BY <1>1, <1>2 DEF InUse

LEMMA InstantiatedNumbers ==
  ASSUME CounterInv, NEW w \in Workers, NEW i \in Inos, NEW d \in BOOLEAN, Instantiate(w, i, d)
  PROVE  KernelTypes' /\ InUse' \subseteq Entered' \cup InUse \cup {NoIno, i}
  <1>1. KernelTypes'
    BY DEF Instantiate, CounterInv, TypeOK, KernelTypes
  <1>2. \A p \in Paths : dentry'[p] \in {dentry[p], NoIno, i}
    BY DEF Instantiate, CounterInv, TypeOK
  <1> QED  BY <1>1, <1>2 DEF InUse

\* The fields of a job that goes on.
LEMMA HandsOf ==
  ASSUME CounterInv, NEW w \in Workers
  PROVE  /\ job[w] \in Jobs /\ JobIs(at[w], job[w])
         /\ job[w].path \in Paths /\ job[w].num \in Inos \cup {NoIno} /\ job[w].lost \in Inos \cup {NoIno}
         /\ job[w].num \in Held(w) /\ job[w].lost \in Held(w)
  <1>1. job[w] \in Jobs /\ JobIs(at[w], job[w])
    BY DEF CounterInv, TypeOK, JobsAre
  <1>2. job[w].num \in Held(w) /\ job[w].lost \in Held(w)
    BY DEF Held, HeldIn
  <1> QED  BY <1>1, <1>2 DEF Jobs

\* lookup: get_metadata.
LEMMA StatCounts ==
  ASSUME CounterInv, NEW w \in Workers, Stat(w)
  PROVE  CounterInv'
  <1>1. at[w] = "stat" /\ UNCHANGED maps /\ UNCHANGED tree /\ DeviceTypes' /\ DeviceTypes
    BY TypesStay DEF Stat, CounterInv, TypeOK, DeviceTypes
  <1>2. CASE Done(w) /\ dentry' = Dropped(dentry, KernelPlaces(job[w].parent, job[w].name)) /\ UNCHANGED dirs
    <2>1. KernelTypes' /\ InUse' \subseteq InUse \cup {NoIno}
      BY <1>1, <1>2, DroppedNumbers
    <2>2. MapTypes' /\ RootStays' /\ UNCHANGED next_ino
      BY <1>1, TypesStay DEF maps
    <2> QED  BY <1>1, <1>2, <2>1, <2>2, HandlerEnds
  <1> DEFINE j == [job[w] EXCEPT !.kind = tree[job[w].path]]
  <1>3. CASE Keep(w, j) /\ Goto(w, "get") /\ UNCHANGED kernel
    <2>1. job[w] \in Jobs /\ JobIs("stat", job[w]) /\ job[w].path \in Paths
      BY <1>1, HandsOf
    <2>2. tree[job[w].path] \in {"none", "file", "dir"}
      BY <1>1, <2>1 DEF DeviceTypes
    <2>3. /\ j \in Jobs /\ j.op = job[w].op /\ j.path = job[w].path /\ j.name = job[w].name
          /\ j.num = job[w].num /\ j.lost = job[w].lost /\ j.todo = job[w].todo
      BY <2>1, <2>2 DEF Jobs
    <2> HIDE DEF j
    <2>4. j.op # "opendir" /\ JobIs("get", j)
      BY <2>1, <2>3 DEF JobIs, Rekeying
    <2>5. ToNumber("get", j) \subseteq ToNumber(at[w], job[w])
      BY <1>1, <2>3, <2>4 DEF ToNumber
    <2>6. HeldIn("get", j) \subseteq Held(w)
      BY <2>3 DEF Held, HeldIn, Rekeying
    <2>7. "get" \in Stages \ {"putPath"}
      BY DEF Stages
    <2> QED  BY <1>1, <1>3, <2>3, <2>4, <2>5, <2>6, <2>7, JobGoesOn
  <1> QED  BY <1>2, <1>3 DEF Stat

\* opendir: list_dir.
LEMMA ListCounts ==
  ASSUME CounterInv, NEW w \in Workers, List(w)
  PROVE  CounterInv'
  <1> DEFINE d == job[w].path
             S == {m \in Names : tree[Child(d, m)] # "none"}
             found == {Child(d, n) : n \in S}
  <1>1. at[w] = "list" /\ UNCHANGED maps /\ UNCHANGED kernel /\ UNCHANGED tree /\ DeviceTypes'
    BY TypesStay DEF List, CounterInv, TypeOK, DeviceTypes
  <1>2. job[w] \in Jobs /\ d \in Paths /\ Len(d) < Depth /\ job[w].op = "opendir"
    BY <1>1, HandsOf DEF JobIs
  <1>3. CASE Done(w)
    BY <1>1, <1>3, HandlerGivesUp
  <1>4. ASSUME NEW p \in found,
               Keep(w, [job[w] EXCEPT !.path = p, !.todo = found \ {p}]), Goto(w, "get")
        PROVE  CounterInv'
    <2> DEFINE j == [job[w] EXCEPT !.path = p, !.todo = found \ {p}]
    <2>1. \A q \in found : q \in Paths \ {<<>>} /\ \E n \in Names : q = Child(d, n)
      BY <1>2, ChildIsPath
    <2> HIDE DEF found
    <2>2. p \in Paths /\ found \ {p} \in SUBSET Paths
      BY <2>1
    <2>3. /\ j \in Jobs /\ j.op = "opendir" /\ j.path = p /\ j.todo = found \ {p}
          /\ j.num = job[w].num /\ j.lost = job[w].lost
      BY <1>2, <2>2 DEF Jobs
    <2>4. Keep(w, j)
      BY <1>4
    <2> HIDE DEF j
    <2>5. Siblings({j.path} \cup j.todo) /\ j.path \notin j.todo
      BY <1>2, <2>1, <2>3 DEF Siblings
    <2>6. JobIs("get", j)
      BY <2>3, <2>5 DEF JobIs, Rekeying
    <2>7. ToNumber("get", j) \subseteq ToNumber(at[w], job[w])
      <3>1. \A q \in {j.path} \cup j.todo : LastName(q) \in Names
        <4>1. \A n \in Names : LastName(Child(d, n)) \in Names
          <5>1. d \in Seq(Names) /\ Len(d) \in Nat
            BY <1>2, PathsAreSeqs
          <5> HIDE DEF d
          <5> QED  BY <5>1 DEF LastName, Child
        <4> QED  BY <2>1, <2>3, <4>1
      <3>2. ToNumber("get", j) = {LastName(q) : q \in {j.path} \cup j.todo}
        BY <2>3 DEF ToNumber
      <3>3. ToNumber(at[w], job[w]) = Names
        BY <1>1, <1>2 DEF ToNumber
      <3> QED  BY <3>1, <3>2, <3>3
    <2>8. HeldIn("get", j) \subseteq Held(w)
      BY <2>3 DEF Held, HeldIn, Rekeying
    <2>9. "get" \in Stages \ {"putPath"}
      BY DEF Stages
    <2> QED  BY <1>1, <1>4, <2>3, <2>4, <2>6, <2>7, <2>8, <2>9, JobGoesOn
  <1> QED  BY <1>1, <1>3, <1>4 DEF List

\* mkdir and mknod.
LEMMA MakeCounts ==
  ASSUME CounterInv, NEW w \in Workers, MakeOnDevice(w)
  PROVE  CounterInv'
  <1>1. at[w] = "make" /\ UNCHANGED maps /\ UNCHANGED kernel
    BY DEF MakeOnDevice
  <1>2. job[w] \in Jobs /\ JobIs("make", job[w]) /\ job[w].path \in Paths
    BY <1>1, HandsOf
  <1>3. DeviceTypes'
    <2>1. job[w].kind \in {"none", "file", "dir"} /\ DeviceTypes
      BY <1>2 DEF Jobs, CounterInv, TypeOK, DeviceTypes
    <2> QED  BY <2>1 DEF MakeOnDevice, DeviceTypes
  <1>4. CASE Done(w)
    BY <1>1, <1>3, <1>4, HandlerGivesUp
  <1>5. CASE Goto(w, "get") /\ UNCHANGED job
    <2>1. Keep(w, job[w]) /\ "get" \in Stages \ {"putPath"}
      BY <1>5 DEF Keep, CounterInv, TypeOK, Stages
    <2>2. job[w].op # "opendir" /\ JobIs("get", job[w])
      BY <1>2 DEF JobIs, Rekeying
    <2>3. ToNumber("get", job[w]) \subseteq ToNumber(at[w], job[w])
      BY <1>1, <2>2 DEF ToNumber
    <2>4. HeldIn("get", job[w]) \subseteq Held(w)
      BY DEF Held, HeldIn, Rekeying
    <2> QED  BY <1>1, <1>2, <1>3, <1>5, <2>1, <2>2, <2>3, <2>4, JobGoesOn
  <1> QED  BY <1>4, <1>5 DEF MakeOnDevice

\* create: the push.
LEMMA PushCounts ==
  ASSUME CounterInv, NEW w \in Workers, PushOnDevice(w)
  PROVE  CounterInv'
  <1>1. at[w] = "push" /\ UNCHANGED maps /\ Done(w)
    BY DEF PushOnDevice
  <1>2. job[w].num \in Inos /\ job[w].num \in Held(w)
    BY <1>1, HandsOf DEF JobIs
  <1>3. DeviceTypes'
    BY DEF PushOnDevice, CounterInv, TypeOK, DeviceTypes
  <1>4. MapTypes' /\ RootStays' /\ Entered' = Entered /\ UNCHANGED next_ino
    BY <1>1, TypesStay DEF maps
  <1>5. CASE Instantiate(w, job[w].num, FALSE)
    <2>1. KernelTypes' /\ InUse' \subseteq Entered' \cup InUse \cup {NoIno, job[w].num}
      BY <1>2, <1>5, InstantiatedNumbers
    <2>2. InUse' \subseteq InUse \cup Held(w) \cup {NoIno}
      BY <1>2, <1>4, <2>1 DEF InUse
    <2> QED  BY <1>1, <1>3, <1>4, <2>1, <2>2, HandlerEnds
  <1>6. CASE UNCHANGED kernel
    BY <1>1, <1>3, <1>6, HandlerGivesUp
  <1> QED  BY <1>5, <1>6 DEF PushOnDevice

\* unlink and rmdir: rm.
LEMMA RemoveCounts ==
  ASSUME CounterInv, NEW w \in Workers, RemoveOnDevice(w)
  PROVE  CounterInv'
  <1>1. Done(w) /\ UNCHANGED maps /\ UNCHANGED dirs
    BY DEF RemoveOnDevice
  <1>2. DeviceTypes'
    BY DEF RemoveOnDevice, CounterInv, TypeOK, DeviceTypes
  <1>3. CASE dentry' = Dropped(dentry, KernelPlaces(job[w].parent, job[w].name))
    <2>1. KernelTypes' /\ InUse' \subseteq InUse \cup {NoIno}
      BY <1>1, <1>3, DroppedNumbers
    <2>2. MapTypes' /\ RootStays' /\ UNCHANGED next_ino
      BY <1>1, TypesStay DEF maps
    <2> QED  BY <1>1, <1>2, <2>1, <2>2, HandlerEnds
  <1>4. CASE UNCHANGED dentry
    BY <1>1, <1>2, <1>4, HandlerGivesUp DEF kernel
  <1> QED  BY <1>3, <1>4 DEF RemoveOnDevice

\* rename: the new parent's path, and mv.
LEMMA TargetCounts ==
  ASSUME CounterInv, NEW w \in Workers, Target(w)
  PROVE  CounterInv'
  <1> DEFINE d == ino_to_path[job[w].destParent]
             q == Child(d, job[w].destName)
             j == [job[w] EXCEPT !.dest = q]
  <1>1. at[w] = "target" /\ UNCHANGED maps /\ UNCHANGED kernel /\ UNCHANGED tree /\ DeviceTypes'
    BY TypesStay DEF Target, CounterInv, TypeOK, DeviceTypes
  <1>2. job[w] \in Jobs /\ JobIs("target", job[w])
    BY <1>1, HandsOf
  <1>3. job[w].destParent \in Inos /\ job[w].destName \in Names
    BY <1>2 DEF JobIs
  <1>4. CASE Done(w)
    BY <1>1, <1>4, HandlerGivesUp
  <1>5. CASE Keep(w, j) /\ Goto(w, "mv") /\ d # NoPath /\ ~(Len(d) >= Depth)
    <2>1. d \in Paths
      BY <1>3, <1>5 DEF CounterInv, TypeOK
    <2>2. Len(d) < Depth
      BY <1>5, <2>1, PathsAreSeqs
    <2>3. q \in Paths \ {<<>>}
      BY <1>3, <2>1, <2>2, ChildIsPath
    <2> HIDE DEF q
    <2>4. /\ j \in Jobs /\ j.op = job[w].op /\ j.path = job[w].path /\ j.name = job[w].name
          /\ j.dest = q /\ j.num = job[w].num /\ j.lost = job[w].lost
      BY <1>2, <2>3 DEF Jobs
    <2>5. Keep(w, j) /\ "mv" \in Stages \ {"putPath"}
      BY <1>5 DEF Stages
    <2> HIDE DEF j
    <2>6. JobIs("mv", j) /\ j.op # "opendir"
      BY <1>2, <2>3, <2>4 DEF JobIs, Rekeying
    <2>7. ToNumber("mv", j) = {} /\ HeldIn("mv", j) \subseteq Held(w)
      BY <2>4, <2>6 DEF ToNumber, Held, HeldIn, Rekeying
    <2> QED  BY <1>1, <1>5, <2>4, <2>5, <2>6, <2>7, JobGoesOn
  <1> QED  BY <1>4, <1>5 DEF Target

LEMMA MoveCounts ==
  ASSUME CounterInv, NEW w \in Workers, MoveOnDevice(w)
  PROVE  CounterInv'
  <1>1. at[w] = "mv" /\ UNCHANGED maps /\ UNCHANGED kernel
    BY DEF MoveOnDevice
  <1>2. job[w] \in Jobs /\ JobIs("mv", job[w])
    BY <1>1, HandsOf
  <1>3. DeviceTypes'
    <2>1. UNCHANGED tree \/ tree' = Moved(tree, job[w].path, job[w].dest, "none")
      BY DEF MoveOnDevice
    <2> QED  BY <2>1 DEF CounterInv, TypeOK, DeviceTypes, Moved
  <1>4. CASE Done(w)
    BY <1>1, <1>3, <1>4, HandlerGivesUp
  <1>5. CASE Goto(w, "collect") /\ UNCHANGED job
    <2>1. Keep(w, job[w]) /\ "collect" \in Stages \ {"putPath"}
      BY <1>5 DEF Keep, CounterInv, TypeOK, Stages
    <2>2. JobIs("collect", job[w]) /\ job[w].op # "opendir"
      BY <1>2 DEF JobIs, Rekeying
    <2>3. ToNumber("collect", job[w]) = {} /\ HeldIn("collect", job[w]) \subseteq Held(w)
      BY <2>2 DEF ToNumber, Held, HeldIn, Rekeying
    <2> QED  BY <1>1, <1>2, <1>3, <1>5, <2>1, <2>2, <2>3, JobGoesOn
  <1> QED  BY <1>4, <1>5 DEF MoveOnDevice

\* get_or_assign_ino: the handler has a number that is in the maps, or its own.
LEMMA NumberedCounts ==
  ASSUME CounterInv, NEW w \in Workers, at[w] \in {"get", "putIno"},
         NEW i \in Inos, i \in InUse \cup Held(w), Numbered(w, i),
         UNCHANGED <<next_ino, tree>>, MapTypes', RootStays',
         Entered' \subseteq InUse \cup Held(w) \cup {NoIno}
  PROVE  CounterInv'
  <1>1. job[w] \in Jobs /\ JobIs(at[w], job[w]) /\ job[w].path \in Paths
    BY HandsOf
  <1>2. DeviceTypes'
    BY DEF CounterInv, TypeOK, DeviceTypes
  <1>3. UNCHANGED kernel => KernelTypes' /\ InUse' \subseteq InUse \cup Held(w) \cup {NoIno}
    BY DEF CounterInv, TypeOK, kernel, KernelTypes, InUse
  <1>4. CASE job[w].op = "create"
    <2> DEFINE j == [job[w] EXCEPT !.num = i]
    <2>1. Keep(w, j) /\ Goto(w, "push") /\ UNCHANGED kernel
      BY <1>4 DEF Numbered
    <2>2. /\ j \in Jobs /\ j.op = "create" /\ j.path = job[w].path /\ j.name = job[w].name
          /\ j.num = i /\ j.lost = job[w].lost
      BY <1>1, <1>4 DEF Jobs
    <2> HIDE DEF j
    <2>3. JobIs("push", j)
      BY <1>1, <1>4, <2>2 DEF JobIs, Rekeying
    <2>4. ToNumber("push", j) = {} /\ HeldIn("push", j) \subseteq InUse \cup Held(w)
      BY <2>2 DEF ToNumber, Held, HeldIn, Rekeying
    <2>5. "push" \in Stages \ {"putPath"}
      BY DEF Stages
    <2>6. InUse' \cup HeldIn("push", j) \subseteq InUse \cup Held(w) \cup {NoIno}
      BY <1>3, <2>1, <2>4
    <2> QED  BY <1>2, <1>3, <2>1, <2>2, <2>3, <2>4, <2>5, <2>6, WorkerGoesOn
  <1>5. CASE job[w].op = "opendir" /\ job[w].todo # {}
    <2>1. PICK p \in job[w].todo : Keep(w, [job[w] EXCEPT !.path = p, !.todo = @ \ {p}])
      BY <1>5 DEF Numbered
    <2>2. Goto(w, "get") /\ UNCHANGED kernel
      BY <1>5 DEF Numbered
    <2> DEFINE j == [job[w] EXCEPT !.path = p, !.todo = job[w].todo \ {p}]
    <2>3. Siblings({job[w].path} \cup job[w].todo)
      BY <1>1, <1>5 DEF JobIs
    <2>4. PICK d \in Paths : Len(d) < Depth /\ \A q \in {job[w].path} \cup job[w].todo : \E n \in Names : q = Child(d, n)
      BY <2>3 DEF Siblings
    <2>5. p \in Paths
      BY <2>4, ChildIsPath
    <2>6. /\ j \in Jobs /\ j.op = "opendir" /\ j.path = p /\ j.todo = job[w].todo \ {p}
          /\ j.num = job[w].num /\ j.lost = job[w].lost
      BY <1>1, <1>5, <2>5 DEF Jobs
    <2>7. Keep(w, j)
      BY <1>1, <2>1 DEF Jobs
    <2> HIDE DEF j
    <2>8. Siblings({j.path} \cup j.todo) /\ j.path \notin j.todo /\ {j.path} \cup j.todo = job[w].todo
      BY <2>1, <2>4, <2>6 DEF Siblings
    <2>9. JobIs("get", j)
      BY <2>6, <2>8 DEF JobIs, Rekeying
    <2>10. ToNumber("get", j) \subseteq ToNumber(at[w], job[w])
      <3>1. ToNumber("get", j) = {LastName(q) : q \in job[w].todo}
        BY <2>6, <2>8 DEF ToNumber
      <3>2. CASE at[w] = "get"
        BY <1>5, <3>1, <3>2 DEF ToNumber
      <3>3. CASE at[w] = "putIno"
        BY <1>5, <3>1, <3>3 DEF ToNumber
      <3> QED  BY <3>2, <3>3
    <2>11. HeldIn("get", j) \subseteq Held(w)
      BY <2>6 DEF Held, HeldIn, Rekeying
    <2>12. "get" \in Stages \ {"putPath"}
      BY DEF Stages
    <2>13. InUse' \cup HeldIn("get", j) \subseteq InUse \cup Held(w) \cup {NoIno}
      BY <1>3, <2>2, <2>11
    <2> QED  BY <1>2, <1>3, <2>2, <2>6, <2>7, <2>9, <2>10, <2>12, <2>13, WorkerGoesOn
  <1>6. CASE job[w].op = "opendir" /\ job[w].todo = {}
    <2>1. Done(w) /\ UNCHANGED kernel
      BY <1>6 DEF Numbered
    <2> QED  BY <1>2, <1>3, <2>1, HandlerEnds
  <1>7. CASE job[w].op \notin {"create", "opendir"}
    <2>1. Instantiate(w, i, job[w].kind = "dir") /\ Done(w)
      BY <1>7 DEF Numbered
    <2>2. KernelTypes' /\ InUse' \subseteq Entered' \cup InUse \cup {NoIno, i}
      BY <2>1, InstantiatedNumbers
    <2>3. InUse' \subseteq InUse \cup Held(w) \cup {NoIno}
      BY <2>2
    <2> QED  BY <1>2, <2>1, <2>2, <2>3, HandlerEnds
  <1> QED  BY <1>4, <1>5, <1>6, <1>7

LEMMA FoundCounts ==
  ASSUME CounterInv, NEW w \in Workers, Found(w)
  PROVE  CounterInv'
  <1> DEFINE i == path_to_ino[job[w].path]
  <1>1. /\ at[w] = "get" /\ i # NoIno /\ Numbered(w, i) /\ UNCHANGED maps /\ UNCHANGED tree
    BY DEF Found
  <1>2. job[w].path \in Paths
    BY HandsOf
  <1>3. i \in Inos /\ i \in InUse
    BY <1>1, <1>2 DEF CounterInv, TypeOK, InUse, Entered
  <1>4. MapTypes' /\ RootStays' /\ Entered' = Entered /\ UNCHANGED next_ino
    BY <1>1, TypesStay DEF maps
  <1>5. Entered' \subseteq InUse
    BY <1>4 DEF InUse
  <1> HIDE DEF i
  <1> QED  BY <1>1, <1>3, <1>4, <1>5, NumberedCounts

\* The name a number is taken for is one that needs no other.
LEMMA NameIsServed ==
  ASSUME CounterInv, NEW w \in Workers, at[w] = "get",
         NEW j \in Jobs, j.op = job[w].op, j.todo = job[w].todo
  PROVE  \E n \in Names : /\ n \in ToNumber("get", job[w])
                          /\ ToNumber("putPath", j) \subseteq ToNumber("get", job[w]) \ {n}
  <1>1. job[w] \in Jobs /\ JobIs("get", job[w])
    BY HandsOf
  <1>2. CASE job[w].op # "opendir"
    <2>1. job[w].name \in Names
      BY <1>1, <1>2 DEF JobIs
    <2>2. ToNumber("get", job[w]) = {job[w].name} /\ ToNumber("putPath", j) = {}
      BY <1>2 DEF ToNumber
    <2> QED  BY <2>1, <2>2
  <1>3. CASE job[w].op = "opendir"
    <2> DEFINE p == job[w].path
               S == job[w].todo
    <2>1. Siblings({p} \cup S) /\ p \notin S
      BY <1>1, <1>3 DEF JobIs
    <2>2. /\ ToNumber("get", job[w]) = {LastName(q) : q \in {p} \cup S}
          /\ ToNumber("putPath", j) = {LastName(q) : q \in S}
      BY <1>3 DEF ToNumber
    <2> HIDE DEF p, S
    <2>3. PICK d \in Paths : Len(d) < Depth /\ \A q \in {p} \cup S : \E n \in Names : q = Child(d, n)
      BY <2>1 DEF Siblings
    <2>4. d \in Seq(Names) /\ Len(d) \in Nat
      BY PathsAreSeqs
    <2>5. \A n \in Names : LastName(Child(d, n)) = n
      BY <2>4 DEF LastName, Child
    <2>6. \A q \in {p} \cup S : LastName(q) \in Names /\ q = Child(d, LastName(q))
      BY <2>3, <2>5
    <2>7. \A q \in S : LastName(q) # LastName(p)
      BY <2>1, <2>6
    <2> QED  BY <2>2, <2>6, <2>7
  <1> QED  BY <1>2, <1>3

\* next_ino.fetch_add: the number is above all that are in use, and the counter goes on.
LEMMA TakeCounts ==
  ASSUME CounterInv, NEW w \in Workers, Take(w)
  PROVE  CounterInv'
  <1> DEFINE j == [job[w] EXCEPT !.num = next_ino]
  <1>1. /\ at[w] = "get" /\ Keep(w, j) /\ Goto(w, "putPath") /\ next_ino' = next_ino + 1
        /\ UNCHANGED <<path_to_ino, ino_to_path, tree, dentry, dirs>>
    BY DEF Take, kernel
  <1>2. job[w] \in Jobs /\ JobIs("get", job[w])
    BY <1>1, HandsOf
  <1>3. next_ino \in Nat /\ next_ino >= 2 /\ MaxIno \in Nat
    BY BoundsArePositive DEF CounterInv, TypeOK
  <1>4. PICK n \in Names : n \in ToNumber("get", job[w])
    <2>1. job[w].op = job[w].op /\ job[w].todo = job[w].todo
      OBVIOUS
    <2> QED  BY <1>1, <1>2, <2>1, NameIsServed
  <1>5. <<w, n>> \in Pending
    BY <1>1, <1>4 DEF Pending
  <1>6. /\ Cardinality(Pending \ {<<w, n>>}) \in Nat
        /\ Cardinality(Pending \ {<<w, n>>}) = Cardinality(Pending) - 1
    <2>1. IsFiniteSet(Pending) /\ Pending \ {<<w, n>>} \subseteq Pending
      BY PendingIsFinite
    <2> QED  BY <1>5, <2>1, PendingIsFinite, FS_RemoveElement
  <1>7. next_ino =< MaxIno
    <2>1. Cardinality(Pending) \in Nat
      BY PendingIsFinite
    <2>2. next_ino + Cardinality(Pending) =< MaxIno + 1
      BY DEF CounterInv, NumbersSuffice
    <2> QED  BY <1>3, <1>6, <2>1, <2>2
  <1>8. next_ino \in Inos \ {Root}
    BY <1>3, <1>7 DEF Inos, Root
  <1>9. /\ j \in Jobs /\ j.op = job[w].op /\ j.path = job[w].path /\ j.name = job[w].name
        /\ j.num = next_ino /\ j.lost = job[w].lost /\ j.todo = job[w].todo
    BY <1>2, <1>8 DEF Jobs
  <1> HIDE DEF j
  <1>10. /\ job' \in [Workers -> Jobs] /\ job'[w] = j
         /\ at' \in [Workers -> Stages] /\ at'[w] = "putPath"
         /\ \A v \in Workers \ {w} : job'[v] = job[v] /\ at'[v] = at[v]
    <2>1. "putPath" \in Stages /\ TypeOK
      BY DEF Stages, CounterInv
    <2>2. \A v \in Workers \ {w} : job'[v] = job[v] /\ at'[v] = at[v]
      BY <1>1, <2>1 DEF TypeOK, Keep, Goto
    <2> QED  BY <1>1, <1>9, <2>1, <2>2, JobStep
  <1>11. TypeOK'
    <2>1. next_ino' \in 2..(MaxIno + 1)
      BY <1>1, <1>3, <1>7
    <2> QED  BY <1>1, <1>10, <2>1 DEF CounterInv, TypeOK
  <1>12. RootStays'
    BY <1>1 DEF CounterInv, RootStays, Only
  <1>13. JobsAre'
    <2>1. JobIs("putPath", j)
      BY <1>2, <1>8, <1>9 DEF JobIs, Rekeying
    <2>2. \A v \in Workers : JobIs(at'[v], job'[v])
      BY <1>10, <2>1 DEF CounterInv, JobsAre
    <2> QED  BY <2>2 DEF JobsAre
  <1>14. /\ InUse' = InUse /\ Held(w)' \subseteq Held(w) \cup {next_ino}
         /\ next_ino \in Held(w)' /\ \A v \in Workers \ {w} : Held(v)' = Held(v)
    <2>1. InUse' = InUse
      BY <1>1 DEF InUse, Entered
    <2>2. HeldIn("putPath", j) \subseteq Held(w) \cup {next_ino} /\ next_ino \in HeldIn("putPath", j)
      BY <1>9 DEF Held, HeldIn, Rekeying
    <2> QED  BY <1>10, <2>1, <2>2 DEF Held
  <1>15. \A v \in Workers : \A i \in InUse \cup Held(v) : i < next_ino /\ i \in Int
    <2>1. \A v \in Workers : \A i \in InUse \cup Held(v) : i \in Inos \cup {NoIno}
      <3>1. InUse \subseteq Inos \cup {NoIno}
        BY DEF InUse, Entered, CounterInv, TypeOK
      <3>2. ASSUME NEW v \in Workers, NEW i \in Held(v) PROVE i \in Inos \cup {NoIno}
        <4>1. job[v].num \in Inos \cup {NoIno} /\ job[v].lost \in Inos \cup {NoIno} /\ JobIs(at[v], job[v])
          BY HandsOf
        <4>2. at[v] \in Rekeying => \A m \in job[v].todo : m[2] \in Inos
          BY <4>1 DEF JobIs
        <4> QED  BY <3>2, <4>1, <4>2 DEF Held, HeldIn
      <3> QED  BY <3>1, <3>2
    <2> QED  BY <2>1 DEF CounterInv, Below, Inos, NoIno
  <1>16. Below'
    <2>1. \A v \in Workers : \A i \in InUse' \cup Held(v)' : i < next_ino'
      BY <1>1, <1>3, <1>14, <1>15
    <2> QED  BY <2>1 DEF Below
  <1>17. NumbersAreNew'
    <2>1. /\ next_ino \notin InUse' /\ job'[w].num = next_ino
          /\ \A v \in Workers \ {w} : next_ino \notin Held(v)'
      BY <1>3, <1>9, <1>10, <1>14, <1>15
    <2>2. ASSUME NEW v \in Workers \ {w}, at'[v] = "putPath"
          PROVE  /\ job'[v].num \notin InUse'
                 /\ \A u \in Workers \ {v} : job'[v].num \notin Held(u)'
      <3>1. at[v] = "putPath" /\ job'[v] = job[v]
        BY <1>10, <2>2
      <3>2. job[v].num \notin InUse /\ \A u \in Workers \ {v} : job[v].num \notin Held(u)
        BY <3>1 DEF CounterInv, NumbersAreNew
      <3>3. job[v].num # next_ino
        <4>1. job[v].num \in Held(v)
          BY HandsOf
        <4> QED  BY <1>3, <1>15, <4>1
      <3> QED  BY <1>14, <3>1, <3>2, <3>3
    <2> QED  BY <2>1, <2>2 DEF NumbersAreNew
  <1>18. NumbersSuffice'
    <2>1. PICK m \in Names : /\ m \in ToNumber("get", job[w])
                             /\ ToNumber("putPath", j) \subseteq ToNumber("get", job[w]) \ {m}
      BY <1>1, <1>9, NameIsServed
    <2>2. <<w, m>> \in Pending /\ Pending' \subseteq Pending \ {<<w, m>>}
      BY <1>1, <1>10, <2>1 DEF Pending
    <2>3. Cardinality(Pending') \in Nat /\ Cardinality(Pending') =< Cardinality(Pending) - 1
      <3>1. /\ IsFiniteSet(Pending \ {<<w, m>>})
            /\ Cardinality(Pending \ {<<w, m>>}) = Cardinality(Pending) - 1
        BY <2>2, PendingIsFinite, FS_RemoveElement
      <3>2. IsFiniteSet(Pending') /\ Cardinality(Pending') =< Cardinality(Pending \ {<<w, m>>})
        BY <2>2, <3>1, FS_Subset
      <3>3. Cardinality(Pending') \in Nat
        BY <3>2, FS_CardinalityType
      <3> QED  BY <3>1, <3>2, <3>3
    <2>4. Cardinality(Pending) \in Nat
      BY PendingIsFinite
    <2>5. next_ino' + Cardinality(Pending') =< MaxIno + 1
      BY <1>1, <1>3, <2>3, <2>4 DEF CounterInv, NumbersSuffice
    <2> QED  BY <2>5 DEF NumbersSuffice
  <1> QED  BY <1>11, <1>12, <1>13, <1>16, <1>17, <1>18 DEF CounterInv

\* path_to_ino.insert and ino_to_path.insert.
LEMMA PutPathCounts ==
  ASSUME CounterInv, NEW w \in Workers, PutPath(w)
  PROVE  CounterInv'
  <1>1. /\ at[w] = "putPath" /\ path_to_ino' = [path_to_ino EXCEPT ![job[w].path] = job[w].num]
        /\ Goto(w, "putIno") /\ UNCHANGED <<ino_to_path, next_ino, job, tree, dentry, dirs>>
    BY DEF PutPath, kernel
  <1>2. job[w] \in Jobs /\ JobIs("putPath", job[w]) /\ job[w].path \in Paths /\ job[w].num \in Held(w)
    BY <1>1, HandsOf
  <1>3. job[w].num \in Inos \ {Root} /\ job[w].path # <<>>
    <2>1. CASE job[w].op # "opendir"
      BY <1>2, <2>1 DEF JobIs
    <2>2. CASE job[w].op = "opendir"
      <3>1. Siblings({job[w].path} \cup job[w].todo)
        BY <1>2, <2>2 DEF JobIs
      <3>2. job[w].path # <<>>
        BY <3>1, ChildIsPath DEF Siblings
      <3> QED  BY <1>2, <3>2 DEF JobIs
    <2> QED  BY <2>1, <2>2
  <1>4. MapTypes' /\ KernelTypes' /\ DeviceTypes'
    BY <1>1, <1>3 DEF CounterInv, TypeOK, MapTypes, KernelTypes, DeviceTypes
  <1>5. RootStays'
    BY <1>1, <1>2, <1>3, PathsAreSeqs DEF CounterInv, TypeOK, RootStays, Only
  <1>6. InUse' \subseteq InUse \cup {job[w].num}
    BY <1>1, <1>2 DEF InUse, Entered, CounterInv, TypeOK
  <1>7. Keep(w, job[w]) /\ "putIno" \in Stages \ {"putPath"}
    BY <1>1 DEF Keep, CounterInv, TypeOK, Stages
  <1>8. JobIs("putIno", job[w])
    BY <1>2 DEF JobIs, Rekeying
  <1>9. ToNumber("putIno", job[w]) \subseteq ToNumber(at[w], job[w])
    BY <1>1 DEF ToNumber
  <1>10. HeldIn("putIno", job[w]) \subseteq Held(w)
    BY DEF Held, HeldIn, Rekeying
  <1>11. InUse' \cup HeldIn("putIno", job[w]) \subseteq InUse \cup Held(w) \cup {NoIno}
    BY <1>2, <1>6, <1>10
  <1>12. UNCHANGED next_ino /\ Goto(w, "putIno")
    BY <1>1
  <1> QED  BY <1>2, <1>4, <1>5, <1>7, <1>8, <1>9, <1>11, <1>12, WorkerGoesOn

LEMMA PutInoCounts ==
  ASSUME CounterInv, NEW w \in Workers, PutIno(w)
  PROVE  CounterInv'
  <1>1. /\ at[w] = "putIno" /\ ino_to_path' = [ino_to_path EXCEPT ![job[w].num] = job[w].path]
        /\ Numbered(w, job[w].num) /\ UNCHANGED <<path_to_ino, next_ino, tree>>
    BY DEF PutIno
  <1>2. job[w] \in Jobs /\ JobIs("putIno", job[w]) /\ job[w].path \in Paths /\ job[w].num \in Held(w)
    BY <1>1, HandsOf
  <1>3. job[w].num \in Inos \ {Root}
    BY <1>2 DEF JobIs
  <1>4. MapTypes'
    BY <1>1, <1>2, <1>3 DEF CounterInv, TypeOK, MapTypes
  <1>5. RootStays'
    <2>1. Root \in Inos
      BY BoundsArePositive DEF Root, Inos
    <2> QED  BY <1>1, <1>3, <2>1 DEF CounterInv, TypeOK, RootStays, Only
  <1>6. Entered' \subseteq InUse \cup Held(w) \cup {NoIno}
    BY <1>1, <1>2 DEF InUse, Entered, CounterInv, TypeOK
  <1> QED  BY <1>1, <1>2, <1>3, <1>4, <1>5, <1>6, NumberedCounts

\* rekey_paths: the entries below the old path, none of which is the root's.
LEMMA CollectCounts ==
  ASSUME CounterInv, NEW w \in Workers, Collect(w)
  PROVE  CounterInv'
  <1> DEFINE S == {<<p, path_to_ino[p]>> : p \in Affected(w)}
             j == [job[w] EXCEPT !.todo = S]
  <1>1. at[w] = "collect" /\ UNCHANGED maps /\ UNCHANGED kernel /\ DeviceTypes' /\ Keep(w, j) /\ Goto(w, "next")
    BY TypesStay DEF Collect, CounterInv, TypeOK, DeviceTypes
  <1>2. job[w] \in Jobs /\ JobIs("collect", job[w]) /\ job[w].path \in Paths
    BY <1>1, HandsOf
  <1>3. job[w].op # "opendir" /\ job[w].path # <<>>
    BY <1>2 DEF JobIs
  <1>4. ASSUME NEW p \in Affected(w)
        PROVE  /\ p \in Paths /\ path_to_ino[p] \in Inos \ {Root} /\ Under(p, job[w].path)
               /\ MovedPath(p, job[w].path, job[w].dest) \in Paths
    <2>1. /\ p \in Paths /\ path_to_ino[p] # NoIno /\ Under(p, job[w].path)
          /\ MovedPath(p, job[w].path, job[w].dest) \in Paths
      BY DEF Affected, NewPath, MovedPath
    <2>2. p # <<>>
      BY <1>2, <1>3, <2>1, NotAboveRoot
    <2>3. path_to_ino[p] # Root
      BY <2>1, <2>2 DEF CounterInv, RootStays, Only
    <2> QED  BY <2>1, <2>3 DEF CounterInv, TypeOK
  <1>5. S \in SUBSET (Paths \X Inos) /\ \A m \in S : m[2] \in InUse
    BY <1>4 DEF InUse, Entered
  <1>6. \A m \in S : /\ m \in Paths \X (Inos \ {Root}) /\ Under(m[1], job[w].path)
                     /\ MovedPath(m[1], job[w].path, job[w].dest) \in Paths
    BY <1>4
  <1> HIDE DEF S
  <1>7. /\ j \in Jobs /\ j.op = job[w].op /\ j.path = job[w].path /\ j.name = job[w].name
        /\ j.dest = job[w].dest /\ j.num = job[w].num /\ j.lost = job[w].lost /\ j.todo = S
    BY <1>2, <1>5 DEF Jobs
  <1> HIDE DEF j
  <1>8. JobIs("next", j)
    BY <1>2, <1>6, <1>7 DEF JobIs, Rekeying
  <1>9. ToNumber("next", j) = {}
    BY <1>3, <1>7 DEF ToNumber
  <1>10. HeldIn("next", j) \subseteq InUse \cup Held(w) \cup {NoIno}
    BY <1>5, <1>7 DEF Held, HeldIn
  <1>11. "next" \in Stages \ {"putPath"}
    BY DEF Stages
  <1> QED  BY <1>1, <1>7, <1>8, <1>9, <1>10, <1>11, JobGoesOn

\* An entry is taken from path_to_ino, or set there: never the root's.
LEMMA EntrySet ==
  ASSUME CounterInv, NEW p \in Paths \ {<<>>}, NEW i \in (Inos \ {Root}) \cup {NoIno},
         path_to_ino' = [path_to_ino EXCEPT ![p] = i], UNCHANGED <<ino_to_path, next_ino, tree, kernel>>
  PROVE  /\ MapTypes' /\ KernelTypes' /\ DeviceTypes' /\ RootStays'
         /\ InUse' \subseteq InUse \cup {i}
  <1>1. UNCHANGED <<ino_to_path, next_ino, tree, dentry, dirs>>
    BY DEF kernel
  <1>2. MapTypes' /\ KernelTypes' /\ DeviceTypes'
    BY <1>1 DEF CounterInv, TypeOK, MapTypes, KernelTypes, DeviceTypes
  <1>3. RootStays'
    BY <1>1, PathsAreSeqs DEF CounterInv, TypeOK, RootStays, Only, NoIno, Root
  <1>4. InUse' \subseteq InUse \cup {i}
    BY <1>1 DEF InUse, Entered, CounterInv, TypeOK
  <1> QED  BY <1>2, <1>3, <1>4

\* The same for ino_to_path.
LEMMA PathSet ==
  ASSUME CounterInv, NEW i \in Inos \ {Root}, NEW p \in Paths \cup {NoPath},
         ino_to_path' = [ino_to_path EXCEPT ![i] = p], UNCHANGED <<path_to_ino, next_ino, tree, kernel>>
  PROVE  /\ MapTypes' /\ KernelTypes' /\ DeviceTypes' /\ RootStays'
         /\ InUse' \subseteq InUse \cup {i}
  <1>1. UNCHANGED <<path_to_ino, next_ino, tree, dentry, dirs>>
    BY DEF kernel
  <1>2. MapTypes' /\ KernelTypes' /\ DeviceTypes'
    BY <1>1 DEF CounterInv, TypeOK, MapTypes, KernelTypes, DeviceTypes
  <1>3. RootStays'
    <2>1. Root \in Inos
      BY BoundsArePositive DEF Root, Inos
    <2> QED  BY <1>1, <2>1 DEF CounterInv, TypeOK, RootStays, Only
  <1>4. InUse' \subseteq InUse \cup {i}
    BY <1>1 DEF InUse, Entered, CounterInv, TypeOK
  <1> QED  BY <1>2, <1>3, <1>4

LEMMA RemoveOldCounts ==
  ASSUME CounterInv, NEW w \in Workers, RemoveOld(w)
  PROVE  CounterInv'
  <1>1. at[w] = "next" /\ Goto(w, "replace") /\ UNCHANGED <<ino_to_path, next_ino, tree, kernel>>
    BY DEF RemoveOld
  <1>2. PICK m \in job[w].todo :
          /\ path_to_ino' = [path_to_ino EXCEPT ![m[1]] = NoIno]
          /\ Keep(w, [job[w] EXCEPT !.num = m[2], !.entry = NewPath(w, m[1]), !.todo = @ \ {m}])
    BY DEF RemoveOld
  <1>3. job[w] \in Jobs /\ JobIs("next", job[w]) /\ job[w].path \in Paths
    BY <1>1, HandsOf
  <1>4. /\ job[w].op # "opendir" /\ job[w].path # <<>> /\ job[w].dest # <<>> /\ job[w].dest \in Paths
        /\ m \in Paths \X (Inos \ {Root}) /\ Under(m[1], job[w].path)
        /\ MovedPath(m[1], job[w].path, job[w].dest) \in Paths
    BY <1>3 DEF JobIs, Rekeying, Jobs
  <1> DEFINE e == MovedPath(m[1], job[w].path, job[w].dest)
             R == job[w].todo \ {m}
             j == [job[w] EXCEPT !.num = m[2], !.entry = e, !.todo = R]
  <1>5. m[1] # <<>> /\ e # <<>>
    <2>1. m[1] # <<>>
      BY <1>3, <1>4, NotAboveRoot
    <2>2. Under(e, job[w].dest)
      <3>1. job[w].path \in Seq(Names) /\ job[w].dest \in Seq(Names) /\ m[1] \in Seq(Names)
        BY <1>3, <1>4, PathsAreSeqs
      <3> QED  BY <1>4, <3>1, MovesBack
    <2> HIDE DEF e
    <2>3. e # <<>>
      BY <1>4, <2>2, NotAboveRoot
    <2> QED  BY <2>1, <2>3
  <1>6. Keep(w, j)
    BY <1>2, <1>3 DEF Jobs, NewPath, MovedPath
  <1> HIDE DEF e
  <1>7. /\ j \in Jobs /\ j.op = job[w].op /\ j.path = job[w].path /\ j.name = job[w].name
        /\ j.dest = job[w].dest /\ j.num = m[2] /\ j.entry = e /\ j.lost = job[w].lost /\ j.todo = R
    BY <1>3, <1>4 DEF Jobs, e
  <1> HIDE DEF j
  <1>8. JobIs("replace", j)
    BY <1>3, <1>4, <1>5, <1>7 DEF JobIs, Rekeying
  <1>9. ToNumber("replace", j) = {}
    BY <1>4, <1>7 DEF ToNumber
  <1>10. HeldIn("replace", j) \subseteq Held(w)
    <2>1. \A x \in job[w].todo : x[2] \in Held(w)
      BY <1>1 DEF Held, HeldIn, Rekeying
    <2> QED  BY <1>2, <1>7, <2>1 DEF HeldIn, Held
  <1>11. /\ MapTypes' /\ KernelTypes' /\ DeviceTypes' /\ RootStays' /\ InUse' \subseteq InUse \cup {NoIno}
    <2>1. m[1] \in Paths \ {<<>>}
      BY <1>4, <1>5
    <2> QED  BY <1>1, <1>2, <2>1, EntrySet
  <1>12. "replace" \in Stages \ {"putPath"}
    BY DEF Stages
  <1>13. InUse' \cup HeldIn("replace", j) \subseteq InUse \cup Held(w) \cup {NoIno}
    BY <1>10, <1>11
  <1> QED  BY <1>1, <1>6, <1>7, <1>8, <1>9, <1>11, <1>12, <1>13, WorkerGoesOn

LEMMA RemoveReplacedCounts ==
  ASSUME CounterInv, NEW w \in Workers, RemoveReplaced(w)
  PROVE  CounterInv'
  <1> DEFINE e == job[w].entry
             i == path_to_ino[e]
  <1>1. /\ at[w] = "replace" /\ path_to_ino' = [path_to_ino EXCEPT ![e] = NoIno]
        /\ UNCHANGED <<ino_to_path, next_ino, tree, kernel>>
    BY DEF RemoveReplaced
  <1>2. job[w] \in Jobs /\ JobIs("replace", job[w])
    BY <1>1, HandsOf
  <1>3. job[w].op # "opendir" /\ e \in Paths \ {<<>>}
    BY <1>2 DEF JobIs, Jobs, Rekeying
  <1>4. /\ MapTypes' /\ KernelTypes' /\ DeviceTypes' /\ RootStays' /\ InUse' \subseteq InUse \cup {NoIno}
    BY <1>1, <1>3, EntrySet
  <1>5. CASE Goto(w, "rekeyPath") /\ UNCHANGED job
    <2>1. Keep(w, job[w]) /\ "rekeyPath" \in Stages \ {"putPath"}
      BY <1>5 DEF Keep, CounterInv, TypeOK, Stages
    <2>2. JobIs("rekeyPath", job[w])
      BY <1>2 DEF JobIs, Rekeying
    <2>3. ToNumber("rekeyPath", job[w]) = {}
      BY <1>3 DEF ToNumber
    <2>4. HeldIn("rekeyPath", job[w]) \subseteq Held(w)
      BY <1>1 DEF Held, HeldIn, Rekeying
    <2>5. InUse' \cup HeldIn("rekeyPath", job[w]) \subseteq InUse \cup Held(w) \cup {NoIno}
      BY <1>4, <2>4
    <2> QED  BY <1>1, <1>2, <1>4, <1>5, <2>1, <2>2, <2>3, <2>5, WorkerGoesOn
  <1> DEFINE j == [job[w] EXCEPT !.lost = i]
  <1>6. CASE i # NoIno /\ Keep(w, j) /\ Goto(w, "forget")
    <2>1. i \in Inos \ {Root} /\ i \in InUse
      BY <1>3, <1>6 DEF CounterInv, TypeOK, RootStays, Only, InUse, Entered
    <2> HIDE DEF i
    <2>2. /\ j \in Jobs /\ j.op = job[w].op /\ j.path = job[w].path /\ j.name = job[w].name
          /\ j.dest = job[w].dest /\ j.num = job[w].num /\ j.entry = job[w].entry
          /\ j.lost = i /\ j.todo = job[w].todo
      BY <1>2, <2>1 DEF Jobs
    <2>3. Keep(w, j) /\ "forget" \in Stages \ {"putPath"}
      BY <1>6 DEF Stages
    <2> HIDE DEF j
    <2>4. JobIs("forget", j)
      BY <1>2, <2>1, <2>2 DEF JobIs, Rekeying
    <2>5. ToNumber("forget", j) = {}
      BY <1>3, <2>2 DEF ToNumber
    <2>6. HeldIn("forget", j) \subseteq Held(w) \cup InUse
      BY <1>1, <2>1, <2>2 DEF Held, HeldIn, Rekeying
    <2>7. InUse' \cup HeldIn("forget", j) \subseteq InUse \cup Held(w) \cup {NoIno}
      BY <1>4, <2>6
    <2> QED  BY <1>1, <1>4, <1>6, <2>2, <2>3, <2>4, <2>5, <2>7, WorkerGoesOn
  <1> QED  BY <1>5, <1>6 DEF RemoveReplaced

\* A step of rekey_paths that leaves the job as it is.
LEMMA RekeyGoesOn ==
  ASSUME CounterInv, NEW w \in Workers, NEW s \in Rekeying, at[w] \in Rekeying,
         Goto(w, s), UNCHANGED <<next_ino, job>>, JobIs(s, job[w]),
         MapTypes', KernelTypes', DeviceTypes', RootStays', InUse' \subseteq InUse \cup Held(w) \cup {NoIno}
  PROVE  CounterInv'
  <1>1. job[w] \in Jobs /\ job[w].op # "opendir"
    BY HandsOf DEF JobIs, Rekeying
  <1>2. Keep(w, job[w]) /\ s \in Stages \ {"putPath"}
    BY DEF Keep, CounterInv, TypeOK, Stages, Rekeying
  <1>3. ToNumber(s, job[w]) = {}
    BY <1>1 DEF ToNumber, Rekeying
  <1>4. HeldIn(s, job[w]) \subseteq Held(w)
    BY DEF Held, HeldIn
  <1>5. InUse' \cup HeldIn(s, job[w]) \subseteq InUse \cup Held(w) \cup {NoIno}
    BY <1>4
  <1> QED  BY <1>1, <1>2, <1>3, <1>5, WorkerGoesOn

LEMMA ForgetReplacedCounts ==
  ASSUME CounterInv, NEW w \in Workers, ForgetReplaced(w)
  PROVE  CounterInv'
  <1>1. /\ at[w] = "forget" /\ ino_to_path' = [ino_to_path EXCEPT ![job[w].lost] = NoPath]
        /\ Goto(w, "rekeyPath") /\ UNCHANGED job /\ UNCHANGED <<path_to_ino, next_ino, tree, kernel>>
    BY DEF ForgetReplaced
  <1>2. JobIs("forget", job[w]) /\ job[w].lost \in Held(w)
    BY <1>1, HandsOf
  <1>3. job[w].lost \in Inos \ {Root} /\ JobIs("rekeyPath", job[w])
    BY <1>2 DEF JobIs, Rekeying
  <1>4. /\ MapTypes' /\ KernelTypes' /\ DeviceTypes' /\ RootStays'
        /\ InUse' \subseteq InUse \cup {job[w].lost}
    BY <1>1, <1>3, PathSet
  <1>5. "rekeyPath" \in Rekeying /\ at[w] \in Rekeying /\ InUse' \subseteq InUse \cup Held(w) \cup {NoIno}
    BY <1>1, <1>2, <1>4 DEF Rekeying
  <1> QED  BY <1>1, <1>3, <1>4, <1>5, RekeyGoesOn

LEMMA RekeyPathCounts ==
  ASSUME CounterInv, NEW w \in Workers, RekeyPath(w)
  PROVE  CounterInv'
  <1>1. /\ at[w] = "rekeyPath" /\ path_to_ino' = [path_to_ino EXCEPT ![job[w].entry] = job[w].num]
        /\ Goto(w, "rekeyIno") /\ UNCHANGED job /\ UNCHANGED <<ino_to_path, next_ino, tree, kernel>>
    BY DEF RekeyPath
  <1>2. job[w] \in Jobs /\ JobIs("rekeyPath", job[w]) /\ job[w].num \in Held(w)
    BY <1>1, HandsOf
  <1>3. job[w].num \in Inos \ {Root} /\ job[w].entry \in Paths \ {<<>>} /\ JobIs("rekeyIno", job[w])
    BY <1>2 DEF JobIs, Rekeying, Jobs
  <1>4. /\ MapTypes' /\ KernelTypes' /\ DeviceTypes' /\ RootStays'
        /\ InUse' \subseteq InUse \cup {job[w].num}
    BY <1>1, <1>3, EntrySet
  <1>5. "rekeyIno" \in Rekeying /\ at[w] \in Rekeying /\ InUse' \subseteq InUse \cup Held(w) \cup {NoIno}
    BY <1>1, <1>2, <1>4 DEF Rekeying
  <1> QED  BY <1>1, <1>3, <1>4, <1>5, RekeyGoesOn

LEMMA RekeyInoCounts ==
  ASSUME CounterInv, NEW w \in Workers, RekeyIno(w)
  PROVE  CounterInv'
  <1>1. /\ at[w] = "rekeyIno" /\ ino_to_path' = [ino_to_path EXCEPT ![job[w].num] = job[w].entry]
        /\ Goto(w, "next") /\ UNCHANGED job /\ UNCHANGED <<path_to_ino, next_ino, tree, kernel>>
    BY DEF RekeyIno
  <1>2. job[w] \in Jobs /\ JobIs("rekeyIno", job[w]) /\ job[w].num \in Held(w)
    BY <1>1, HandsOf
  <1>3. job[w].num \in Inos \ {Root} /\ job[w].entry \in Paths /\ JobIs("next", job[w])
    BY <1>2 DEF JobIs, Rekeying, Jobs
  <1>4. /\ MapTypes' /\ KernelTypes' /\ DeviceTypes' /\ RootStays'
        /\ InUse' \subseteq InUse \cup {job[w].num}
    BY <1>1, <1>3, PathSet
  <1>5. "next" \in Rekeying /\ at[w] \in Rekeying /\ InUse' \subseteq InUse \cup Held(w) \cup {NoIno}
    BY <1>1, <1>2, <1>4 DEF Rekeying
  <1> QED  BY <1>1, <1>3, <1>4, <1>5, RekeyGoesOn

\* The reply: the kernel's dentries move, wherever it has them.
LEMMA RenamedCounts ==
  ASSUME CounterInv, NEW w \in Workers, Renamed(w)
  PROVE  CounterInv'
  <1> DEFINE ps == KernelPlaces(job[w].parent, job[w].name)
             qs == KernelPlaces(job[w].destParent, job[w].destName)
  <1>1. Done(w) /\ UNCHANGED maps /\ UNCHANGED <<tree, dirs>>
    BY DEF Renamed
  <1>2. \/ dentry' = Dropped(dentry, ps \cup qs)
        \/ dentry' = Moved(dentry, CHOOSE p \in ps : TRUE, CHOOSE q \in qs : TRUE, NoIno)
    BY DEF Renamed
  <1>3. MapTypes' /\ RootStays' /\ DeviceTypes' /\ Entered' = Entered /\ UNCHANGED next_ino
    BY <1>1, TypesStay DEF maps
  <1>4. KernelTypes' /\ InUse' \subseteq InUse \cup {NoIno}
    <2>1. CASE dentry' = Dropped(dentry, ps \cup qs)
      BY <1>1, <2>1, DroppedNumbers
    <2>2. ASSUME NEW p, NEW q, dentry' = Moved(dentry, p, q, NoIno)
          PROVE  KernelTypes' /\ InUse' \subseteq InUse \cup {NoIno}
      <3>1. \A r \in Paths : dentry'[r] = NoIno \/ \E s \in Paths : dentry'[r] = dentry[s]
        BY <2>2 DEF Moved
      <3>2. KernelTypes'
        BY <1>1, <2>2 DEF Moved, KernelTypes, CounterInv, TypeOK
      <3> QED  BY <1>3, <3>1, <3>2 DEF InUse
    <2> QED  BY <1>2, <2>1, <2>2
  <1> QED  BY <1>1, <1>3, <1>4, HandlerEnds

\* A request that may take numbers starts if there are some left for all.
LEMMA RequestStarts ==
  ASSUME CounterInv, NEW w \in Workers, Idle(w), NEW j \in Jobs, NEW s \in Stages \ {"putPath"},
         Keep(w, j), Goto(w, s), UNCHANGED maps, UNCHANGED kernel, UNCHANGED tree,
         JobIs(s, j), j.num = NoIno, j.lost = NoIno, s \notin Rekeying,
         ToNumber(s, j) = {} \/ next_ino + Reserved + Cardinality(Names) =< MaxIno + 1
  PROVE  CounterInv'
  <1>1. MapTypes' /\ RootStays' /\ KernelTypes' /\ DeviceTypes' /\ InUse' = InUse /\ UNCHANGED next_ino
    BY TypesStay DEF kernel, maps
  <1>2. HeldIn(s, j) \subseteq {NoIno}
    BY DEF HeldIn
  <1>3. InUse' \cup HeldIn(s, j) \subseteq InUse \cup Held(w) \cup {NoIno}
    BY <1>1, <1>2
  <1>4. CASE ToNumber(s, j) = {}
    <2>1. ToNumber(s, j) \subseteq ToNumber(at[w], job[w])
      BY <1>4
    <2> QED  BY <1>1, <1>3, <2>1, WorkerGoesOn
  <1>5. CASE next_ino + Reserved + Cardinality(Names) =< MaxIno + 1
    <2> DEFINE Busy == {v \in Workers : at[v] # "idle"}
               a == Cardinality(Busy)
               n == Cardinality(Names)
    <2>1. IsFiniteSet(Busy) /\ IsFiniteSet(Busy \cup {w}) /\ a \in Nat /\ n \in Nat
      BY ThreadsAreFinite, NamesAreFinite, FS_Subset, FS_AddElement, FS_CardinalityType
    <2>2. Cardinality(Busy \cup {w}) = a + 1
      BY <2>1, FS_AddElement DEF Idle
    <2>3. \A v \in Workers : ToNumber(at[v], job[v])' = {} \/ v \in Busy \cup {w}
      <3>1. \A v \in Workers \ {w} : at'[v] = at[v] /\ job'[v] = job[v]
        BY DEF CounterInv, TypeOK, Keep, Goto
      <3>2. \A v \in Workers \ Busy : ToNumber(at[v], job[v]) = {}
        BY DEF ToNumber
      <3> QED  BY <3>1, <3>2
    <2>4. Pending' \subseteq (Busy \cup {w}) \X Names
      BY <2>3 DEF Pending
    <2>5. /\ IsFiniteSet((Busy \cup {w}) \X Names)
          /\ Cardinality((Busy \cup {w}) \X Names) = (a + 1) * n
      BY <2>1, <2>2, NamesAreFinite, FS_Product
    <2>6. Cardinality(Pending') \in Nat /\ Cardinality(Pending') =< (a + 1) * n
      BY <2>4, <2>5, FS_Subset, FS_CardinalityType
    <2>7. Reserved = a * n
      BY DEF Reserved
    <2> HIDE DEF a, n
    <2>8. (a + 1) * n = a * n + n
      BY <2>1
    <2>9. a * n \in Nat /\ next_ino \in Nat /\ MaxIno \in Nat
      BY <2>1, BoundsArePositive DEF CounterInv, TypeOK
    <2>10. next_ino + a * n + n =< MaxIno + 1
      BY <1>5, <2>7 DEF n
    <2>11. next_ino' + Cardinality(Pending') =< MaxIno + 1
      BY <1>1, <2>1, <2>6, <2>8, <2>9, <2>10
    <2>12. NumbersSuffice'
      BY <2>11 DEF NumbersSuffice
    <2> QED  BY <1>1, <1>3, <2>12, WorkerSteps
  <1> QED  BY <1>4, <1>5

\* A request but opendir starts with no number in hand.
LEMMA StartCounts ==
  ASSUME CounterInv, NEW w \in Workers, Idle(w), NEW i \in Inos, NEW n \in Names,
         NEW s \in {"stat", "make", "get", "rm", "target"},
         NEW j \in Jobs, j.op # "opendir", j.num = NoIno, j.lost = NoIno, StartAt(w, i, n, s, j),
         s = "target" => j.destParent \in Inos /\ j.destName \in Names,
         s \in {"stat", "make", "get"} => next_ino + Reserved + Cardinality(Names) =< MaxIno + 1
  PROVE  CounterInv'
  <1> DEFINE p == Child(ino_to_path[i], n)
             k == [j EXCEPT !.parent = i, !.name = n, !.path = p]
  <1>1. p \in Paths \ {<<>>}
    BY ChildIsPath DEF StartAt, CounterInv, TypeOK
  <1> HIDE DEF p
  <1>2. k \in Jobs
    BY <1>1 DEF Jobs
  <1>3. /\ k.op = j.op /\ k.name = n /\ k.path = p /\ k.num = j.num /\ k.lost = j.lost
        /\ k.destParent = j.destParent /\ k.destName = j.destName
    BY DEF Jobs
  <1>4. Keep(w, k) /\ Goto(w, s) /\ UNCHANGED maps /\ UNCHANGED kernel /\ UNCHANGED tree
    BY DEF StartAt, p
  <1> HIDE DEF k
  <1>5. s \in Stages \ {"putPath"} /\ s \notin Rekeying
    BY DEF Stages, Rekeying
  <1>6. JobIs(s, k)
    BY <1>1, <1>3, <1>5 DEF JobIs, Rekeying
  <1>7. ToNumber(s, k) = {} \/ next_ino + Reserved + Cardinality(Names) =< MaxIno + 1
    BY <1>3 DEF ToNumber
  <1>8. k.num = NoIno /\ k.lost = NoIno
    BY <1>3
  <1> QED  BY <1>2, <1>4, <1>5, <1>6, <1>7, <1>8, RequestStarts

\* The kernel's requests: those that may take numbers start when there are some.
LEMMA RequestCounts ==
  ASSUME CounterInv, NEW w \in Workers, Request(w)
  PROVE  CounterInv'
  <1>1. NoJob \in Jobs
    BY PathsAreSeqs DEF NoJob, Jobs, NoIno
  <1>2. NoJob.num = NoIno /\ NoJob.lost = NoIno
    BY DEF NoJob
  <1>3. \A op : Send(w, op) => /\ Idle(w)
                               /\ \/ op \in {"remove", "rename"}
                                  \/ next_ino + Reserved + Cardinality(Names) =< MaxIno + 1
    BY DEF Send
  <1>4. ASSUME NEW i \in Inos, NEW n \in Names, Lookup(w, i, n)
        PROVE  CounterInv'
    <2> DEFINE L == IF \E p \in KernelPlaces(i, n) : dentry[p] # NoIno THEN {} ELSE {i}
               j == [NoJob EXCEPT !.op = "lookup", !.locks = L]
    <2>1. StartAt(w, i, n, "stat", j) /\ Send(w, "lookup")
      BY <1>4 DEF Lookup
    <2>2. L \in SUBSET Inos
      OBVIOUS
    <2> HIDE DEF L
    <2>3. j \in Jobs /\ j.op = "lookup" /\ j.num = NoJob.num /\ j.lost = NoJob.lost
      BY <1>1, <2>2 DEF Jobs
    <2> HIDE DEF j
    <2> QED  BY <1>2, <1>3, <2>1, <2>3, StartCounts
  <1>5. ASSUME NEW i \in Inos, NEW n \in Names, NEW k \in {"file", "dir"}, Make(w, i, n, k)
        PROVE  CounterInv'
    <2> DEFINE j == [NoJob EXCEPT !.op = "make", !.locks = {i}, !.kind = k]
    <2>1. StartAt(w, i, n, "make", j) /\ Send(w, "make")
      BY <1>5 DEF Make
    <2>2. j \in Jobs /\ j.op = "make" /\ j.num = NoJob.num /\ j.lost = NoJob.lost
      BY <1>1 DEF Jobs
    <2> HIDE DEF j
    <2> QED  BY <1>2, <1>3, <2>1, <2>2, StartCounts
  <1>6. ASSUME NEW i \in Inos, NEW n \in Names, Create(w, i, n)
        PROVE  CounterInv'
    <2> DEFINE j == [NoJob EXCEPT !.op = "create", !.locks = {i}, !.kind = "file"]
    <2>1. StartAt(w, i, n, "get", j) /\ Send(w, "create")
      BY <1>6 DEF Create
    <2>2. j \in Jobs /\ j.op = "create" /\ j.num = NoJob.num /\ j.lost = NoJob.lost
      BY <1>1 DEF Jobs
    <2> HIDE DEF j
    <2> QED  BY <1>2, <1>3, <2>1, <2>2, StartCounts
  <1>7. ASSUME NEW i \in Inos, NEW n \in Names, Unlink(w, i, n)
        PROVE  CounterInv'
    <2> DEFINE j == [NoJob EXCEPT !.op = "remove", !.locks = {i}]
    <2>1. StartAt(w, i, n, "rm", j) /\ Send(w, "remove")
      BY <1>7 DEF Unlink
    <2>2. j \in Jobs /\ j.op = "remove" /\ j.num = NoJob.num /\ j.lost = NoJob.lost
      BY <1>1 DEF Jobs
    <2> HIDE DEF j
    <2> QED  BY <1>2, <1>3, <2>1, <2>2, StartCounts
  <1>8. ASSUME NEW i \in Inos, NEW n \in Names, NEW d \in Inos, NEW m \in Names,
               Rename(w, i, n, d, m)
        PROVE  CounterInv'
    <2> DEFINE j == [NoJob EXCEPT !.op = "rename", !.locks = {i, d}, !.destParent = d, !.destName = m]
    <2>1. StartAt(w, i, n, "target", j) /\ Send(w, "rename")
      BY <1>8 DEF Rename
    <2>2. /\ j \in Jobs /\ j.op = "rename" /\ j.num = NoJob.num /\ j.lost = NoJob.lost
          /\ j.destParent = d /\ j.destName = m
      BY <1>1 DEF Jobs
    <2> HIDE DEF j
    <2> QED  BY <1>2, <1>3, <2>1, <2>2, StartCounts
  <1>9. ASSUME NEW i \in Inos, Opendir(w, i)
        PROVE  CounterInv'
    <2> DEFINE j == [NoJob EXCEPT !.op = "opendir", !.parent = i, !.path = ino_to_path[i]]
    <2>1. ino_to_path[i] \in Paths /\ Len(ino_to_path[i]) < Depth
      BY <1>9 DEF Opendir, CounterInv, TypeOK
    <2>2. j \in Jobs /\ j.op = "opendir" /\ j.path = ino_to_path[i]
      BY <1>1, <2>1 DEF Jobs
    <2>3. j.num = NoJob.num /\ j.lost = NoJob.lost
      BY <1>1 DEF Jobs
    <2>4. /\ Keep(w, j) /\ Goto(w, "list") /\ Send(w, "opendir")
          /\ UNCHANGED maps /\ UNCHANGED kernel /\ UNCHANGED tree
      BY <1>9 DEF Opendir
    <2> HIDE DEF j
    <2>5. JobIs("list", j)
      BY <2>1, <2>2 DEF JobIs, Rekeying
    <2>6. "list" \in Stages \ {"putPath"} /\ "list" \notin Rekeying
      BY DEF Stages, Rekeying
    <2>7. Idle(w) /\ next_ino + Reserved + Cardinality(Names) =< MaxIno + 1
      BY <1>3, <2>4
    <2> QED  BY <1>2, <2>2, <2>3, <2>4, <2>5, <2>6, <2>7, RequestStarts
  <1> QED  BY <1>4, <1>5, <1>6, <1>7, <1>8, <1>9 DEF Request

\* Every step keeps the numbers in order.
LEMMA StepsCount ==
  ASSUME CounterInv, [Next]_vars
  PROVE  CounterInv'
  <1>1. ASSUME NEW w \in Workers, Request(w)
        PROVE  CounterInv'
    BY <1>1, RequestCounts
  <1>2. ASSUME NEW w \in Workers, Step(w)
        PROVE  CounterInv'
    <2>1. CASE Stat(w) \/ List(w) \/ MakeOnDevice(w) \/ PushOnDevice(w) \/ RemoveOnDevice(w)
      BY <2>1, StatCounts, ListCounts, MakeCounts, PushCounts, RemoveCounts
    <2>2. CASE Target(w) \/ MoveOnDevice(w)
      BY <2>2, TargetCounts, MoveCounts
    <2>3. CASE Found(w) \/ Take(w) \/ PutPath(w) \/ PutIno(w)
      BY <2>3, FoundCounts, TakeCounts, PutPathCounts, PutInoCounts
    <2>4. CASE Collect(w) \/ RemoveOld(w) \/ RemoveReplaced(w) \/ ForgetReplaced(w)
      BY <2>4, CollectCounts, RemoveOldCounts, RemoveReplacedCounts, ForgetReplacedCounts
    <2>5. CASE RekeyPath(w) \/ RekeyIno(w) \/ Renamed(w)
      BY <2>5, RekeyPathCounts, RekeyInoCounts, RenamedCounts
    <2> QED  BY <1>2, <2>1, <2>2, <2>3, <2>4, <2>5 DEF Step
  <1>3. CASE UNCHANGED vars
    <2>1. UNCHANGED <<path_to_ino, ino_to_path, next_ino, at, job, tree, dentry, dirs>>
      BY <1>3 DEF vars, maps, kernel
    <2>2. TypeOK' /\ RootStays' /\ JobsAre'
      BY <2>1 DEF CounterInv, TypeOK, RootStays, Only, JobsAre
    <2>3. Pending' = Pending /\ InUse' = InUse /\ \A w \in Workers : Held(w)' = Held(w)
      BY <2>1 DEF Pending, InUse, Entered, Held
    <2>4. NumbersSuffice' /\ Below' /\ NumbersAreNew'
      BY <2>1, <2>3 DEF CounterInv, NumbersSuffice, Below, NumbersAreNew
    <2> QED  BY <2>2, <2>4 DEF CounterInv
  <1> QED  BY <1>1, <1>2, <1>3 DEF Next

\* The numbers are in order throughout, with any number of workers.
LEMMA CounterHolds == Spec => []CounterInv
  <1>1. Init => CounterInv
    BY CounterStarts
  <1>2. CounterInv /\ [Next]_vars => CounterInv'
    BY StepsCount
  <1> QED  BY <1>1, <1>2, PTL DEF Spec

\* get_or_assign_ino and rekey_paths keep the maps' types, however many threads are in
\* them: every number a handler looks up is one that was handed out.
THEOREM MapsTypeCorrect == Spec => []TypeOK
  <1>1. CounterInv => TypeOK
    BY DEF CounterInv
  <1> QED  BY <1>1, CounterHolds, PTL

\* The mount point keeps its number: no handler, whatever the others do between its
\* accesses to the maps, enters "/" under another number or another path as inode 1.
THEOREM TheRootStays == Spec => []RootStays
  <1>1. CounterInv => RootStays
    BY DEF CounterInv
  <1> QED  BY <1>1, CounterHolds, PTL

\* A number that get_or_assign_ino is about to enter for a path is no other path's, not
\* the kernel's, and in no other handler's hands, with any number of threads.
THEOREM EachNumberIsNew == Spec => []NumbersAreNew
  <1>1. CounterInv => NumbersAreNew
    BY DEF CounterInv
  <1> QED  BY <1>1, CounterHolds, PTL
=============================================================================
