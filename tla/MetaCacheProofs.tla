--------------------------- MODULE MetaCacheProofs ---------------------------
(***************************************************************************)
(* Proofs about the metadata cache.  With one thread (the option `-s`) the *)
(* cache is right whenever no request is under way, for every set of paths *)
(* and metadata.                                                           *)
(*                                                                         *)
(* The argument: a wrong entry is one that the steps the thread has before *)
(* it clear first (WrongIsCovered), because each handler has its           *)
(* invalidation right behind its command (Good); and what a handler puts   *)
(* into the cache is what the device said since the last change            *)
(* (AnswerIsTrue, ListIsTrue).                                             *)
(***************************************************************************)
EXTENDS MetaCache, FiniteSetTheorems, SequenceTheorems, TLAPS

\* The option -s: all requests are served by one thread.
OneThread == \E w : Workers = {w}

\* A step that clears what the cache has for p.
Clears(s, p) ==
  \/ s.do = "invalidate" /\ s.path = p
  \/ s.do = "invalidate_prefix" /\ Under(p, s.path)

\* The steps t clear p before they do anything else.
Covered(t, p) ==
  \/ t # <<>> /\ Clears(t[1], p)
  \/ Len(t) > 1 /\ t[1].do = "invalidate_prefix" /\ Clears(t[2], p)

(***************************************************************************)
(* The order every handler keeps: a command and its invalidations at once, *)
(* an insertion right behind the question it answers.  What is left of a   *)
(* listing are insertions.                                                 *)
(***************************************************************************)
Good(t) ==
  \A k \in 1..Len(t) :
    /\ t[k].do \in {"change", "mkdir", "rm"} => k < Len(t) /\ Clears(t[k + 1], t[k].path)
    /\ t[k].do = "mv" =>
         /\ t[k].to \in Paths
         /\ k + 1 < Len(t)
         /\ t[k + 1] = Do("invalidate_prefix", t[k].path)
         /\ t[k + 2] = Do("invalidate_prefix", t[k].to)
    /\ t[k].do = "insert" /\ k > 1 =>
         t[k - 1].do \in {"stat", "stat_or_none"} /\ t[k - 1].path = t[k].path
    /\ t[k].do = "insert_listed" =>
         t[k].to \in Metas /\ \A j \in 1..Len(t) : t[j].do = "insert_listed"

\* The cache has something else than the device.
Wrong(p) == Hit(p) /\ cache[p].meta # device[p]

WrongIsCovered ==
  \A w \in Workers, p \in Paths \ tainted : Wrong(p) => Covered(todo[w], p)

AnswerIsTrue ==
  \A w \in Workers : Now(w, "insert") => At(w) \in tainted \/ answer[w] = device[At(w)]

ListIsTrue ==
  \A w \in Workers : \A k \in 1..Len(todo[w]) :
    LET s == todo[w][k] IN
      s.do = "insert_listed" =>
        /\ s.path \in tainted \/ s.to = device[s.path]
        /\ \A j \in 1..Len(todo[w]) : todo[w][j].path = s.path => todo[w][j].to = s.to

\* What a list of steps may begin with when it follows others.
Opens(t) == t # <<>> => t[1].do \notin {"insert", "insert_listed"}

------------------------------------------------------------------------------
(***************************************************************************)
(* Lists of steps.                                                         *)
(***************************************************************************)

\* The rest of a list in order is in order.
LEMMA GoodTail ==
  ASSUME NEW t \in Seq(Steps), t # <<>>, Good(t)
  PROVE  Good(Tail(t)) /\ Tail(t) \in Seq(Steps)
  <1>1. /\ Tail(t) \in Seq(Steps) /\ Len(t) \in Nat \ {0} /\ Len(Tail(t)) = Len(t) - 1
        /\ \A k \in 1..(Len(t) - 1) : Tail(t)[k] = t[k + 1]
    OBVIOUS
  <1>2. ASSUME NEW k \in 1..Len(Tail(t))
        PROVE  /\ k + 1 \in 1..Len(t) /\ Tail(t)[k] = t[k + 1]
               /\ k > 1 => Tail(t)[k - 1] = t[k]
               /\ k + 1 \in 1..Len(Tail(t)) => Tail(t)[k + 1] = t[k + 2]
               /\ k + 2 \in 1..Len(Tail(t)) => Tail(t)[k + 2] = t[k + 3]
    BY <1>1
  <1>3. ASSUME NEW k \in 1..Len(Tail(t))
        PROVE  Tail(t)[k].do \in {"change", "mkdir", "rm"} =>
                 k < Len(Tail(t)) /\ Clears(Tail(t)[k + 1], Tail(t)[k].path)
    BY <1>1, <1>2 DEF Good
  <1>4. ASSUME NEW k \in 1..Len(Tail(t)), Tail(t)[k].do = "mv"
        PROVE  /\ Tail(t)[k].to \in Paths
               /\ k + 1 < Len(Tail(t))
               /\ Tail(t)[k + 1] = Do("invalidate_prefix", Tail(t)[k].path)
               /\ Tail(t)[k + 2] = Do("invalidate_prefix", Tail(t)[k].to)
    <2>1. /\ t[k + 1].to \in Paths
          /\ k + 2 < Len(t)
          /\ t[k + 2] = Do("invalidate_prefix", t[k + 1].path)
          /\ t[k + 3] = Do("invalidate_prefix", t[k + 1].to)
      BY <1>2, <1>4 DEF Good
    <2> QED  BY <2>1, <1>1, <1>2
  <1>5. ASSUME NEW k \in 1..Len(Tail(t)), Tail(t)[k].do = "insert", k > 1
        PROVE  Tail(t)[k - 1].do \in {"stat", "stat_or_none"} /\ Tail(t)[k - 1].path = Tail(t)[k].path
    BY <1>2, <1>5 DEF Good
  <1>6. ASSUME NEW k \in 1..Len(Tail(t)), Tail(t)[k].do = "insert_listed"
        PROVE  Tail(t)[k].to \in Metas /\ \A j \in 1..Len(Tail(t)) : Tail(t)[j].do = "insert_listed"
    BY <1>1, <1>2, <1>6 DEF Good
  <1> QED  BY <1>1, <1>3, <1>4, <1>5, <1>6 DEF Good

\* Two lists in order, one after the other, are in order.
LEMMA GoodConcat ==
  ASSUME NEW s \in Seq(Steps), NEW t \in Seq(Steps), Good(s), Good(t), Opens(s), Opens(t)
  PROVE  s \o t \in Seq(Steps) /\ Good(s \o t) /\ Opens(s \o t)
  <1> DEFINE u == s \o t
  <1>1. /\ u \in Seq(Steps) /\ Len(u) = Len(s) + Len(t) /\ Len(s) \in Nat /\ Len(t) \in Nat
        /\ \A k \in 1..Len(s) : u[k] = s[k]
        /\ \A k \in 1..Len(t) : u[Len(s) + k] = t[k]
    OBVIOUS
  <1>2. \A k \in 1..Len(s) : s[k].do # "insert_listed"
    BY <1>1 DEF Good, Opens
  <1>3. \A k \in 1..Len(t) : t[k].do # "insert_listed"
    BY <1>1 DEF Good, Opens
  <1>4. ASSUME NEW k \in 1..Len(u)
        PROVE  /\ u[k].do \in {"change", "mkdir", "rm"} => k < Len(u) /\ Clears(u[k + 1], u[k].path)
               /\ u[k].do = "mv" =>
                    /\ u[k].to \in Paths
                    /\ k + 1 < Len(u)
                    /\ u[k + 1] = Do("invalidate_prefix", u[k].path)
                    /\ u[k + 2] = Do("invalidate_prefix", u[k].to)
               /\ u[k].do = "insert" /\ k > 1 =>
                    u[k - 1].do \in {"stat", "stat_or_none"} /\ u[k - 1].path = u[k].path
               /\ u[k].do # "insert_listed"
    <2>1. CASE k <= Len(s)
      <3>1. /\ k \in 1..Len(s) /\ u[k] = s[k] /\ (k > 1 => u[k - 1] = s[k - 1])
            /\ k < Len(s) => u[k + 1] = s[k + 1]
            /\ k + 1 < Len(s) => u[k + 2] = s[k + 2]
        BY <1>1, <2>1
      <3> HIDE DEF u
      <3>2. u[k].do \in {"change", "mkdir", "rm"} => k < Len(u) /\ Clears(u[k + 1], u[k].path)
        BY <1>1, <3>1 DEF Good
      <3>3. u[k].do = "mv" =>
                    /\ u[k].to \in Paths
                    /\ k + 1 < Len(u)
                    /\ u[k + 1] = Do("invalidate_prefix", u[k].path)
                    /\ u[k + 2] = Do("invalidate_prefix", u[k].to)
        <4>1. s[k].do = "mv" => /\ s[k].to \in Paths
                                /\ k + 1 < Len(s)
                                /\ s[k + 1] = Do("invalidate_prefix", s[k].path)
                                /\ s[k + 2] = Do("invalidate_prefix", s[k].to)
          BY <3>1 DEF Good
        <4> QED  BY <1>1, <3>1, <4>1
      <3>4. u[k].do = "insert" /\ k > 1 =>
                    u[k - 1].do \in {"stat", "stat_or_none"} /\ u[k - 1].path = u[k].path
        <4>1. s[k].do = "insert" /\ k > 1 =>
                s[k - 1].do \in {"stat", "stat_or_none"} /\ s[k - 1].path = s[k].path
          BY <3>1 DEF Good
        <4> QED  BY <3>1, <4>1
      <3>5. u[k].do # "insert_listed"
        BY <1>2, <3>1
      <3> QED  BY <3>2, <3>3, <3>4, <3>5
    <2>2. CASE k > Len(s)
      <3>0. k - Len(s) \in 1..Len(t)
        <4> HIDE DEF u
        <4> QED  BY <1>1, <2>2
      <3>1. PICK j \in 1..Len(t) : j = k - Len(s)
        BY <3>0
      <3>2. /\ k = Len(s) + j /\ u[k] = t[j] /\ (j > 1 => u[k - 1] = t[j - 1])
            /\ j < Len(t) => u[k + 1] = t[j + 1]
            /\ j + 1 < Len(t) => u[k + 2] = t[j + 2]
        <4>1. k = Len(s) + j /\ u[k] = t[j]
          BY <1>1, <3>1
        <4>2. ASSUME j > 1  PROVE u[k - 1] = t[j - 1]
          <5>1. k - 1 = Len(s) + (j - 1) /\ j - 1 \in 1..Len(t)
            BY <1>1, <3>1, <4>2
          <5> QED  BY <5>1, <1>1
        <4>3. ASSUME j < Len(t)  PROVE u[k + 1] = t[j + 1]
          <5>1. k + 1 = Len(s) + (j + 1) /\ j + 1 \in 1..Len(t)
            BY <1>1, <3>1, <4>3
          <5> QED  BY <5>1, <1>1
        <4>4. ASSUME j + 1 < Len(t)  PROVE u[k + 2] = t[j + 2]
          <5>1. k + 2 = Len(s) + (j + 2) /\ j + 2 \in 1..Len(t)
            BY <1>1, <3>1, <4>4
          <5> QED  BY <5>1, <1>1
        <4> QED  BY <4>1, <4>2, <4>3, <4>4
      <3> HIDE DEF u
      <3>3. u[k].do \in {"change", "mkdir", "rm"} => k < Len(u) /\ Clears(u[k + 1], u[k].path)
        BY <1>1, <3>1, <3>2 DEF Good
      <3>4. u[k].do = "mv" =>
                    /\ u[k].to \in Paths
                    /\ k + 1 < Len(u)
                    /\ u[k + 1] = Do("invalidate_prefix", u[k].path)
                    /\ u[k + 2] = Do("invalidate_prefix", u[k].to)
        <4>1. t[j].do = "mv" => /\ t[j].to \in Paths
                                /\ j + 1 < Len(t)
                                /\ t[j + 1] = Do("invalidate_prefix", t[j].path)
                                /\ t[j + 2] = Do("invalidate_prefix", t[j].to)
          BY <3>1 DEF Good
        <4> QED  BY <1>1, <3>1, <3>2, <4>1
      <3>5. u[k].do = "insert" /\ k > 1 =>
                    u[k - 1].do \in {"stat", "stat_or_none"} /\ u[k - 1].path = u[k].path
        <4>1. t # <<>>
          BY <1>1, <3>1
        <4>2. t[1].do # "insert"
          BY <4>1 DEF Opens
        <4>3. j > 1 \/ j = 1
          BY <1>1, <3>1
        <4> QED  BY <3>1, <3>2, <4>2, <4>3 DEF Good
      <3> QED  BY <1>3, <3>1, <3>2, <3>3, <3>4, <3>5
    <2> QED  BY <1>1, <2>1, <2>2
  <1>5. Opens(u)
    BY <1>1 DEF Opens
  <1> HIDE DEF u
  <1>6. Good(u)
    BY <1>4 DEF Good
  <1> QED  BY <1>1, <1>5, <1>6 DEF u


InOrder(t) == t \in Seq(Steps) /\ Good(t) /\ Opens(t)

\* A path is under itself.
LEMMA UnderItself == \A p \in Paths : Under(p, p)
  BY PathsAreSequences DEF Under, IsPrefix

\* A step with nothing but a path.
LEMMA DoIsAStep ==
  ASSUME NEW what \in Kinds, NEW p \in Paths
  PROVE  /\ Do(what, p) \in Steps
         /\ Do(what, p).do = what /\ Do(what, p).path = p /\ Do(what, p).to = p
  BY DEF Do, Steps

\* A step and the one that has to follow it.
LEMMA Pairs ==
  ASSUME NEW p \in Paths, NEW x \in Kinds, NEW y \in Kinds,
         \/ x \in {"change", "mkdir", "rm"} /\ y \in {"invalidate", "invalidate_prefix"}
         \/ x = "stat" /\ y = "insert"
  PROVE  InOrder(<<Do(x, p), Do(y, p)>>)
  <1> DEFINE t == <<Do(x, p), Do(y, p)>>
  <1>1. /\ t \in Seq(Steps) /\ Len(t) = 2 /\ t[1] = Do(x, p) /\ t[2] = Do(y, p)
    BY DoIsAStep
  <1> HIDE DEF t
  <1>2. /\ t[1].do = x /\ t[1].path = p /\ t[2].do = y /\ t[2].path = p
    BY <1>1, DoIsAStep
  <1>3. x \in {"change", "mkdir", "rm"} => Clears(t[2], t[1].path)
    BY <1>2, UnderItself DEF Clears
  <1>4. Good(t)
    <2>1. \A k \in 1..Len(t) : k = 1 \/ k = 2
      BY <1>1
    <2>2. x \notin {"mv", "insert", "insert_listed"}
           /\ y \notin {"change", "mkdir", "rm", "mv", "insert_listed"}
           /\ (y = "insert" => x = "stat")
      OBVIOUS
    <2> QED  BY <1>1, <1>2, <1>3, <2>1, <2>2 DEF Good
  <1>5. Opens(t)
    BY <1>2 DEF Opens
  <1> QED  BY <1>1, <1>4, <1>5 DEF InOrder, t

\* fetch_meta asks only when the cache has nothing, and keeps the answer.
LEMMA FetchInOrder == \A p \in Paths : InOrder(Fetch(p))
  <1> SUFFICES ASSUME NEW p \in Paths  PROVE InOrder(Fetch(p))
    OBVIOUS
  <1> DEFINE t == Fetch(p)
  <1>1. /\ t \in Seq(Steps) /\ Len(t) = 3 /\ t[1] = Do("get", p)
        /\ t[2] = Do("stat_or_none", p) /\ t[3] = Do("insert", p)
    BY DoIsAStep DEF Fetch, Kinds
  <1> HIDE DEF t
  <1>2. /\ t[1].do = "get" /\ t[2].do = "stat_or_none" /\ t[3].do = "insert"
        /\ t[2].path = p /\ t[3].path = p
    BY <1>1, DoIsAStep DEF Kinds
  <1>3. \A k \in 1..Len(t) : k = 1 \/ k = 2 \/ k = 3
    BY <1>1
  <1>4. Good(t)
    BY <1>1, <1>2, <1>3 DEF Good
  <1>5. Opens(t)
    BY <1>2 DEF Opens
  <1> QED  BY <1>1, <1>4, <1>5 DEF InOrder, t

\* rename clears the old name and the new one, with all below them.
LEMMA RenameInOrder == \A p, q \in Paths : InOrder(Rename(p, q))
  <1> SUFFICES ASSUME NEW p \in Paths, NEW q \in Paths  PROVE InOrder(Rename(p, q))
    OBVIOUS
  <1> DEFINE t == Rename(p, q)
  <1>0. [do |-> "mv", path |-> p, to |-> q] \in Steps
    BY DEF Steps, Kinds
  <1>1. /\ t \in Seq(Steps) /\ Len(t) = 3 /\ t[1] = [do |-> "mv", path |-> p, to |-> q]
        /\ t[2] = Do("invalidate_prefix", p) /\ t[3] = Do("invalidate_prefix", q)
    BY <1>0, DoIsAStep DEF Rename, Kinds
  <1> HIDE DEF t
  <1>2. /\ t[1].do = "mv" /\ t[2].do = "invalidate_prefix" /\ t[3].do = "invalidate_prefix"
        /\ t[1].path = p /\ t[1].to = q
    BY <1>1, DoIsAStep DEF Kinds
  <1>3. \A k \in 1..Len(t) : k = 1 \/ k = 2 \/ k = 3
    BY <1>1
  <1>4. Good(t)
    BY <1>1, <1>2, <1>3 DEF Good
  <1>5. Opens(t)
    BY <1>2 DEF Opens
  <1> QED  BY <1>1, <1>4, <1>5 DEF InOrder, t

\* opendir is one question.
LEMMA OpendirInOrder == \A p \in Paths : InOrder(Opendir(p))
  <1> SUFFICES ASSUME NEW p \in Paths  PROVE InOrder(Opendir(p))
    OBVIOUS
  <1> DEFINE t == Opendir(p)
  <1>1. t \in Seq(Steps) /\ Len(t) = 1 /\ t[1] = Do("list", p)
    BY DoIsAStep DEF Opendir, Kinds
  <1> HIDE DEF t
  <1>2. t[1].do = "list"
    BY <1>1, DoIsAStep DEF Kinds
  <1>3. \A k \in 1..Len(t) : k = 1
    BY <1>1
  <1>4. Good(t)
    BY <1>1, <1>2, <1>3 DEF Good
  <1>5. Opens(t)
    BY <1>2 DEF Opens
  <1> QED  BY <1>1, <1>4, <1>5 DEF InOrder, t

\* Every handler keeps the order.
LEMMA HandlersInOrder == \A h \in Handlers : InOrder(h)
  <1>1. ASSUME NEW p \in Paths
        PROVE  /\ InOrder(Flush(p)) /\ InOrder(StatAndInsert(p))
               /\ InOrder(<<Do("change", p), Do("invalidate", p)>>)
               /\ InOrder(<<Do("mkdir", p), Do("invalidate", p)>>)
               /\ InOrder(Unlink(p)) /\ InOrder(Rmdir(p))
               /\ InOrder(<<>>)
    <2>1. InOrder(<<>>)
      BY DEF InOrder, Good, Opens
    <2> QED  BY <2>1, Pairs DEF Flush, StatAndInsert, Unlink, Rmdir, Kinds
  <1>2. \A s, t : InOrder(s) /\ InOrder(t) => InOrder(s \o t)
    BY GoodConcat DEF InOrder
  <1>3. ASSUME NEW p \in Paths
        PROVE  /\ InOrder(Mkdir(p)) /\ InOrder(Mknod(p))
               /\ \A h \in Create(p) : InOrder(h)
               /\ \A h \in Setattr(p) : InOrder(h)
    <2>1. InOrder(Mkdir(p)) /\ InOrder(Mknod(p))
      BY <1>1, <1>2 DEF Mkdir, Mknod
    <2>2. \A h \in Create(p) : InOrder(h)
      BY <1>1, <1>2 DEF Create
    <2>3. ASSUME NEW s \in Truncates(p), NEW u \in Touches(p)
          PROVE  InOrder(s \o u \o StatAndInsert(p))
      <3>1. InOrder(s) /\ InOrder(u)
        BY <1>1 DEF Truncates, Touches
      <3>2. InOrder(s \o u)
        BY <1>2, <3>1
      <3>3. InOrder(StatAndInsert(p))
        BY <1>1
      <3> QED  BY <1>2, <3>2, <3>3
    <2>4. \A h \in Setattr(p) :
            \E s \in Truncates(p), u \in Touches(p) : h = s \o u \o StatAndInsert(p)
      BY SMT DEF Setattr
    <2>5. ASSUME NEW h \in Setattr(p)
          PROVE  InOrder(h)
      <3>1. PICK s \in Truncates(p), u \in Touches(p) : h = s \o u \o StatAndInsert(p)
        BY <2>4
      <3> QED  BY <2>3, <3>1
    <2> QED  BY <2>1, <2>2, <2>5
  <1>4. ASSUME NEW pq \in Renames
        PROVE  InOrder(Rename(pq[1], pq[2]))
    BY RenameInOrder DEF Renames
  <1>5. \A p \in Paths : \A h \in HandlersAt(p) : InOrder(h)
    BY <1>1, <1>3, FetchInOrder, OpendirInOrder DEF HandlersAt
  <1>6. \A h \in Handlers :
          \/ \E p \in Paths : h \in HandlersAt(p)
          \/ \E pq \in Renames : h = Rename(pq[1], pq[2])
    BY DEF Handlers
  <1> QED  BY <1>4, <1>5, <1>6


------------------------------------------------------------------------------
(***************************************************************************)
(* Types.                                                                  *)
(***************************************************************************)

\* The sequence SetToSeq makes of a finite set holds nothing else.
LEMMA SetToSeqIsSeq ==
  ASSUME NEW S, IsFiniteSet(S)
  PROVE  Len(SetToSeq(S)) \in Nat /\ \A k \in 1..Len(SetToSeq(S)) : SetToSeq(S)[k] \in S
  <1> DEFINE n == Cardinality(S)
  <1>1. n \in Nat /\ ExistsBijection(1..n, S)
    BY FS_CardinalityType
  <1>2. \E f \in [1..n -> S] : IsInjective(f)
    BY <1>1 DEF ExistsBijection, Bijection, Injection
  <1> HIDE DEF n
  <1>3. SetToSeq(S) \in [1..n -> S]
    BY <1>2 DEF SetToSeq, n
  <1>4. Len(SetToSeq(S)) = n
    BY <1>1, <1>3
  <1> QED  BY <1>1, <1>3, <1>4


\* The last step leaves nothing: with a reply or without, it is taken off.
LEMMA OneStepOff ==
  ASSUME NEW w \in Workers, TypeOK, ~Idle(w), ProceedOrReply(w)
  PROVE  /\ todo' = [todo EXCEPT ![w] = Tail(todo[w])]
         /\ \/ answer' = answer
            \/ answer' = [answer EXCEPT ![w] = Absent]
  <1>1. todo[w] \in Seq(Steps) /\ todo[w] # <<>>
    BY DEF TypeOK, Idle
  <1>2. ASSUME Len(todo[w]) = 1
        PROVE  Tail(todo[w]) = <<>>
    <2>1. Tail(todo[w]) \in Seq(Steps) /\ Len(Tail(todo[w])) = 0
      BY <1>1, <1>2
    <2> QED  BY <2>1, EmptySeq
  <1>3. CASE Len(todo[w]) = 1
    BY <1>2, <1>3, Zenon DEF ProceedOrReply, Reply
  <1>4. CASE Len(todo[w]) # 1
    BY <1>4, Zenon DEF ProceedOrReply, Proceed
  <1> QED  BY <1>3, <1>4

\* What a worker is about to do.
LEMMA HeadIsAStep ==
  ASSUME NEW w \in Workers, TypeOK, ~Idle(w)
  PROVE  /\ todo[w] \in Seq(Steps) /\ todo[w] # <<>> /\ Head(todo[w]) \in Steps
         /\ Head(todo[w]) = todo[w][1] /\ Len(todo[w]) \in Nat \ {0}
         /\ At(w) \in Paths
         /\ Tail(todo[w]) \in Seq(Steps)
  <1>1. todo[w] \in Seq(Steps) /\ todo[w] # <<>>
    BY DEF TypeOK, Idle
  <1>2. Head(todo[w]) \in Steps /\ Head(todo[w]) = todo[w][1] /\ Len(todo[w]) \in Nat \ {0}
        /\ Tail(todo[w]) \in Seq(Steps)
    BY <1>1
  <1> QED  BY <1>1, <1>2 DEF At, Steps

\* A command makes metadata of metadata.
LEMMA OutcomesAreDevices ==
  ASSUME TypeOK, NEW s \in Steps, NEW new \in Outcomes(s)
  PROVE  new \in [Paths -> Metas]
  <1>1. device \in [Paths -> Metas] /\ s.path \in Paths /\ Absent \in Metas /\ Tokens \subseteq Metas
    BY DEF TypeOK, Steps, Metas
  <1>2. CASE s.do \in {"change", "mkdir"}
    BY <1>1, <1>2 DEF Outcomes
  <1>3. CASE s.do = "rm"
    BY <1>1, <1>3 DEF Outcomes
  <1>4. CASE s.do = "mv"
    <2> DEFINE p == s.path
               q == s.to
               Source(r) == p \o SubSeq(r, Len(q) + 1, Len(r))
    <2>1. new = [r \in Paths |->
                   IF Under(r, q) THEN IF Source(r) \in Paths THEN device[Source(r)] ELSE Absent
                   ELSE IF Under(r, p) THEN Absent ELSE device[r]]
      BY <1>4 DEF Outcomes
    <2> HIDE DEF Source
    <2> QED  BY <1>1, <2>1
  <1>5. CASE s.do \notin {"change", "mkdir", "rm", "mv"}
    BY <1>5 DEF Outcomes
  <1> QED  BY <1>2, <1>3, <1>4, <1>5

\* What List leaves to do: an insertion for each child that was found.
LEMMA ListingIsSteps ==
  ASSUME NEW w \in Workers, TypeOK, List(w)
  PROVE  /\ todo' = [todo EXCEPT ![w] = todo'[w]]
         /\ todo'[w] \in Seq(Steps)
         /\ \A k \in 1..Len(todo'[w]) :
              /\ todo'[w][k].do = "insert_listed"
              /\ todo'[w][k].path \in Paths
              /\ todo'[w][k].to = device[todo'[w][k].path]
  <1> DEFINE d == At(w)
             found == {p \in Paths : Len(p) = Len(d) + 1 /\ Under(p, d) /\ device[p] # Absent}
             s == SetToSeq(found)
             l == [k \in 1..Len(s) |->
                     [do |-> "insert_listed", path |-> s[k], to |-> device[s[k]]]]
  <1>1. todo' = [todo EXCEPT ![w] = l]
    BY DEF List
  <1>2. found \in SUBSET Paths /\ IsFiniteSet(found)
    BY PathsAreSequences, FS_Subset
  <1> HIDE DEF found
  <1>3. Len(s) \in Nat /\ \A k \in 1..Len(s) : s[k] \in Paths
    BY <1>2, SetToSeqIsSeq
  <1> HIDE DEF s
  <1>4. \A k \in 1..Len(s) : l[k] \in Steps /\ l[k].do = "insert_listed"
                             /\ l[k].path \in Paths /\ l[k].to = device[l[k].path]
    BY <1>3 DEF TypeOK, Steps, Kinds
  <1>5. l \in Seq(Steps) /\ Len(l) = Len(s)
    BY <1>3, <1>4
  <1> HIDE DEF l
  <1>6. todo'[w] = l
    BY <1>1 DEF TypeOK
  <1> QED  BY <1>1, <1>4, <1>5, <1>6


\* The steps left to every worker are in order.
WellOrdered == \A w \in Workers : Good(todo[w])

\* No step changes a type.
LEMMA TypesStay == TypeOK /\ WellOrdered /\ [Next]_vars => TypeOK'
  <1> SUFFICES ASSUME TypeOK, WellOrdered, [Next]_vars
               PROVE  TypeOK'
    OBVIOUS
  <1>0. /\ Absent \in Metas /\ <<>> \in Seq(Steps)
        /\ \A m \in Metas : Entry(m) \in Entries
        /\ \A w \in Workers : answer[w] \in Metas
        /\ \A p \in Paths : device[p] \in Metas
    BY EmptySeq DEF TypeOK, Metas, Entry, Entries
  <1>1. ASSUME NEW w \in Workers, NEW h \in Handlers, Request(w, h)
        PROVE  TypeOK'
    <2>1. h \in Seq(Steps)
      BY HandlersInOrder DEF InOrder
    <2> QED  BY <1>1, <2>1 DEF TypeOK, Request
  <1>2. ASSUME NEW w \in Workers, Step(w)
        PROVE  TypeOK'
    <2>0. ~Idle(w)
      BY <1>2 DEF Step, GetHit, GetMiss, Stat, StatFail, Insert, Invalidate, InvalidatePrefix,
                  List, InsertListed, Command, CommandFail, Now
    <2>1. /\ At(w) \in Paths /\ Tail(todo[w]) \in Seq(Steps)
          /\ Head(todo[w]) \in Steps
      BY <2>0, HeadIsAStep
    <2>2. ASSUME ProceedOrReply(w)
          PROVE  todo' \in [Workers -> Seq(Steps)] /\ answer' \in [Workers -> Metas]
      BY <2>0, <2>1, <2>2, <1>0, OneStepOff DEF TypeOK
    <2>3. ASSUME Reply(w)
          PROVE  todo' \in [Workers -> Seq(Steps)] /\ answer' \in [Workers -> Metas]
      BY <2>3, <1>0 DEF Reply, TypeOK
    <2>4. CASE GetHit(w)
      BY <2>3, <2>4 DEF GetHit, TypeOK
    <2>5. CASE GetMiss(w)
      <3>1. <<Do("invalidate", At(w))>> \in Seq(Steps)
        BY <2>1, DoIsAStep DEF Kinds
      <3>2. <<Do("invalidate", At(w))>> \o Tail(todo[w]) \in Seq(Steps)
        BY <3>1, <2>1, ConcatProperties
      <3> QED  BY <2>1, <2>5, <3>2 DEF GetMiss, TypeOK
    <2>6. CASE Stat(w)
      BY <1>0, <2>1, <2>6 DEF Stat, Proceed, TypeOK
    <2>7. CASE StatFail(w)
      BY <2>3, <2>7 DEF StatFail, TypeOK
    <2>8. CASE Insert(w)
      <3>1. Entry(answer[w]) \in Entries
        BY <1>0
      <3>2. cache' = [cache EXCEPT ![At(w)] = Entry(answer[w])] /\ tainted' \subseteq tainted
        BY <2>8 DEF Insert, Heard
      <3> QED  BY <2>1, <2>2, <2>8, <3>1, <3>2 DEF Insert, TypeOK
    <2>9. CASE Invalidate(w)
      BY <2>1, <2>2, <2>9 DEF Invalidate, TypeOK
    <2>10. CASE InvalidatePrefix(w)
      BY <2>1, <2>2, <2>10 DEF InvalidatePrefix, TypeOK
    <2>11. CASE List(w)
      <3>1. todo' \in [Workers -> Seq(Steps)]
        BY <2>11, ListingIsSteps DEF TypeOK
      <3> QED  BY <2>11, <3>1 DEF List, TypeOK
    <2>12. CASE InsertListed(w)
      <3>1. Head(todo[w]).to \in Metas
        <4>1. Head(todo[w]) = todo[w][1] /\ 1 \in 1..Len(todo[w])
          BY <2>0, HeadIsAStep
        <4>2. todo[w][1].do = "insert_listed"
          BY <2>12, <4>1 DEF InsertListed, Now
        <4> QED  BY <4>1, <4>2 DEF WellOrdered, Good
      <3>2. Entry(Head(todo[w]).to) \in Entries
        BY <1>0, <3>1
      <3>3. cache' = [cache EXCEPT ![At(w)] = Entry(Head(todo[w]).to)] /\ tainted' \subseteq tainted
        BY <2>12 DEF InsertListed, Heard
      <3> QED  BY <2>1, <2>12, <3>2, <3>3 DEF InsertListed, Proceed, TypeOK
    <2>13. CASE Command(w)
      <3>1. device' \in [Paths -> Metas]
        BY <2>1, <2>13, OutcomesAreDevices DEF Command
      <3> QED  BY <2>2, <2>13, <3>1 DEF Command, TypeOK
    <2>14. CASE CommandFail(w)
      <3>1. device' \in [Paths -> Metas] /\ tainted' \subseteq Paths
        BY <2>1, <2>14, OutcomesAreDevices DEF CommandFail, TypeOK, Changed
      <3> QED  BY <2>3, <2>14, <3>1 DEF CommandFail, TypeOK
    <2> QED  BY <1>2, <2>4, <2>5, <2>6, <2>7, <2>8, <2>9, <2>10, <2>11, <2>12, <2>13, <2>14 DEF Step
  <1>3. ASSUME NEW p \in Paths, Outside(p)
        PROVE  TypeOK'
    BY <1>3 DEF Outside, TypeOK
  <1>4. ASSUME NEW p \in Paths, Expire(p)
        PROVE  TypeOK'
    BY <1>4 DEF Expire, Fresh, TypeOK, Entries
  <1>5. CASE UNCHANGED vars
    BY <1>5 DEF vars, TypeOK
  <1> QED  BY <1>1, <1>2, <1>3, <1>4, <1>5 DEF Next


\* Nor does one put what is left into disorder.
LEMMA OrderStays == TypeOK /\ WellOrdered /\ [Next]_vars => WellOrdered'
  <1> SUFFICES ASSUME TypeOK, WellOrdered, [Next]_vars
               PROVE  WellOrdered'
    OBVIOUS
  <1>0. Good(<<>>)
    BY DEF Good
  <1>1. ASSUME NEW w \in Workers, NEW h \in Handlers, Request(w, h)
        PROVE  WellOrdered'
    <2>1. Good(h)
      BY HandlersInOrder DEF InOrder
    <2> QED  BY <1>1, <2>1 DEF TypeOK, Request, WellOrdered
  <1>2. ASSUME NEW w \in Workers, Step(w)
        PROVE  WellOrdered'
    <2>0. ~Idle(w)
      BY <1>2 DEF Step, GetHit, GetMiss, Stat, StatFail, Insert, Invalidate, InvalidatePrefix,
                  List, InsertListed, Command, CommandFail, Now
    <2>1. Good(Tail(todo[w]))
      BY <2>0, HeadIsAStep, GoodTail DEF WellOrdered
    <2>2. ASSUME NEW t, Good(t), todo' = [todo EXCEPT ![w] = t]
          PROVE  WellOrdered'
      BY <2>2 DEF WellOrdered, TypeOK
    <2>3. ProceedOrReply(w) => WellOrdered'
      BY <2>0, <2>1, <2>2, OneStepOff
    <2>4. Reply(w) => WellOrdered'
      BY <1>0, <2>2 DEF Reply
    <2>5. Proceed(w) => WellOrdered'
      BY <2>1, <2>2 DEF Proceed
    <2>6. CASE GetMiss(w)
      <3> DEFINE t == todo[w]
                 u == <<Do("invalidate", At(w))>> \o Tail(t)
      <3>1. /\ t \in Seq(Steps) /\ t # <<>> /\ Len(t) \in Nat \ {0} /\ t[1].do = "get"
            /\ Tail(t) \in Seq(Steps) /\ At(w) \in Paths
        BY <2>0, <2>6, HeadIsAStep DEF GetMiss, Now
      <3>2. <<Do("invalidate", At(w))>> \in Seq(Steps)
        BY <3>1, DoIsAStep DEF Kinds
      <3>3. /\ u \in Seq(Steps) /\ Len(u) = Len(t)
            /\ u[1] = Do("invalidate", At(w))
            /\ \A k \in 2..Len(t) : u[k] = t[k]
        BY <3>1, <3>2
      <3>4. u[1].do = "invalidate"
        BY <3>1, <3>3, DoIsAStep DEF Kinds
      <3> HIDE DEF u
      <3>5. Good(t)
        BY DEF WellOrdered
      <3>6. Good(u)
        <4>1. \A k \in 1..Len(t) : t[k].do # "insert_listed"
          BY <3>1, <3>5 DEF Good
        <4>2. ASSUME NEW k \in 2..Len(t)
              PROVE  /\ u[k].do \in {"change", "mkdir", "rm"} => k < Len(u) /\ Clears(u[k + 1], u[k].path)
                     /\ u[k].do # "insert_listed"
          <5>1. k \in 1..Len(t) /\ u[k] = t[k] /\ (k < Len(t) => u[k + 1] = t[k + 1])
            BY <3>1, <3>3
          <5> QED  BY <3>3, <3>5, <4>1, <5>1 DEF Good
        <4>3. ASSUME NEW k \in 2..Len(t), u[k].do = "mv"
              PROVE  /\ u[k].to \in Paths
                     /\ k + 1 < Len(u)
                     /\ u[k + 1] = Do("invalidate_prefix", u[k].path)
                     /\ u[k + 2] = Do("invalidate_prefix", u[k].to)
          <5>1. k \in 1..Len(t) /\ u[k] = t[k]
            BY <3>1, <3>3
          <5>2. /\ t[k].to \in Paths
                /\ k + 1 < Len(t)
                /\ t[k + 1] = Do("invalidate_prefix", t[k].path)
                /\ t[k + 2] = Do("invalidate_prefix", t[k].to)
            BY <3>5, <4>3, <5>1 DEF Good
          <5>3. u[k + 1] = t[k + 1] /\ u[k + 2] = t[k + 2]
            BY <3>1, <3>3, <5>2
          <5> QED  BY <3>3, <5>1, <5>2, <5>3
        <4>4. ASSUME NEW k \in 2..Len(t), u[k].do = "insert"
              PROVE  u[k - 1].do \in {"stat", "stat_or_none"} /\ u[k - 1].path = u[k].path
          <5>1. k \in 1..Len(t) /\ u[k] = t[k] /\ k > 1
            BY <3>1, <3>3
          <5>2. t[k - 1].do \in {"stat", "stat_or_none"} /\ t[k - 1].path = t[k].path
            BY <3>5, <4>4, <5>1 DEF Good
          <5>3. k # 2
            BY <3>1, <5>2
          <5>4. u[k - 1] = t[k - 1]
            BY <3>1, <3>3, <5>3
          <5> QED  BY <5>1, <5>2, <5>4
        <4>5. \A k \in 1..Len(u) : k = 1 \/ k \in 2..Len(t)
          BY <3>1, <3>3
        <4> QED  BY <3>4, <4>2, <4>3, <4>4, <4>5 DEF Good
      <3>7. todo' = [todo EXCEPT ![w] = Tail(t)] \/ todo' = [todo EXCEPT ![w] = u]
        BY <2>6 DEF GetMiss, u
      <3> QED  BY <2>1, <2>2, <3>6, <3>7
    <2>7. CASE List(w)
      <3>1. Good(todo'[w])
        BY <2>7, ListingIsSteps DEF Good, TypeOK
      <3> QED  BY <2>2, <2>7, <3>1, ListingIsSteps
    <2> QED  BY <1>2, <2>3, <2>4, <2>5, <2>6, <2>7
             DEF Step, GetHit, Stat, StatFail, Insert, Invalidate, InvalidatePrefix,
                 InsertListed, Command, CommandFail
  <1>3. CASE UNCHANGED todo
    BY <1>3 DEF WellOrdered
  <1> QED  BY <1>1, <1>2, <1>3 DEF Next, Outside, Expire, vars


------------------------------------------------------------------------------
(***************************************************************************)
(* One thread.                                                             *)
(***************************************************************************)
CacheInv == WrongIsCovered /\ AnswerIsTrue /\ ListIsTrue

\* What the one thread that is at work knows of its steps.
LEMMA AtWork ==
  ASSUME NEW w \in Workers, Workers = {w}, TypeOK, WellOrdered, CacheInv, ~Idle(w)
  PROVE  /\ todo[w] \in Seq(Steps) /\ todo[w] # <<>> /\ Len(todo[w]) \in Nat \ {0}
         /\ Head(todo[w]) = todo[w][1] /\ todo[w][1] \in Steps
         /\ At(w) = todo[w][1].path /\ At(w) \in Paths
         /\ Len(Tail(todo[w])) = Len(todo[w]) - 1
         /\ \A k \in 1..(Len(todo[w]) - 1) : Tail(todo[w])[k] = todo[w][k + 1]
         /\ Good(todo[w])
         /\ \A p \in Paths \ tainted : Wrong(p) => Covered(todo[w], p)
  <1>1. /\ todo[w] \in Seq(Steps) /\ todo[w] # <<>> /\ Len(todo[w]) \in Nat \ {0}
        /\ Head(todo[w]) = todo[w][1] /\ todo[w][1] \in Steps
        /\ At(w) = todo[w][1].path /\ At(w) \in Paths
    BY HeadIsAStep DEF At
  <1>2. /\ Len(Tail(todo[w])) = Len(todo[w]) - 1
        /\ \A k \in 1..(Len(todo[w]) - 1) : Tail(todo[w])[k] = todo[w][k + 1]
    BY <1>1
  <1> QED  BY <1>1, <1>2 DEF WellOrdered, CacheInv, WrongIsCovered

\* Only an invalidation covers anything.
LEMMA NothingCovered ==
  ASSUME NEW t, NEW p, t[1].do \notin {"invalidate", "invalidate_prefix"}
  PROVE  ~Covered(t, p)
  BY DEF Covered, Clears

\* A listing alone is followed by more of it.
LEMMA NothingListed ==
  ASSUME NEW t \in Seq(Steps), t # <<>>, Good(t), t[1].do # "insert_listed"
  PROVE  \A k \in 1..Len(t) : t[k].do # "insert_listed"
  <1>1. 1 \in 1..Len(t)
    BY EmptySeq
  <1> QED  BY <1>1 DEF Good

\* A thread that is done has nothing to insert.
LEMMA NothingToInsert ==
  ASSUME NEW w \in Workers, Workers = {w}, todo'[w] = <<>>
  PROVE  AnswerIsTrue' /\ ListIsTrue'
  BY EmptySeq DEF AnswerIsTrue, ListIsTrue, Now, Idle

\* Taking a step off leaves an insertion first only behind a question, and a
\* listed one only behind another.
LEMMA OneOff ==
  ASSUME NEW w \in Workers, Workers = {w}, TypeOK, WellOrdered, CacheInv, ~Idle(w),
         todo' = [todo EXCEPT ![w] = Tail(todo[w])],
         todo[w][1].do \notin {"stat", "stat_or_none", "insert_listed"}
  PROVE  AnswerIsTrue' /\ ListIsTrue'
  <1> DEFINE t == todo[w]
  <1>1. /\ t \in Seq(Steps) /\ t # <<>> /\ Len(t) \in Nat \ {0} /\ Good(t)
        /\ Len(Tail(t)) = Len(t) - 1 /\ Tail(t) \in Seq(Steps)
        /\ \A k \in 1..(Len(t) - 1) : Tail(t)[k] = t[k + 1]
    BY AtWork, HeadIsAStep
  <1>2. todo'[w] = Tail(t)
    BY DEF TypeOK
  <1> HIDE DEF t
  <1>3. \A k \in 1..Len(Tail(t)) : Tail(t)[k] = t[k + 1] /\ k + 1 \in 1..Len(t)
    BY <1>1
  <1>4. \A k \in 1..Len(t) : t[k].do # "insert_listed"
    BY <1>1, NothingListed DEF t
  <1>5. ListIsTrue'
    <2>1. \A k \in 1..Len(todo'[w]) : todo'[w][k].do # "insert_listed"
      BY <1>2, <1>3, <1>4
    <2>2. SUFFICES ASSUME NEW v \in Workers, NEW k \in 1..Len(todo'[v]),
                          todo'[v][k].do = "insert_listed"
                   PROVE  FALSE
      BY Zenon DEF ListIsTrue
    <2> QED  BY <2>1, <2>2
  <1>6. ASSUME Tail(t) # <<>>, Tail(t)[1].do = "insert"
        PROVE  FALSE
    <2>1. 1 \in 1..Len(Tail(t))
      BY <1>1, <1>6, EmptySeq
    <2>2. 2 \in 1..Len(t) /\ t[2].do = "insert"
      BY <1>3, <1>6, <2>1
    <2>3. t[1].do \in {"stat", "stat_or_none"}
      BY <1>1, <2>2 DEF Good
    <2> QED  BY <2>3 DEF t
  <1>7. Tail(t) # <<>> => Head(Tail(t)) = Tail(t)[1]
    BY <1>1
  <1>8. AnswerIsTrue'
    BY <1>2, <1>6, <1>7 DEF AnswerIsTrue, Now, Idle
  <1> QED  BY <1>5, <1>8


\* What has a length has something in it.
LEMMA SomeLeft == \A s : Len(s) > 0 => s # <<>>
  <1>1. Len(<<>>) = 0
    OBVIOUS
  <1> QED  BY <1>1

\* A command changes paths that the very next steps clear.
LEMMA ChangesAreCovered ==
  ASSUME TypeOK, NEW t \in Seq(Steps), t # <<>>, Good(t),
         NEW new \in Outcomes(t[1]), NEW p \in Paths, new[p] # device[p]
  PROVE  /\ t[1].do \in {"change", "mkdir", "rm", "mv"}
         /\ Covered(Tail(t), p)
  <1>1. /\ Len(t) \in Nat \ {0} /\ 1 \in 1..Len(t) /\ t[1] \in Steps
        /\ Len(Tail(t)) = Len(t) - 1 /\ Tail(t) \in Seq(Steps)
        /\ \A k \in 1..(Len(t) - 1) : Tail(t)[k] = t[k + 1]
    BY EmptySeq
  <1>2. t[1].do \in {"change", "mkdir", "rm", "mv"}
    BY DEF Outcomes
  <1>3. CASE t[1].do \in {"change", "mkdir", "rm"}
    <2>1. Len(t) > 1 /\ Clears(t[2], t[1].path)
      BY <1>1, <1>3 DEF Good
    <2>2. p = t[1].path
      <3>1. device \in [Paths -> Metas] /\ t[1].path \in Paths
        BY <1>1 DEF TypeOK, Steps
      <3>2. CASE t[1].do \in {"change", "mkdir"}
        BY <3>1, <3>2 DEF Outcomes
      <3>3. CASE t[1].do = "rm"
        BY <3>1, <3>3 DEF Outcomes
      <3> QED  BY <1>3, <3>2, <3>3
    <2>3. Tail(t) # <<>> /\ Tail(t)[1] = t[2]
      <3>1. 1 \in 1..(Len(t) - 1) /\ Len(Tail(t)) > 0
        BY <1>1, <2>1
      <3>2. Tail(t)[1] = t[1 + 1]
        BY <1>1, <3>1
      <3>3. Tail(t) # <<>>
        BY <3>1, SomeLeft
      <3> QED  BY <3>2, <3>3
    <2> QED  BY <1>2, <2>1, <2>2, <2>3 DEF Covered
  <1>4. CASE t[1].do = "mv"
    <2>0. /\ t[1].to \in Paths /\ 1 + 1 < Len(t)
          /\ t[1 + 1] = Do("invalidate_prefix", t[1].path)
          /\ t[1 + 2] = Do("invalidate_prefix", t[1].to)
      BY <1>1, <1>4 DEF Good
    <2>1. /\ Len(t) > 2 /\ t[1].path \in Paths /\ t[1].to \in Paths
          /\ t[2] = Do("invalidate_prefix", t[1].path)
          /\ t[3] = Do("invalidate_prefix", t[1].to)
      BY <1>1, <2>0 DEF Steps
    <2>2. /\ Len(Tail(t)) > 1 /\ Tail(t) # <<>> /\ Tail(t)[1] = t[2] /\ Tail(t)[2] = t[3]
      <3>1. 1 \in 1..(Len(t) - 1) /\ 2 \in 1..(Len(t) - 1) /\ Len(Tail(t)) > 1
        BY <1>1, <2>1
      <3>2. Tail(t)[1] = t[1 + 1] /\ Tail(t)[2] = t[2 + 1]
        BY <1>1, <3>1
      <3>3. Len(Tail(t)) > 0
        BY <1>1, <3>1
      <3>4. Tail(t) # <<>>
        BY <3>3, SomeLeft
      <3> QED  BY <3>1, <3>2, <3>4
    <2>3. Under(p, t[1].to) \/ Under(p, t[1].path)
      <3> DEFINE q == t[1].to
                 Source(r) == t[1].path \o SubSeq(r, Len(q) + 1, Len(r))
      <3>1. new = [r \in Paths |->
                     IF Under(r, q) THEN IF Source(r) \in Paths THEN device[Source(r)] ELSE Absent
                     ELSE IF Under(r, t[1].path) THEN Absent ELSE device[r]]
        BY <1>4 DEF Outcomes
      <3> HIDE DEF Source
      <3> QED  BY <3>1
    <2>4. /\ t[2].do = "invalidate_prefix" /\ t[2].path = t[1].path
          /\ t[3].do = "invalidate_prefix" /\ t[3].path = t[1].to
      BY <2>1, DoIsAStep DEF Kinds
    <2> QED  BY <1>2, <2>2, <2>3, <2>4 DEF Covered, Clears
  <1> QED  BY <1>2, <1>3, <1>4

\* Each step of the one thread keeps the cache right, or about to be.
LEMMA StepKeepsCache ==
  ASSUME NEW w \in Workers, Workers = {w}, TypeOK, WellOrdered, CacheInv, Step(w)
  PROVE  CacheInv'
  <1> DEFINE t == todo[w]
  <1>0. ~Idle(w)
    BY DEF Step, GetHit, GetMiss, Stat, StatFail, Insert, Invalidate, InvalidatePrefix,
           List, InsertListed, Command, CommandFail, Now
  <1>1. /\ t \in Seq(Steps) /\ t # <<>> /\ Len(t) \in Nat \ {0}
        /\ Head(t) = t[1] /\ t[1] \in Steps /\ Tail(t) \in Seq(Steps)
        /\ At(w) = t[1].path /\ At(w) \in Paths
        /\ Len(Tail(t)) = Len(t) - 1
        /\ \A k \in 1..(Len(t) - 1) : Tail(t)[k] = t[k + 1]
        /\ Good(t)
        /\ \A p \in Paths \ tainted : Wrong(p) => Covered(t, p)
    BY <1>0, AtWork, HeadIsAStep
  <1>2. ASSUME t[1].do \notin {"invalidate", "invalidate_prefix"}
        PROVE  \A p \in Paths \ tainted : ~Wrong(p)
    BY <1>1, <1>2, NothingCovered
  <1>3. /\ todo \in [Workers -> Seq(Steps)] /\ device \in [Paths -> Metas]
        /\ cache \in [Paths -> Entries \cup {NoEntry}] /\ answer \in [Workers -> Metas]
    BY DEF TypeOK
  <1> HIDE DEF t
  <1>4. ASSUME \A p \in Paths \ tainted' : ~Wrong(p)'
        PROVE  WrongIsCovered'
    BY <1>4 DEF WrongIsCovered
  <1>5. ASSUME UNCHANGED <<device, cache>>, tainted \subseteq tainted',
               t[1].do \notin {"invalidate", "invalidate_prefix"}
        PROVE  WrongIsCovered'
    BY <1>2, <1>4, <1>5 DEF Wrong, Hit, Fresh
  <1>6. ASSUME Reply(w)
        PROVE  AnswerIsTrue' /\ ListIsTrue'
    BY <1>3, <1>6, NothingToInsert DEF Reply
  <1>7. ASSUME ProceedOrReply(w)
        PROVE  todo'[w] = Tail(t)
    BY <1>0, <1>3, <1>7, OneStepOff DEF t
  <1>8. ASSUME ProceedOrReply(w), t[1].do \notin {"stat", "stat_or_none", "insert_listed"}
        PROVE  AnswerIsTrue' /\ ListIsTrue'
    BY <1>0, <1>8, OneStepOff, OneOff DEF t
  <1>9. \A k \in 1..Len(Tail(t)) : Tail(t)[k] = t[k + 1] /\ k + 1 \in 1..Len(t)
    BY <1>1
  <1>10. CASE GetHit(w)
    BY <1>1, <1>5, <1>6, <1>10 DEF GetHit, Now, CacheInv, t
  <1>11. CASE StatFail(w)
    BY <1>1, <1>5, <1>6, <1>11 DEF StatFail, Now, CacheInv, t
  <1>12. CASE GetMiss(w)
    <2>1. t[1].do = "get"
      BY <1>1, <1>12 DEF GetMiss, Now, t
    <2>2. WrongIsCovered'
      BY <1>5, <1>12, <2>1 DEF GetMiss
    <2>3. CASE todo' = [todo EXCEPT ![w] = Tail(t)]
      <3>1. AnswerIsTrue' /\ ListIsTrue'
        BY <1>0, <2>1, <2>3, OneOff DEF t
      <3> QED  BY <2>2, <3>1 DEF CacheInv
    <2>4. CASE todo' = [todo EXCEPT ![w] = <<Do("invalidate", At(w))>> \o Tail(t)]
      <3> DEFINE u == <<Do("invalidate", At(w))>> \o Tail(t)
      <3>1. <<Do("invalidate", At(w))>> \in Seq(Steps)
        BY <1>1, DoIsAStep DEF Kinds
      <3>2. /\ u \in Seq(Steps) /\ Len(u) = Len(t) /\ u[1] = Do("invalidate", At(w))
            /\ \A k \in 2..Len(t) : u[k] = t[k]
        BY <1>1, <3>1
      <3>3. u[1].do = "invalidate"
        BY <1>1, <3>2, DoIsAStep DEF Kinds
      <3>4. todo'[w] = u
        BY <1>3, <2>4
      <3> HIDE DEF u
      <3>5. \A k \in 1..Len(u) : u[k].do # "insert_listed"
        <4>1. \A k \in 1..Len(t) : t[k].do # "insert_listed"
          BY <1>1, <2>1, NothingListed
        <4>2. \A k \in 1..Len(u) : k = 1 \/ k \in 2..Len(t)
          BY <1>1, <3>2
        <4> QED  BY <1>1, <3>2, <3>3, <4>1, <4>2
      <3>6. Head(u) = u[1]
        BY <1>1, <3>2, SomeLeft
      <3>7. AnswerIsTrue'
        BY <3>3, <3>4, <3>6 DEF AnswerIsTrue, Now
      <3>8. ListIsTrue'
        <4> SUFFICES ASSUME NEW v \in Workers, NEW k \in 1..Len(todo'[v]),
                            todo'[v][k].do = "insert_listed"
                     PROVE  FALSE
          BY Zenon DEF ListIsTrue
        <4> QED  BY <3>4, <3>5
      <3> QED  BY <2>2, <3>7, <3>8 DEF CacheInv
    <2> QED  BY <1>12, <2>3, <2>4 DEF GetMiss, t
  <1>13. CASE Stat(w)
    <2>1. t[1].do \in {"stat", "stat_or_none"}
      BY <1>1, <1>13 DEF Stat, Now, t
    <2>2. WrongIsCovered'
      BY <1>5, <1>13, <2>1 DEF Stat
    <2>3. todo'[w] = Tail(t) /\ answer'[w] = device[t[1].path]
      BY <1>1, <1>3, <1>13 DEF Stat, Proceed, t
    <2>4. ASSUME Tail(t) # <<>>, Head(Tail(t)).do = "insert"
          PROVE  Head(Tail(t)).path = t[1].path
      <3>1. 1 \in 1..Len(Tail(t)) /\ Head(Tail(t)) = Tail(t)[1]
        BY <1>1, <2>4, EmptySeq
      <3>2. 2 \in 1..Len(t) /\ Head(Tail(t)) = t[2]
        BY <1>9, <3>1
      <3>3. t[2 - 1].path = t[2].path
        BY <1>1, <2>4, <3>2 DEF Good
      <3> QED  BY <3>2, <3>3
    <2>5. AnswerIsTrue'
      <3> SUFFICES ASSUME (Now(w, "insert"))'
                   PROVE  answer'[w] = device'[At(w)']
        BY DEF AnswerIsTrue
      <3> QED  BY <1>13, <2>3, <2>4 DEF Stat, Now, Idle, At
    <2>6. ListIsTrue'
      <3>1. \A k \in 1..Len(t) : t[k].do # "insert_listed"
        BY <1>1, <2>1, NothingListed
      <3> SUFFICES ASSUME NEW v \in Workers, NEW k \in 1..Len(todo'[v]),
                          todo'[v][k].do = "insert_listed"
                   PROVE  FALSE
        BY Zenon DEF ListIsTrue
      <3> QED  BY <1>9, <2>3, <3>1
    <2> QED  BY <2>2, <2>5, <2>6 DEF CacheInv
  <1>14. CASE Insert(w)
    <2> DEFINE q == At(w)
               m == answer[w]
    <2>1. t[1].do = "insert"
      BY <1>1, <1>14 DEF Insert, Now, t
    <2>2. q \in tainted \/ m = device[q]
      BY <1>14 DEF Insert, CacheInv, AnswerIsTrue
    <2>3. /\ cache' = [cache EXCEPT ![q] = Entry(m)] /\ device' = device
          /\ tainted' = IF q \in tainted /\ m # device[q] THEN tainted ELSE tainted \ {q}
      BY <1>14 DEF Insert, Heard
    <2>4. ASSUME NEW p \in Paths \ tainted'
          PROVE  ~Wrong(p)'
      <3>1. CASE p = q
        <4>1. m = device[q]
          BY <2>2, <2>3, <3>1
        <4> QED  BY <1>1, <1>3, <2>3, <3>1, <4>1 DEF Wrong, Entry
      <3>2. CASE p # q
        BY <1>2, <1>3, <2>1, <2>3, <3>2 DEF Wrong, Hit, Fresh
      <3> QED  BY <3>1, <3>2
    <2> QED  BY <1>4, <1>8, <1>14, <2>1, <2>4 DEF Insert, CacheInv
  <1>15. CASE Invalidate(w)
    <2>1. t[1].do = "invalidate"
      BY <1>1, <1>15 DEF Invalidate, Now, t
    <2>2. ASSUME NEW p \in Paths \ tainted'
          PROVE  ~Wrong(p)'
      <3>1. CASE p = At(w)
        BY <1>1, <1>3, <1>15, <3>1 DEF Invalidate, Wrong, Hit, Fresh
      <3>2. CASE p # At(w)
        <4>1. ~Covered(t, p)
          BY <1>1, <2>1, <3>2 DEF Covered, Clears
        <4>2. ~Wrong(p)
          BY <1>1, <1>15, <3>2, <4>1 DEF Invalidate
        <4> QED  BY <1>3, <1>15, <3>2, <4>2 DEF Invalidate, Wrong, Hit, Fresh
      <3> QED  BY <3>1, <3>2
    <2> QED  BY <1>4, <1>8, <1>15, <2>1, <2>2 DEF Invalidate, CacheInv
  <1>16. CASE InvalidatePrefix(w)
    <2>1. t[1].do = "invalidate_prefix"
      BY <1>1, <1>16 DEF InvalidatePrefix, Now, t
    <2>2. ASSUME NEW p \in Paths \ tainted', Wrong(p)'
          PROVE  Covered(todo'[w], p)
      <3>1. ~Under(p, At(w))
        BY <1>3, <1>16, <2>2 DEF InvalidatePrefix, Wrong, Hit, Fresh
      <3>2. Wrong(p) /\ p \notin tainted
        BY <1>3, <1>16, <2>2, <3>1 DEF InvalidatePrefix, Wrong, Hit, Fresh
      <3>3. Len(t) > 1 /\ Clears(t[2], p)
        BY <1>1, <2>1, <3>1, <3>2 DEF Covered, Clears
      <3>4. 1 \in 1..(Len(t) - 1) /\ Len(Tail(t)) > 0
        BY <1>1, <3>3
      <3>5. Tail(t)[1] = t[1 + 1] /\ Tail(t) # <<>>
        BY <1>1, <3>4, SomeLeft
      <3> QED  BY <1>7, <1>16, <3>3, <3>5 DEF InvalidatePrefix, Covered
    <2>3. WrongIsCovered'
      BY <2>2 DEF WrongIsCovered
    <2> QED  BY <1>8, <1>16, <2>1, <2>3 DEF InvalidatePrefix, CacheInv
  <1>17. CASE List(w)
    <2>1. t[1].do = "list"
      BY <1>1, <1>17 DEF List, Now, t
    <2>2. WrongIsCovered'
      BY <1>5, <1>17, <2>1 DEF List
    <2> DEFINE u == todo'[w]
    <2>3. /\ u \in Seq(Steps)
          /\ \A k \in 1..Len(u) : /\ u[k].do = "insert_listed" /\ u[k].path \in Paths
                                  /\ u[k].to = device[u[k].path]
      BY <1>17, ListingIsSteps
    <2> HIDE DEF u
    <2>4. u # <<>> => Head(u).do = "insert_listed"
      <3>1. u # <<>> => 1 \in 1..Len(u) /\ Head(u) = u[1]
        BY <2>3, EmptySeq
      <3> QED  BY <2>3, <3>1
    <2>5. AnswerIsTrue'
      BY <2>4 DEF AnswerIsTrue, Now, Idle, u
    <2>6. ListIsTrue'
      <3>1. device' = device
        BY <1>17 DEF List
      <3>2. \A k, j \in 1..Len(u) : /\ u[k].to = device'[u[k].path]
                                    /\ u[j].path = u[k].path => u[j].to = u[k].to
        BY <2>3, <3>1
      <3> QED  BY <3>2 DEF ListIsTrue, u
    <2> QED  BY <2>2, <2>5, <2>6 DEF CacheInv
  <1>18. CASE InsertListed(w)
    <2> DEFINE q == At(w)
               m == t[1].to
    <2>1. t[1].do = "insert_listed"
      BY <1>1, <1>18 DEF InsertListed, Now, t
    <2>2. /\ q \in tainted \/ m = device[q]
          /\ \A j \in 1..Len(t) : t[j].path = q => t[j].to = m
      BY <1>1, <2>1 DEF CacheInv, ListIsTrue, t
    <2>3. /\ cache' = [cache EXCEPT ![q] = Entry(m)] /\ device' = device
          /\ tainted' = IF q \in tainted /\ m # device[q] THEN tainted ELSE tainted \ {q}
          /\ todo' = [todo EXCEPT ![w] = Tail(t)]
      BY <1>1, <1>18 DEF InsertListed, Heard, Proceed, t
    <2>4. ASSUME NEW p \in Paths \ tainted'
          PROVE  ~Wrong(p)'
      <3>1. CASE p = q
        <4>1. m = device[q]
          BY <2>2, <2>3, <3>1
        <4> QED  BY <1>1, <1>3, <2>3, <3>1, <4>1 DEF Wrong, Entry
      <3>2. CASE p # q
        BY <1>2, <1>3, <2>1, <2>3, <3>2 DEF Wrong, Hit, Fresh
      <3> QED  BY <3>1, <3>2
    <2>5. todo'[w] = Tail(t)
      BY <1>3, <2>3
    <2>6. \A k \in 1..Len(t) : t[k].do = "insert_listed"
      BY <1>1, <2>1 DEF Good
    <2>7. AnswerIsTrue'
      <3>1. Tail(t) # <<>> => Head(Tail(t)) = Tail(t)[1] /\ 1 \in 1..Len(Tail(t))
        BY <1>1, EmptySeq
      <3>2. Tail(t) # <<>> => Head(Tail(t)).do = "insert_listed"
        BY <1>9, <2>6, <3>1
      <3> QED  BY <2>5, <3>2 DEF AnswerIsTrue, Now, Idle
    <2>8. ASSUME NEW k \in 1..Len(Tail(t))
          PROVE  /\ Tail(t)[k].path \in tainted' \/ Tail(t)[k].to = device'[Tail(t)[k].path]
                 /\ \A j \in 1..Len(Tail(t)) :
                      Tail(t)[j].path = Tail(t)[k].path => Tail(t)[j].to = Tail(t)[k].to
      <3>1. /\ k + 1 \in 1..Len(t) /\ Tail(t)[k] = t[k + 1]
            /\ \A j \in 1..Len(Tail(t)) : j + 1 \in 1..Len(t) /\ Tail(t)[j] = t[j + 1]
        BY <1>9
      <3>2. /\ t[k + 1].path \in tainted \/ t[k + 1].to = device[t[k + 1].path]
            /\ \A j \in 1..Len(t) : t[j].path = t[k + 1].path => t[j].to = t[k + 1].to
        BY <2>6, <3>1 DEF CacheInv, ListIsTrue, t
      <3>3. t[k + 1].path \in tainted' \/ t[k + 1].to = device[t[k + 1].path]
        BY <2>2, <2>3, <3>1, <3>2
      <3> QED  BY <2>3, <3>1, <3>2, <3>3
    <2>9. ListIsTrue'
      <3> DEFINE u == Tail(t)
      <3>1. \A k \in 1..Len(u) :
              /\ u[k].path \in tainted' \/ u[k].to = device'[u[k].path]
              /\ \A j \in 1..Len(u) : u[j].path = u[k].path => u[j].to = u[k].to
        BY <2>8
      <3>2. todo'[w] = u
        BY <2>5
      <3> HIDE DEF u
      <3> QED  BY <3>1, <3>2 DEF ListIsTrue
    <2> QED  BY <1>4, <2>4, <2>7, <2>9 DEF CacheInv
  <1>19. CASE Command(w)
    <2>1. PICK new \in Outcomes(t[1]) : device' = new
      BY <1>1, <1>19 DEF Command, t
    <2>2. todo'[w] = Tail(t) /\ UNCHANGED <<cache, tainted>>
      BY <1>7, <1>19 DEF Command
    <2>3. t[1].do \in {"change", "mkdir", "rm", "mv"}
      BY <2>1 DEF Outcomes
    <2>4. ASSUME NEW p \in Paths \ tainted', Wrong(p)'
          PROVE  Covered(todo'[w], p)
      <3>1. ~Wrong(p)
        BY <1>2, <2>2, <2>3
      <3>2. device'[p] # device[p]
        BY <2>2, <2>4, <3>1 DEF Wrong, Hit, Fresh
      <3> QED  BY <1>1, <2>1, <2>2, <3>2, ChangesAreCovered
    <2>5. WrongIsCovered'
      BY <2>4 DEF WrongIsCovered
    <2> QED  BY <1>8, <1>19, <2>3, <2>5 DEF Command, CacheInv
  <1>20. CASE CommandFail(w)
    <2>1. t[1].do \in {"change", "mkdir", "rm", "mv", "list"}
      BY <1>1, <1>20 DEF CommandFail, t
    <2>2. ASSUME NEW p \in Paths \ tainted'
          PROVE  ~Wrong(p)'
      <3>1. p \notin tainted /\ device'[p] = device[p] /\ cache' = cache
        BY <1>20 DEF CommandFail, Changed
      <3> QED  BY <1>2, <2>1, <3>1 DEF Wrong, Hit, Fresh
    <2> QED  BY <1>4, <1>6, <1>20, <2>2 DEF CommandFail, CacheInv
  <1> QED  BY <1>10, <1>11, <1>12, <1>13, <1>14, <1>15, <1>16, <1>17, <1>18, <1>19, <1>20 DEF Step


\* A request comes, another program writes, time passes, or nothing happens.
LEMMA OthersKeepCache ==
  ASSUME NEW w \in Workers, Workers = {w}, TypeOK, WellOrdered, CacheInv
  PROVE  /\ \A h \in Handlers : Request(w, h) => CacheInv'
         /\ \A p \in Paths : Outside(p) \/ Expire(p) => CacheInv'
         /\ UNCHANGED vars => CacheInv'
  <1>1. /\ todo \in [Workers -> Seq(Steps)] /\ device \in [Paths -> Metas]
        /\ cache \in [Paths -> Entries \cup {NoEntry}]
    BY DEF TypeOK
  <1>2. ASSUME NEW h \in Handlers, Request(w, h)
        PROVE  CacheInv'
    <2>1. InOrder(h) /\ todo'[w] = h /\ todo[w] = <<>>
      BY <1>1, <1>2, HandlersInOrder DEF Request, Idle
    <2>2. \A p \in Paths \ tainted : ~Wrong(p)
      <3>1. \A p : ~Covered(<<>>, p)
        BY EmptySeq DEF Covered
      <3> QED  BY <2>1, <3>1 DEF CacheInv, WrongIsCovered
    <2>3. WrongIsCovered'
      BY <1>2, <2>2 DEF Request, WrongIsCovered, Wrong, Hit, Fresh
    <2>4. h \in Seq(Steps) /\ (h # <<>> => Head(h) = h[1] /\ h[1].do \notin {"insert", "insert_listed"})
      BY <2>1 DEF InOrder, Opens
    <2>5. AnswerIsTrue'
      BY <2>1, <2>4 DEF AnswerIsTrue, Now, Idle
    <2>6. \A k \in 1..Len(h) : h[k].do # "insert_listed"
      <3>1. CASE h = <<>>
        BY <3>1, EmptySeq
      <3>2. CASE h # <<>>
        BY <2>1, <2>4, <3>2, NothingListed DEF InOrder
      <3> QED  BY <3>1, <3>2
    <2>7. ListIsTrue'
      <3> SUFFICES ASSUME NEW v \in Workers, NEW k \in 1..Len(todo'[v]),
                          todo'[v][k].do = "insert_listed"
                   PROVE  FALSE
        BY Zenon DEF ListIsTrue
      <3> QED  BY <2>1, <2>6
    <2> QED  BY <2>3, <2>5, <2>7 DEF CacheInv
  <1>3. ASSUME NEW p \in Paths, Outside(p)
        PROVE  CacheInv'
    <2>1. /\ \A q : q # p => device'[q] = device[q]
          /\ tainted' = tainted \cup {p} /\ UNCHANGED <<cache, todo, answer>>
      BY <1>1, <1>3 DEF Outside
    <2>2. WrongIsCovered'
      BY <2>1 DEF CacheInv, WrongIsCovered, Wrong, Hit, Fresh
    <2>3. AnswerIsTrue'
      BY <2>1 DEF CacheInv, AnswerIsTrue, Now, Idle, At
    <2>4. ListIsTrue'
      BY <2>1 DEF CacheInv, ListIsTrue
    <2> QED  BY <2>2, <2>3, <2>4 DEF CacheInv
  <1>4. ASSUME NEW p \in Paths, Expire(p)
        PROVE  CacheInv'
    <2>1. /\ \A q \in Paths : q # p => cache'[q] = cache[q]
          /\ cache'[p].old
          /\ UNCHANGED <<device, todo, answer, tainted>>
      BY <1>1, <1>4 DEF Expire, Fresh, Entries
    <2>2. WrongIsCovered'
      BY <2>1 DEF CacheInv, WrongIsCovered, Wrong, Hit, Fresh
    <2> QED  BY <2>1, <2>2 DEF CacheInv, AnswerIsTrue, ListIsTrue, Now, Idle, At
  <1>5. ASSUME UNCHANGED vars
        PROVE  CacheInv'
    BY <1>5 DEF vars, CacheInv, WrongIsCovered, AnswerIsTrue, ListIsTrue, Wrong, Hit, Fresh,
                Now, Idle, At
  <1> QED  BY <1>2, <1>3, <1>4, <1>5

\* The cache starts empty.
LEMMA CacheInvFirst == Init => TypeOK /\ WellOrdered /\ CacheInv
  <1> SUFFICES ASSUME Init
               PROVE  TypeOK /\ WellOrdered /\ CacheInv
    OBVIOUS
  <1>1. \A w \in Workers : todo[w] = <<>>
    BY DEF Init
  <1>2. TypeOK
    BY EmptySeq DEF Init, TypeOK, Metas
  <1>3. WellOrdered
    BY <1>1, EmptySeq DEF WellOrdered, Good
  <1>4. \A p \in Paths : ~Wrong(p)
    BY DEF Init, Wrong, Hit, Fresh
  <1> QED  BY <1>1, <1>2, <1>3, <1>4, EmptySeq
           DEF CacheInv, WrongIsCovered, AnswerIsTrue, ListIsTrue, Now, Idle

(***************************************************************************)
(* However many workers fill it, an entry that cache.insert keeps is       *)
(* metadata or a negative entry with its age, and what the handlers have   *)
(* left to do are steps about paths.  It needs the order of the steps: the *)
(* entries of opendir come with metadata only because the list is made     *)
(* whole and nothing is put in between.                                    *)
(***************************************************************************)
THEOREM CacheTypeCorrect == Spec => []TypeOK
  <1>1. Init => TypeOK /\ WellOrdered
    BY CacheInvFirst
  <1>2. (TypeOK /\ WellOrdered) /\ [Next]_vars => (TypeOK /\ WellOrdered)'
    BY TypesStay, OrderStays
  <1> QED  BY <1>1, <1>2, PTL DEF Spec

(***************************************************************************)
(* With one thread every handler has cleared what its command made wrong   *)
(* (cache.invalidate and invalidate_prefix of cache.rs) by the time it     *)
(* replies: between requests a hit is what the device would say, but for   *)
(* what another program changed or a command that reported an error.       *)
(***************************************************************************)
THEOREM OneThreadHasTheTruth ==
  ASSUME OneThread
  PROVE  Spec => []CacheIsCurrent
  <1> DEFINE IInv == TypeOK /\ WellOrdered /\ CacheInv
  <1>1. PICK w : Workers = {w}
    BY DEF OneThread
  <1>2. Init => IInv
    BY CacheInvFirst
  <1>3. IInv /\ [Next]_vars => IInv'
    <2> SUFFICES ASSUME IInv, [Next]_vars
                 PROVE  CacheInv'
      BY TypesStay, OrderStays
    <2> QED  BY <1>1, StepKeepsCache, OthersKeepCache DEF Next
  <1>4. IInv => CacheIsCurrent
    <2> SUFFICES ASSUME CacheInv, Idle(w), NEW p \in Paths \ tainted, Hit(p)
                 PROVE  cache[p].meta = device[p]
      BY <1>1 DEF CacheIsCurrent
    <2>1. ~Covered(<<>>, p)
      BY EmptySeq DEF Covered
    <2> QED  BY <1>1, <2>1 DEF CacheInv, WrongIsCovered, Wrong, Idle
  <1> HIDE DEF IInv
  <1> QED  BY <1>2, <1>3, <1>4, PTL DEF Spec
=============================================================================
