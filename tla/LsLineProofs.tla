----------------------------- MODULE LsLineProofs -----------------------------
(***************************************************************************)
(* Proofs about the texts that adbfs writes and reads: the device's shell  *)
(* takes a quoted path for what it is, and what parse.rs makes of a line   *)
(* of `ls` is the file the device printed.                                 *)
(*                                                                         *)
(* A text may have any length, so the arguments are by induction on it: a  *)
(* fold is a run of states, one for each piece (a[0], a[1], ...), and what *)
(* holds of the first state and is kept by each piece holds of the last.   *)
(***************************************************************************)
EXTENDS LsLine, SequenceTheorems, WellFoundedInduction, TLAPS

(***************************************************************************)
(* Numbers.                                                                *)
(***************************************************************************)

\* The least of one number.
LEMMA LeastOfOne == \A k \in Nat : Min({k}) = k
  BY DEF Min

\* The natural numbers, by size, are well founded.
Less == {p \in Nat \X Nat : p[1] < p[2]}

LEMMA LessIsWellFounded == IsWellFoundedOn(Less, Nat)
  BY NatLessThanWellFounded DEF OpToRel, Less

\* The least of a set of numbers is one of them.
LEMMA LeastIsThere ==
  ASSUME NEW I, I \subseteq Nat, I # {}
  PROVE  Min(I) \in I /\ \A y \in I : Min(I) =< y
  <1>1. PICK x \in I : \A y \in I : <<y, x>> \notin Less
    BY LessIsWellFounded, WFMin
  <1>2. \A y \in I : x =< y
    <2>1. \A y \in I : ~ (y < x)
      BY <1>1 DEF Less
    <2> QED  BY <2>1
  <1> QED  BY <1>2 DEF Min

\* Induction, over a set: what has 0 and the successors of all it has is all of Nat.
LEMMA Successors ==
  ASSUME NEW S \in SUBSET Nat, 0 \in S, \A n \in S : n + 1 \in S
  PROVE  S = Nat
  <1> SUFFICES ASSUME Nat \ S # {} PROVE FALSE
    OBVIOUS
  <1> DEFINE x == Min(Nat \ S)
  <1>1. x \in Nat \ S /\ \A y \in Nat \ S : x =< y
    BY LeastIsThere
  <1> HIDE DEF x
  <1>2. x - 1 \in S
    <2>1. x \in Nat /\ x # 0
      BY <1>1
    <2>2. x - 1 \in Nat /\ ~ (x =< x - 1)
      BY <2>1
    <2> QED  BY <1>1, <2>2
  <1>3. x - 1 + 1 = x
    BY <1>1
  <1> QED  BY <1>1, <1>2, <1>3

\* The same up to a number.
LEMMA UpTo ==
  ASSUME NEW m \in Nat, NEW S, 0 \in S, \A n \in 0..m - 1 : n \in S => n + 1 \in S
  PROVE  0..m \subseteq S
  <1> DEFINE T == {n \in Nat : n =< m => n \in S}
  <1>1. 0 \in T
    OBVIOUS
  <1>2. ASSUME NEW n \in T PROVE n + 1 \in T
    <2>1. n \in Nat /\ (n =< m => n \in S)
      OBVIOUS
    <2>2. n + 1 \in Nat /\ (n + 1 =< m => n \in 0..m - 1)
      BY <2>1
    <2> QED  BY <2>1, <2>2
  <1>3. T = Nat
    <2>1. T \in SUBSET Nat
      OBVIOUS
    <2> HIDE DEF T
    <2> QED  BY <1>1, <1>2, <2>1, Successors
  <1> QED  BY <1>3

\* The greatest of a set of numbers that has a bound is one of them.
LEMMA GreatestIsThere ==
  ASSUME NEW n \in Nat, NEW s \in SUBSET (1..n), s # {}
  PROVE  Max(s) \in s /\ \A x \in s : x =< Max(s)
  <1> DEFINE over == {m \in Nat : \A x \in s : x =< m}
             top == Min(over)
  <1>1. n \in over
    OBVIOUS
  <1>2. top \in over /\ \A y \in over : top =< y
    <2>1. over \subseteq Nat /\ over # {}
      BY <1>1
    <2> HIDE DEF over
    <2> QED  BY <2>1, LeastIsThere
  <1> HIDE DEF top
  <1>3. top \in s
    <2> SUFFICES ASSUME top \notin s PROVE FALSE
      OBVIOUS
    <2>1. top \in Nat /\ \A x \in s : x =< top /\ x # top /\ x \in Nat /\ x >= 1
      BY <1>2
    <2>2. top - 1 \in over
      <3>1. ASSUME NEW x \in s PROVE x =< top - 1
        <4>1. x \in Nat /\ x =< top /\ x # top
          BY <2>1
        <4> QED  BY <2>1, <4>1
      <3>2. PICK z \in s : TRUE
        OBVIOUS
      <3>3. top - 1 \in Nat
        <4>1. z \in Nat /\ z >= 1 /\ z =< top
          BY <2>1
        <4> QED  BY <2>1, <4>1
      <3> QED  BY <3>1, <3>3
    <2> QED  BY <1>2, <2>1, <2>2
  <1>4. \A x \in s : x =< top
    BY <1>2
  <1>5. \A y \in s : (\A x \in s : x =< y) => y = top
    BY <1>2, <1>3
  <1> QED  BY <1>3, <1>4 DEF Max

\* The greatest of 1..n.
LEMMA GreatestOfAll == ASSUME NEW n \in Nat, n > 0 PROVE Max(1..n) = n
  <1>1. n \in 1..n /\ 1..n \in SUBSET (1..n)
    OBVIOUS
  <1>2. Max(1..n) \in 1..n /\ n =< Max(1..n)
    <2>1. 1..n # {}
      BY <1>1
    <2> QED  BY <1>1, <2>1, GreatestIsThere
  <1> QED  BY <1>2

------------------------------------------------------------------------------
(***************************************************************************)
(* Folds.                                                                  *)
(***************************************************************************)

\* iter does to the subsets of 1..n what a fold of the function step does.
Recursion(iter, n, step, base, seq) ==
  \A s \in SUBSET (1..n) :
    iter[s] = IF s = {} THEN base ELSE step[<<iter[s \ {Max(s)}], seq[Max(s)]>>]

\* There is one: an iter for 1..n gives one for 1..n + 1.
LEMMA FoldsExist ==
  ASSUME NEW T, NEW E, NEW base \in T, NEW step \in [T \X E -> T], NEW seq \in Seq(E)
  PROVE  \E iter \in [SUBSET (1..Len(seq)) -> T] : Recursion(iter, Len(seq), step, base, seq)
  <1> DEFINE S == {n \in 0..Len(seq) : \E iter \in [SUBSET (1..n) -> T] :
                                         Recursion(iter, n, step, base, seq)}
  <1>1. 0 \in S
    <2> DEFINE iter == [s \in SUBSET (1..0) |-> base]
    <2>1. 1..0 = {}
      OBVIOUS
    <2>2. iter \in [SUBSET (1..0) -> T]
      OBVIOUS
    <2>3. Recursion(iter, 0, step, base, seq)
      BY <2>1 DEF Recursion
    <2>4. 0 \in 0..Len(seq)
      OBVIOUS
    <2> QED  BY <2>2, <2>3, <2>4
  <1>2. ASSUME NEW n \in 0..Len(seq) - 1, n \in S
        PROVE  n + 1 \in S
    <2>1. n + 1 \in 0..Len(seq) /\ n + 1 \in 1..Len(seq) /\ n \in Nat
      OBVIOUS
    <2>2. PICK old \in [SUBSET (1..n) -> T] : Recursion(old, n, step, base, seq)
      BY <1>2
    <2> DEFINE iter == [s \in SUBSET (1..n + 1) |->
                          IF n + 1 \in s THEN step[<<old[s \ {n + 1}], seq[n + 1]>>] ELSE old[s]]
    <2>3. ASSUME NEW s \in SUBSET (1..n + 1)
          PROVE  /\ iter[s] \in T
                 /\ iter[s] = IF s = {} THEN base ELSE step[<<iter[s \ {Max(s)}], seq[Max(s)]>>]
      <3>1. CASE n + 1 \in s
        <4>1. Max(s) = n + 1
          <5>1. n + 1 \in Nat /\ s # {}
            BY <2>1, <3>1
          <5>2. Max(s) \in s /\ \A x \in s : x =< Max(s)
            BY <5>1, GreatestIsThere
          <5>3. Max(s) \in 1..n + 1 /\ n + 1 =< Max(s)
            BY <3>1, <5>2
          <5> QED  BY <2>1, <5>3
        <4>2. s \ {n + 1} \in SUBSET (1..n) /\ n + 1 \notin s \ {n + 1}
          BY <2>1
        <4>3. s \ {n + 1} \in SUBSET (1..n + 1)
          OBVIOUS
        <4>4. iter[s] = step[<<old[s \ {n + 1}], seq[n + 1]>>]
          BY <3>1
        <4>5. iter[s \ {n + 1}] = old[s \ {n + 1}]
          BY <4>2, <4>3
        <4>6. old[s \ {n + 1}] \in T /\ seq[n + 1] \in E
          BY <2>1, <4>2
        <4>7. step[<<old[s \ {n + 1}], seq[n + 1]>>] \in T
          BY <4>6
        <4> HIDE DEF iter
        <4> QED  BY <3>1, <4>1, <4>4, <4>5, <4>7
      <3>2. CASE n + 1 \notin s
        <4>1. s \in SUBSET (1..n)
          BY <2>1, <3>2
        <4>2. iter[s] = old[s] /\ iter[s] \in T
          BY <3>2, <4>1
        <4>3. CASE s = {}
          BY <2>2, <4>1, <4>2, <4>3 DEF Recursion
        <4>4. CASE s # {}
          <5>1. /\ s \ {Max(s)} \in SUBSET (1..n) /\ n + 1 \notin s \ {Max(s)}
                /\ s \ {Max(s)} \in SUBSET (1..n + 1)
            BY <3>2, <4>1
          <5>2. iter[s \ {Max(s)}] = old[s \ {Max(s)}]
            BY <5>1
          <5>3. old[s] = step[<<old[s \ {Max(s)}], seq[Max(s)]>>]
            BY <2>2, <4>1, <4>4 DEF Recursion
          <5> HIDE DEF iter
          <5> QED  BY <4>2, <4>4, <5>2, <5>3
        <4> QED  BY <4>3, <4>4
      <3> QED  BY <3>1, <3>2
    <2>4. iter \in [SUBSET (1..n + 1) -> T]
      BY <2>3
    <2>5. Recursion(iter, n + 1, step, base, seq)
      <3> HIDE DEF iter
      <3> QED  BY <2>3 DEF Recursion
    <2> HIDE DEF iter
    <2> QED  BY <2>1, <2>4, <2>5
  <1>3. 0..Len(seq) \subseteq S
    <2>1. Len(seq) \in Nat
      OBVIOUS
    <2> HIDE DEF S
    <2> QED  BY <1>1, <1>2, <2>1, UpTo
  <1>4. Len(seq) \in 0..Len(seq)
    OBVIOUS
  <1> QED  BY <1>3, <1>4

\* Without, element by element.
LEMMA Removals ==
  ASSUME NEW E, NEW seq \in Seq(E), NEW set
  PROVE  \E a : /\ a[0] = <<>>
                /\ \A k \in 1..Len(seq) : a[k] = (IF seq[k] \in set THEN a[k - 1] ELSE Append(a[k - 1], seq[k]))
                /\ Without(seq, set) = a[Len(seq)]
  <1> DEFINE T == Seq(E)
  <1>0. <<>> \in T /\ \A t \in T, e \in E : (IF e \in set THEN t ELSE Append(t, e)) \in T
    OBVIOUS
  <1> HIDE DEF T
  <1> USE <1>0
  <1> DEFINE Folded(iter) ==
               [s \in SUBSET DOMAIN seq |->
                  IF s = {} THEN <<>> ELSE (IF seq[Max(s)] \in set THEN iter[s \ {Max(s)}] ELSE Append(iter[s \ {Max(s)}], seq[Max(s)]))]
             c == CHOOSE iter : iter = Folded(iter)
             step == [p \in T \X E |-> (IF p[2] \in set THEN p[1] ELSE Append(p[1], p[2]))]
             n == Len(seq)
  <1>1. Without(seq, set) = c[DOMAIN seq]
    BY DEF Without, FoldLeft, MapThenFoldSet
  <1>2. DOMAIN seq = 1..n /\ n \in Nat
    OBVIOUS
  <1>3. \E iter : iter = Folded(iter)
    <2>1. /\ step \in [T \X E -> T]
          /\ \A t \in T, e \in E : step[<<t, e>>] = (IF e \in set THEN t ELSE Append(t, e))
      OBVIOUS
    <2> HIDE DEF step
    <2>2. PICK iter \in [SUBSET (1..n) -> T] : Recursion(iter, n, step, <<>>, seq)
      BY <2>1, FoldsExist
    <2>3. ASSUME NEW s \in SUBSET (1..n), s # {}
          PROVE  iter[s] = (IF seq[Max(s)] \in set THEN iter[s \ {Max(s)}] ELSE Append(iter[s \ {Max(s)}], seq[Max(s)]))
      <3>1. iter[s \ {Max(s)}] \in T /\ seq[Max(s)] \in E
        <4>1. Max(s) \in s
          BY <1>2, <2>3, GreatestIsThere
        <4>2. s \ {Max(s)} \in SUBSET (1..n) /\ Max(s) \in 1..n
          BY <4>1
        <4> HIDE DEF n
        <4> QED  BY <1>2, <4>2
      <3>2. iter[s] = step[<<iter[s \ {Max(s)}], seq[Max(s)]>>]
        BY <2>2, <2>3 DEF Recursion
      <3> QED  BY <2>1, <3>1, <3>2
    <2>4. iter[{}] = <<>>
      BY <2>2 DEF Recursion
    <2>5. iter = [s \in SUBSET (1..n) |->
                    IF s = {} THEN <<>> ELSE (IF seq[Max(s)] \in set THEN iter[s \ {Max(s)}] ELSE Append(iter[s \ {Max(s)}], seq[Max(s)]))]
      BY <2>3, <2>4
    <2> QED  BY <1>2, <2>5
  <1>4. c = Folded(c)
    BY <1>3
  <1>5. \A s \in SUBSET DOMAIN seq :
          c[s] = IF s = {} THEN <<>> ELSE (IF seq[Max(s)] \in set THEN c[s \ {Max(s)}] ELSE Append(c[s \ {Max(s)}], seq[Max(s)]))
    <2> HIDE DEF c
    <2> QED  BY <1>4
  <1> HIDE DEF c, step, Folded
  <1>6. ASSUME NEW k \in 1..n
        PROVE  c[1..k] = (IF seq[k] \in set THEN c[1..k - 1] ELSE Append(c[1..k - 1], seq[k]))
    <2>1. k \in Nat /\ k > 0
      BY <1>2
    <2>2. Max(1..k) = k
      BY <2>1, GreatestOfAll
    <2>3. (1..k) \ {k} = 1..k - 1 /\ 1..k # {} /\ 1..k \in SUBSET DOMAIN seq
      <3> HIDE DEF n
      <3>1. k \in 1..k
        BY <2>1
      <3>2. 1..k \in SUBSET (1..n)
        BY <1>2
      <3>3. \A i : i \in (1..k) \ {k} <=> i \in 1..k - 1
        BY <2>1
      <3> QED  BY <1>2, <3>1, <3>2, <3>3
    <2>4. c[1..k] = (IF seq[Max(1..k)] \in set THEN c[(1..k) \ {Max(1..k)}] ELSE Append(c[(1..k) \ {Max(1..k)}], seq[Max(1..k)]))
      BY <1>5, <2>3
    <2> QED  BY <2>2, <2>3, <2>4
  <1> DEFINE a == [k \in 0..n |-> c[1..k]]
  <1>7. a[0] = <<>>
    <2>1. c[{}] = <<>>
      BY <1>5
    <2> QED  BY <1>2, <2>1
  <1>8. \A k \in 1..n : a[k] = (IF seq[k] \in set THEN a[k - 1] ELSE Append(a[k - 1], seq[k]))
    BY <1>6
  <1>9. Without(seq, set) = a[n]
    BY <1>1, <1>2
  <1> HIDE DEF a
  <1> QED  BY <1>7, <1>8, <1>9

\* What is left of a sequence, from its beginning on.
AreLeft(a, seq, set, E) ==
  /\ a[0] = <<>>
  /\ \A k \in 1..Len(seq) : a[k] = IF seq[k] \in set THEN a[k - 1] ELSE Append(a[k - 1], seq[k])
  /\ Without(seq, set) = a[Len(seq)]
  /\ \A k \in 0..Len(seq) : a[k] \in Seq(E) /\ Len(a[k]) \in Nat
  /\ \A k \in 1..Len(seq) :
       Len(a[k]) = IF seq[k] \in set THEN Len(a[k - 1]) ELSE Len(a[k - 1]) + 1

\* What is left is a sequence of the elements there were, and counts what stays.
LEMMA Removed ==
  ASSUME NEW E, NEW seq \in Seq(E), NEW set
  PROVE  \E a : AreLeft(a, seq, set, E)
  <1> DEFINE n == Len(seq)
             T == Seq(E)
  <1>1. /\ n \in Nat /\ \A k \in 1..n : seq[k] \in E
        /\ <<>> \in T
        /\ \A t \in T, e \in E :
             Append(t, e) \in T /\ Len(t) \in Nat /\ Len(Append(t, e)) = Len(t) + 1
    OBVIOUS
  <1>2. PICK a : /\ a[0] = <<>>
                 /\ \A k \in 1..n : a[k] = IF seq[k] \in set THEN a[k - 1] ELSE Append(a[k - 1], seq[k])
                 /\ Without(seq, set) = a[n]
    BY Removals
  <1> HIDE DEF n, T
  <1> DEFINE S == {i \in 0..n : a[i] \in T}
  <1>3. 0 \in S
    BY <1>1, <1>2
  <1>4. ASSUME NEW i \in 0..n - 1, i \in S PROVE i + 1 \in S
    <2>1. i + 1 \in 1..n /\ i + 1 \in 0..n /\ (i + 1) - 1 = i /\ a[i] \in T
      BY <1>1, <1>4
    <2>2. a[i + 1] = a[i] \/ a[i + 1] = Append(a[i], seq[i + 1])
      BY <1>2, <2>1
    <2>3. seq[i + 1] \in E
      BY <1>1, <2>1
    <2>4. a[i + 1] \in T
      BY <1>1, <2>1, <2>2, <2>3
    <2> QED  BY <2>1, <2>4
  <1> HIDE DEF S
  <1>5. 0..n \subseteq S
    BY <1>1, <1>3, <1>4, UpTo
  <1>6. \A k \in 0..n : a[k] \in T /\ Len(a[k]) \in Nat
    <2>1. \A t \in T : Len(t) \in Nat
      BY DEF T
    <2> QED  BY <1>5, <2>1 DEF S
  <1>7. ASSUME NEW k \in 1..n
        PROVE  Len(a[k]) = IF seq[k] \in set THEN Len(a[k - 1]) ELSE Len(a[k - 1]) + 1
    <2>1. k - 1 \in 0..n /\ seq[k] \in E
      BY <1>1
    <2>2. a[k - 1] \in T
      BY <1>6, <2>1
    <2> QED  BY <1>1, <1>2, <2>1, <2>2
  <1>8. AreLeft(a, seq, set, E)
    BY <1>2, <1>6, <1>7 DEF n, T, AreLeft
  <1> QED  BY <1>8

\* What is left of a sequence is a sequence of its elements.
LEMMA WithoutIsASeq ==
  ASSUME NEW E, NEW s \in Seq(E), NEW set
  PROVE  Without(s, set) \in Seq(E)
  <1> DEFINE n == Len(s)
             T == Seq(E)
  <1>1. n \in 0..n
    OBVIOUS
  <1>4. PICK a : AreLeft(a, s, set, E)
    BY Removed
  <1>2. Without(s, set) = a[n] /\ \A k \in 0..n : a[k] \in T
    BY <1>4 DEF AreLeft
  <1> HIDE DEF n, T
  <1>3. Without(s, set) \in T
    BY <1>1, <1>2
  <1> QED  BY <1>3 DEF T

\* What the device's shell has after a text, and what fields a line has.
ShellFrom(base, text) == FoldLeft(ShellRead, base, text)
FieldsFrom(base, line) == FoldLeft(FieldRead, base, line)

\* The device's shell reads a text piece by piece.
LEMMA ShellReads ==
  ASSUME NEW T, NEW E, NEW base \in T, NEW seq \in Seq(E),
         \A t \in T, e \in E : ShellRead(t, e) \in T
  PROVE  \E a : /\ a[0] = base
                /\ \A k \in 1..Len(seq) : a[k] = ShellRead(a[k - 1], seq[k])
                /\ ShellFrom(base, seq) = a[Len(seq)]
  <1> DEFINE Folded(iter) ==
               [s \in SUBSET DOMAIN seq |->
                  IF s = {} THEN base ELSE ShellRead(iter[s \ {Max(s)}], seq[Max(s)])]
             c == CHOOSE iter : iter = Folded(iter)
             step == [p \in T \X E |-> ShellRead(p[1], p[2])]
             n == Len(seq)
  <1>1. ShellFrom(base, seq) = c[DOMAIN seq]
    BY DEF ShellFrom, FoldLeft, MapThenFoldSet
  <1>2. DOMAIN seq = 1..n /\ n \in Nat
    OBVIOUS
  <1>3. \E iter : iter = Folded(iter)
    <2>1. /\ step \in [T \X E -> T]
          /\ \A t \in T, e \in E : step[<<t, e>>] = ShellRead(t, e)
      OBVIOUS
    <2> HIDE DEF step
    <2>2. PICK iter \in [SUBSET (1..n) -> T] : Recursion(iter, n, step, base, seq)
      BY <2>1, FoldsExist
    <2>3. ASSUME NEW s \in SUBSET (1..n), s # {}
          PROVE  iter[s] = ShellRead(iter[s \ {Max(s)}], seq[Max(s)])
      <3>1. iter[s \ {Max(s)}] \in T /\ seq[Max(s)] \in E
        <4>1. Max(s) \in s
          BY <1>2, <2>3, GreatestIsThere
        <4>2. s \ {Max(s)} \in SUBSET (1..n) /\ Max(s) \in 1..n
          BY <4>1
        <4> HIDE DEF n
        <4> QED  BY <1>2, <4>2
      <3>2. iter[s] = step[<<iter[s \ {Max(s)}], seq[Max(s)]>>]
        BY <2>2, <2>3 DEF Recursion
      <3> QED  BY <2>1, <3>1, <3>2
    <2>4. iter[{}] = base
      BY <2>2 DEF Recursion
    <2>5. iter = [s \in SUBSET (1..n) |->
                    IF s = {} THEN base ELSE ShellRead(iter[s \ {Max(s)}], seq[Max(s)])]
      BY <2>3, <2>4
    <2> QED  BY <1>2, <2>5
  <1>4. c = Folded(c)
    BY <1>3
  <1>5. \A s \in SUBSET DOMAIN seq :
          c[s] = IF s = {} THEN base ELSE ShellRead(c[s \ {Max(s)}], seq[Max(s)])
    <2> HIDE DEF c
    <2> QED  BY <1>4
  <1> HIDE DEF c, step, Folded
  <1>6. ASSUME NEW k \in 1..n
        PROVE  c[1..k] = ShellRead(c[1..k - 1], seq[k])
    <2>1. k \in Nat /\ k > 0
      BY <1>2
    <2>2. Max(1..k) = k
      BY <2>1, GreatestOfAll
    <2>3. (1..k) \ {k} = 1..k - 1 /\ 1..k # {} /\ 1..k \in SUBSET DOMAIN seq
      <3> HIDE DEF n
      <3>1. k \in 1..k
        BY <2>1
      <3>2. 1..k \in SUBSET (1..n)
        BY <1>2
      <3>3. \A i : i \in (1..k) \ {k} <=> i \in 1..k - 1
        BY <2>1
      <3> QED  BY <1>2, <3>1, <3>2, <3>3
    <2>4. c[1..k] = ShellRead(c[(1..k) \ {Max(1..k)}], seq[Max(1..k)])
      BY <1>5, <2>3
    <2> QED  BY <2>2, <2>3, <2>4
  <1> DEFINE a == [k \in 0..n |-> c[1..k]]
  <1>7. a[0] = base
    <2>1. c[{}] = base
      BY <1>5
    <2> QED  BY <1>2, <2>1
  <1>8. \A k \in 1..n : a[k] = ShellRead(a[k - 1], seq[k])
    BY <1>6
  <1>9. ShellFrom(base, seq) = a[n]
    BY <1>1, <1>2
  <1> HIDE DEF a
  <1> QED  BY <1>7, <1>8, <1>9

\* The fields of a line, piece by piece.
LEMMA FieldReads ==
  ASSUME NEW T, NEW E, NEW base \in T, NEW seq \in Seq(E),
         \A t \in T, e \in E : FieldRead(t, e) \in T
  PROVE  \E a : /\ a[0] = base
                /\ \A k \in 1..Len(seq) : a[k] = FieldRead(a[k - 1], seq[k])
                /\ FieldsFrom(base, seq) = a[Len(seq)]
  <1> DEFINE Folded(iter) ==
               [s \in SUBSET DOMAIN seq |->
                  IF s = {} THEN base ELSE FieldRead(iter[s \ {Max(s)}], seq[Max(s)])]
             c == CHOOSE iter : iter = Folded(iter)
             step == [p \in T \X E |-> FieldRead(p[1], p[2])]
             n == Len(seq)
  <1>1. FieldsFrom(base, seq) = c[DOMAIN seq]
    BY DEF FieldsFrom, FoldLeft, MapThenFoldSet
  <1>2. DOMAIN seq = 1..n /\ n \in Nat
    OBVIOUS
  <1>3. \E iter : iter = Folded(iter)
    <2>1. /\ step \in [T \X E -> T]
          /\ \A t \in T, e \in E : step[<<t, e>>] = FieldRead(t, e)
      OBVIOUS
    <2> HIDE DEF step
    <2>2. PICK iter \in [SUBSET (1..n) -> T] : Recursion(iter, n, step, base, seq)
      BY <2>1, FoldsExist
    <2>3. ASSUME NEW s \in SUBSET (1..n), s # {}
          PROVE  iter[s] = FieldRead(iter[s \ {Max(s)}], seq[Max(s)])
      <3>1. iter[s \ {Max(s)}] \in T /\ seq[Max(s)] \in E
        <4>1. Max(s) \in s
          BY <1>2, <2>3, GreatestIsThere
        <4>2. s \ {Max(s)} \in SUBSET (1..n) /\ Max(s) \in 1..n
          BY <4>1
        <4> HIDE DEF n
        <4> QED  BY <1>2, <4>2
      <3>2. iter[s] = step[<<iter[s \ {Max(s)}], seq[Max(s)]>>]
        BY <2>2, <2>3 DEF Recursion
      <3> QED  BY <2>1, <3>1, <3>2
    <2>4. iter[{}] = base
      BY <2>2 DEF Recursion
    <2>5. iter = [s \in SUBSET (1..n) |->
                    IF s = {} THEN base ELSE FieldRead(iter[s \ {Max(s)}], seq[Max(s)])]
      BY <2>3, <2>4
    <2> QED  BY <1>2, <2>5
  <1>4. c = Folded(c)
    BY <1>3
  <1>5. \A s \in SUBSET DOMAIN seq :
          c[s] = IF s = {} THEN base ELSE FieldRead(c[s \ {Max(s)}], seq[Max(s)])
    <2> HIDE DEF c
    <2> QED  BY <1>4
  <1> HIDE DEF c, step, Folded
  <1>6. ASSUME NEW k \in 1..n
        PROVE  c[1..k] = FieldRead(c[1..k - 1], seq[k])
    <2>1. k \in Nat /\ k > 0
      BY <1>2
    <2>2. Max(1..k) = k
      BY <2>1, GreatestOfAll
    <2>3. (1..k) \ {k} = 1..k - 1 /\ 1..k # {} /\ 1..k \in SUBSET DOMAIN seq
      <3> HIDE DEF n
      <3>1. k \in 1..k
        BY <2>1
      <3>2. 1..k \in SUBSET (1..n)
        BY <1>2
      <3>3. \A i : i \in (1..k) \ {k} <=> i \in 1..k - 1
        BY <2>1
      <3> QED  BY <1>2, <3>1, <3>2, <3>3
    <2>4. c[1..k] = FieldRead(c[(1..k) \ {Max(1..k)}], seq[Max(1..k)])
      BY <1>5, <2>3
    <2> QED  BY <2>2, <2>3, <2>4
  <1> DEFINE a == [k \in 0..n |-> c[1..k]]
  <1>7. a[0] = base
    <2>1. c[{}] = base
      BY <1>5
    <2> QED  BY <1>2, <2>1
  <1>8. \A k \in 1..n : a[k] = FieldRead(a[k - 1], seq[k])
    BY <1>6
  <1>9. FieldsFrom(base, seq) = a[n]
    BY <1>1, <1>2
  <1> HIDE DEF a
  <1> QED  BY <1>7, <1>8, <1>9

------------------------------------------------------------------------------
(***************************************************************************)
(* Texts put together.                                                     *)
(***************************************************************************)

\* What FlattenSeq has put together of the first k sequences.
LEMMA Flattens ==
  ASSUME NEW E, NEW seqs \in Seq(Seq(E))
  PROVE  \E a \in [0..Len(seqs) -> Seq(E)] :
           /\ a[0] = <<>>
           /\ \A k \in 1..Len(seqs) : a[k] = a[k - 1] \o seqs[k]
           /\ FlattenSeq(seqs) = a[Len(seqs)]
  <1> DEFINE n == Len(seqs)
             Join(s, k) == s \o seqs[k]
             Built(a, m) == a[0] = <<>> /\ \A k \in 1..m : a[k] = Join(a[k - 1], k)
             S == {m \in 0..n : \E a \in [0..m -> Seq(E)] : Built(a, m)}
  <1>1. n \in Nat /\ DOMAIN seqs = 1..n /\ \A k \in 1..n : seqs[k] \in Seq(E)
    OBVIOUS
  <1>2. /\ \A s \in Seq(E), k \in 1..n : Join(s, k) \in Seq(E)
        /\ \A k \in 1..n : Join(<<>>, k) = seqs[k]
    BY <1>1
  <1>3. \E a \in [0..n -> Seq(E)] : Built(a, n)
    <2> HIDE DEF Join
    <2>1. 0 \in S
      <3> DEFINE a == [k \in 0..0 |-> <<>>]
      <3>1. a \in [0..0 -> Seq(E)] /\ a[0] = <<>>
        OBVIOUS
      <3> HIDE DEF a
      <3>2. Built(a, 0) /\ 0 \in 0..n
        BY <1>1, <3>1
      <3> QED  BY <3>1, <3>2
    <2>2. ASSUME NEW m \in 0..n - 1, m \in S
          PROVE  m + 1 \in S
      <3>1. PICK old \in [0..m -> Seq(E)] : Built(old, m)
        BY <2>2
      <3> DEFINE a == [k \in 0..m + 1 |-> IF k = m + 1 THEN Join(old[m], m + 1) ELSE old[k]]
      <3> HIDE DEF n
      <3>2. m \in Nat /\ m + 1 \in 1..n /\ m + 1 \in 0..n /\ 0 \in 0..m /\ m \in 0..m
        BY <1>1
      <3>3. (\A k \in 0..m : a[k] = old[k]) /\ a[m + 1] = Join(old[m], m + 1)
        BY <3>2
      <3>4. a \in [0..m + 1 -> Seq(E)]
        BY <1>2, <3>2
      <3> HIDE DEF a
      <3>5. \A k \in 1..m + 1 : k = m + 1 \/ (k \in 1..m /\ k \in 0..m /\ k - 1 \in 0..m)
        BY <3>2
      <3>6. ASSUME NEW k \in 1..m + 1
            PROVE  a[k] = Join(a[k - 1], k)
        <4>1. CASE k = m + 1
          <5>1. k - 1 = m /\ a[m] = old[m]
            BY <3>2, <3>3, <4>1
          <5> QED  BY <3>3, <4>1, <5>1
        <4>2. CASE k \in 1..m /\ k \in 0..m /\ k - 1 \in 0..m
          BY <3>1, <3>3, <4>2
        <4> QED  BY <3>5, <4>1, <4>2
      <3>7. Built(a, m + 1)
        BY <3>1, <3>2, <3>3, <3>6
      <3> QED  BY <3>2, <3>4, <3>7
    <2>3. 0..n \subseteq S
      <3> HIDE DEF S, n
      <3> QED  BY <1>1, <2>1, <2>2, UpTo
    <2>4. n \in 0..n
      BY <1>1
    <2> QED  BY <2>3, <2>4
  <1>4. PICK a \in [0..n -> Seq(E)] : Built(a, n)
    BY <1>3
  <1>5. CASE n = 0
    <2>1. seqs = <<>> /\ FlattenSeq(seqs) = seqs
      BY <1>5 DEF FlattenSeq
    <2> QED  BY <1>4, <1>5, <2>1
  <1>6. CASE n # 0
    <2> DEFINE Flat(f) == [i \in 1..n |-> IF i = 1 THEN seqs[i] ELSE Join(f[i - 1], i)]
               c == CHOOSE f : f = Flat(f)
    <2>1. FlattenSeq(seqs) = c[n]
      BY <1>6 DEF FlattenSeq
    <2> HIDE DEF Join
    <2>2. ASSUME NEW i \in 1..n
          PROVE  a[i] = IF i = 1 THEN seqs[i] ELSE Join(a[i - 1], i)
      BY <1>2, <1>4
    <2>3. c = Flat(c)
      <3> DEFINE f == [i \in 1..n |-> a[i]]
      <3>1. ASSUME NEW i \in 1..n
            PROVE  f[i] = IF i = 1 THEN seqs[i] ELSE Join(f[i - 1], i)
        BY <1>1, <2>2
      <3>2. f = Flat(f)
        <4>1. f = [i \in 1..n |-> f[i]]
          OBVIOUS
        <4> HIDE DEF f
        <4> QED  BY <3>1, <4>1
      <3> HIDE DEF f
      <3> QED  BY <3>2
    <2>4. ASSUME NEW i \in 1..n
          PROVE  c[i] = IF i = 1 THEN seqs[i] ELSE Join(c[i - 1], i)
      <3> HIDE DEF c
      <3> QED  BY <2>3
    <2> HIDE DEF c
    <2>5. c[n] = a[n]
      <3> DEFINE R == {m \in 0..n : m = 0 \/ c[m] = a[m]}
      <3>1. 0 \in R
        BY <1>1
      <3>2. ASSUME NEW m \in 0..n - 1, m \in R
            PROVE  m + 1 \in R
        <4>1. m + 1 \in 1..n /\ m + 1 \in 0..n /\ m + 1 - 1 = m /\ (m = 0 <=> m + 1 = 1)
          BY <1>1
        <4> QED  BY <2>2, <2>4, <3>2, <4>1
      <3>3. 0..n \subseteq R
        <4> HIDE DEF R, n
        <4> QED  BY <1>1, <3>1, <3>2, UpTo
      <3> QED  BY <1>1, <1>6, <3>3
    <2> QED  BY <1>4, <2>1, <2>5 DEF Join
  <1> QED  BY <1>5, <1>6

\* Where the pieces of a text are that FlattenSeq has put together.
LEMMA Pieces ==
  ASSUME NEW E, NEW seqs \in Seq(Seq(E))
  PROVE  /\ FlattenSeq(seqs) \in Seq(E)
         /\ \E from \in [0..Len(seqs) -> Nat] :
              /\ from[0] = 0 /\ from[Len(seqs)] = Len(FlattenSeq(seqs))
              /\ \A k \in 1..Len(seqs) :
                   /\ from[k] = from[k - 1] + Len(seqs[k]) /\ from[k] =< Len(FlattenSeq(seqs))
                   /\ \A j \in 1..Len(seqs[k]) :
                        FlattenSeq(seqs)[from[k - 1] + j] = seqs[k][j]
  <1> DEFINE n == Len(seqs)
  <1>1. n \in Nat /\ \A k \in 1..n : seqs[k] \in Seq(E) /\ Len(seqs[k]) \in Nat
    OBVIOUS
  <1>2. PICK a \in [0..n -> Seq(E)] : /\ a[0] = <<>>
                                      /\ \A k \in 1..n : a[k] = a[k - 1] \o seqs[k]
                                      /\ FlattenSeq(seqs) = a[n]
    BY Flattens
  <1>3. \A k \in 0..n : a[k] \in Seq(E) /\ Len(a[k]) \in Nat
    OBVIOUS
  <1>4. \A k \in 1..n : k \in 0..n /\ k - 1 \in 0..n
    BY <1>1
  <1> DEFINE long(k) == Len(a[k])
             len(k) == Len(seqs[k])
             At(k, i) == a[k][i]
             Of(k, i) == seqs[k][i]
  <1>5. ASSUME NEW k \in 1..n
        PROVE  /\ long(k) = long(k - 1) + len(k)
               /\ \A j \in 1..long(k - 1) : At(k, j) = At(k - 1, j)
               /\ \A j \in 1..len(k) : At(k, long(k - 1) + j) = Of(k, j)
    <2> DEFINE s == a[k - 1]
               t == seqs[k]
    <2>1. s \in Seq(E) /\ t \in Seq(E) /\ a[k] = s \o t
      BY <1>1, <1>2, <1>3, <1>4
    <2> HIDE DEF s, t
    <2>2. Len(s) \in Nat /\ Len(t) \in Nat
      BY <2>1
    <2>3. /\ Len(s \o t) = Len(s) + Len(t)
          /\ \A i \in 1..Len(s) + Len(t) : (s \o t)[i] = IF i <= Len(s) THEN s[i] ELSE t[i - Len(s)]
      BY <2>1, ConcatProperties
    <2>4. \A j \in 1..Len(t) : Len(s) + j \in 1..Len(s) + Len(t) /\ ~(Len(s) + j <= Len(s))
                                /\ Len(s) + j - Len(s) = j
      BY <2>2
    <2>5. \A j \in 1..Len(s) : j \in 1..Len(s) + Len(t) /\ j <= Len(s)
      BY <2>2
    <2>6. \A j \in 1..Len(t) : (s \o t)[Len(s) + j] = t[j]
      BY <2>3, <2>4
    <2>7. \A j \in 1..Len(s) : (s \o t)[j] = s[j]
      BY <2>3, <2>5
    <2> QED  BY <2>1, <2>3, <2>6, <2>7 DEF s, t
  <1>6. (\A k \in 0..n : long(k) \in Nat) /\ \A k \in 1..n : len(k) \in Nat
    BY <1>1, <1>3
  <1> DEFINE R == {m \in 0..n : \A k \in 1..m :
                     /\ long(k) =< long(m)
                     /\ \A j \in 1..len(k) : At(m, long(k - 1) + j) = Of(k, j)}
  <1>7. 0..n \subseteq R
    <2> HIDE DEF n, long, len, At, Of
    <2>1. 0 \in R
      BY <1>1
    <2>2. ASSUME NEW m \in 0..n - 1, m \in R
          PROVE  m + 1 \in R
      <3>1. m \in Nat /\ m \in 0..n /\ m + 1 \in 1..n /\ m + 1 \in 0..n /\ m + 1 - 1 = m
        BY <1>1
      <3>2. /\ long(m + 1) = long(m) + len(m + 1)
            /\ \A j \in 1..long(m) : At(m + 1, j) = At(m, j)
            /\ \A j \in 1..len(m + 1) : At(m + 1, long(m) + j) = Of(m + 1, j)
            /\ long(m) \in Nat /\ len(m + 1) \in Nat
        <4>1. /\ long(m + 1) = long(m + 1 - 1) + len(m + 1)
              /\ \A j \in 1..long(m + 1 - 1) : At(m + 1, j) = At(m + 1 - 1, j)
              /\ \A j \in 1..len(m + 1) : At(m + 1, long(m + 1 - 1) + j) = Of(m + 1, j)
          BY <1>5, <3>1
        <4> QED  BY <1>6, <3>1, <4>1
      <3>3. ASSUME NEW k \in 1..m
            PROVE  /\ long(k) =< long(m + 1)
                   /\ \A j \in 1..len(k) : At(m + 1, long(k - 1) + j) = Of(k, j)
        <4>1. /\ long(k) =< long(m)
              /\ \A j \in 1..len(k) : At(m, long(k - 1) + j) = Of(k, j)
          BY <2>2
        <4>2. k \in 1..n
          <5>1. n \in Nat /\ m \in Nat /\ m + 1 \in 1..n
            BY <1>1, <3>1
          <5> QED  BY <5>1
        <4>3. /\ long(k) = long(k - 1) + len(k)
              /\ long(k - 1) \in Nat /\ long(k) \in Nat /\ len(k) \in Nat
          BY <1>4, <1>5, <1>6, <4>2
        <4>4. \A j \in 1..len(k) : long(k - 1) + j \in 1..long(m)
          BY <3>2, <4>1, <4>3
        <4>5. long(k) =< long(m + 1)
          BY <3>2, <4>1, <4>3
        <4> QED  BY <3>2, <4>1, <4>4, <4>5
      <3>4. /\ long(m + 1) =< long(m + 1)
            /\ \A j \in 1..len(m + 1) : At(m + 1, long(m + 1 - 1) + j) = Of(m + 1, j)
        BY <3>1, <3>2
      <3>5. \A k \in 1..m + 1 : k \in 1..m \/ k = m + 1
        BY <3>1
      <3> QED  BY <3>1, <3>3, <3>4, <3>5
    <2> HIDE DEF R
    <2> QED  BY <1>1, <2>1, <2>2, UpTo
  <1> DEFINE from == [k \in 0..n |-> long(k)]
  <1>8. n \in 0..n /\ 0 \in 0..n
    BY <1>1
  <1>9. from \in [0..n -> Nat] /\ \A k \in 0..n : from[k] = long(k)
    BY <1>6
  <1>10. \A k \in 1..n : /\ long(k) =< long(n)
                         /\ \A j \in 1..len(k) : At(n, long(k - 1) + j) = Of(k, j)
    <2> HIDE DEF n, long, len, At, Of
    <2> QED  BY <1>7, <1>8
  <1>11. /\ from[0] = 0 /\ from[n] = long(n)
         /\ \A k \in 1..n :
              /\ from[k] = from[k - 1] + len(k) /\ from[k] =< long(n)
              /\ \A j \in 1..len(k) : At(n, from[k - 1] + j) = Of(k, j)
    <2>1. long(0) = 0
      BY <1>2
    <2> HIDE DEF n, from, long, len, At, Of
    <2> QED  BY <1>4, <1>5, <1>8, <1>9, <1>10, <2>1
  <1>12. FlattenSeq(seqs) = a[n] /\ a[n] \in Seq(E)
    BY <1>2, <1>3, <1>8
  <1> HIDE DEF from
  <1> QED  BY <1>9, <1>11, <1>12

\* The beginnings of a sequence grow element by element.
LEMMA Beginnings ==
  ASSUME NEW P, NEW path \in Seq(P)
  PROVE  /\ SubSeq(path, 1, 0) = <<>> /\ SubSeq(path, 1, Len(path)) = path
         /\ \A k \in 0..Len(path) :
              /\ SubSeq(path, 1, k) \in Seq(P) /\ Len(SubSeq(path, 1, k)) = k
              /\ \A i \in 1..k : SubSeq(path, 1, k)[i] = path[i]
         /\ \A k \in 1..Len(path) : SubSeq(path, 1, k) = Append(SubSeq(path, 1, k - 1), path[k])
  <1> DEFINE n == Len(path)
             Pre(k) == SubSeq(path, 1, k)
  <1>1. n \in Nat /\ \A k \in 1..n : path[k] \in P
    OBVIOUS
  <1>2. Pre(n) = path
    BY SubSeqFull
  <1>3. Pre(0) = <<>>
    BY 0 \in Int, 1 \in Int, 0 < 1, SubSeqEmpty
  <1>4. ASSUME NEW k \in 0..n
        PROVE  /\ Pre(k) = [i \in 1..k |-> path[i]]
               /\ Pre(k) \in Seq(P) /\ Len(Pre(k)) = k
               /\ \A i \in 1..k : Pre(k)[i] = path[i]
    <2>1. k \in Nat /\ \A i \in 1..k : path[i] \in P
      BY <1>1
    <2>2. Pre(k) = [i \in 1..k |-> path[i]]
      BY <2>1
    <2>3. Pre(k) \in [1..k -> P]
      <3> HIDE DEF Pre
      <3> QED  BY <2>1, <2>2
    <2> HIDE DEF Pre
    <2> QED  BY <2>1, <2>2, <2>3
  <1>5. ASSUME NEW k \in 1..n PROVE Pre(k) = Append(Pre(k - 1), path[k])
    <2>1. k \in Nat /\ k \in 0..n /\ k - 1 \in 0..n /\ k - 1 \in Nat /\ k - 1 + 1 = k
      BY <1>1
    <2>2. Pre(k) = [i \in 1..k |-> path[i]] /\ Pre(k - 1) = [i \in 1..k - 1 |-> path[i]]
      BY <1>4, <2>1
    <2>3. Pre(k - 1) \in Seq(P) /\ Len(Pre(k - 1)) = k - 1
      BY <1>4, <2>1
    <2> HIDE DEF Pre
    <2>4. Append(Pre(k - 1), path[k])
            = [i \in 1..k - 1 + 1 |-> IF i = k - 1 + 1 THEN path[k] ELSE Pre(k - 1)[i]]
      BY <2>3
    <2> QED  BY <2>1, <2>2, <2>4
  <1> QED  BY <1>2, <1>3, <1>4, <1>5

------------------------------------------------------------------------------
(***************************************************************************)
(* Quoting.                                                                *)
(***************************************************************************)
Reading(at, word) == [at |-> at, word |-> word]

\* The marks of the shell are told apart.
LEMMA MarksDiffer == Quote # Backslash /\ Quote # Space /\ Backslash # Space
  BY DEF Quote, Backslash, Space, Mark

\* What a piece does to the shell.
LEMMA ShellReadsOne ==
  ASSUME NEW w, NEW p
  PROVE  /\ ShellRead(Reading("plain", w), Quote) = Reading("quoted", w)
         /\ ShellRead(Reading("quoted", w), Quote) = Reading("plain", w)
         /\ ShellRead(Reading("plain", w), Backslash) = Reading("escape", w)
         /\ ShellRead(Reading("escape", w), p) = Reading("plain", Append(w, p))
         /\ p # Quote => ShellRead(Reading("quoted", w), p) = Reading("quoted", Append(w, p))
  BY MarksDiffer DEF ShellRead, Reading

\* Between single quotes a quote takes four pieces to read, another piece one.
LEMMA QuotedPieces ==
  ASSUME NEW P, NEW path \in Seq(P)
  PROVE  LET flat == shell_escape_path(path) IN
         /\ flat \in Seq(P \cup {Quote, Backslash})
         /\ \E from \in [0..Len(path) -> Nat] :
              /\ from[0] = 0 /\ from[Len(path)] = Len(flat)
              /\ \A k \in 1..Len(path) :
                   /\ from[k] =< Len(flat)
                   /\ path[k] # Quote => from[k] = from[k - 1] + 1 /\ flat[from[k - 1] + 1] = path[k]
                   /\ path[k] = Quote =>
                        /\ from[k] = from[k - 1] + 4
                        /\ flat[from[k - 1] + 1] = Quote /\ flat[from[k - 1] + 2] = Backslash
                        /\ flat[from[k - 1] + 3] = Quote /\ flat[from[k - 1] + 4] = Quote
  <1> DEFINE E == P \cup {Quote, Backslash}
             n == Len(path)
             Escaped(p) == IF p = Quote THEN <<Quote, Backslash, Quote, Quote>> ELSE <<p>>
             seqs == [k \in 1..n |-> Escaped(path[k])]
             flat == FlattenSeq(seqs)
  <1>1. n \in Nat /\ \A k \in 1..n : path[k] \in P
    OBVIOUS
  <1>2. ASSUME NEW p \in E
        PROVE  /\ Escaped(p) \in Seq(E)
               /\ p # Quote => Len(Escaped(p)) = 1 /\ Escaped(p)[1] = p
               /\ p = Quote => /\ Len(Escaped(p)) = 4
                               /\ Escaped(p)[1] = Quote /\ Escaped(p)[2] = Backslash
                               /\ Escaped(p)[3] = Quote /\ Escaped(p)[4] = Quote
    <2>1. Quote \in E /\ Backslash \in E
      OBVIOUS
    <2> DEFINE q == Quote
               b == Backslash
    <2> HIDE DEF E, q, b
    <2>2. /\ <<q, b, q, q>> \in Seq(E) /\ Len(<<q, b, q, q>>) = 4
          /\ <<q, b, q, q>>[1] = q /\ <<q, b, q, q>>[2] = b
          /\ <<q, b, q, q>>[3] = q /\ <<q, b, q, q>>[4] = q
      BY <2>1 DEF q, b
    <2>3. <<p>> \in Seq(E) /\ Len(<<p>>) = 1 /\ <<p>>[1] = p
      OBVIOUS
    <2>4. CASE p = Quote
      <3>1. Escaped(p) = <<q, b, q, q>>
        BY <2>4 DEF q, b
      <3> HIDE DEF Escaped
      <3> QED  BY <2>2, <2>4, <3>1 DEF q, b
    <2>5. CASE p # Quote
      <3>1. Escaped(p) = <<p>>
        BY <2>5
      <3> HIDE DEF Escaped
      <3> QED  BY <2>3, <2>5, <3>1
    <2> QED  BY <2>4, <2>5
  <1> HIDE DEF Escaped, E
  <1>3. \A k \in 1..n : path[k] \in E
    BY <1>1 DEF E
  <1>4. seqs \in Seq(Seq(E)) /\ Len(seqs) = n /\ \A k \in 1..n : seqs[k] = Escaped(path[k])
    <2>1. seqs \in [1..n -> Seq(E)] /\ \A k \in 1..n : seqs[k] = Escaped(path[k])
      BY <1>2, <1>3
    <2> HIDE DEF seqs
    <2> QED  BY <1>1, <2>1
  <1> HIDE DEF seqs
  <1>5. /\ flat \in Seq(E)
        /\ \E from \in [0..n -> Nat] :
             /\ from[0] = 0 /\ from[n] = Len(flat)
             /\ \A k \in 1..n :
                  /\ from[k] = from[k - 1] + Len(seqs[k]) /\ from[k] =< Len(flat)
                  /\ \A j \in 1..Len(seqs[k]) : flat[from[k - 1] + j] = seqs[k][j]
    <2>1. /\ flat \in Seq(E)
          /\ \E from \in [0..Len(seqs) -> Nat] :
               /\ from[0] = 0 /\ from[Len(seqs)] = Len(flat)
               /\ \A k \in 1..Len(seqs) :
                    /\ from[k] = from[k - 1] + Len(seqs[k]) /\ from[k] =< Len(flat)
                    /\ \A j \in 1..Len(seqs[k]) : flat[from[k - 1] + j] = seqs[k][j]
      BY <1>4, Pieces
    <2> HIDE DEF n, flat
    <2> QED  BY <1>4, <2>1
  <1>6. PICK from \in [0..n -> Nat] :
          /\ from[0] = 0 /\ from[n] = Len(flat)
          /\ \A k \in 1..n :
               /\ from[k] = from[k - 1] + Len(seqs[k]) /\ from[k] =< Len(flat)
               /\ \A j \in 1..Len(seqs[k]) : flat[from[k - 1] + j] = seqs[k][j]
    BY <1>5
  <1>7. shell_escape_path(path) = flat
    BY DEF shell_escape_path, seqs, Escaped
  <1> HIDE DEF flat, n
  <1>8. ASSUME NEW k \in 1..n
        PROVE  /\ from[k] =< Len(flat)
               /\ path[k] # Quote => from[k] = from[k - 1] + 1 /\ flat[from[k - 1] + 1] = path[k]
               /\ path[k] = Quote =>
                    /\ from[k] = from[k - 1] + 4
                    /\ flat[from[k - 1] + 1] = Quote /\ flat[from[k - 1] + 2] = Backslash
                    /\ flat[from[k - 1] + 3] = Quote /\ flat[from[k - 1] + 4] = Quote
    <2> DEFINE s == Escaped(path[k])
    <2>1. /\ from[k] = from[k - 1] + Len(s) /\ from[k] =< Len(flat)
          /\ \A j \in 1..Len(s) : flat[from[k - 1] + j] = s[j]
      BY <1>4, <1>6
    <2>2. /\ path[k] # Quote => Len(s) = 1 /\ s[1] = path[k]
          /\ path[k] = Quote => /\ Len(s) = 4 /\ s[1] = Quote /\ s[2] = Backslash
                                /\ s[3] = Quote /\ s[4] = Quote
      BY <1>2, <1>3
    <2>3. 1 \in 1..1 /\ 1 \in 1..4 /\ 2 \in 1..4 /\ 3 \in 1..4 /\ 4 \in 1..4
      OBVIOUS
    <2> HIDE DEF s
    <2> QED  BY <2>1, <2>2, <2>3
  <1> QED  BY <1>5, <1>6, <1>7, <1>8 DEF n, E

\* Whatever the pieces of a path, its quotes included, the device's shell makes
\* one word of the quoted path, and it is the path (shell_escape_path).
THEOREM ArgumentIsThePath ==
  ASSUME NEW P, NEW path \in Seq(P)
  PROVE  Argument(path) = path
  <1> DEFINE E == P \cup {Quote, Backslash}
             T == [at : {"plain", "quoted", "escape", "split"}, word : Seq(E)]
             n == Len(path)
             flat == shell_escape_path(path)
             m == Len(flat)
             text == <<Quote>> \o flat \o <<Quote>>
  <1>1. /\ flat \in Seq(E)
        /\ \E from \in [0..n -> Nat] :
             /\ from[0] = 0 /\ from[n] = m
             /\ \A k \in 1..n :
                  /\ from[k] =< m
                  /\ path[k] # Quote => from[k] = from[k - 1] + 1 /\ flat[from[k - 1] + 1] = path[k]
                  /\ path[k] = Quote =>
                       /\ from[k] = from[k - 1] + 4
                       /\ flat[from[k - 1] + 1] = Quote /\ flat[from[k - 1] + 2] = Backslash
                       /\ flat[from[k - 1] + 3] = Quote /\ flat[from[k - 1] + 4] = Quote
    BY QuotedPieces
  <1>2. PICK from \in [0..n -> Nat] :
          /\ from[0] = 0 /\ from[n] = m
          /\ \A k \in 1..n :
               /\ from[k] =< m
               /\ path[k] # Quote => from[k] = from[k - 1] + 1 /\ flat[from[k - 1] + 1] = path[k]
               /\ path[k] = Quote =>
                    /\ from[k] = from[k - 1] + 4
                    /\ flat[from[k - 1] + 1] = Quote /\ flat[from[k - 1] + 2] = Backslash
                    /\ flat[from[k - 1] + 3] = Quote /\ flat[from[k - 1] + 4] = Quote
    BY <1>1
  <1>3. n \in Nat /\ \A k \in 1..n : path[k] \in P /\ path[k] \in E
    OBVIOUS
  <1>4. m \in Nat
    BY <1>1
  <1>5. /\ text \in Seq(E) /\ Len(text) = m + 2
        /\ text[1] = Quote /\ text[m + 2] = Quote
        /\ \A j \in 1..m : text[j + 1] = flat[j]
    <2>1. Quote \in E
      OBVIOUS
    <2> DEFINE q == Quote
               half == <<q>> \o flat
    <2> HIDE DEF E, q, flat
    <2>2. <<q>> \in Seq(E) /\ Len(<<q>>) = 1 /\ <<q>>[1] = q
      BY <2>1 DEF q
    <2>3. /\ half \in Seq(E) /\ Len(half) = 1 + m
          /\ \A i \in 1..1 + m : half[i] = IF i <= 1 THEN <<q>>[i] ELSE flat[i - 1]
      BY <1>1, <2>2, ConcatProperties
    <2>4. text = half \o <<q>>
      BY DEF q
    <2> HIDE DEF half, m
    <2>5. /\ half \o <<q>> \in Seq(E) /\ Len(half \o <<q>>) = 1 + m + 1
          /\ \A i \in 1..1 + m + 1 :
               (half \o <<q>>)[i] = IF i <= 1 + m THEN half[i] ELSE <<q>>[i - (1 + m)]
      BY <2>2, <2>3, ConcatProperties
    <2> HIDE DEF text
    <2>6. /\ text \in Seq(E) /\ Len(text) = 1 + m + 1
          /\ \A i \in 1..1 + m + 1 : text[i] = IF i <= 1 + m THEN half[i] ELSE <<q>>[i - (1 + m)]
      BY <2>4, <2>5
    <2>7. text[1] = q
      <3>1. 1 \in 1..1 + m + 1 /\ 1 <= 1 + m /\ 1 \in 1..1 + m
        BY <1>4
      <3> QED  BY <2>2, <2>3, <2>6, <3>1
    <2>8. text[m + 2] = q
      <3>1. /\ m + 2 \in 1..1 + m + 1 /\ ~(m + 2 <= 1 + m) /\ m + 2 - (1 + m) = 1
        BY <1>4
      <3> QED  BY <2>2, <2>6, <3>1
    <2>9. ASSUME NEW j \in 1..m PROVE text[j + 1] = flat[j]
      <3>1. /\ j + 1 \in 1..1 + m + 1 /\ j + 1 <= 1 + m /\ j + 1 \in 1..1 + m
            /\ ~(j + 1 <= 1) /\ j + 1 - 1 = j
        BY <1>4
      <3> QED  BY <2>3, <2>6, <3>1
    <2>10. 1 + m + 1 = m + 2
      BY <1>4
    <2> QED  BY <2>6, <2>7, <2>8, <2>9, <2>10 DEF q
  <1> HIDE DEF text, flat, m, n
  <1>6. \E a : /\ a[0] = Reading("plain", <<>>)
               /\ \A k \in 1..Len(text) : a[k] = ShellRead(a[k - 1], text[k])
               /\ ShellFrom(Reading("plain", <<>>), text) = a[Len(text)]
    <2>1. Reading("plain", <<>>) \in T
      BY DEF Reading
    <2>2. \A t \in T, e \in E : ShellRead(t, e) \in T
      <3> HIDE DEF E
      <3>1. ASSUME NEW t \in T, NEW e \in E PROVE ShellRead(t, e) \in T
        <4>1. t.at \in {"plain", "quoted", "escape", "split"} /\ t.word \in Seq(E)
          OBVIOUS
        <4>2. Append(t.word, e) \in Seq(E)
          BY <4>1
        <4>3. CASE t.at = "escape"
          <5>1. ShellRead(t, e) = [at |-> "plain", word |-> Append(t.word, e)]
            BY <4>3 DEF ShellRead
          <5> HIDE DEF ShellRead
          <5> QED  BY <4>2, <5>1
        <4>4. CASE t.at \in {"quoted", "plain", "split"}
          <5>1. \/ \E x \in {"plain", "quoted", "split", "escape"} : ShellRead(t, e) = [t EXCEPT !.at = x]
                \/ ShellRead(t, e) = [t EXCEPT !.word = Append(@, e)]
            BY <4>4, MarksDiffer DEF ShellRead
          <5>2. \A x \in {"plain", "quoted", "split", "escape"} : [t EXCEPT !.at = x] \in T
            BY <4>1
          <5>3. [t EXCEPT !.word = Append(@, e)] \in T
            BY <4>1, <4>2
          <5> HIDE DEF T
          <5> QED  BY <5>1, <5>2, <5>3
        <4> QED  BY <4>1, <4>3, <4>4
      <3> QED  BY <3>1
    <2>3. text \in Seq(E)
      BY <1>5
    <2> HIDE DEF T, E
    <2>4. \E a : /\ a[0] = Reading("plain", <<>>)
                 /\ \A k \in 1..Len(text) : a[k] = ShellRead(a[k - 1], text[k])
                 /\ ShellFrom(Reading("plain", <<>>), text) = a[Len(text)]
      BY <2>1, <2>2, <2>3, ShellReads
    <2> QED  BY <2>4, Zenon
  <1>7. PICK a : /\ a[0] = Reading("plain", <<>>)
                 /\ \A k \in 1..Len(text) : a[k] = ShellRead(a[k - 1], text[k])
                 /\ ShellFrom(Reading("plain", <<>>), text) = a[Len(text)]
    BY <1>6
  <1>8. \A k \in 0..m + 1 : a[k + 1] = ShellRead(a[k], text[k + 1])
    <2>1. ASSUME NEW k \in 0..m + 1 PROVE k + 1 \in 1..m + 2 /\ k + 1 - 1 = k
      BY <1>4
    <2> QED  BY <1>5, <1>7, <2>1
  <1> DEFINE Pre(k) == SubSeq(path, 1, k)
  <1>9. Pre(0) = <<>> /\ Pre(n) = path /\ \A k \in 1..n : Pre(k) = Append(Pre(k - 1), path[k])
    BY Beginnings DEF n
  <1> HIDE DEF Pre
  <1> DEFINE S == {k \in 0..n : a[from[k] + 1] = Reading("quoted", Pre(k))}
  <1>10. 0 \in S
    <2>1. a[1] = ShellRead(a[0], text[1])
      <3>1. 0 \in 0..m + 1 /\ 0 + 1 = 1
        BY <1>4
      <3> QED  BY <1>8, <3>1
    <2>2. a[1] = Reading("quoted", <<>>)
      BY <1>5, <1>7, <2>1, ShellReadsOne
    <2>3. 0 \in 0..n /\ from[0] + 1 = 1
      BY <1>2, <1>3
    <2> QED  BY <1>9, <2>2, <2>3
  <1>11. ASSUME NEW i \in 0..n - 1, i \in S
         PROVE  i + 1 \in S
    <2> DEFINE j == from[i]
               p == path[i + 1]
               w == Pre(i)
    <2>1. i + 1 \in 1..n /\ i + 1 - 1 = i /\ i \in 0..n /\ i + 1 \in 0..n
      BY <1>3
    <2>2. /\ from[i + 1] =< m /\ j \in Nat /\ from[i + 1] \in Nat
          /\ p # Quote => from[i + 1] = j + 1 /\ flat[j + 1] = p
          /\ p = Quote => /\ from[i + 1] = j + 4
                          /\ flat[j + 1] = Quote /\ flat[j + 2] = Backslash
                          /\ flat[j + 3] = Quote /\ flat[j + 4] = Quote
      BY <1>2, <2>1
    <2>3. a[j + 1] = Reading("quoted", w)
      BY <1>11
    <2>4. Pre(i + 1) = Append(w, p)
      BY <1>9, <2>1
    <2> HIDE DEF j, p, w
    <2>5. CASE p # Quote
      <3>1. j + 1 \in 0..m + 1 /\ j + 1 \in 1..m /\ j + 1 + 1 = from[i + 1] + 1
        BY <1>4, <2>2, <2>5
      <3>2. a[j + 1 + 1] = ShellRead(a[j + 1], p)
        BY <1>5, <1>8, <2>2, <2>5, <3>1
      <3>3. a[j + 1 + 1] = Reading("quoted", Append(w, p))
        BY <2>3, <2>5, <3>2, ShellReadsOne
      <3> QED  BY <2>1, <2>4, <3>1, <3>3
    <2>6. CASE p = Quote
      <3>1. /\ j + 1 \in 0..m + 1 /\ j + 2 \in 0..m + 1 /\ j + 3 \in 0..m + 1 /\ j + 4 \in 0..m + 1
            /\ j + 1 \in 1..m /\ j + 2 \in 1..m /\ j + 3 \in 1..m /\ j + 4 \in 1..m
            /\ j + 1 + 1 = j + 2 /\ j + 2 + 1 = j + 3 /\ j + 3 + 1 = j + 4
            /\ j + 4 + 1 = from[i + 1] + 1
        BY <1>4, <2>2, <2>6
      <3>2. /\ a[j + 2] = ShellRead(a[j + 1], Quote) /\ a[j + 3] = ShellRead(a[j + 2], Backslash)
            /\ a[j + 4] = ShellRead(a[j + 3], Quote) /\ a[j + 4 + 1] = ShellRead(a[j + 4], Quote)
        BY <1>5, <1>8, <2>2, <2>6, <3>1
      <3>3. a[j + 2] = Reading("plain", w)
        BY <2>3, <3>2, ShellReadsOne
      <3>4. a[j + 3] = Reading("escape", w)
        BY <3>2, <3>3, ShellReadsOne
      <3>5. a[j + 4] = Reading("plain", Append(w, p))
        BY <2>6, <3>2, <3>4, ShellReadsOne
      <3>6. a[j + 4 + 1] = Reading("quoted", Append(w, p))
        BY <3>2, <3>5, ShellReadsOne
      <3> QED  BY <2>1, <2>4, <3>1, <3>6
    <2> QED  BY <2>5, <2>6
  <1>12. n \in S
    <2> HIDE DEF S
    <2>1. 0..n \subseteq S
      BY <1>3, <1>10, <1>11, UpTo
    <2> QED  BY <1>3, <2>1
  <1>13. a[m + 1] = Reading("quoted", path)
    BY <1>2, <1>9, <1>12
  <1>14. a[m + 2] = Reading("plain", path)
    <2>1. m + 1 \in 0..m + 1 /\ m + 1 + 1 = m + 2
      BY <1>4
    <2>2. a[m + 2] = ShellRead(a[m + 1], Quote)
      BY <1>5, <1>8, <2>1
    <2> QED  BY <1>13, <2>2, ShellReadsOne
  <1>15. ShellFrom(Reading("plain", <<>>), text) = Reading("plain", path)
    BY <1>5, <1>7, <1>14
  <1>16. ShellWord(text) = path
    BY <1>15 DEF ShellWord, ShellFrom, Reading
  <1> QED  BY <1>16 DEF Argument, text, flat

------------------------------------------------------------------------------
(***************************************************************************)
(* Mode strings.                                                           *)
(***************************************************************************)
Perms == (1..3) \X {"r", "w", "x", "s"}

\* The three characters of a class.
Letter(perms, c, k) ==
  CASE k = 1 -> IF <<c, "r">> \in perms THEN "r" ELSE "-"
    [] k = 2 -> IF <<c, "w">> \in perms THEN "w" ELSE "-"
    [] OTHER -> IF <<c, "s">> \in perms THEN Special(c)[IF <<c, "x">> \in perms THEN 1 ELSE 2]
                ELSE IF <<c, "x">> \in perms THEN "x" ELSE "-"

\* They stand in their places of the mode string.
LEMMA ModesAreShown ==
  ASSUME NEW type, NEW perms
  PROVE  LET s == ModeString(type, perms) IN
         /\ Len(s) = 10 /\ s[1] = type
         /\ \A c \in 1..3 : \A k \in 1..3 : s[3 * c + k - 2] = Letter(perms, c, k)
         /\ \A c \in 1..3 : \A k \in 1..3 : SubSeq(s, 3 * c - 1, 3 * c + 1)[k] = Letter(perms, c, k)
  <1> DEFINE E == {Letter(perms, c, k) : c \in 1..3, k \in 1..3} \cup {type}
             Three(c) == <<Letter(perms, c, 1), Letter(perms, c, 2), Letter(perms, c, 3)>>
             seqs == [c \in 1..3 |-> Three(c)]
             flat == FlattenSeq(seqs)
             s == <<type>> \o flat
  <1>1. ModeString(type, perms) = s
    BY DEF ModeString, Letter
  <1>2. \A c \in 1..3 : \A k \in 1..3 : Letter(perms, c, k) \in E
    OBVIOUS
  <1>3. type \in E
    OBVIOUS
  <1> HIDE DEF E
  <1>4. ASSUME NEW c \in 1..3
        PROVE  /\ Three(c) \in Seq(E) /\ Len(Three(c)) = 3
               /\ \A k \in 1..3 : Three(c)[k] = Letter(perms, c, k)
    <2>1. Letter(perms, c, 1) \in E /\ Letter(perms, c, 2) \in E /\ Letter(perms, c, 3) \in E
      BY <1>2
    <2> DEFINE x == Letter(perms, c, 1)
               y == Letter(perms, c, 2)
               z == Letter(perms, c, 3)
    <2>2. \A k \in 1..3 : k = 1 \/ k = 2 \/ k = 3
      OBVIOUS
    <2> HIDE DEF x, y, z
    <2>3. /\ <<x, y, z>> \in Seq(E) /\ Len(<<x, y, z>>) = 3
          /\ <<x, y, z>>[1] = x /\ <<x, y, z>>[2] = y /\ <<x, y, z>>[3] = z
      BY <2>1 DEF x, y, z
    <2> QED  BY <2>2, <2>3 DEF x, y, z
  <1> HIDE DEF Three
  <1>5. seqs \in Seq(Seq(E)) /\ Len(seqs) = 3 /\ \A c \in 1..3 : seqs[c] = Three(c)
    <2>1. seqs \in [1..3 -> Seq(E)] /\ \A c \in 1..3 : seqs[c] = Three(c)
      BY <1>4
    <2> DEFINE Q == Seq(E)
    <2> HIDE DEF seqs, Q
    <2>2. seqs \in [1..3 -> Q]
      BY <2>1 DEF Q
    <2>3. 3 \in Nat
      OBVIOUS
    <2> DEFINE m == 3
    <2> HIDE DEF m
    <2>4. m \in Nat /\ seqs \in [1..m -> Q]
      BY <2>2, <2>3 DEF m
    <2>5. seqs \in Seq(Q) /\ Len(seqs) = m
      BY <2>4
    <2> QED  BY <2>1, <2>5 DEF Q, m
  <1> HIDE DEF seqs
  <1>6. /\ flat \in Seq(E)
        /\ \E from \in [0..Len(seqs) -> Nat] :
             /\ from[0] = 0 /\ from[Len(seqs)] = Len(flat)
             /\ \A k \in 1..Len(seqs) :
                  /\ from[k] = from[k - 1] + Len(seqs[k]) /\ from[k] =< Len(flat)
                  /\ \A j \in 1..Len(seqs[k]) : flat[from[k - 1] + j] = seqs[k][j]
    <2>1. seqs \in Seq(Seq(E))
      BY <1>5
    <2> QED  BY <2>1, Pieces
  <1> HIDE DEF flat
  <1>7. PICK from \in [0..3 -> Nat] :
          /\ from[0] = 0 /\ from[3] = Len(flat)
          /\ \A c \in 1..3 :
               /\ from[c] = from[c - 1] + 3
               /\ \A k \in 1..3 : flat[from[c - 1] + k] = Letter(perms, c, k)
    <2>1. Len(seqs) = 3
      BY <1>5
    <2> DEFINE m == Len(seqs)
    <2>2. PICK from \in [0..m -> Nat] :
            /\ from[0] = 0 /\ from[m] = Len(flat)
            /\ \A k \in 1..m :
                 /\ from[k] = from[k - 1] + Len(seqs[k]) /\ from[k] =< Len(flat)
                 /\ \A j \in 1..Len(seqs[k]) : flat[from[k - 1] + j] = seqs[k][j]
      BY <1>6
    <2>3. m = 3
      BY <2>1
    <2> HIDE DEF m
    <2>4. \A c \in 1..m : Len(seqs[c]) = 3 /\ \A k \in 1..3 : seqs[c][k] = Letter(perms, c, k)
      <3>1. ASSUME NEW c \in 1..m PROVE seqs[c] = Three(c) /\ c \in 1..3
        BY <1>5, <2>3
      <3> QED  BY <1>4, <3>1
    <2>5. ASSUME NEW c \in 1..m
          PROVE  /\ from[c] = from[c - 1] + 3
                 /\ \A k \in 1..3 : flat[from[c - 1] + k] = Letter(perms, c, k)
      <3> DEFINE z == seqs[c]
      <3>1. /\ from[c] = from[c - 1] + Len(z)
            /\ \A j \in 1..Len(z) : flat[from[c - 1] + j] = z[j]
        BY <2>2
      <3>2. Len(z) = 3 /\ \A k \in 1..3 : z[k] = Letter(perms, c, k)
        BY <2>4
      <3> HIDE DEF z
      <3> QED  BY <3>1, <3>2
    <2> QED  BY <2>2, <2>3, <2>5
  <1>8. /\ from[1] = 3 /\ from[2] = 6 /\ from[3] = 9 /\ from[0] = 0
    <2>1. /\ 1 \in 1..3 /\ 2 \in 1..3 /\ 3 \in 1..3 /\ 1 - 1 = 0 /\ 2 - 1 = 1 /\ 3 - 1 = 2
      OBVIOUS
    <2>2. from[1] = from[0] + 3 /\ from[2] = from[1] + 3 /\ from[3] = from[2] + 3
      BY <1>7, <2>1
    <2> QED  BY <1>7, <2>2
  <1>9. Len(flat) = 9 /\ \A c \in 1..3 : \A k \in 1..3 : flat[3 * c - 3 + k] = Letter(perms, c, k)
    <2>1. ASSUME NEW c \in 1..3 PROVE from[c - 1] = 3 * c - 3
      <3>1. (c = 1 \/ c = 2 \/ c = 3) /\ 1 - 1 = 0 /\ 2 - 1 = 1 /\ 3 - 1 = 2
        OBVIOUS
      <3> QED  BY <1>8, <3>1
    <2> QED  BY <1>7, <1>8, <2>1
  <1>10. /\ s \in Seq(E) /\ Len(s) = 10
         /\ \A i \in 1..10 : s[i] = IF i <= 1 THEN <<type>>[i] ELSE flat[i - 1]
    <2>1. <<type>> \in Seq(E) /\ Len(<<type>>) = 1
      BY <1>3
    <2>2. flat \in Seq(E) /\ Len(flat) = 9
      BY <1>6, <1>9
    <2> DEFINE t == <<type>>
    <2>3. t \in Seq(E) /\ Len(t) = 1
      BY <2>1
    <2> HIDE DEF t
    <2>4. /\ t \o flat \in Seq(E) /\ Len(t \o flat) = Len(t) + Len(flat)
          /\ \A i \in 1..Len(t) + Len(flat) :
               (t \o flat)[i] = IF i <= Len(t) THEN t[i] ELSE flat[i - Len(t)]
      BY <2>2, <2>3, ConcatProperties
    <2>5. Len(t) + Len(flat) = 10
      BY <2>2, <2>3
    <2> QED  BY <2>3, <2>4, <2>5 DEF t
  <1> HIDE DEF s
  <1>11. s[1] = type
    BY <1>10
  <1>12. ASSUME NEW c \in 1..3, NEW k \in 1..3
         PROVE  s[3 * c + k - 2] = Letter(perms, c, k)
    <2>1. /\ 3 * c + k - 2 \in 1..10 /\ ~(3 * c + k - 2 <= 1)
          /\ 3 * c + k - 2 - 1 = 3 * c - 3 + k
      OBVIOUS
    <2> QED  BY <1>9, <1>10, <2>1
  <1>13. ASSUME NEW c \in 1..3, NEW k \in 1..3
         PROVE  SubSeq(s, 3 * c - 1, 3 * c + 1)[k] = Letter(perms, c, k)
    <2>1. /\ 3 * c - 1 \in 1..10 /\ 3 * c + 1 \in 1..10 /\ k \in 1..3 * c + 1 - (3 * c - 1) + 1
          /\ 3 * c - 1 + k - 1 = 3 * c + k - 2
      OBVIOUS
    <2>2. SubSeq(s, 3 * c - 1, 3 * c + 1)[k] = s[3 * c - 1 + k - 1]
      <3> DEFINE x == 3 * c - 1
                 y == 3 * c + 1
      <3>1. x \in Int /\ y \in Int /\ k \in 1..y - x + 1 /\ k \in Int
        BY <2>1
      <3> HIDE DEF x, y
      <3>2. SubSeq(s, x, y)[k] = s[x + k - 1]
        BY <3>1
      <3> QED  BY <3>2 DEF x, y
    <2> QED  BY <1>12, <2>1, <2>2
  <1> QED  BY <1>1, <1>10, <1>11, <1>12, <1>13

\* From the characters of a class its permissions are read back.
LEMMA TripletsAreRead ==
  ASSUME NEW perms, NEW c \in 1..3, NEW t,
         \A k \in 1..3 : t[k] = Letter(perms, c, k)
  PROVE  Triplet(t, c) = {p \in {c} \X {"r", "w", "x", "s"} : p \in perms}
  <1>1. /\ t[1] = IF <<c, "r">> \in perms THEN "r" ELSE "-"
        /\ t[2] = IF <<c, "w">> \in perms THEN "w" ELSE "-"
        /\ t[3] = IF <<c, "s">> \in perms THEN Special(c)[IF <<c, "x">> \in perms THEN 1 ELSE 2]
                  ELSE IF <<c, "x">> \in perms THEN "x" ELSE "-"
    <2>1. 1 \in 1..3 /\ 2 \in 1..3 /\ 3 \in 1..3 /\ 1 # 2 /\ 1 # 3 /\ 2 # 3
      OBVIOUS
    <2> QED  BY <2>1 DEF Letter
  <1> DEFINE lower == Special(c)[1]
             upper == Special(c)[2]
             Letters == ({t[1]} \cap {"r"}) \cup ({t[2]} \cap {"w"})
                          \cup (IF t[3] \in {"x", lower} THEN {"x"} ELSE {})
                          \cup (IF t[3] \in {lower, upper} THEN {"s"} ELSE {})
  <1>2. /\ lower \in {"s", "t"} /\ upper \in {"S", "T"}
    BY DEF Special
  <1> HIDE DEF lower, upper
  <1>3. t[3] = IF <<c, "s">> \in perms THEN (IF <<c, "x">> \in perms THEN lower ELSE upper)
               ELSE IF <<c, "x">> \in perms THEN "x" ELSE "-"
    BY <1>1 DEF lower, upper
  <1>4. /\ "r" \in Letters <=> <<c, "r">> \in perms
        /\ "w" \in Letters <=> <<c, "w">> \in perms
        /\ "x" \in Letters <=> <<c, "x">> \in perms
        /\ "s" \in Letters <=> <<c, "s">> \in perms
        /\ Letters \subseteq {"r", "w", "x", "s"}
    BY <1>1, <1>2, <1>3
  <1>5. Triplet(t, c) = {c} \X Letters
    BY DEF Triplet, lower, upper
  <1> HIDE DEF Letters
  <1>6. \A y \in {"r", "w", "x", "s"} : y \in Letters <=> <<c, y>> \in perms
    BY <1>4
  <1>7. {c} \X Letters = {p \in {c} \X {"r", "w", "x", "s"} : p \in perms}
    <2> DEFINE S == {"r", "w", "x", "s"}
    <2>1. Letters \subseteq S /\ \A y \in S : y \in Letters <=> <<c, y>> \in perms
      BY <1>4, <1>6
    <2> HIDE DEF S
    <2>2. ASSUME NEW p \in {c} \X Letters PROVE p \in {c} \X S /\ p \in perms
      <3>1. p = <<c, p[2]>> /\ p[2] \in Letters
        OBVIOUS
      <3> QED  BY <2>1, <3>1
    <2>3. ASSUME NEW p \in {c} \X S, p \in perms PROVE p \in {c} \X Letters
      <3>1. p = <<c, p[2]>> /\ p[2] \in S
        OBVIOUS
      <3>2. p[2] \in Letters
        BY <2>1, <2>3, <3>1
      <3> QED  BY <3>1, <3>2
    <2> QED  BY <2>2, <2>3 DEF S
  <1> QED  BY <1>5, <1>7

\* What ls prints of type and permissions is read back (parse_mode_string), setuid,
\* setgid and the sticky bit included.
LEMMA ModesAreRead ==
  ASSUME NEW type \in Types, NEW perms \in SUBSET Perms
  PROVE  /\ parse_mode_string(ModeString(type, perms)) = [type |-> type, perms |-> perms]
         /\ ModeString(type, perms)[2] \in {"r", "-"}
  <1> DEFINE s == ModeString(type, perms)
  <1>1. /\ Len(s) = 10 /\ s[1] = type
        /\ \A c \in 1..3 : \A k \in 1..3 : s[3 * c + k - 2] = Letter(perms, c, k)
        /\ \A c \in 1..3 : \A k \in 1..3 : SubSeq(s, 3 * c - 1, 3 * c + 1)[k] = Letter(perms, c, k)
    BY ModesAreShown
  <1> HIDE DEF s
  <1>2. \A c \in 1..3 : Triplet(SubSeq(s, 3 * c - 1, 3 * c + 1), c)
                          = {p \in {c} \X {"r", "w", "x", "s"} : p \in perms}
    BY <1>1, TripletsAreRead
  <1>3. UNION {Triplet(SubSeq(s, 3 * c - 1, 3 * c + 1), c) : c \in 1..3} = perms
    BY <1>2 DEF Perms
  <1>4. s[2] \in {"r", "-"}
    <2>1. 1 \in 1..3 /\ 3 * 1 + 1 - 2 = 2
      OBVIOUS
    <2>2. s[2] = Letter(perms, 1, 1)
      BY <1>1, <2>1
    <2> QED  BY <2>2 DEF Letter
  <1>5. parse_mode_string(s)
          = [type |-> IF s[1] \in Types THEN s[1] ELSE "",
             perms |-> UNION {Triplet(SubSeq(s, 3 * c - 1, 3 * c + 1), c) : c \in 1..3}]
    BY <1>1 DEF parse_mode_string
  <1> QED  BY <1>1, <1>3, <1>4, <1>5 DEF s

------------------------------------------------------------------------------
(***************************************************************************)
(* Fields.                                                                 *)
(***************************************************************************)
FieldLists(E) == Seq(Seq(E)) \ {<<>>}

\* A piece goes to the last field, a space begins one.
LEMMA OnePieceRead ==
  ASSUME NEW E, NEW t \in FieldLists(E), NEW e \in E
  PROVE  LET u == FieldRead(t, e) IN
         /\ u \in FieldLists(E)
         /\ e = Space => u = Append(t, <<>>)
         /\ e # Space => /\ Len(u) = Len(t)
                         /\ \A i \in 1..Len(t) - 1 : u[i] = t[i]
                         /\ u[Len(t)] = Append(t[Len(t)], e)
  <1> DEFINE Q == Seq(E)
             n == Len(t)
  <1>1. t \in Seq(Q) /\ t # <<>>
    BY DEF FieldLists
  <1>2. <<>> \in Q /\ \A x \in Q : Append(x, e) \in Q
    OBVIOUS
  <1> HIDE DEF Q
  <1>3. n \in Nat /\ n >= 1 /\ DOMAIN t = 1..n /\ \A i \in 1..n : t[i] \in Q
    BY <1>1
  <1>4. CASE e = Space
    <2>1. FieldRead(t, e) = Append(t, <<>>)
      BY <1>4 DEF FieldRead
    <2>2. Append(t, <<>>) \in Seq(Q) /\ Append(t, <<>>) # <<>>
      BY <1>1, <1>2
    <2> QED  BY <1>4, <2>1, <2>2 DEF FieldLists, Q
  <1>5. CASE e # Space
    <2> DEFINE u == [t EXCEPT ![n] = Append(t[n], e)]
    <2>1. FieldRead(t, e) = u
      BY <1>5 DEF FieldRead
    <2>2. n \in 1..n
      BY <1>3
    <2>3. Append(t[n], e) \in Q
      BY <1>2, <1>3, <2>2
    <2> DEFINE last == Append(t[n], e)
    <2> HIDE DEF last, n
    <2>4. u \in [1..n -> Q] /\ u[n] = last /\ \A i \in 1..n : i # n => u[i] = t[i]
      BY <1>3, <2>2, <2>3 DEF last
    <2> HIDE DEF u
    <2>5. u \in Seq(Q) /\ Len(u) = n
      BY <1>3, <2>4
    <2>6. u # <<>>
      BY <1>3, <2>5
    <2>7. \A i \in 1..n - 1 : i \in 1..n /\ i # n
      BY <1>3
    <2> QED  BY <1>5, <2>1, <2>4, <2>5, <2>6, <2>7 DEF FieldLists, Q, n, last
  <1> QED  BY <1>4, <1>5

\* The fields of the beginnings of a line.
LEMMA FieldRuns ==
  ASSUME NEW E, NEW base \in FieldLists(E), NEW line \in Seq(E)
  PROVE  \E a : /\ a[0] = base
                /\ \A k \in 1..Len(line) : a[k] = FieldRead(a[k - 1], line[k])
                /\ \A k \in 0..Len(line) : a[k] \in FieldLists(E)
                /\ FieldsFrom(base, line) = a[Len(line)]
  <1> DEFINE T == FieldLists(E)
             n == Len(line)
  <1>1. \A t \in T, e \in E : FieldRead(t, e) \in T
    BY OnePieceRead
  <1>2. base \in T
    OBVIOUS
  <1> HIDE DEF T
  <1>3. PICK a : /\ a[0] = base
                 /\ \A k \in 1..Len(line) : a[k] = FieldRead(a[k - 1], line[k])
                 /\ FieldsFrom(base, line) = a[Len(line)]
    BY <1>1, <1>2, FieldReads
  <1>4. n \in Nat /\ \A k \in 1..n : line[k] \in E
    OBVIOUS
  <1> DEFINE S == {k \in 0..n : a[k] \in T}
  <1>5. 0 \in S
    BY <1>2, <1>3, <1>4
  <1>6. ASSUME NEW k \in 0..n - 1, k \in S
        PROVE  k + 1 \in S
    <2>1. k + 1 \in 1..n /\ k + 1 - 1 = k /\ k + 1 \in 0..n
      BY <1>4
    <2>2. a[k + 1] = FieldRead(a[k], line[k + 1]) /\ line[k + 1] \in E
      BY <1>3, <1>4, <2>1
    <2> QED  BY <1>1, <1>6, <2>1, <2>2
  <1>7. 0..n \subseteq S
    <2> HIDE DEF S
    <2> QED  BY <1>4, <1>5, <1>6, UpTo
  <1> QED  BY <1>3, <1>7 DEF T

\* The second of two texts goes on where the first one has ended.
LEMMA FieldsOfBoth ==
  ASSUME NEW E, NEW base \in FieldLists(E), NEW s \in Seq(E), NEW t \in Seq(E)
  PROVE  /\ FieldsFrom(base, s) \in FieldLists(E)
         /\ FieldsFrom(base, s \o t) = FieldsFrom(FieldsFrom(base, s), t)
  <1> DEFINE n == Len(s)
             m == Len(t)
             st == s \o t
  <1>1. PICK a : /\ a[0] = base
                 /\ \A k \in 1..n : a[k] = FieldRead(a[k - 1], s[k])
                 /\ \A k \in 0..n : a[k] \in FieldLists(E)
                 /\ FieldsFrom(base, s) = a[n]
    BY FieldRuns
  <1>2. n \in Nat /\ m \in Nat /\ n \in 0..n
    OBVIOUS
  <1>3. FieldsFrom(base, s) \in FieldLists(E)
    BY <1>1, <1>2
  <1>4. PICK b : /\ b[0] = FieldsFrom(base, s)
                 /\ \A k \in 1..m : b[k] = FieldRead(b[k - 1], t[k])
                 /\ FieldsFrom(FieldsFrom(base, s), t) = b[m]
    BY <1>3, FieldRuns
  <1>5. /\ st \in Seq(E) /\ Len(st) = n + m
        /\ \A i \in 1..n + m : st[i] = IF i <= n THEN s[i] ELSE t[i - n]
    BY ConcatProperties
  <1> HIDE DEF st, n, m
  <1>6. PICK c : /\ c[0] = base
                 /\ \A k \in 1..n + m : c[k] = FieldRead(c[k - 1], st[k])
                 /\ FieldsFrom(base, st) = c[n + m]
    <2>1. st \in Seq(E)
      BY <1>5
    <2>2. PICK c : /\ c[0] = base
                   /\ \A k \in 1..Len(st) : c[k] = FieldRead(c[k - 1], st[k])
                   /\ FieldsFrom(base, st) = c[Len(st)]
      BY <2>1, FieldRuns
    <2> QED  BY <1>5, <2>2
  <1> DEFINE S == {k \in 0..n : c[k] = a[k]}
             R == {k \in 0..m : c[n + k] = b[k]}
  <1>7. 0..n \subseteq S
    <2>1. 0 \in S
      BY <1>1, <1>2, <1>6
    <2>2. ASSUME NEW k \in 0..n - 1, k \in S
          PROVE  k + 1 \in S
      <3>1. /\ k + 1 \in 1..n /\ k + 1 \in 1..n + m /\ k + 1 - 1 = k /\ k + 1 \in 0..n
            /\ k + 1 <= n
        BY <1>2
      <3>2. c[k + 1] = FieldRead(c[k], st[k + 1]) /\ a[k + 1] = FieldRead(a[k], s[k + 1])
        BY <1>1, <1>6, <3>1
      <3>3. st[k + 1] = s[k + 1]
        BY <1>5, <3>1
      <3> QED  BY <2>2, <3>1, <3>2, <3>3
    <2> HIDE DEF S
    <2> QED  BY <1>2, <2>1, <2>2, UpTo
  <1>8. 0..m \subseteq R
    <2>1. 0 \in R
      <3>1. n \in S /\ n + 0 = n /\ 0 \in 0..m
        BY <1>2, <1>7
      <3> QED  BY <1>1, <1>4, <3>1
    <2>2. ASSUME NEW k \in 0..m - 1, k \in R
          PROVE  k + 1 \in R
      <3> DEFINE i == n + k + 1
                 j == k + 1
      <3>1. /\ i \in 1..n + m /\ i - 1 = n + k /\ ~(i <= n) /\ i - n = j /\ i = n + j
            /\ j \in 1..m /\ j - 1 = k /\ j \in 0..m
        BY <1>2
      <3>2. c[n + k] = b[k]
        BY <2>2
      <3> HIDE DEF i, j
      <3>3. c[i] = FieldRead(c[i - 1], st[i])
        BY <1>6, <3>1
      <3>4. b[j] = FieldRead(b[j - 1], t[j])
        BY <1>4, <3>1
      <3>5. st[i] = t[i - n]
        BY <1>5, <3>1
      <3>6. c[n + j] = b[j]
        BY <3>1, <3>2, <3>3, <3>4, <3>5
      <3>7. j \in R
        BY <3>1, <3>6
      <3> QED  BY <3>7 DEF j
    <2> HIDE DEF R
    <2> QED  BY <1>2, <2>1, <2>2, UpTo
  <1>9. m \in R
    <2>1. m \in 0..m
      BY <1>2
    <2> QED  BY <1>8, <2>1
  <1>10. FieldsFrom(base, st) = FieldsFrom(FieldsFrom(base, s), t)
    BY <1>4, <1>6, <1>9
  <1> QED  BY <1>3, <1>10 DEF st

\* A piece that is no space goes on with the last field.
LEMMA OnePieceMore ==
  ASSUME NEW E, NEW fs \in Seq(Seq(E)), NEW f \in Seq(E), NEW e \in E
  PROVE  /\ Append(fs, f) \in FieldLists(E)
         /\ e # Space => FieldRead(Append(fs, f), e) = Append(fs, Append(f, e))
  <1> DEFINE Q == Seq(E)
             n == Len(fs)
             g == Append(f, e)
  <1>1. fs \in Seq(Q) /\ f \in Q /\ g \in Q
    OBVIOUS
  <1> HIDE DEF Q, g
  <1>2. n \in Nat /\ \A i \in 1..n : fs[i] \in Q
    BY <1>1
  <1> DEFINE t == Append(fs, f)
             u == Append(fs, g)
  <1>3. t \in Seq(Q) /\ Len(t) = n + 1 /\ t[n + 1] = f /\ \A i \in 1..n : t[i] = fs[i]
    BY <1>1, AppendProperties
  <1>6. u \in Seq(Q) /\ Len(u) = n + 1 /\ u[n + 1] = g /\ \A i \in 1..n : u[i] = fs[i]
    BY <1>1, AppendProperties
  <1> HIDE DEF t, u, n
  <1>4. t \in FieldLists(E)
    BY <1>2, <1>3 DEF FieldLists, Q
  <1>5. ASSUME e # Space PROVE FieldRead(t, e) = u
    <2>1. FieldRead(t, e) = [t EXCEPT ![n + 1] = Append(t[n + 1], e)]
      BY <1>3, <1>5 DEF FieldRead
    <2>2. Append(t[n + 1], e) = g
      BY <1>3 DEF g
    <2> DEFINE m == n + 1
               v == [t EXCEPT ![m] = g]
    <2>3. m \in Nat /\ m \in 1..m /\ \A i \in 1..m : i \in 1..n \/ i = m
      BY <1>2
    <2> HIDE DEF m
    <2>4. t \in [1..m -> Q] /\ Len(t) = m
      BY <1>3, <2>3 DEF m
    <2>5. v \in [1..m -> Q] /\ v[m] = g /\ \A i \in 1..m : i # m => v[i] = t[i]
      BY <1>1, <2>3, <2>4
    <2>6. \A i \in 1..m : v[i] = u[i]
      BY <1>3, <1>6, <2>3, <2>5 DEF m
    <2>7. u \in [1..m -> Q]
      BY <1>6, <2>3 DEF m
    <2>8. v = u
      BY <2>5, <2>6, <2>7
    <2> QED  BY <2>1, <2>2, <2>8 DEF m
  <1> QED  BY <1>4, <1>5 DEF t, u, g

\* A column and the space after it are one more field.
LEMMA OneColumn ==
  ASSUME NEW E, Space \in E, NEW fs \in Seq(Seq(E)), NEW col \in Seq(E \ {Space})
  PROVE  FieldsFrom(Append(fs, <<>>), Append(col, Space)) = Append(Append(fs, col), <<>>)
  <1> DEFINE base == Append(fs, <<>>)
             n == Len(col)
             Pre(k) == SubSeq(col, 1, k)
  <1>1. <<>> \in Seq(E) /\ col \in Seq(E) /\ <<Space>> \in Seq(E)
    OBVIOUS
  <1>2. base \in FieldLists(E)
    BY <1>1, OnePieceMore
  <1>3. n \in Nat /\ \A k \in 1..n : col[k] \in E /\ col[k] # Space
    OBVIOUS
  <1>14. base = Append(fs, <<>>)
    OBVIOUS
  <1> HIDE DEF base
  <1>4. /\ Pre(0) = <<>> /\ Pre(n) = col
        /\ \A k \in 0..n : Pre(k) \in Seq(E)
        /\ \A k \in 1..n : Pre(k) = Append(Pre(k - 1), col[k])
    BY <1>1, Beginnings
  <1>5. PICK a : /\ a[0] = base
                 /\ \A k \in 1..n : a[k] = FieldRead(a[k - 1], col[k])
                 /\ FieldsFrom(base, col) = a[n]
    BY <1>1, <1>2, FieldRuns
  <1> HIDE DEF Pre, n
  <1> DEFINE S == {k \in 0..n : a[k] = Append(fs, Pre(k))}
  <1>6. 0 \in S
    BY <1>3, <1>4, <1>5, <1>14
  <1>7. ASSUME NEW k \in 0..n - 1, k \in S
        PROVE  k + 1 \in S
    <2>1. k + 1 \in 1..n /\ k + 1 - 1 = k /\ k + 1 \in 0..n /\ k \in 0..n
      BY <1>3
    <2>2. a[k + 1] = FieldRead(Append(fs, Pre(k)), col[k + 1])
      <3> HIDE DEF S
      <3>1. a[k + 1] = FieldRead(a[k], col[k + 1])
        BY <1>5, <2>1
      <3>2. a[k] = Append(fs, Pre(k))
        BY <1>7 DEF S
      <3> QED  BY <3>1, <3>2
    <2>3. Pre(k + 1) = Append(Pre(k), col[k + 1])
      BY <1>4, <2>1
    <2>4. Pre(k) \in Seq(E) /\ col[k + 1] \in E /\ col[k + 1] # Space
      BY <1>3, <1>4, <2>1
    <2>5. FieldRead(Append(fs, Pre(k)), col[k + 1]) = Append(fs, Append(Pre(k), col[k + 1]))
      BY <2>4, OnePieceMore
    <2> QED  BY <2>1, <2>2, <2>3, <2>5
  <1>8. n \in S
    <2> HIDE DEF S
    <2>1. 0..n \subseteq S
      BY <1>3, <1>6, <1>7, UpTo
    <2> QED  BY <1>3, <2>1
  <1>9. FieldsFrom(base, col) = Append(fs, col)
    BY <1>4, <1>5, <1>8
  <1>10. Append(fs, col) \in FieldLists(E)
    BY <1>1, OnePieceMore
  <1>11. FieldsFrom(Append(fs, col), <<Space>>) = Append(Append(fs, col), <<>>)
    <2> DEFINE t == Append(fs, col)
               one == <<Space>>
    <2>1. t \in FieldLists(E) /\ one \in Seq(E)
      BY <1>1, <1>10
    <2>2. Len(one) = 1 /\ one[1] = Space
      OBVIOUS
    <2> HIDE DEF t, one
    <2>3. PICK b : /\ b[0] = t
                   /\ \A k \in 1..Len(one) : b[k] = FieldRead(b[k - 1], one[k])
                   /\ FieldsFrom(t, one) = b[Len(one)]
      BY <2>1, FieldRuns
    <2>4. b[1] = FieldRead(t, Space)
      <3>1. 1 \in 1..1 /\ 1 - 1 = 0
        OBVIOUS
      <3> QED  BY <2>2, <2>3, <3>1
    <2>5. FieldRead(t, Space) = Append(t, <<>>)
      BY DEF FieldRead
    <2> QED  BY <2>2, <2>3, <2>4, <2>5 DEF t, one
  <1>12. Append(col, Space) = col \o <<Space>>
    BY <1>1
  <1>13. FieldsFrom(base, col \o <<Space>>) = FieldsFrom(FieldsFrom(base, col), <<Space>>)
    <2> DEFINE one == <<Space>>
    <2>1. one \in Seq(E) /\ col \in Seq(E)
      BY <1>1
    <2> HIDE DEF one
    <2>2. FieldsFrom(base, col \o one) = FieldsFrom(FieldsFrom(base, col), one)
      BY <2>1, <1>2, FieldsOfBoth
    <2> QED  BY <2>2 DEF one
  <1> QED  BY <1>9, <1>11, <1>12, <1>13, <1>14

\* The columns of ls are the fields of what they print.
LEMMA FieldsOfColumns ==
  ASSUME NEW E, Space \in E, NEW columns \in Seq(Seq(E \ {Space}))
  PROVE  LET line == FlattenSeq([k \in 1..Len(columns) |-> Append(columns[k], Space)]) IN
         /\ line \in Seq(E)
         /\ FieldsFrom(<<(<<>>)>>, line) = Append(columns, <<>>)
  <1> DEFINE C == Seq(E \ {Space})
             Q == Seq(E)
             n == Len(columns)
             Col(k) == Append(columns[k], Space)
             seqs == [k \in 1..n |-> Col(k)]
             line == FlattenSeq(seqs)
             base == <<(<<>>)>>
             Pre(k) == SubSeq(columns, 1, k)
  <1>1. (\A c \in C : c \in Q /\ Append(c, Space) \in Q) /\ C \subseteq Q /\ <<>> \in Q
    OBVIOUS
  <1>2. columns \in Seq(C)
    OBVIOUS
  <1> HIDE DEF C, Q
  <1>3. n \in Nat /\ \A k \in 1..n : columns[k] \in C
    BY <1>2
  <1>4. seqs \in Seq(Q) /\ Len(seqs) = n /\ \A k \in 1..n : seqs[k] = Col(k)
    <2> HIDE DEF n
    <2>1. \A k \in 1..n : Col(k) \in Q
      BY <1>1, <1>3
    <2> HIDE DEF Col
    <2>2. seqs \in [1..n -> Q] /\ \A k \in 1..n : seqs[k] = Col(k)
      BY <2>1
    <2> HIDE DEF seqs
    <2> QED  BY <1>3, <2>2
  <1>5. /\ Pre(0) = <<>> /\ Pre(n) = columns
        /\ \A k \in 0..n : Pre(k) \in Seq(C)
        /\ \A k \in 1..n : Pre(k) = Append(Pre(k - 1), columns[k])
    BY <1>2, Beginnings
  <1>6. \A k \in 0..n : Pre(k) \in Seq(Q)
    <2>1. Seq(C) \subseteq Seq(Q)
      BY <1>1
    <2> QED  BY <1>5, <2>1
  <1> HIDE DEF Pre, seqs, Col
  <1>7. PICK a \in [0..Len(seqs) -> Q] :
               /\ a[0] = <<>>
               /\ \A k \in 1..Len(seqs) : a[k] = a[k - 1] \o seqs[k]
               /\ line = a[Len(seqs)]
    <2>1. seqs \in Seq(Seq(E))
      BY <1>4 DEF Q
    <2> QED  BY <2>1, Flattens DEF Q
  <1>8. /\ a[0] = <<>> /\ line = a[n] /\ (\A k \in 0..n : a[k] \in Q)
        /\ \A k \in 1..n : a[k] = a[k - 1] \o Col(k)
    BY <1>4, <1>7
  <1> HIDE DEF line, n
  <1> DEFINE S == {k \in 0..n : FieldsFrom(base, a[k]) = Append(Pre(k), <<>>)}
  <1>9. base \in FieldLists(E) /\ base = Append(<<>>, <<>>)
    <2>1. base \in Seq(Q)
      BY <1>1
    <2> QED  BY <2>1 DEF FieldLists, Q
  <1> HIDE DEF base
  <1>10. 0 \in S
    <2> DEFINE none == <<>>
    <2>1. none \in Seq(E) /\ Len(none) = 0
      OBVIOUS
    <2> HIDE DEF none
    <2>2. PICK b : b[0] = base /\ FieldsFrom(base, none) = b[Len(none)]
      <3>1. base \in FieldLists(E) /\ none \in Seq(E)
        BY <1>9, <2>1
      <3> QED  BY <3>1, FieldRuns
    <2>3. FieldsFrom(base, a[0]) = Append(Pre(0), <<>>)
      BY <1>5, <1>8, <1>9, <2>1, <2>2 DEF none
    <2> QED  BY <1>3, <2>3
  <1>11. ASSUME NEW k \in 0..n - 1, k \in S
         PROVE  k + 1 \in S
    <2>1. k + 1 \in 1..n /\ k + 1 - 1 = k /\ k + 1 \in 0..n /\ k \in 0..n
      BY <1>3
    <2> DEFINE j == k + 1
    <2>2. a[j] = a[k] \o Col(j) /\ Pre(j) = Append(Pre(k), columns[j]) /\ j \in 1..n /\ j \in 0..n
      <3>1. j \in 1..n /\ j \in 0..n /\ j - 1 = k
        BY <2>1
      <3> HIDE DEF j, S
      <3>2. a[j] = a[j - 1] \o Col(j)
        BY <1>8, <3>1
      <3>3. Pre(j) = Append(Pre(j - 1), columns[j])
        BY <1>5, <3>1
      <3> QED  BY <3>1, <3>2, <3>3
    <2>3. a[k] \in Q /\ Col(j) \in Q /\ columns[j] \in C /\ Pre(k) \in Seq(Q)
      BY <1>1, <1>3, <1>6, <1>8, <2>1, <2>2 DEF Col
    <2>4. FieldsFrom(base, a[k]) = Append(Pre(k), <<>>)
      BY <1>11
    <2> HIDE DEF j, S
    <2>5. FieldsFrom(base, a[j]) = FieldsFrom(FieldsFrom(base, a[k]), Col(j))
      <3>1. FieldsFrom(base, a[k] \o Col(j)) = FieldsFrom(FieldsFrom(base, a[k]), Col(j))
        BY <1>9, <2>3, FieldsOfBoth DEF Q
      <3> QED  BY <2>2, <3>1
    <2>6. FieldsFrom(Append(Pre(k), <<>>), Col(j)) = Append(Append(Pre(k), columns[j]), <<>>)
      BY <2>3, OneColumn DEF Q, C, Col
    <2>7. FieldsFrom(base, a[j]) = Append(Pre(j), <<>>)
      BY <2>2, <2>4, <2>5, <2>6
    <2> QED  BY <2>2, <2>7 DEF S, j
  <1>12. n \in S
    <2> HIDE DEF S
    <2>1. 0..n \subseteq S
      BY <1>3, <1>10, <1>11, UpTo
    <2> QED  BY <1>3, <2>1
  <1>13. FieldsFrom(base, line) = Append(columns, <<>>) /\ line \in Q
    BY <1>3, <1>5, <1>8, <1>12
  <1> QED  BY <1>13 DEF base, line, seqs, Col, n, Q

\* What follows does not touch the fields before it.
LEMMA FieldsGoOn ==
  ASSUME NEW E, NEW fs \in Seq(Seq(E)), NEW rest \in Seq(E), rest # <<>>, rest[1] # Space
  PROVE  LET r == FieldsFrom(Append(fs, <<>>), rest) IN
         /\ r \in FieldLists(E) /\ Len(r) >= Len(fs) + 1
         /\ \A i \in 1..Len(fs) : r[i] = fs[i]
         /\ r[Len(fs) + 1] # <<>> /\ r[Len(fs) + 1][1] = rest[1]
  <1> DEFINE Q == Seq(E)
             base == Append(fs, <<>>)
             n == Len(fs)
             m == n + 1
             N == Len(rest)
             x == rest[1]
  <1>1. base \in FieldLists(E)
    <2>1. <<>> \in Seq(E) /\ x \in E
      OBVIOUS
    <2> HIDE DEF base, x
    <2> QED  BY <2>1, OnePieceMore DEF base
  <1>2. n \in Nat /\ m \in Nat /\ m = n + 1
    OBVIOUS
  <1>3. Len(base) = m /\ base[m] = <<>> /\ \A i \in 1..n : base[i] = fs[i]
    <2>1. fs \in Seq(Q) /\ <<>> \in Q
      OBVIOUS
    <2> HIDE DEF Q
    <2> QED  BY <2>1, AppendProperties
  <1>4. N \in Nat /\ 1 \in 1..N /\ x \in E /\ x # Space
    OBVIOUS
  <1> HIDE DEF base, n, m, N, Q
  <1>5. PICK a : /\ a[0] = base
                 /\ \A k \in 1..N : a[k] = FieldRead(a[k - 1], rest[k])
                 /\ \A k \in 0..N : a[k] \in FieldLists(E)
                 /\ FieldsFrom(base, rest) = a[N]
    BY <1>1, FieldRuns DEF N
  <1> DEFINE Fit(t) == /\ Len(t) \in Nat /\ Len(t) >= m /\ \A i \in 1..n : t[i] = fs[i]
                       /\ t[m] # <<>> /\ t[m][1] = x
             S == {k \in 0..N : k > 0 => Fit(a[k])}
  <1>6. \A t \in FieldLists(E) : Len(t) \in Nat /\ t \in Seq(Q)
    BY DEF FieldLists, Q
  <1>7. 0 \in S
    BY <1>4
  <1>8. ASSUME NEW k \in 0..N - 1, k \in S
        PROVE  k + 1 \in S
    <2>1. k + 1 \in 1..N /\ k + 1 - 1 = k /\ k + 1 \in 0..N /\ k \in 0..N
      BY <1>4
    <2> DEFINE t == a[k]
               e == rest[k + 1]
               u == FieldRead(t, e)
    <2>2. a[k + 1] = u /\ t \in FieldLists(E) /\ e \in E
      BY <1>5, <2>1 DEF N
    <2>3. /\ u \in FieldLists(E)
          /\ e = Space => u = Append(t, <<>>)
          /\ e # Space => /\ Len(u) = Len(t)
                          /\ \A i \in 1..Len(t) - 1 : u[i] = t[i]
                          /\ u[Len(t)] = Append(t[Len(t)], e)
      <3> HIDE DEF t, e
      <3> QED  BY <2>2, OnePieceRead DEF u
    <2>4. CASE k = 0
      <3>1. t = base /\ e = x
        BY <1>5, <2>4
      <3> HIDE DEF u, t
      <3>2. Len(u) = m /\ (\A i \in 1..m - 1 : u[i] = base[i]) /\ u[m] = Append(<<>>, x)
        BY <1>3, <1>4, <2>3, <3>1
      <3>3. \A i \in 1..n : i \in 1..m - 1
        BY <1>2
      <3>4. Append(<<>>, x) # <<>> /\ Append(<<>>, x)[1] = x
        OBVIOUS
      <3>5. \A i \in 1..n : u[i] = fs[i]
        BY <1>3, <3>2, <3>3
      <3>6. Fit(u)
        BY <1>2, <3>2, <3>4, <3>5
      <3> QED  BY <2>1, <2>2, <3>6
    <2>5. CASE k # 0
      <3>1. Fit(t)
        <4>1. k > 0
          BY <1>4, <2>5
        <4> QED  BY <1>8, <4>1
      <3> DEFINE len == Len(t)
      <3>2. t \in Seq(Q) /\ len \in Nat /\ len >= m /\ \A i \in 1..len : t[i] \in Q
        BY <1>6, <2>2, <3>1
      <3> HIDE DEF t, u, e
      <3>3. CASE e = Space
        <4>1. <<>> \in Q
          BY DEF Q
        <4>2. Len(Append(t, <<>>)) = len + 1 /\ \A i \in 1..len : Append(t, <<>>)[i] = t[i]
          BY <3>2, <4>1, AppendProperties
        <4> DEFINE v == Append(t, <<>>)
        <4>3. u = v
          BY <2>3, <3>3
        <4> HIDE DEF v, len
        <4>4. m \in 1..len /\ (\A i \in 1..n : i \in 1..len) /\ len + 1 \in Nat /\ len + 1 >= m
          BY <1>2, <3>2
        <4>5. u[m] = t[m] /\ \A i \in 1..n : u[i] = t[i]
          BY <4>2, <4>3, <4>4 DEF v
        <4>6. Fit(u)
          BY <3>1, <4>2, <4>3, <4>4, <4>5 DEF v
        <4> QED  BY <2>1, <2>2, <4>6
      <3>4. CASE e # Space
        <4>1. Len(u) = len /\ (\A i \in 1..len - 1 : u[i] = t[i]) /\ u[len] = Append(t[len], e)
          BY <2>3, <3>4
        <4>2. \A i \in 1..n : i \in 1..len - 1
          BY <1>2, <3>2
        <4>3. u[m] # <<>> /\ u[m][1] = x
          <5>1. CASE m = len
            <6> DEFINE w == t[m]
            <6>1. u[m] = Append(w, e) /\ w \in Q /\ w # <<>> /\ w[1] = x
              <7>1. m \in 1..len
                BY <1>2, <3>2
              <7> QED  BY <3>1, <3>2, <4>1, <5>1, <7>1
            <6> HIDE DEF w
            <6>2. w \in Seq(E) /\ e \in E
              BY <2>2, <6>1 DEF Q
            <6>3. Len(w) >= 1
              BY <6>1, <6>2
            <6>4. Append(w, e) # <<>> /\ Append(w, e)[1] = w[1]
              BY <6>2, <6>3, AppendProperties
            <6> QED  BY <6>1, <6>4
          <5>2. CASE m # len
            <6>1. m \in 1..len - 1
              BY <1>2, <3>2, <5>2
            <6> QED  BY <3>1, <4>1, <6>1
          <5> QED  BY <5>1, <5>2
        <4>4. Fit(u)
          BY <3>1, <3>2, <4>1, <4>2, <4>3
        <4> QED  BY <2>1, <2>2, <4>4
      <3> QED  BY <3>3, <3>4
    <2> QED  BY <2>4, <2>5
  <1>9. N \in S
    <2> HIDE DEF S
    <2>1. 0..N \subseteq S
      BY <1>4, <1>7, <1>8, UpTo
    <2> QED  BY <1>4, <2>1
  <1>10. Fit(a[N]) /\ a[N] \in FieldLists(E)
    BY <1>4, <1>5, <1>9
  <1> QED  BY <1>5, <1>10 DEF n, m, base, x

\* What begins a sequence stays there, where nothing of it is taken away.
LEMMA BeginningsStay ==
  ASSUME NEW E, NEW seq \in Seq(E), NEW set, NEW n \in 0..Len(seq),
         \A i \in 1..n : seq[i] \notin set
  PROVE  LET left == Without(seq, set) IN
         /\ left \in Seq(E) /\ Len(left) >= n
         /\ \A i \in 1..n : left[i] = seq[i]
  <1> DEFINE Q == Seq(E)
             N == Len(seq)
  <1>1. N \in Nat /\ n \in Nat /\ n =< N /\ \A k \in 1..N : seq[k] \in E
    OBVIOUS
  <1>2. PICK a : /\ a[0] = <<>>
                 /\ \A k \in 1..N :
                      a[k] = IF seq[k] \in set THEN a[k - 1] ELSE Append(a[k - 1], seq[k])
                 /\ Without(seq, set) = a[N]
    BY Removals
  <1> HIDE DEF N, Q
  <1> DEFINE Fit(t, k) == /\ t \in Q /\ Len(t) \in Nat
                          /\ k =< n => Len(t) = k
                          /\ k >= n => Len(t) >= n
                          /\ \A i \in 1..n : i =< k => t[i] = seq[i]
             S == {k \in 0..N : Fit(a[k], k)}
  <1>3. 0 \in S
    <2>1. <<>> \in Q /\ Len(<<>>) = 0
      BY DEF Q
    <2> QED  BY <1>1, <1>2, <2>1
  <1>4. ASSUME NEW k \in 0..N - 1, k \in S
        PROVE  k + 1 \in S
    <2> DEFINE j == k + 1
               t == a[k]
               e == seq[j]
    <2>1. k \in Nat /\ j \in Nat /\ j = k + 1 /\ j - 1 = k /\ j \in 1..N /\ j \in 0..N
      BY <1>1
    <2> HIDE DEF j
    <2>2. a[j] = (IF e \in set THEN t ELSE Append(t, e)) /\ e \in E
      BY <1>1, <1>2, <2>1
    <2>3. Fit(t, k)
      BY <1>4
    <2> HIDE DEF t, e
    <2> DEFINE u == Append(t, e)
               len == Len(t)
    <2>4. u \in Q /\ len \in Nat /\ Len(u) = len + 1 /\ u[len + 1] = e /\ \A i \in 1..len : u[i] = t[i]
      BY <2>2, <2>3, AppendProperties DEF Q
    <2>5. CASE j =< n
      <3>1. e \notin set /\ k =< n /\ len = k
        <4>1. j \in 1..n /\ k =< n
          BY <1>1, <2>1, <2>5
        <4> QED  BY <2>3, <4>1 DEF e
      <3>2. a[j] = u /\ Len(u) = j /\ u[j] = e
        BY <2>1, <2>2, <2>4, <3>1
      <3>3. \A i \in 1..n : i =< j => i = j \/ (i =< k /\ i \in 1..len)
        BY <1>1, <2>1, <3>1
      <3> HIDE DEF u, len
      <3>4. \A i \in 1..n : i =< j => u[i] = seq[i]
        BY <2>3, <2>4, <3>2, <3>3 DEF e
      <3>5. Fit(u, j)
        BY <1>1, <2>1, <2>4, <2>5, <3>2, <3>4
      <3> QED  BY <2>1, <3>2, <3>5 DEF j
    <2>6. CASE ~(j =< n)
      <3>1. k >= n /\ j >= n /\ len >= n /\ ~(j =< n)
        BY <1>1, <2>1, <2>3, <2>6
      <3>2. \A i \in 1..n : i =< k /\ i \in 1..len
        BY <1>1, <2>1, <2>4, <3>1
      <3> HIDE DEF u, len
      <3>3. \A i \in 1..n : t[i] = seq[i] /\ u[i] = seq[i]
        BY <2>3, <2>4, <3>2
      <3>4. Len(u) \in Nat /\ Len(u) >= n
        BY <1>1, <2>4, <3>1
      <3>5. Fit(u, j) /\ Fit(t, j)
        BY <2>3, <2>4, <3>1, <3>3, <3>4 DEF len
      <3>6. Fit(a[j], j)
        BY <2>2, <3>5 DEF u
      <3> QED  BY <2>1, <3>6 DEF j
    <2> QED  BY <2>5, <2>6
  <1>5. N \in S
    <2> HIDE DEF S
    <2>1. 0..N \subseteq S
      BY <1>1, <1>3, <1>4, UpTo
    <2> QED  BY <1>1, <2>1
  <1>6. Fit(a[N], N)
    BY <1>5
  <1>7. \A i \in 1..n : i =< N
    BY <1>1
  <1> QED  BY <1>1, <1>2, <1>6, <1>7 DEF Q

\* What columns print, a space after each; and fields that are columns, and one more
\* that begins like what follows them.
InColumns(columns) == FlattenSeq([k \in 1..Len(columns) |-> Append(columns[k], Space)])

AreFields(f, columns, rest, E) ==
  /\ f \in Seq(Seq(E)) /\ Len(f) >= Len(columns) + 1
  /\ \A k \in 1..Len(columns) : f[k] = columns[k]
  /\ f[Len(columns) + 1] # <<>> /\ f[Len(columns) + 1][1] = rest[1]

\* The first fields of a line are its columns, and its name begins one more.
LEMMA ColumnsAreSplit ==
  ASSUME NEW E, Space \in E, NEW columns \in Seq(Seq(E \ {Space})),
         \A k \in 1..Len(columns) : columns[k] # <<>>,
         NEW rest \in Seq(E), rest # <<>>, rest[1] # Space
  PROVE  AreFields(split_fields(InColumns(columns) \o rest), columns, rest, E)
  <1> DEFINE line == FlattenSeq([k \in 1..Len(columns) |-> Append(columns[k], Space)])
             base == <<(<<>>)>>
             n == Len(columns)
             m == n + 1
             Q == Seq(E)
             none == <<>>
             empty == {none}
             r == FieldsFrom(Append(columns, <<>>), rest)
  <1>1. line \in Seq(E) /\ FieldsFrom(base, line) = Append(columns, <<>>)
    BY FieldsOfColumns
  <1>2. columns \in Seq(Q) /\ none \in Q /\ n \in Nat
    <2> DEFINE C == Seq(E \ {Space})
    <2>1. columns \in Seq(C) /\ C \subseteq Q /\ none \in Q
      OBVIOUS
    <2> HIDE DEF C, Q, none
    <2> QED  BY <2>1
  <1> HIDE DEF line, n
  <1>3. base \in FieldLists(E)
    BY DEF FieldLists
  <1>4. FieldsFrom(base, line \o rest) = r
    <2> HIDE DEF base, r
    <2>1. FieldsFrom(base, line \o rest) = FieldsFrom(FieldsFrom(base, line), rest)
      <3>1. \A x \in FieldLists(E) : \A s, t \in Seq(E) :
              FieldsFrom(x, s \o t) = FieldsFrom(FieldsFrom(x, s), t)
        BY FieldsOfBoth
      <3>2. base \in FieldLists(E) /\ line \in Seq(E) /\ rest \in Seq(E)
        BY <1>1, <1>3
      <3> QED  BY <3>1, <3>2, Zenon
    <2> QED  BY <1>1, <2>1 DEF r
  <1>5. /\ r \in FieldLists(E) /\ Len(r) >= m
        /\ \A i \in 1..n : r[i] = columns[i]
        /\ r[m] # <<>> /\ r[m][1] = rest[1]
    <2>1. columns \in Seq(Seq(E))
      BY <1>2
    <2> HIDE DEF r
    <2> QED  BY <2>1, FieldsGoOn DEF n, r
  <1>6. split_fields(line \o rest) = Without(r, empty)
    BY <1>4 DEF split_fields, FieldsFrom
  <1> HIDE DEF r, empty
  <1>7. r \in Seq(Q) /\ Len(r) \in Nat
    BY <1>5 DEF FieldLists
  <1>8. \A i \in 1..m : r[i] \notin empty
    <2>1. \A i \in 1..m : i \in 1..n \/ i = m
      BY <1>2
    <2> QED  BY <1>5, <2>1 DEF n, empty
  <1>9. m \in 0..Len(r) /\ m \in 1..m /\ (\A i \in 1..n : i \in 1..m)
    BY <1>2, <1>5, <1>7
  <1> HIDE DEF Q, m
  <1> DEFINE f == Without(r, empty)
  <1>10. f \in Seq(Q) /\ Len(f) >= m /\ \A i \in 1..m : f[i] = r[i]
    BY <1>7, <1>8, <1>9, BeginningsStay
  <1> HIDE DEF f
  <1>11. /\ split_fields(line \o rest) = f
         /\ \A i \in 1..n : f[i] = columns[i]
         /\ f[m] # <<>> /\ f[m][1] = rest[1]
    BY <1>5, <1>6, <1>9, <1>10 DEF f
  <1> QED  BY <1>10, <1>11 DEF line, n, m, Q, AreFields, InColumns

------------------------------------------------------------------------------
(***************************************************************************)
(* Lines.                                                                  *)
(***************************************************************************)

\* What two sequences are together.
IsJoin(w, s, t, D) ==
  /\ w \in Seq(D) /\ Len(s) \in Nat /\ Len(t) \in Nat /\ Len(w) = Len(s) + Len(t)
  /\ \A i \in 1..Len(s) : w[i] = s[i]
  /\ \A j \in 1..Len(t) : w[Len(s) + j] = t[j]

\* The elements of the first come first.
LEMMA Joined ==
  ASSUME NEW D, NEW s \in Seq(D), NEW t \in Seq(D)
  PROVE  IsJoin(s \o t, s, t, D)
  <1>1. Len(s) \in Nat /\ Len(t) \in Nat
    OBVIOUS
  <1>2. /\ s \o t \in Seq(D) /\ Len(s \o t) = Len(s) + Len(t)
        /\ \A i \in 1..Len(s) + Len(t) : (s \o t)[i] = IF i <= Len(s) THEN s[i] ELSE t[i - Len(s)]
    BY ConcatProperties
  <1> DEFINE n == Len(s)
             m == Len(t)
             st == s \o t
  <1> HIDE DEF n, m, st
  <1>3. \A j \in 1..m : n + j \in 1..n + m /\ ~(n + j <= n) /\ n + j - n = j
    BY <1>1 DEF n, m
  <1>4. \A j \in 1..n : j \in 1..n + m /\ j <= n
    BY <1>1 DEF n, m
  <1>5. \A i \in 1..n + m : st[i] = IF i <= n THEN s[i] ELSE t[i - n]
    BY <1>2 DEF n, m, st
  <1>6. (\A j \in 1..m : st[n + j] = t[j]) /\ \A j \in 1..n : st[j] = s[j]
    <2>1. ASSUME NEW j \in 1..m PROVE st[n + j] = t[j]
      <3> DEFINE i == n + j
      <3>3. n \in Nat /\ m \in Nat
        BY <1>1 DEF n, m
      <3>1. i \in 1..n + m /\ ~(i <= n) /\ i - n = j
        BY <3>3
      <3> HIDE DEF i
      <3>2. st[i] = t[j]
        BY <1>5, <3>1
      <3> QED  BY <3>2 DEF i
    <2>2. \A j \in 1..n : st[j] = s[j]
      BY <1>4, <1>5
    <2> QED  BY <2>1, <2>2
  <1> QED  BY <1>1, <1>2, <1>6 DEF n, m, st, IsJoin

\* A time is told by its date and its clock.
LEMMA DateAndClock ==
  ASSUME NEW m \in Int
  PROVE  /\ m = (m \div (Hour * Hour)) * Hour * Hour + ((m \div Hour) % Hour) * Hour + (m % Hour)
         /\ m \div (Hour * Hour) \in Int /\ (m \div Hour) % Hour \in Int /\ m % Hour \in Int
  <1> DEFINE H == Hour
             q == m \div H
             r == m % H
             d == q \div H
             h == q % H
  <1>1. H \in Nat /\ H > 0
    BY ClocksTick
  <1> HIDE DEF H
  <1>2. m = q * H + r /\ q \in Int /\ r \in Int
    BY <1>1
  <1>3. q = d * H + h /\ d \in Int /\ h \in Int
    <2> HIDE DEF q, r
    <2> QED  BY <1>1, <1>2
  <1>4. m \div (H * H) = d
    BY <1>1
  <1> HIDE DEF q, r, d, h
  <1>5. m = (d * H + h) * H + r
    BY <1>2, <1>3
  <1>6. (d * H + h) * H = d * H * H + h * H
    BY <1>1, <1>3
  <1> QED  BY <1>2, <1>3, <1>4, <1>5, <1>6 DEF q, r, d, h, H

\* What the columns of a file may be.
ColumnTexts(f) ==
  {<<ModeStr(ModeString(f.type, f.perms))>>, <<Num(f.nlink)>>, f.owner, f.group, <<Num(f.size)>>,
   <<Num(f.major), Comma>>, <<Num(f.minor)>>, <<Date(f.time \div (Hour * Hour))>>, Clock(f.time)}

\* The columns of a file, by their places.
LEMMA ColumnsOfAFile ==
  ASSUME NEW f, NEW ls, NEW C, ColumnTexts(f) \subseteq C
  PROVE  LET c == Columns(f, ls)
             off == IF ls.nlink THEN 1 ELSE 0
             more == IF IsDevice(f.type) THEN 2 ELSE IF f.type = "-" \/ ls.sizes THEN 1 ELSE 0
         IN /\ c \in Seq(C) /\ Len(c) = off + more + 5
            /\ c[1] = <<ModeStr(ModeString(f.type, f.perms))>>
            /\ ls.nlink => c[2] = <<Num(f.nlink)>>
            /\ c[off + 2] = f.owner /\ c[off + 3] = f.group
            /\ more = 2 => c[off + 4] = <<Num(f.major), Comma>> /\ c[off + 5] = <<Num(f.minor)>>
            /\ more = 1 => c[off + 4] = <<Num(f.size)>>
            /\ c[off + more + 4] = <<Date(f.time \div (Hour * Hour))>>
            /\ c[off + more + 5] = Clock(f.time)
  <1> DEFINE mode == <<ModeStr(ModeString(f.type, f.perms))>>
             links == <<Num(f.nlink)>>
             size == <<Num(f.size)>>
             major == <<Num(f.major), Comma>>
             minor == <<Num(f.minor)>>
             date == <<Date(f.time \div (Hour * Hour))>>
             clock == Clock(f.time)
             owner == f.owner
             group == f.group
             off == IF ls.nlink THEN 1 ELSE 0
             more == IF IsDevice(f.type) THEN 2 ELSE IF f.type = "-" \/ ls.sizes THEN 1 ELSE 0
             N == IF ls.nlink THEN <<links>> ELSE <<>>
             O == <<owner, group>>
             M == IF IsDevice(f.type) THEN <<major, minor>>
                  ELSE IF f.type = "-" \/ ls.sizes THEN <<size>> ELSE <<>>
             T == <<date, clock>>
             one == <<mode>>
  <1>1. Columns(f, ls) = one \o N \o O \o M \o T
    BY DEF Columns
  <1>2. /\ mode \in C /\ links \in C /\ size \in C /\ major \in C /\ minor \in C /\ date \in C
        /\ clock \in C /\ owner \in C /\ group \in C
    BY DEF ColumnTexts
  <1> HIDE DEF mode, links, size, major, minor, date, clock, owner, group
  <1>3. one \in Seq(C) /\ Len(one) = 1 /\ one[1] = mode
    BY <1>2
  <1>4. /\ N \in Seq(C) /\ Len(N) = off /\ off \in Nat
        /\ ls.nlink => N[1] = links /\ 1 \in 1..off
    BY <1>2
  <1>5. O \in Seq(C) /\ Len(O) = 2 /\ O[1] = owner /\ O[2] = group
    BY <1>2
  <1>6. /\ M \in Seq(C) /\ Len(M) = more /\ more \in Nat
        /\ more = 2 => M[1] = major /\ M[2] = minor
        /\ more = 1 => M[1] = size
    BY <1>2
  <1>7. T \in Seq(C) /\ Len(T) = 2 /\ T[1] = date /\ T[2] = clock
    BY <1>2
  <1>8. ls.nlink => off = 1
    OBVIOUS
  <1> HIDE DEF one, N, O, M, T, off, more
  <1> DEFINE A == one \o N
             B == A \o O
             D == B \o M
             W == D \o T
  <1>9. /\ A \in Seq(C) /\ Len(A) = 1 + off /\ A[1] = mode
        /\ ls.nlink => A[2] = links
    <2>1. /\ A \in Seq(C) /\ Len(A) = 1 + off /\ (\A i \in 1..1 : A[i] = one[i])
          /\ \A j \in 1..off : A[1 + j] = N[j]
      <3>1. IsJoin(A, one, N, C)
        BY <1>3, <1>4, Joined
      <3> HIDE DEF A
      <3> QED  BY <1>3, <1>4, <3>1 DEF IsJoin
    <2> HIDE DEF A
    <2>2. A[1] = one[1]
      BY <2>1
    <2>3. ASSUME ls.nlink PROVE A[2] = N[1]
      <3>1. 1 \in 1..off /\ 1 + 1 = 2
        BY <1>4, <2>3
      <3> QED  BY <2>1, <3>1
    <2> QED  BY <1>3, <1>4, <2>1, <2>2, <2>3
  <1> HIDE DEF A
  <1>10. /\ B \in Seq(C) /\ Len(B) = off + 3
         /\ \A i \in 1..1 + off : B[i] = A[i]
         /\ B[off + 2] = owner /\ B[off + 3] = group
    <2>1. /\ B \in Seq(C) /\ Len(B) = 1 + off + 2 /\ (\A i \in 1..1 + off : B[i] = A[i])
          /\ \A j \in 1..2 : B[1 + off + j] = O[j]
      <3>1. IsJoin(B, A, O, C)
        BY <1>5, <1>9, Joined
      <3> HIDE DEF B
      <3> QED  BY <1>5, <1>9, <3>1 DEF IsJoin
    <2> HIDE DEF B
    <2>2. 1 + off + 1 = off + 2 /\ 1 + off + 2 = off + 3
      BY <1>4
    <2>3. B[1 + off + 1] = O[1] /\ B[1 + off + 2] = O[2]
      BY <2>1
    <2> QED  BY <1>5, <2>1, <2>2, <2>3
  <1> HIDE DEF B
  <1>11. /\ D \in Seq(C) /\ Len(D) = off + 3 + more
         /\ \A i \in 1..off + 3 : D[i] = B[i]
         /\ \A j \in 1..more : D[off + 3 + j] = M[j]
    <2>1. IsJoin(D, B, M, C)
      BY <1>6, <1>10, Joined
    <2> HIDE DEF D
    <2> QED  BY <1>6, <1>10, <2>1 DEF IsJoin
  <1> HIDE DEF D
  <1>12. /\ W \in Seq(C) /\ Len(W) = off + 3 + more + 2
         /\ \A i \in 1..off + 3 + more : W[i] = D[i]
         /\ \A j \in 1..2 : W[off + 3 + more + j] = T[j]
    <2>1. IsJoin(W, D, T, C)
      BY <1>7, <1>11, Joined
    <2> HIDE DEF W
    <2> QED  BY <1>7, <1>11, <2>1 DEF IsJoin
  <1> HIDE DEF W
  <1>13. \A i \in 1..off + 3 : W[i] = B[i]
    <2>1. \A i \in 1..off + 3 : i \in 1..off + 3 + more
      BY <1>4, <1>6
    <2> QED  BY <1>11, <1>12, <2>1
  <1>14. \A j \in 1..more : W[off + 3 + j] = M[j]
    <2>1. \A j \in 1..more : off + 3 + j \in 1..off + 3 + more
      BY <1>4, <1>6
    <2> QED  BY <1>11, <1>12, <2>1
  <1>15. /\ 1 \in 1..off + 3 /\ off + 2 \in 1..off + 3 /\ off + 3 \in 1..off + 3 /\ 1 \in 1..1 + off
         /\ off = 1 => 2 \in 1..off + 3 /\ 2 \in 1..1 + off
         /\ off + 3 + 1 = off + 4 /\ off + 3 + 2 = off + 5
         /\ off + 3 + more + 1 = off + more + 4 /\ off + 3 + more + 2 = off + more + 5
    BY <1>4, <1>6
  <1>16. W[1] = mode /\ W[off + 2] = owner /\ W[off + 3] = group
    BY <1>9, <1>10, <1>13, <1>15
  <1>17. ls.nlink => W[2] = links
    BY <1>8, <1>9, <1>10, <1>13, <1>15
  <1>18. /\ more = 2 => W[off + 4] = major /\ W[off + 5] = minor
         /\ more = 1 => W[off + 4] = size
    <2>1. ASSUME more = 2 PROVE W[off + 4] = major /\ W[off + 5] = minor
      <3>1. 1 \in 1..more /\ 2 \in 1..more
        BY <2>1
      <3>2. W[off + 3 + 1] = M[1] /\ W[off + 3 + 2] = M[2]
        BY <1>14, <3>1
      <3> QED  BY <1>6, <1>15, <2>1, <3>2
    <2>2. ASSUME more = 1 PROVE W[off + 4] = size
      <3>1. 1 \in 1..more
        BY <2>2
      <3>2. W[off + 3 + 1] = M[1]
        BY <1>14, <3>1
      <3> QED  BY <1>6, <1>15, <2>2, <3>2
    <2> QED  BY <2>1, <2>2
  <1>19. W[off + more + 4] = date /\ W[off + more + 5] = clock
    <2>1. W[off + 3 + more + 1] = T[1] /\ W[off + 3 + more + 2] = T[2]
      BY <1>12
    <2> QED  BY <1>7, <1>15, <2>1
  <1>20. W = Columns(f, ls) /\ Len(W) = off + more + 5
    BY <1>1, <1>12, <1>15 DEF A, B, D, W
  <1> QED  BY <1>12, <1>16, <1>17, <1>18, <1>19, <1>20
           DEF off, more, mode, links, size, major, minor, date, clock, owner, group

\* A mark is no number, and no number, date or mark is a space.
LEMMA PiecesOfColumns ==
  /\ \A x : Num(x) # Space /\ Date(x) # Space /\ ModeStr(x) # Space /\ Mark(x) # Space
  /\ \A x : Num(x) # Comma
  /\ Comma # Space /\ Slash # Space
  <1>1. \A x : Num(x) # Space /\ Date(x) # Space /\ ModeStr(x) # Space /\ Mark(x) # Space
    BY DEF Num, Date, ModeStr, Mark, Space
  <1>2. \A x, y : Num(x) # Mark(y)
    BY DEF Num, Mark
  <1>3. \E y : Comma = Mark(y)
    BY Zenon DEF Comma
  <1>4. \E y : Slash = Mark(y)
    BY Zenon DEF Slash
  <1> QED  BY <1>1, <1>2, <1>3, <1>4, Zenon

\* A number before a comma is read without it.
LEMMA MajorIsRead == ASSUME NEW n PROVE Without(<<Num(n), Comma>>, {Comma}) = <<Num(n)>>
  <1> DEFINE x == Num(n)
             E == {x, Comma}
             s == <<x, Comma>>
             set == {Comma}
  <1>1. x \notin set /\ Comma \in set
    BY PiecesOfColumns
  <1> HIDE DEF x
  <1>2. s \in Seq(E) /\ Len(s) = 2 /\ s[1] = x /\ s[2] = Comma
    OBVIOUS
  <1> HIDE DEF s, E, set
  <1>3. PICK a : /\ a[0] = <<>>
                 /\ \A k \in 1..Len(s) : a[k] = IF s[k] \in set THEN a[k - 1] ELSE Append(a[k - 1], s[k])
                 /\ Without(s, set) = a[Len(s)]
    BY <1>2, Removals
  <1>4. 1 \in 1..2 /\ 2 \in 1..2 /\ 1 - 1 = 0 /\ 2 - 1 = 1
    OBVIOUS
  <1>5. a[1] = Append(<<>>, x) /\ a[2] = a[1]
    BY <1>1, <1>2, <1>3, <1>4
  <1>6. Append(<<>>, x) = <<x>>
    OBVIOUS
  <1> QED  BY <1>2, <1>3, <1>5, <1>6 DEF x, s, set

\* The pieces of the columns, and of the whole line.
ColumnPieces(f) ==
  ToSet(f.owner) \cup ToSet(f.group)
    \cup {Space, Comma, Mark(":"), ModeStr(ModeString(f.type, f.perms))}
    \cup {Num(n) : n \in Int} \cup {Date(d) : d \in Int}

LinePieces(f, name) == ColumnPieces(f) \cup ToSet(name) \cup ToSet(f.target) \cup {Mark("->")}

\* A column is some of them.
LEMMA ColumnsAreTexts ==
  ASSUME NEW f, IsFile(f)
  PROVE  ColumnTexts(f) \subseteq Seq(ColumnPieces(f) \ {Space}) \ {<<>>}
  <1> DEFINE E == ColumnPieces(f) \ {Space}
             C == Seq(E) \ {<<>>}
  <1>1. \A x \in Int : Num(x) \in E /\ Date(x) \in E
    BY PiecesOfColumns DEF ColumnPieces
  <1>2. ModeStr(ModeString(f.type, f.perms)) \in E /\ Comma \in E
    <2>1. ModeStr(ModeString(f.type, f.perms)) \in ColumnPieces(f) /\ Comma \in ColumnPieces(f)
      BY Zenon DEF ColumnPieces
    <2> QED  BY <2>1, PiecesOfColumns
  <1>3. Mark(":") \in E
    <2>1. Mark(":") \in ColumnPieces(f)
      BY Zenon DEF ColumnPieces
    <2> QED  BY <2>1, PiecesOfColumns
  <1>4. ToSet(f.owner) \ {Space} \subseteq E /\ ToSet(f.group) \ {Space} \subseteq E
    <2>1. ToSet(f.owner) \subseteq ColumnPieces(f) /\ ToSet(f.group) \subseteq ColumnPieces(f)
      BY Zenon DEF ColumnPieces
    <2> QED  BY <2>1
  <1> HIDE DEF E
  <1>5. \A e \in E : <<e>> \in C
    OBVIOUS
  <1>6. f.owner \in C /\ f.group \in C
    <2>1. IsColumn(f.owner) /\ IsColumn(f.group)
      BY DEF IsFile
    <2>2. \A S : S \subseteq E => Seq(S) \subseteq Seq(E)
      OBVIOUS
    <2> QED  BY <1>4, <2>1, <2>2 DEF IsColumn
  <1>7. f.nlink \in Int /\ f.size \in Int /\ f.major \in Int /\ f.minor \in Int /\ f.time \in Int
    BY DEF IsFile
  <1>8. <<Num(f.major), Comma>> \in C
    <2>1. Num(f.major) \in E /\ Comma \in E
      BY <1>1, <1>2, <1>7
    <2> DEFINE x == Num(f.major)
    <2> HIDE DEF x
    <2>2. <<x, Comma>> \in C
      BY <2>1 DEF x
    <2> QED  BY <2>2 DEF x
  <1>9. Clock(f.time) \in C
    <2> DEFINE x == Num((f.time \div Hour) % Hour)
               y == Num(f.time % Hour)
               z == Mark(":")
    <2>1. x \in E /\ y \in E /\ z \in E
      BY <1>1, <1>3, <1>7, DateAndClock
    <2>2. Clock(f.time) = <<x, z, y>>
      BY Zenon DEF Clock
    <2> HIDE DEF x, y, z
    <2>3. <<x, z, y>> \in C
      BY <2>1
    <2> QED  BY <2>2, <2>3
  <1>10. f.time \div (Hour * Hour) \in Int
    BY <1>7, DateAndClock
  <1> HIDE DEF C
  <1>11. /\ <<Num(f.nlink)>> \in C /\ <<Num(f.size)>> \in C /\ <<Num(f.minor)>> \in C
         /\ <<Date(f.time \div (Hour * Hour))>> \in C
         /\ <<ModeStr(ModeString(f.type, f.perms))>> \in C
    BY <1>1, <1>2, <1>5, <1>7, <1>10
  <1> QED  BY <1>6, <1>8, <1>9, <1>11 DEF ColumnTexts, C, E

\* How many columns there are for the number of links, and for what it has of a size.
Links(ls) == IF ls.nlink THEN 1 ELSE 0
Sizes(f, ls) == IF IsDevice(f.type) THEN 2 ELSE IF f.type = "-" \/ ls.sizes THEN 1 ELSE 0

\* Spaces begin fields of their own.
LEMMA SpacesAreFields ==
  ASSUME NEW E, NEW fs \in Seq(Seq(E)), NEW sp \in Seq(E), \A i \in 1..Len(sp) : sp[i] = Space
  PROVE  \E gs \in Seq(Seq(E)) :
           /\ FieldsFrom(Append(fs, <<>>), sp) = Append(gs, <<>>)
           /\ Len(gs) \in Nat /\ Len(gs) >= Len(fs) /\ \A i \in 1..Len(fs) : gs[i] = fs[i]
  <1> DEFINE Q == Seq(E)
             none == <<>>
             base == Append(fs, none)
             n == Len(fs)
             N == Len(sp)
  <1>1. none \in Q /\ fs \in Seq(Q) /\ n \in Nat /\ N \in Nat
    OBVIOUS
  <1>2. base \in FieldLists(E)
    <2> HIDE DEF none
    <2>1. Q = Seq(E)
      OBVIOUS
    <2> HIDE DEF Q
    <2>2. base \in Seq(Q) /\ base # <<>>
      BY <1>1
    <2> HIDE DEF base
    <2> QED  BY <2>1, <2>2 DEF FieldLists
  <1> HIDE DEF base
  <1>3. PICK a : /\ a[0] = base
                 /\ \A k \in 1..N : a[k] = FieldRead(a[k - 1], sp[k])
                 /\ \A k \in 0..N : a[k] \in FieldLists(E)
                 /\ FieldsFrom(base, sp) = a[N]
    BY <1>2, FieldRuns
  <1> DEFINE Fit(t) == \E gs \in Seq(Q) : /\ t = Append(gs, none) /\ Len(gs) \in Nat /\ Len(gs) >= n
                                          /\ \A i \in 1..n : gs[i] = fs[i]
             S == {k \in 0..N : Fit(a[k])}
  <1>4. 0 \in S
    <2>1. Fit(base)
      <3> HIDE DEF none, Q
      <3> QED  BY <1>1 DEF base
    <2> HIDE DEF Fit
    <2> QED  BY <1>1, <1>3, <2>1
  <1>5. ASSUME NEW k \in 0..N - 1, k \in S PROVE k + 1 \in S
    <2>1. k + 1 \in 1..N /\ k + 1 \in 0..N /\ k \in 0..N /\ (k + 1) - 1 = k /\ Fit(a[k])
      <3>1. k \in 0..N /\ Fit(a[k])
        BY <1>5
      <3> HIDE DEF N, Fit
      <3> QED  BY <1>1, <3>1
    <2>2. a[k + 1] = Append(a[k], <<>>)
      <3>1. a[k + 1] = FieldRead(a[k], Space)
        BY <1>3, <2>1
      <3> QED  BY <3>1 DEF FieldRead
    <2>3. PICK gs \in Seq(Q) : /\ a[k] = Append(gs, none) /\ Len(gs) \in Nat /\ Len(gs) >= n
                               /\ \A i \in 1..n : gs[i] = fs[i]
      BY <2>1
    <2> DEFINE hs == Append(gs, none)
    <2>4. hs \in Seq(Q) /\ Len(hs) = Len(gs) + 1 /\ \A i \in 1..Len(gs) : hs[i] = gs[i]
      <3> HIDE DEF none, Q
      <3> QED  BY <1>1
    <2>5. a[k + 1] = Append(hs, none)
      BY <2>2, <2>3
    <2> HIDE DEF hs, none, Q
    <2>6. Len(hs) \in Nat /\ Len(hs) >= n /\ \A i \in 1..n : hs[i] = fs[i]
      <3>1. \A i \in 1..n : i \in 1..Len(gs)
        BY <1>1, <2>3
      <3> QED  BY <1>1, <2>3, <2>4, <3>1
    <2>7. Fit(a[k + 1])
      BY <2>4, <2>5, <2>6
    <2> HIDE DEF Fit
    <2> QED  BY <2>1, <2>7
  <1>6. Fit(a[N])
    <2> HIDE DEF S
    <2>1. 0..N \subseteq S
      BY <1>1, <1>4, <1>5, UpTo
    <2>2. N \in S
      BY <1>1, <2>1
    <2> QED  BY <2>2 DEF S
  <1> QED  BY <1>3, <1>6 DEF base, none, Q

\* Who counts the first n, and one after them, counts more than n.
LEMMA OneMore ==
  ASSUME NEW N \in Nat, NEW n \in 0..N, NEW p \in 1..N, p > n, NEW Kept, 1..n \subseteq Kept, p \in Kept,
         NEW l, l[0] = 0, \A k \in 1..N : l[k] = IF k \in Kept THEN l[k - 1] + 1 ELSE l[k - 1]
  PROVE  l[N] >= n + 1
  <1> DEFINE S == {k \in 0..N :
                     /\ l[k] \in Nat
                     /\ k =< n => l[k] = k
                     /\ k >= n => l[k] >= n
                     /\ k >= p => l[k] >= n + 1}
  <1>1. 0 \in S
    OBVIOUS
  <1>2. ASSUME NEW k \in 0..N - 1, k \in S PROVE k + 1 \in S
    <2>1. k + 1 \in 1..N /\ k + 1 \in 0..N /\ (k + 1) - 1 = k
      OBVIOUS
    <2>2. l[k + 1] = IF k + 1 \in Kept THEN l[k] + 1 ELSE l[k]
      BY <2>1
    <2>3. k + 1 =< n \/ k + 1 = p => k + 1 \in Kept
      OBVIOUS
    <2> QED  BY <1>2, <2>1, <2>2, <2>3
  <1> HIDE DEF S
  <1>3. 0..N \subseteq S
    BY <1>1, <1>2, UpTo
  <1>4. N \in S
    BY <1>3
  <1> QED  BY <1>4 DEF S

\* A sequence keeps its first n elements, and one after them.
Keeps(seq, set, n, p) ==
  /\ n \in 0..Len(seq) /\ p \in 1..Len(seq) /\ p > n
  /\ (\A i \in 1..n : seq[i] \notin set) /\ seq[p] \notin set

\* Of a sequence that keeps its beginning, and an element after it, more is left.
LEMMA OneMoreStays ==
  ASSUME NEW E, NEW seq \in Seq(E), NEW set, NEW n, NEW p, Keeps(seq, set, n, p)
  PROVE  Len(Without(seq, set)) >= n + 1
  <1> DEFINE N == Len(seq)
             Kept == {k \in 1..N : seq[k] \notin set}
  <1>5. PICK a : AreLeft(a, seq, set, E)
    BY Removed
  <1>1. /\ a[0] = <<>>
        /\ Without(seq, set) = a[N]
        /\ \A k \in 1..N :
             Len(a[k]) = IF seq[k] \in set THEN Len(a[k - 1]) ELSE Len(a[k - 1]) + 1
    BY <1>5 DEF AreLeft
  <1> DEFINE l == [k \in 0..N |-> Len(a[k])]
  <1>2. N \in Nat /\ n \in 0..N /\ p \in 1..N /\ p > n /\ p \in Kept /\ 1..n \subseteq Kept
    BY DEF Keeps
  <1> HIDE DEF N
  <1>3. l[0] = 0 /\ l[N] = Len(Without(seq, set))
    <2>1. 0 \in 0..N /\ N \in 0..N /\ Len(<<>>) = 0
      BY <1>2
    <2> QED  BY <1>1, <2>1
  <1>4. \A k \in 1..N : l[k] = IF k \in Kept THEN l[k - 1] + 1 ELSE l[k - 1]
    <2> SUFFICES ASSUME NEW k \in 1..N PROVE l[k] = IF k \in Kept THEN l[k - 1] + 1 ELSE l[k - 1]
      OBVIOUS
    <2>1. k \in 0..N /\ k - 1 \in 0..N
      BY <1>2
    <2>2. l[k] = Len(a[k]) /\ l[k - 1] = Len(a[k - 1])
      BY <2>1
    <2>3. Len(a[k]) = IF seq[k] \in set THEN Len(a[k - 1]) ELSE Len(a[k - 1]) + 1
      BY <1>1
    <2> QED  BY <2>2, <2>3
  <1> HIDE DEF l, Kept
  <1> QED  BY <1>2, <1>3, <1>4, OneMore

\* A list of fields that begins with columns, and goes on.
BeginsWith(f, columns, E) ==
  /\ f \in Seq(Seq(E)) /\ Len(f) \in Nat /\ Len(f) >= Len(columns) + 1
  /\ \A k \in 1..Len(columns) : f[k] = columns[k]

\* The first fields of a line are its columns, and there are more if what follows is
\* not blank.
LEMMA BlanksAreSkipped ==
  ASSUME NEW E, Space \in E, NEW columns \in Seq(Seq(E \ {Space})),
         \A k \in 1..Len(columns) : columns[k] # <<>>,
         NEW rest \in Seq(E), ToSet(rest) \ {Space} # {}
  PROVE  BeginsWith(split_fields(InColumns(columns) \o rest), columns, E)
  <1> DEFINE line == FlattenSeq([k \in 1..Len(columns) |-> Append(columns[k], Space)])
             base == <<(<<>>)>>
             n == Len(columns)
             N == Len(rest)
             Q == Seq(E)
             none == <<>>
             empty == {none}
             I == {i \in 1..N : rest[i] # Space}
             m == Min(I)
             sp == SubSeq(rest, 1, m - 1)
             tail == SubSeq(rest, m, N)
  <1>1. line \in Seq(E) /\ FieldsFrom(base, line) = Append(columns, <<>>)
    BY FieldsOfColumns
  <1>2. columns \in Seq(Q) /\ none \in Q /\ n \in Nat
    <2> DEFINE C == Seq(E \ {Space})
    <2>1. columns \in Seq(C) /\ C \subseteq Q /\ none \in Q
      OBVIOUS
    <2> HIDE DEF C, Q, none
    <2> QED  BY <2>1
  <1> HIDE DEF line, n
  <1>3. base \in FieldLists(E)
    BY DEF FieldLists
  <1>4. m \in 1..N /\ rest[m] # Space /\ (\A i \in 1..m - 1 : rest[i] = Space) /\ N \in Nat
    <2>1. N \in Nat /\ DOMAIN rest = 1..N
      OBVIOUS
    <2>2. I # {} /\ I \subseteq Nat
      BY <2>1 DEF ToSet
    <2>3. m \in I /\ \A y \in I : m =< y
      <3> HIDE DEF I
      <3> QED  BY <2>2, LeastIsThere
    <2> HIDE DEF m
    <2>4. m \in 1..N /\ \A i \in 1..m - 1 : i \in 1..N /\ ~(m =< i)
      BY <2>1, <2>3
    <2> QED  BY <2>1, <2>3, <2>4
  <1> HIDE DEF m, N
  <1>5. /\ sp \in Seq(E) /\ Len(sp) = m - 1 /\ \A i \in 1..m - 1 : sp[i] = rest[i]
        /\ tail \in Seq(E) /\ tail # <<>> /\ tail[1] = rest[m]
        /\ sp \o tail = rest
    <2>1. m - 1 \in 0..N /\ m \in Int /\ N \in Int /\ m =< N /\ (\A i \in m..N : i \in 1..N)
      BY <1>4
    <2>2. sp \in Seq(E) /\ Len(sp) = m - 1 /\ \A i \in 1..m - 1 : sp[i] = rest[i]
      BY <2>1, Beginnings DEF N
    <2>3. \A i \in m..N : rest[i] \in E
      BY <2>1 DEF N
    <2>4. tail \in Seq(E) /\ Len(tail) = N - m + 1 /\ \A i \in 1..N - m + 1 : tail[i] = rest[m + i - 1]
      BY <2>1, <2>3, SubSeqProperties
    <2> DEFINE w == sp \o tail
    <2>5. IsJoin(w, sp, tail, E)
      BY <2>2, <2>4, Joined
    <2> HIDE DEF sp, tail, w
    <2>6. tail # <<>> /\ tail[1] = rest[m]
      <3>1. 1 \in 1..N - m + 1 /\ m + 1 - 1 = m
        BY <2>1
      <3>2. Len(tail) >= 1
        BY <2>1, <2>4
      <3> QED  BY <2>4, <3>1, <3>2
    <2>7. w \in Seq(E) /\ Len(w) = N
      BY <2>1, <2>2, <2>4, <2>5 DEF IsJoin
    <2>8. ASSUME NEW i \in 1..N PROVE w[i] = rest[i]
      <3>1. CASE i < m
        <4>1. i \in 1..m - 1
          BY <2>1, <3>1
        <4> QED  BY <2>2, <2>5, <4>1 DEF IsJoin
      <3>2. CASE i >= m
        <4> DEFINE j == i - m + 1
        <4>1. j \in 1..N - m + 1 /\ (m - 1) + j = i /\ m + j - 1 = i
          BY <2>1, <3>2
        <4> HIDE DEF j
        <4>2. w[(m - 1) + j] = tail[j]
          BY <2>2, <2>4, <2>5, <4>1 DEF IsJoin
        <4>3. tail[j] = rest[m + j - 1]
          BY <2>4, <4>1
        <4> QED  BY <4>1, <4>2, <4>3
      <3> QED  BY <2>1, <3>1, <3>2
    <2>9. w = rest
      <3>1. Len(rest) = N
        BY DEF N
      <3> QED  BY <2>7, <2>8, <3>1, SeqEqual
    <2> QED  BY <2>2, <2>4, <2>6, <2>9 DEF w, sp, tail
  <1> HIDE DEF sp, tail
  <1>6. PICK gs \in Seq(Seq(E)) :
           /\ FieldsFrom(Append(columns, <<>>), sp) = Append(gs, <<>>)
           /\ Len(gs) \in Nat /\ Len(gs) >= n /\ \A i \in 1..n : gs[i] = columns[i]
    <2>1. \A i \in 1..Len(sp) : sp[i] = Space
      BY <1>4, <1>5
    <2>2. columns \in Seq(Seq(E)) /\ sp \in Seq(E)
      BY <1>2, <1>5
    <2> QED  BY <2>1, <2>2, SpacesAreFields, Zenon DEF n
  <1> DEFINE r == FieldsFrom(Append(gs, <<>>), tail)
             p == Len(gs) + 1
  <1>7. FieldsFrom(base, line \o rest) = r
    <2> DEFINE cs == Append(columns, <<>>)
    <2>1. \A x \in FieldLists(E) : \A s, t \in Seq(E) :
            /\ FieldsFrom(x, s \o t) = FieldsFrom(FieldsFrom(x, s), t)
            /\ FieldsFrom(x, s) \in FieldLists(E)
      BY FieldsOfBoth
    <2>2. base \in FieldLists(E) /\ line \in Seq(E) /\ rest \in Seq(E) /\ sp \in Seq(E) /\ tail \in Seq(E)
      BY <1>1, <1>3, <1>5
    <2>3. FieldsFrom(base, line) = cs
      BY <1>1
    <2>4. rest = sp \o tail
      BY <1>5
    <2>5. FieldsFrom(cs, sp) = Append(gs, <<>>)
      BY <1>6
    <2> HIDE DEF base, cs
    <2>6. cs \in FieldLists(E)
      BY <2>1, <2>2, <2>3
    <2>7. FieldsFrom(base, line \o rest) = FieldsFrom(cs, rest)
      BY <2>1, <2>2, <2>3, Zenon
    <2>8. FieldsFrom(cs, sp \o tail) = FieldsFrom(FieldsFrom(cs, sp), tail)
      BY <2>1, <2>2, <2>6, Zenon
    <2> QED  BY <2>4, <2>5, <2>7, <2>8
  <1>8. /\ r \in FieldLists(E) /\ Len(r) >= p
        /\ \A i \in 1..Len(gs) : r[i] = gs[i]
        /\ r[p] # <<>>
    <2> HIDE DEF r
    <2> QED  BY <1>4, <1>5, FieldsGoOn DEF r
  <1>9. split_fields(line \o rest) = Without(r, empty)
    BY <1>7 DEF split_fields, FieldsFrom
  <1> HIDE DEF r, empty
  <1>10. r \in Seq(Q) /\ Len(r) \in Nat
    BY <1>8 DEF FieldLists
  <1>11. /\ \A i \in 1..n : r[i] = columns[i] /\ r[i] \notin empty
         /\ n \in 0..Len(r) /\ p \in 1..Len(r) /\ p > n /\ r[p] \notin empty
    <2>1. \A i \in 1..n : i \in 1..Len(gs)
      BY <1>2, <1>6
    <2>2. \A i \in 1..n : columns[i] \notin empty
      BY DEF n, empty
    <2>3. n \in 0..Len(r) /\ p \in 1..Len(r) /\ p > n
      BY <1>2, <1>6, <1>8, <1>10
    <2> QED  BY <1>6, <1>8, <2>1, <2>2, <2>3 DEF empty
  <1> HIDE DEF Q, p
  <1> DEFINE f == Without(r, empty)
  <1>12. f \in Seq(Q) /\ \A i \in 1..n : f[i] = r[i]
    <2>1. r \in Seq(Q) /\ n \in 0..Len(r) /\ \A i \in 1..n : r[i] \notin empty
      BY <1>10, <1>11
    <2> HIDE DEF f
    <2>2. Without(r, empty) \in Seq(Q) /\ \A i \in 1..n : Without(r, empty)[i] = r[i]
      BY <2>1, BeginningsStay
    <2> QED  BY <2>2 DEF f
  <1>13. Len(f) >= n + 1
    <2> HIDE DEF f
    <2>1. Keeps(r, empty, n, p)
      BY <1>11, Zenon DEF Keeps
    <2>2. Len(Without(r, empty)) >= n + 1
      BY <1>10, <2>1, OneMoreStays
    <2> QED  BY <2>2 DEF f
  <1> HIDE DEF f
  <1>14. Len(f) \in Nat
    BY <1>12
  <1> QED  BY <1>9, <1>11, <1>12, <1>13, <1>14 DEF line, n, Q, BeginsWith, InColumns, f

\* A list of fields that begins like the columns of a file, and goes on with a name.
BeginsLike(g, f, ls) ==
  LET off == Links(ls)
      more == Sizes(f, ls)
  IN /\ Len(g) \in Nat /\ Len(g) >= off + more + 6
     /\ g[1] = <<ModeStr(ModeString(f.type, f.perms))>>
     /\ ls.nlink => g[2] = <<Num(f.nlink)>>
     /\ g[off + 2] = f.owner /\ g[off + 3] = f.group
     /\ more = 2 => g[off + 4] = <<Num(f.major), Comma>> /\ g[off + 5] = <<Num(f.minor)>>
     /\ more = 1 => g[off + 4] = <<Num(f.size)>>
     /\ g[off + more + 4] = <<Date(f.time \div (Hour * Hour))>>
     /\ g[off + more + 5] = Clock(f.time)

\* What follows the name of a link.
LinkPart(f) == IF f.type = "l" THEN Arrow \o f.target ELSE <<>>

\* A line is its columns, a name and, of a link, the arrow and the target.
LEMMA PartsOfALine ==
  ASSUME NEW f, IsFile(f), NEW ls, NEW name, name \in Seq(ToSet(name))
  PROVE  LET E == LinePieces(f, name)
             c == Columns(f, ls)
         IN /\ c \in Seq(Seq(ColumnPieces(f) \ {Space})) /\ \A k \in 1..Len(c) : c[k] # <<>>
            /\ InColumns(c) \in Seq(ColumnPieces(f)) /\ InColumns(c) \in Seq(E)
            /\ name \in Seq(E) /\ f.target \in Seq(E) /\ Arrow \in Seq(E) /\ LinkPart(f) \in Seq(E)
            /\ LsLine(f, name, ls) = InColumns(c) \o (name \o LinkPart(f))
  <1> DEFINE G == ColumnPieces(f)
             E == LinePieces(f, name)
             D == Seq(G \ {Space})
             C == D \ {<<>>}
             c == Columns(f, ls)
             n == Len(c)
  <1>1. ColumnTexts(f) \subseteq C
    BY ColumnsAreTexts
  <1>2. Space \in G
    BY Zenon DEF ColumnPieces
  <1>3. G \subseteq E /\ Mark("->") \in E /\ ToSet(name) \subseteq E /\ ToSet(f.target) \subseteq E
    BY Zenon DEF LinePieces
  <1> HIDE DEF E, G, C
  <1>4. c \in Seq(C)
    BY <1>1, ColumnsOfAFile
  <1> HIDE DEF c
  <1>5. c \in Seq(D) /\ \A k \in 1..n : c[k] # <<>>
    <2>1. (\A k \in 1..n : c[k] \in C) /\ n \in Nat
      BY <1>4
    <2>2. C \subseteq D /\ \A x \in C : x # <<>>
      BY DEF C
    <2> HIDE DEF D
    <2> QED  BY <1>4, <2>1, <2>2
  <1>6. InColumns(c) \in Seq(G)
    <2>1. FlattenSeq([k \in 1..n |-> Append(c[k], Space)]) \in Seq(G)
      BY <1>2, <1>5, FieldsOfColumns
    <2> QED  BY <2>1 DEF InColumns
  <1>7. \A S, x : S \subseteq E /\ x \in Seq(S) => x \in Seq(E)
    OBVIOUS
  <1>8. f.target \in Seq(E) /\ name \in Seq(E) /\ InColumns(c) \in Seq(E)
    <2>1. f.target \in Seq(ToSet(f.target))
      BY DEF IsFile
    <2> QED  BY <1>3, <1>6, <1>7, <2>1
  <1>9. Arrow \in Seq(E)
    <2> DEFINE a == Mark("->")
    <2>1. a \in E /\ Space \in E /\ Arrow = <<Space, a, Space>>
      BY <1>2, <1>3, Zenon DEF Arrow
    <2> HIDE DEF a
    <2> QED  BY <2>1
  <1>10. LinkPart(f) \in Seq(E)
    <2>1. Arrow \o f.target \in Seq(E) /\ <<>> \in Seq(E)
      BY <1>8, <1>9
    <2> QED  BY <2>1 DEF LinkPart
  <1>11. LsLine(f, name, ls) = InColumns(c) \o name \o LinkPart(f)
    BY DEF LsLine, c, LinkPart, InColumns
  <1>12. InColumns(c) \o name \o LinkPart(f) = InColumns(c) \o (name \o LinkPart(f))
    BY <1>8, <1>10, ConcatAssociative
  <1> QED  BY <1>5, <1>6, <1>8, <1>9, <1>10, <1>11, <1>12 DEF c, E, G

\* The fields of a line are the columns of its file.
LEMMA FieldsOfALine ==
  ASSUME NEW f, IsFile(f), NEW ls, NEW name, name \in Seq(ToSet(name)), ToSet(name) \ {Space} # {}
  PROVE  BeginsLike(split_fields(LsLine(f, name, ls)), f, ls)
  <1> DEFINE E == LinePieces(f, name)
             c == Columns(f, ls)
             n == Len(c)
             link == LinkPart(f)
             rest == name \o link
             off == Links(ls)
             more == Sizes(f, ls)
             g == split_fields(InColumns(c) \o rest)
  <1>1. Space \in E /\ ColumnPieces(f) \subseteq E
    BY Zenon DEF LinePieces, ColumnPieces
  <1>2. /\ n = off + more + 5
        /\ c[1] = <<ModeStr(ModeString(f.type, f.perms))>>
        /\ ls.nlink => c[2] = <<Num(f.nlink)>>
        /\ c[off + 2] = f.owner /\ c[off + 3] = f.group
        /\ more = 2 => c[off + 4] = <<Num(f.major), Comma>> /\ c[off + 5] = <<Num(f.minor)>>
        /\ more = 1 => c[off + 4] = <<Num(f.size)>>
        /\ c[off + more + 4] = <<Date(f.time \div (Hour * Hour))>>
        /\ c[off + more + 5] = Clock(f.time)
    BY ColumnsAreTexts, ColumnsOfAFile DEF Links, Sizes
  <1>3. off \in 0..1 /\ more \in 0..2
    BY DEF Links, Sizes
  <1>4. /\ c \in Seq(Seq(ColumnPieces(f) \ {Space})) /\ \A k \in 1..n : c[k] # <<>>
        /\ name \in Seq(E) /\ link \in Seq(E) /\ LsLine(f, name, ls) = InColumns(c) \o rest
    BY PartsOfALine
  <1> HIDE DEF c, E, off, more, link
  <1>5. rest \in Seq(E) /\ ToSet(rest) \ {Space} # {}
    <2>1. IsJoin(rest, name, link, E)
      BY <1>4, Joined
    <2> HIDE DEF rest
    <2>2. PICK i \in 1..Len(name) : name[i] # Space
      <3>1. DOMAIN name = 1..Len(name)
        BY <1>4
      <3> QED  BY <3>1 DEF ToSet
    <2>3. rest[i] = name[i] /\ rest \in Seq(E) /\ Len(rest) \in Nat /\ i \in 1..Len(rest)
      BY <2>1 DEF IsJoin
    <2>4. rest[i] \in ToSet(rest)
      BY <2>3 DEF ToSet
    <2> QED  BY <2>2, <2>3, <2>4
  <1>6. c \in Seq(Seq(E \ {Space}))
    <2> DEFINE D == Seq(ColumnPieces(f) \ {Space})
               F == Seq(E \ {Space})
    <2>1. D \subseteq F /\ c \in Seq(D)
      BY <1>1, <1>4
    <2> HIDE DEF D, F
    <2>2. c \in Seq(F)
      BY <2>1
    <2> QED  BY <2>2 DEF F
  <1> HIDE DEF rest
  <1>7. Len(g) \in Nat /\ Len(g) >= n + 1 /\ \A k \in 1..n : g[k] = c[k]
    <2>1. BeginsWith(g, c, E)
      BY <1>1, <1>4, <1>5, <1>6, BlanksAreSkipped
    <2> QED  BY <2>1 DEF BeginsWith
  <1> HIDE DEF g
  <1>10. /\ 1 \in 1..n /\ off + 2 \in 1..n /\ off + 3 \in 1..n /\ off + 4 \in 1..n /\ 2 \in 1..n
         /\ off + 5 \in 1..n /\ off + more + 4 \in 1..n /\ off + more + 5 \in 1..n
         /\ n + 1 = off + more + 6
    <2> HIDE DEF n
    <2> QED  BY <1>2, <1>3
  <1> HIDE DEF n
  <1>11. BeginsLike(g, f, ls)
    BY <1>2, <1>7, <1>10 DEF BeginsLike, off, more
  <1> QED  BY <1>4, <1>11 DEF g

\* What parse_ls_line makes of a file's line, if its time is not before 1970.
Metadata(f, ls) ==
  [type |-> f.type, perms |-> f.perms, nlink |-> IF ls.nlink THEN f.nlink ELSE 1,
   uid |-> Resolve(f.owner), gid |-> Resolve(f.group),
   size |-> IF f.type = "-" THEN f.size ELSE 0,
   rdev |-> IF IsDevice(f.type) THEN f.major * 256 + f.minor ELSE 0,
   mtime |-> f.time - Zone]

\* Numbers are read as numbers.
LEMMA NumbersAreRead ==
  ASSUME NEW n
  PROVE  Number(<<Num(n)>>) = n /\ IsNum(<<Num(n)>>) /\ <<Num(n)>>[1][1] # "date"
  BY DEF Number, IsNum, Num

\* The columns' date and clock are read as the file's time, in UTC.
LEMMA TimesAreRead ==
  ASSUME NEW m \in Int
  PROVE  parse_datetime(<<Date(m \div (Hour * Hour))>>, Clock(m))
           = IF m - Zone < 0 THEN Panic ELSE <<"time", m - Zone>>
  <1> DEFINE d == m \div (Hour * Hour)
             x == (m \div Hour) % Hour
             y == m % Hour
             t == d * Hour * Hour + x * Hour + y - Zone
             date == <<Date(d)>>
             colon == Mark(":")
             clock == <<Num(x), colon, Num(y)>>
  <1>1. m = d * Hour * Hour + x * Hour + y /\ d \in Int /\ x \in Int /\ y \in Int
    BY DateAndClock
  <1>2. d * Hour * Hour \in Int /\ x * Hour \in Int /\ Zone \in Int
    BY <1>1, ClocksTick
  <1>3. t = m - Zone
    BY <1>1, <1>2
  <1>4. Clock(m) = clock
    BY Zenon DEF Clock
  <1> HIDE DEF d, x, y
  <1>5. Len(date) = 1 /\ date[1][1] = "date" /\ date[1][2] = d
    BY DEF Date
  <1>6. Len(clock) = 3 /\ clock[2] = colon /\ clock[1][2] = x /\ clock[3][2] = y
    <2> HIDE DEF colon
    <2> QED  BY DEF Num
  <1> HIDE DEF date, clock
  <1>7. parse_datetime(date, clock) = IF t < 0 THEN Panic ELSE <<"time", t>>
    <2>1. parse_datetime(date, clock)
            = IF Len(date) # 1 \/ Len(clock) < 3 \/ date[1][1] # "date" \/ clock[2] # colon THEN None
              ELSE LET u == date[1][2] * Hour * Hour + clock[1][2] * Hour + clock[3][2] - Zone
                   IN IF u < 0 THEN Panic ELSE <<"time", u>>
      BY Zenon DEF parse_datetime
    <2> HIDE DEF colon
    <2> QED  BY <1>5, <1>6, <2>1
  <1> QED  BY <1>3, <1>4, <1>7 DEF date, d

\* What the device prints of a file is read back, whichever columns its ls has, if
\* an owner is no number where the number of links is not printed (parse_ls_line).
THEOREM LinesAreReadBack ==
  ASSUME NEW f, IsFile(f), NEW ls, ls.nlink \/ ~IsNum(f.owner),
         NEW name, name \in Seq(ToSet(name)), ToSet(name) \ {Space} # {}
  PROVE  parse_ls_line(LsLine(f, name, ls))
           = IF f.time - Zone < 0 THEN Panic ELSE <<"meta", Metadata(f, ls)>>
  <1> DEFINE line == LsLine(f, name, ls)
             g == split_fields(line)
             off == Links(ls)
             more == Sizes(f, ls)
             s == ModeString(f.type, f.perms)
             mode == parse_mode_string(g[1][1][2])
             o == IF Number(g[2]) > 0 THEN 1 ELSE 0
             size == o + 4
             date == IF IsDevice(mode.type) THEN size + 2
                     ELSE IF mode.type = "-" \/ g[size][1][1] # "date" THEN size + 1 ELSE size
             t == parse_datetime(g[date], g[date + 1])
             meta == [type |-> mode.type, perms |-> mode.perms,
                      nlink |-> IF o = 1 THEN Number(g[2]) ELSE 1,
                      uid |-> Resolve(g[o + 2]), gid |-> Resolve(g[o + 3]),
                      size |-> IF mode.type = "-" THEN Number(g[size]) ELSE 0,
                      rdev |-> IF ~IsDevice(mode.type) THEN 0
                               ELSE Number(Without(g[size], {Comma})) * 256 + Number(g[size + 1]),
                      mtime |-> t[2]]
  <1>1. BeginsLike(g, f, ls)
    BY FieldsOfALine
  <1>2. parse_ls_line(line)
          = IF Len(g) < 6 \/ ~is_valid_ls_output(g[1]) \/ date + 1 > Len(g) THEN None
            ELSE IF t \in {None, Panic} THEN t ELSE <<"meta", meta>>
    BY Zenon DEF parse_ls_line
  <1> HIDE DEF g, line
  <1>3. f.type \in Types /\ f.perms \in SUBSET Perms /\ f.nlink \in Nat /\ f.nlink > 0 /\ f.time \in Int
    BY DEF IsFile, Perms
  <1>4. off \in 0..1 /\ more \in 0..2 /\ (ls.nlink => off = 1) /\ (~ls.nlink => off = 0)
    BY DEF Links, Sizes
  <1> HIDE DEF off, more
  <1>5. g[1] = <<ModeStr(s)>> /\ g[1][1][2] = s /\ g[1][1][1] = "mode"
    <2>1. g[1] = <<ModeStr(s)>>
      BY <1>1 DEF BeginsLike
    <2> HIDE DEF s
    <2> QED  BY <2>1 DEF ModeStr
  <1>6. mode.type = f.type /\ mode.perms = f.perms /\ is_valid_ls_output(g[1])
    <2>1. parse_mode_string(s) = [type |-> f.type, perms |-> f.perms] /\ s[2] \in {"r", "-"}
      BY <1>3, ModesAreRead
    <2>2. mode = [type |-> f.type, perms |-> f.perms]
      BY <1>5, <2>1
    <2>3. g[1] # <<>>
      BY <1>5
    <2> HIDE DEF s, mode
    <2> QED  BY <1>5, <2>1, <2>2, <2>3 DEF is_valid_ls_output
  <1> HIDE DEF s, mode
  <1>7. o = off /\ (ls.nlink => Number(g[2]) = f.nlink)
    <2>1. CASE ls.nlink
      <3>1. g[2] = <<Num(f.nlink)>>
        BY <1>1, <2>1 DEF BeginsLike
      <3> QED  BY <1>3, <1>4, <2>1, <3>1, NumbersAreRead
    <2>2. CASE ~ls.nlink
      <3>1. g[2] = f.owner
        <4>1. g[off + 2] = f.owner
          BY <1>1 DEF BeginsLike, off
        <4> QED  BY <1>4, <2>2, <4>1
      <3>2. Number(g[2]) = 0
        BY <2>2, <3>1 DEF Number
      <3> QED  BY <1>4, <2>2, <3>2
    <2> QED  BY <2>1, <2>2
  <1> HIDE DEF o
  <1>8. /\ g[off + 2] = f.owner /\ g[off + 3] = f.group
        /\ more = 2 => g[off + 4] = <<Num(f.major), Comma>> /\ g[off + 5] = <<Num(f.minor)>>
        /\ more = 1 => g[off + 4] = <<Num(f.size)>>
        /\ g[off + more + 4] = <<Date(f.time \div (Hour * Hour))>>
        /\ g[off + more + 5] = Clock(f.time)
        /\ Len(g) \in Nat /\ Len(g) >= off + more + 6
    BY <1>1 DEF BeginsLike, off, more
  <1>9. size = off + 4 /\ size + 1 = off + 5
    BY <1>4, <1>7
  <1>10. date = off + more + 4 /\ date + 1 = off + more + 5
    <2>1. CASE IsDevice(f.type)
      <3>1. more = 2
        BY <2>1 DEF more, Sizes
      <3>2. date = size + 2
        BY <1>6, <2>1
      <3> HIDE DEF date
      <3> QED  BY <1>4, <1>9, <3>1, <3>2
    <2>2. CASE ~IsDevice(f.type) /\ more = 1
      <3>1. g[size] = <<Num(f.size)>>
        BY <1>8, <1>9, <2>2
      <3>2. g[size][1][1] # "date"
        BY <3>1, NumbersAreRead
      <3>3. date = size + 1
        BY <1>6, <2>2, <3>2
      <3> HIDE DEF date
      <3> QED  BY <1>4, <1>9, <2>2, <3>3
    <2>3. CASE ~IsDevice(f.type) /\ more # 1
      <3>1. more = 0 /\ f.type # "-"
        BY <2>3 DEF more, Sizes
      <3>2. g[size] = <<Date(f.time \div (Hour * Hour))>>
        <4>1. off + more + 4 = size
          BY <1>4, <1>9, <3>1
        <4> QED  BY <1>8, <4>1
      <3>3. g[size][1][1] = "date"
        BY <3>2 DEF Date
      <3>4. date = size
        BY <1>6, <2>3, <3>1, <3>3
      <3> HIDE DEF date
      <3> QED  BY <1>4, <1>9, <3>1, <3>4
    <2> QED  BY <2>1, <2>2, <2>3
  <1> HIDE DEF date
  <1>11. ~(Len(g) < 6) /\ ~(date + 1 > Len(g))
    BY <1>4, <1>8, <1>10
  <1>12. t = IF f.time - Zone < 0 THEN Panic ELSE <<"time", f.time - Zone>>
    <2>1. g[date] = <<Date(f.time \div (Hour * Hour))>> /\ g[date + 1] = Clock(f.time)
      BY <1>8, <1>10
    <2> QED  BY <1>3, <2>1, TimesAreRead
  <1> HIDE DEF t
  <1>13. ASSUME ~(f.time - Zone < 0)
         PROVE  meta = Metadata(f, ls) /\ t \notin {None, Panic}
    <2>1. t = <<"time", f.time - Zone>>
      BY <1>12, <1>13
    <2>2. t \notin {None, Panic} /\ t[2] = f.time - Zone
      BY <2>1 DEF None, Panic
    <2>3. (IF o = 1 THEN Number(g[2]) ELSE 1) = IF ls.nlink THEN f.nlink ELSE 1
      BY <1>4, <1>7
    <2>4. Resolve(g[o + 2]) = Resolve(f.owner) /\ Resolve(g[o + 3]) = Resolve(f.group)
      BY <1>7, <1>8
    <2>5. (IF mode.type = "-" THEN Number(g[size]) ELSE 0) = IF f.type = "-" THEN f.size ELSE 0
      <3>1. ASSUME f.type = "-" PROVE Number(g[size]) = f.size
        <4>1. more = 1
          BY <3>1 DEF more, Sizes, IsDevice
        <4>2. g[size] = <<Num(f.size)>>
          BY <1>8, <1>9, <4>1
        <4> QED  BY <4>2, NumbersAreRead
      <3> QED  BY <1>6, <3>1
    <2>6. (IF ~IsDevice(mode.type) THEN 0
           ELSE Number(Without(g[size], {Comma})) * 256 + Number(g[size + 1]))
            = IF IsDevice(f.type) THEN f.major * 256 + f.minor ELSE 0
      <3>1. ASSUME IsDevice(f.type)
            PROVE  Number(Without(g[size], {Comma})) = f.major /\ Number(g[size + 1]) = f.minor
        <4>1. more = 2
          BY <3>1 DEF more, Sizes
        <4>2. g[size] = <<Num(f.major), Comma>> /\ g[size + 1] = <<Num(f.minor)>>
          BY <1>8, <1>9, <4>1
        <4> QED  BY <4>2, MajorIsRead, NumbersAreRead
      <3> QED  BY <1>6, <3>1
    <2> HIDE DEF size
    <2> QED  BY <1>6, <2>2, <2>3, <2>4, <2>5, <2>6 DEF Metadata
  <1>14. Panic \in {None, Panic}
    OBVIOUS
  <1> HIDE DEF meta
  <1> QED  BY <1>2, <1>6, <1>11, <1>12, <1>13, <1>14 DEF line

\* A line that begins neither with a mode string nor with a space is no file's.
LEMMA OtherLinesAreLeft ==
  ASSUME NEW E, Space \in E, NEW line \in Seq(E), line # <<>>, line[1] # Space, line[1][1] # "mode"
  PROVE  parse_ls_line(line) = None
  <1> DEFINE columns == <<>>
             seqs == [k \in 1..Len(columns) |-> Append(columns[k], Space)]
             g == split_fields(line)
  <1>1. /\ columns \in Seq(Seq(E \ {Space})) /\ Len(columns) = 0
        /\ \A k \in 1..Len(columns) : columns[k] # <<>>
    OBVIOUS
  <1>2. InColumns(columns) \o line = line
    <2>1. seqs \in Seq(Seq(E)) /\ Len(seqs) = 0
      OBVIOUS
    <2> HIDE DEF seqs
    <2>2. FlattenSeq(seqs) = <<>>
      BY <2>1, Flattens
    <2> QED  BY <2>2 DEF seqs, InColumns
  <1> HIDE DEF columns
  <1>3. AreFields(split_fields(InColumns(columns) \o line), columns, line, E)
    BY <1>1, ColumnsAreSplit
  <1>5. g[1] # <<>> /\ g[1][1] = line[1]
    BY <1>1, <1>2, <1>3 DEF AreFields
  <1> HIDE DEF g
  <1>6. ~is_valid_ls_output(g[1])
    BY <1>5 DEF is_valid_ls_output
  <1> QED  BY <1>6 DEF parse_ls_line, g

------------------------------------------------------------------------------
(***************************************************************************)
(* Links.                                                                  *)
(***************************************************************************)

\* Two sequences that were put together are cut apart again.
LEMMA Cuts ==
  ASSUME NEW E, NEW s \in Seq(E), NEW t \in Seq(E)
  PROVE  /\ SubSeq(s \o t, 1, Len(s)) = s
         /\ SubSeq(s \o t, Len(s) + 1, Len(s \o t)) = t
  <1> DEFINE st == s \o t
             n == Len(s)
             m == Len(t)
             N == Len(st)
             p == SubSeq(st, 1, n)
             q == SubSeq(st, n + 1, N)
  <1>1. IsJoin(st, s, t, E)
    BY Joined
  <1>2. /\ n \in Nat /\ m \in Nat /\ st \in Seq(E) /\ N = n + m
        /\ (\A i \in 1..n : st[i] = s[i]) /\ \A j \in 1..m : st[n + j] = t[j]
    BY <1>1 DEF IsJoin
  <1>3. \A i \in 1..N : st[i] \in E
    BY <1>2
  <1> HIDE DEF st, n, m, N
  <1>4. /\ 1 \in Int /\ n \in Int /\ n + 1 \in Int /\ N \in Int
        /\ (\A i \in 1..n : i \in 1..N) /\ \A i \in n + 1..N : i \in 1..N
    BY <1>2
  <1>5. /\ p \in Seq(E) /\ Len(p) = IF 1 <= n THEN n - 1 + 1 ELSE 0
        /\ \A i \in 1..n - 1 + 1 : p[i] = st[1 + i - 1]
    <2>1. \A i \in 1..n : st[i] \in E
      BY <1>3, <1>4
    <2>2. 1 \in Int /\ n \in Int
      BY <1>4
    <2> QED  BY <2>1, <2>2, SubSeqProperties
  <1>6. /\ q \in Seq(E) /\ Len(q) = IF n + 1 <= N THEN N - (n + 1) + 1 ELSE 0
        /\ \A i \in 1..N - (n + 1) + 1 : q[i] = st[n + 1 + i - 1]
    <2>1. \A i \in n + 1..N : st[i] \in E
      BY <1>3, <1>4
    <2>2. n + 1 \in Int /\ N \in Int
      BY <1>4
    <2> QED  BY <2>1, <2>2, SubSeqProperties
  <1> HIDE DEF p, q
  <1>7. p = s
    <2>1. Len(p) = n
      BY <1>2, <1>5
    <2>2. \A i \in 1..n : i \in 1..n - 1 + 1 /\ 1 + i - 1 = i
      BY <1>2
    <2>3. \A i \in 1..n : p[i] = s[i]
      BY <1>2, <1>5, <2>2
    <2>4. Len(s) = n
      BY DEF n
    <2>5. p \in Seq(E) /\ Len(p) = Len(s) /\ \A i \in 1..Len(p) : p[i] = s[i]
      BY <1>5, <2>1, <2>3, <2>4
    <2> QED  BY <2>5, SeqEqual
  <1>8. q = t
    <2>1. Len(q) = m
      BY <1>2, <1>6
    <2>2. \A i \in 1..m : i \in 1..N - (n + 1) + 1 /\ n + 1 + i - 1 = n + i
      BY <1>2
    <2>3. \A i \in 1..m : q[i] = t[i]
      BY <1>2, <1>6, <2>2
    <2>4. Len(t) = m
      BY DEF m
    <2>5. q \in Seq(E) /\ Len(q) = Len(t) /\ \A i \in 1..Len(q) : q[i] = t[i]
      BY <1>6, <2>1, <2>3, <2>4
    <2> QED  BY <2>5, SeqEqual
  <1> QED  BY <1>7, <1>8 DEF p, q, st, n, N

\* A part that is there is found where it is there first.
LEMMA FoundFirst ==
  ASSUME NEW text, NEW part, Len(text) \in Nat, Len(part) \in Nat, NEW k \in Nat, k >= 1,
         k + Len(part) =< Len(text) + 1, SubSeq(text, k, k + Len(part) - 1) = part,
         \A j \in 1..k - 1 : SubSeq(text, j, j + Len(part) - 1) # part
  PROVE  Position(text, part) = k
  <1> DEFINE n == Len(text)
             m == Len(part)
             At(j) == SubSeq(text, j, j + m - 1)
             hits == {j \in 1..n + 1 - m : At(j) = part}
  <1>1. Position(text, part) = IF hits = {} THEN 0 ELSE Min(hits)
    BY Zenon DEF Position
  <1>2. n \in Nat /\ m \in Nat /\ k + m =< n + 1 /\ At(k) = part /\ \A j \in 1..k - 1 : At(j) # part
    OBVIOUS
  <1> HIDE DEF n, m, At
  <1>3. k \in hits
    <2>1. k \in 1..n + 1 - m
      BY <1>2
    <2> QED  BY <1>2, <2>1
  <1>4. hits \subseteq Nat
    <2>1. \A j \in 1..n + 1 - m : j \in Nat
      BY <1>2
    <2> QED  BY <2>1
  <1>5. \A j \in hits : j >= k
    <2> SUFFICES ASSUME NEW j \in hits, j < k PROVE FALSE
      BY <1>4
    <2>1. j \in 1..n + 1 - m /\ At(j) = part
      OBVIOUS
    <2>2. j \in 1..k - 1
      BY <1>2, <2>1
    <2> QED  BY <1>2, <2>1, <2>2
  <1> HIDE DEF hits
  <1> DEFINE x == Min(hits)
  <1>6. x \in hits /\ \A y \in hits : x =< y
    BY <1>3, <1>4, LeastIsThere
  <1> HIDE DEF x
  <1>7. x = k
    <2>1. x \in Nat /\ x =< k /\ x >= k
      BY <1>3, <1>4, <1>5, <1>6
    <2> QED  BY <2>1
  <1> QED  BY <1>1, <1>3, <1>7 DEF x

\* The arrow of a link is found, and after it the target, if there is no arrow before.
LEMMA ArrowsAreFound ==
  ASSUME NEW E, NEW s \in Seq(E), NEW target \in Seq(E), Mark("->") \in E, Space \in E,
         Mark("->") \notin ToSet(s)
  PROVE  LET line == s \o (Arrow \o target) IN
         /\ Position(line, Arrow) = Len(s) + 1
         /\ SubSeq(line, 1, Len(s)) = s
         /\ SubSeq(line, Position(line, Arrow) + 3, Len(line)) = target
  <1> DEFINE a == Mark("->")
             w == Arrow
             rest == w \o target
             line == s \o rest
             n == Len(s)
             N == Len(line)
             At(j) == SubSeq(line, j, j + 3 - 1)
  <1>1. w = <<Space, a, Space>>
    BY Zenon DEF Arrow
  <1> HIDE DEF a, w
  <1>2. w \in Seq(E) /\ Len(w) = 3 /\ w[1] = Space /\ w[2] = a /\ w[3] = Space
    BY <1>1 DEF a
  <1>3. rest \in Seq(E) /\ IsJoin(rest, w, target, E)
    <2>1. IsJoin(rest, w, target, E)
      BY <1>2, Joined
    <2> QED  BY <2>1 DEF IsJoin
  <1> HIDE DEF rest
  <1>4. line \in Seq(E) /\ IsJoin(line, s, rest, E)
    <2>1. IsJoin(line, s, rest, E)
      BY <1>3, Joined
    <2> QED  BY <2>1 DEF IsJoin
  <1>5. line = (s \o w) \o target
    <2>1. \A x, y, z \in Seq(E) : (x \o y) \o z = x \o (y \o z)
      BY ConcatAssociative
    <2>2. (s \o w) \o target = s \o (w \o target)
      BY <1>2, <2>1, Zenon
    <2> QED  BY <2>2, Zenon DEF rest
  <1>6. SubSeq(line, n + 1, N) = rest /\ SubSeq(line, 1, n) = s
    BY <1>3, Cuts
  <1>7. /\ n \in Nat /\ Len(rest) \in Nat /\ Len(rest) >= 3 /\ N = n + Len(rest)
        /\ \A i \in 1..n : line[i] = s[i]
        /\ \A j \in 1..Len(rest) : line[n + j] = rest[j]
        /\ \A j \in 1..3 : rest[j] = w[j]
    BY <1>2, <1>3, <1>4 DEF IsJoin
  <1>8. \A i \in 1..n : s[i] # a
    <2>1. \A i \in 1..n : s[i] \in ToSet(s)
      BY DEF ToSet
    <2> QED  BY <2>1 DEF a
  <1>9. SubSeq(line, n + 4, N) = target
    <2> DEFINE sw == s \o w
    <2>1. IsJoin(sw, s, w, E)
      BY <1>2, Joined
    <2>2. sw \in Seq(E) /\ Len(sw) = n + 3 /\ line = sw \o target
      BY <1>2, <1>5, <2>1 DEF IsJoin
    <2> HIDE DEF sw, line
    <2>3. SubSeq(sw \o target, Len(sw) + 1, Len(sw \o target)) = target
      BY <2>2, Cuts
    <2>4. n + 3 + 1 = n + 4
      BY <1>7
    <2> QED  BY <2>2, <2>3, <2>4
  <1> HIDE DEF line, n, N
  <1>10. \A i \in 1..N : line[i] \in E
    BY <1>4 DEF N
  <1>11. ASSUME NEW j \in 1..n + 1
         PROVE  /\ At(j) \in Seq(E) /\ Len(At(j)) = 3
                /\ \A i \in 1..3 : At(j)[i] = line[j + i - 1]
    <2>1. j \in Int /\ j + 3 - 1 \in Int /\ j <= j + 3 - 1 /\ j + 3 - 1 - j + 1 = 3
      BY <1>7
    <2>2. \A i \in j..j + 3 - 1 : i \in 1..N
      BY <1>7
    <2>3. \A i \in j..j + 3 - 1 : line[i] \in E
      BY <1>10, <2>2
    <2> QED  BY <2>1, <2>3, SubSeqProperties
  <1>12. At(n + 1) = w
    <2>1. n + 1 \in 1..n + 1
      BY <1>7
    <2>2. \A i \in 1..3 : i \in 1..Len(rest) /\ n + 1 + i - 1 = n + i
      BY <1>7
    <2>3. \A i \in 1..3 : At(n + 1)[i] = w[i]
      <3> HIDE DEF At
      <3>1. \A i \in 1..3 : At(n + 1)[i] = line[n + 1 + i - 1]
        BY <1>11, <2>1
      <3> QED  BY <1>7, <2>2, <3>1
    <2>4. At(n + 1) \in Seq(E) /\ Len(At(n + 1)) = 3
      BY <1>11, <2>1
    <2> HIDE DEF At
    <2> QED  BY <1>2, <2>3, <2>4, SeqEqual
  <1>13. ASSUME NEW j \in 1..n PROVE At(j) # w
    <2>1. j \in 1..n + 1 /\ 2 \in 1..3 /\ j + 2 - 1 = j + 1 /\ (j + 1 \in 1..n \/ j + 1 = n + 1)
      BY <1>7
    <2> HIDE DEF At
    <2>2. At(j)[2] = line[j + 1]
      <3>1. \A i \in 1..3 : At(j)[i] = line[j + i - 1]
        BY <1>11, <2>1
      <3> QED  BY <2>1, <3>1
    <2>3. line[j + 1] # a
      <3>1. CASE j + 1 \in 1..n
        BY <1>7, <1>8, <3>1
      <3>2. CASE j + 1 = n + 1
        <4>1. 1 \in 1..Len(rest) /\ 1 \in 1..3
          BY <1>7
        <4>2. line[n + 1] = Space
          BY <1>2, <1>7, <4>1
        <4> QED  BY <3>2, <4>2, PiecesOfColumns DEF a
      <3> QED  BY <2>1, <3>1, <3>2
    <2> QED  BY <1>2, <2>2, <2>3
  <1>14. Position(line, w) = n + 1
    <2>1. \A j \in 1..(n + 1) - 1 : j \in 1..n
      BY <1>7
    <2>2. \A j \in 1..(n + 1) - 1 : At(j) # w
      BY <1>13, <2>1
    <2>3. N \in Nat /\ n + 1 \in Nat /\ n + 1 >= 1 /\ n + 1 + 3 =< N + 1
      BY <1>7
    <2>4. /\ Len(line) \in Nat /\ Len(w) \in Nat /\ n + 1 + Len(w) =< Len(line) + 1
          /\ SubSeq(line, n + 1, n + 1 + Len(w) - 1) = w
          /\ \A j \in 1..(n + 1) - 1 : SubSeq(line, j, j + Len(w) - 1) # w
      <3>1. Len(line) = N /\ Len(w) = 3 /\ 3 \in Nat
        BY <1>2 DEF N
      <3>2. /\ SubSeq(line, n + 1, n + 1 + 3 - 1) = w
            /\ \A j \in 1..(n + 1) - 1 : SubSeq(line, j, j + 3 - 1) # w
        BY <1>12, <2>2, Zenon
      <3> QED  BY <2>3, <3>1, <3>2
    <2>5. n + 1 \in Nat /\ n + 1 >= 1
      BY <2>3
    <2> DEFINE k == n + 1
    <2> HIDE DEF k
    <2>6. k \in Nat /\ k >= 1 /\ k + Len(w) =< Len(line) + 1
          /\ SubSeq(line, k, k + Len(w) - 1) = w
          /\ \A j \in 1..k - 1 : SubSeq(line, j, j + Len(w) - 1) # w
      BY <2>4, <2>5, Zenon DEF k
    <2>7. Position(line, w) = k
      BY <2>4, <2>6, FoundFirst
    <2> QED  BY <2>7 DEF k
  <1>15. n + 1 + 3 = n + 4
    BY <1>7
  <1> QED  BY <1>6, <1>9, <1>14, <1>15 DEF line, rest, w, n, N

\* One up for each directory above a link.
Ups(d) == FlattenSeq([k \in 1..d |-> <<Mark(".."), Slash>>])

\* They are so many ups, with slashes between.
LEMMA UpsAreThere ==
  ASSUME NEW E, Mark("..") \in E, Slash \in E, NEW d \in Nat
  PROVE  /\ Ups(d) \in Seq(E) /\ Len(Ups(d)) = 2 * d
         /\ \A k \in 1..d : Ups(d)[2 * k - 1] = Mark("..") /\ Ups(d)[2 * k] = Slash
  <1> DEFINE up == Mark("..")
             pair == <<up, Slash>>
             seqs == [k \in 1..d |-> pair]
             all == FlattenSeq(seqs)
  <1>1. pair \in Seq(E) /\ Len(pair) = 2 /\ pair[1] = up /\ pair[2] = Slash
    <2> HIDE DEF up
    <2> QED  BY DEF up
  <1> HIDE DEF pair, up
  <1>2. seqs \in Seq(Seq(E)) /\ Len(seqs) = d /\ \A k \in 1..d : seqs[k] = pair
    BY <1>1
  <1> HIDE DEF seqs
  <1>3. all \in Seq(E) /\ \E from \in [0..Len(seqs) -> Nat] :
           /\ from[0] = 0 /\ from[Len(seqs)] = Len(all)
           /\ \A k \in 1..Len(seqs) :
                /\ from[k] = from[k - 1] + Len(seqs[k]) /\ from[k] =< Len(all)
                /\ \A j \in 1..Len(seqs[k]) : all[from[k - 1] + j] = seqs[k][j]
    <2>1. seqs \in Seq(Seq(E))
      BY <1>2
    <2> QED  BY <2>1, Pieces, Zenon
  <1> HIDE DEF all
  <1>4. PICK from \in [0..d -> Nat] :
           /\ from[0] = 0 /\ from[d] = Len(all)
           /\ \A k \in 1..d :
                /\ from[k] = from[k - 1] + 2
                /\ all[from[k - 1] + 1] = up /\ all[from[k - 1] + 2] = Slash
    <2>1. PICK from \in [0..Len(seqs) -> Nat] :
             /\ from[0] = 0 /\ from[Len(seqs)] = Len(all)
             /\ \A k \in 1..Len(seqs) :
                  /\ from[k] = from[k - 1] + Len(seqs[k])
                  /\ \A j \in 1..Len(seqs[k]) : all[from[k - 1] + j] = seqs[k][j]
      BY <1>3
    <2>2. from \in [0..d -> Nat] /\ from[0] = 0 /\ from[d] = Len(all)
      BY <1>2, <2>1
    <2>3. ASSUME NEW k \in 1..d
          PROVE  /\ from[k] = from[k - 1] + 2
                 /\ all[from[k - 1] + 1] = up /\ all[from[k - 1] + 2] = Slash
      <3>1. seqs[k] = pair /\ k \in 1..Len(seqs)
        BY <1>2
      <3>2. from[k] = from[k - 1] + Len(pair) /\ \A j \in 1..Len(pair) : all[from[k - 1] + j] = pair[j]
        BY <2>1, <3>1
      <3>3. 1 \in 1..2 /\ 2 \in 1..2
        OBVIOUS
      <3> QED  BY <1>1, <3>2, <3>3
    <2> QED  BY <2>2, <2>3
  <1>5. \A k \in 0..d : from[k] = 2 * k
    <2> DEFINE S == {k \in 0..d : from[k] = 2 * k}
    <2>1. 0 \in S
      BY <1>4
    <2>2. ASSUME NEW k \in 0..d - 1, k \in S PROVE k + 1 \in S
      <3>1. k + 1 \in 1..d /\ k + 1 \in 0..d /\ (k + 1) - 1 = k /\ from[k] = 2 * k
        BY <2>2
      <3>2. from[k + 1] = from[k] + 2
        BY <1>4, <3>1
      <3> QED  BY <3>1, <3>2
    <2> HIDE DEF S
    <2>3. 0..d \subseteq S
      BY <2>1, <2>2, UpTo
    <2> QED  BY <2>3 DEF S
  <1>6. Len(all) = 2 * d
    BY <1>4, <1>5
  <1>7. ASSUME NEW k \in 1..d PROVE all[2 * k - 1] = up /\ all[2 * k] = Slash
    <2>1. k - 1 \in 0..d /\ 2 * (k - 1) + 1 = 2 * k - 1 /\ 2 * (k - 1) + 2 = 2 * k
      OBVIOUS
    <2>2. from[k - 1] = 2 * (k - 1)
      BY <1>5, <2>1
    <2>3. all[from[k - 1] + 1] = up /\ all[from[k - 1] + 2] = Slash
      BY <1>4
    <2> QED  BY <2>1, <2>2, <2>3
  <1>8. Ups(d) = all
    BY Zenon DEF Ups, all, seqs, pair, up
  <1> QED  BY <1>3, <1>6, <1>7, <1>8 DEF up

\* What is left of a sequence is left of it without a beginning that goes.
LEMMA BeginningsGo ==
  ASSUME NEW E, NEW s \in Seq(E), NEW set, NEW m \in 0..Len(s), \A i \in 1..m : s[i] \in set
  PROVE  Without(SubSeq(s, m + 1, Len(s)), set) = Without(s, set)
  <1> DEFINE n == Len(s)
             t == SubSeq(s, m + 1, n)
  <1>1. n \in Nat /\ m \in 0..n /\ m \in Nat
    OBVIOUS
  <1>2. t \in Seq(E) /\ Len(t) = n - m /\ \A i \in 1..n - m : t[i] = s[m + i]
    <2>1. \A i \in m + 1..n : s[i] \in E
      BY <1>1
    <2> HIDE DEF n
    <2>2. m + 1 \in Int /\ n \in Int
      BY <1>1
    <2>3. /\ t \in Seq(E) /\ Len(t) = IF m + 1 <= n THEN n - (m + 1) + 1 ELSE 0
          /\ \A i \in 1..n - (m + 1) + 1 : t[i] = s[m + 1 + i - 1]
      BY <2>1, <2>2, SubSeqProperties
    <2> HIDE DEF t
    <2>4. Len(t) = n - m /\ n - (m + 1) + 1 = n - m /\ \A i \in 1..n - m : m + 1 + i - 1 = m + i
      BY <1>1, <2>3
    <2> QED  BY <2>3, <2>4
  <1>3. PICK a : /\ a[0] = <<>>
                 /\ \A k \in 1..n : a[k] = IF s[k] \in set THEN a[k - 1] ELSE Append(a[k - 1], s[k])
                 /\ Without(s, set) = a[n]
    BY Removals
  <1> HIDE DEF t, n
  <1>4. PICK b : /\ b[0] = <<>>
                 /\ \A k \in 1..Len(t) :
                      b[k] = IF t[k] \in set THEN b[k - 1] ELSE Append(b[k - 1], t[k])
                 /\ Without(t, set) = b[Len(t)]
    BY <1>2, Removals
  <1>5. \A i \in 0..m : a[i] = <<>>
    <2> DEFINE S == {i \in 0..m : a[i] = <<>>}
    <2>1. 0 \in S
      BY <1>1, <1>3
    <2>2. ASSUME NEW i \in 0..m - 1, i \in S PROVE i + 1 \in S
      <3>1. i + 1 \in 1..n /\ i + 1 \in 1..m /\ i + 1 \in 0..m /\ (i + 1) - 1 = i /\ a[i] = <<>>
        BY <1>1, <2>2
      <3>2. a[i + 1] = a[i]
        BY <1>3, <3>1
      <3> QED  BY <3>1, <3>2
    <2> HIDE DEF S
    <2>3. 0..m \subseteq S
      BY <1>1, <2>1, <2>2, UpTo
    <2> QED  BY <2>3 DEF S
  <1>6. \A i \in 0..n - m : b[i] = a[m + i]
    <2> DEFINE S == {i \in 0..n - m : b[i] = a[m + i]}
    <2>1. 0 \in S
      <3>1. m + 0 = m /\ 0 \in 0..n - m /\ m \in 0..m
        BY <1>1
      <3> QED  BY <1>4, <1>5, <3>1
    <2>2. ASSUME NEW i \in 0..(n - m) - 1, i \in S PROVE i + 1 \in S
      <3>1. /\ i + 1 \in 1..n - m /\ i + 1 \in 0..n - m /\ (i + 1) - 1 = i /\ b[i] = a[m + i]
            /\ m + (i + 1) \in 1..n /\ (m + (i + 1)) - 1 = m + i
        BY <1>1, <2>2
      <3>2. t[i + 1] = s[m + (i + 1)]
        BY <1>2, <3>1
      <3>3. b[i + 1] = IF t[i + 1] \in set THEN b[i] ELSE Append(b[i], t[i + 1])
        BY <1>2, <1>4, <3>1
      <3>4. a[m + (i + 1)] = IF s[m + (i + 1)] \in set THEN a[m + i]
                             ELSE Append(a[m + i], s[m + (i + 1)])
        BY <1>3, <3>1
      <3>5. b[i + 1] = a[m + (i + 1)]
        BY <3>1, <3>2, <3>3, <3>4
      <3> QED  BY <3>1, <3>5
    <2>3. n - m \in Nat
      BY <1>1
    <2> HIDE DEF S
    <2>4. 0..n - m \subseteq S
      BY <2>1, <2>2, <2>3, UpTo
    <2> QED  BY <2>4 DEF S
  <1>7. b[n - m] = a[n]
    <2>1. n - m \in 0..n - m /\ m + (n - m) = n
      BY <1>1
    <2> QED  BY <1>6, <2>1
  <1>8. Without(t, set) = a[n]
    BY <1>2, <1>4, <1>7
  <1> QED  BY <1>3, <1>8 DEF t, n

\* What readlink answers: the target, or the way up and the target without the
\* slashes it begins with.
IsAnswer(answer, target, d) ==
  \/ target[1] # Slash /\ answer = target
  \/ /\ target[1] = Slash
     /\ \E m \in 0..Len(target) :
          /\ \A i \in 1..m : target[i] = Slash
          /\ answer = Ups(d) \o SubSeq(target, m + 1, Len(target))

\* The target of a link is read back, if the line has no arrow before it (parse_symlink_target).
LEMMA TargetsAreRead ==
  ASSUME NEW f, IsFile(f), f.type = "l", f.target # <<>>, None \notin ToSet(f.target), NEW ls,
         NEW name, name \in Seq(ToSet(name)), NEW slashes \in Nat,
         Mark("->") \notin ToSet(name) \cup ToSet(f.owner) \cup ToSet(f.group)
  PROVE  /\ parse_symlink_target(LsLine(f, name, ls), slashes) # NoText
         /\ IsAnswer(parse_symlink_target(LsLine(f, name, ls), slashes), f.target, Depth(slashes))
  <1> DEFINE E == LinePieces(f, name)
             c == Columns(f, ls)
             t == f.target
             s == InColumns(c) \o name
             line == LsLine(f, name, ls)
             d == Depth(slashes)
             answer == parse_symlink_target(line, slashes)
  <1>1. /\ InColumns(c) \in Seq(ColumnPieces(f)) /\ InColumns(c) \in Seq(E)
        /\ name \in Seq(E) /\ t \in Seq(E) /\ Arrow \in Seq(E)
        /\ line = InColumns(c) \o (name \o (Arrow \o t))
    BY PartsOfALine DEF LinkPart
  <1>2. Mark("->") \in E /\ Space \in E
    BY Zenon DEF LinePieces, ColumnPieces
  <1>3. Mark("->") \notin ColumnPieces(f)
    <2>1. Mark("->") # Space /\ Mark("->") # Comma /\ Mark("->") # Mark(":")
      <3>1. Mark("->") # Mark(":")
        BY DEF Mark
      <3>2. Mark("->") # Mark(",")
        BY DEF Mark
      <3> QED  BY <3>1, <3>2, PiecesOfColumns, Zenon DEF Comma
    <2>2. \A x : Mark("->") # Num(x) /\ Mark("->") # Date(x) /\ Mark("->") # ModeStr(x)
      BY DEF Mark, Num, Date, ModeStr
    <2> QED  BY <2>1, <2>2, Zenon DEF ColumnPieces
  <1> DEFINE a == Mark("->")
             w == Arrow
  <1> HIDE DEF E, a, w, line, t, c
  <1>4. s \in Seq(E) /\ a \notin ToSet(s)
    <2> DEFINE G == ColumnPieces(f) \cup ToSet(name)
    <2>1. a \notin G
      BY <1>3 DEF a
    <2> HIDE DEF G
    <2>2. InColumns(c) \in Seq(G) /\ name \in Seq(G)
      <3>1. ColumnPieces(f) \subseteq G /\ ToSet(name) \subseteq G
        BY DEF G
      <3>2. \A S, x : S \subseteq G /\ x \in Seq(S) => x \in Seq(G)
        OBVIOUS
      <3> QED  BY <1>1, <3>1, <3>2
    <2>3. s \in Seq(G) /\ s \in Seq(E)
      BY <1>1, <2>2
    <2> HIDE DEF s
    <2> QED  BY <2>1, <2>3 DEF ToSet
  <1>5. line = s \o (w \o t)
    <2>1. w \o t \in Seq(E)
      BY <1>1 DEF w
    <2> DEFINE wt == w \o t
               p == InColumns(c)
    <2>3. p \in Seq(E) /\ name \in Seq(E) /\ wt \in Seq(E)
      BY <1>1, <2>1
    <2> HIDE DEF wt, p
    <2>2. (p \o name) \o wt = p \o (name \o wt)
      BY <2>3, ConcatAssociative
    <2> QED  BY <1>1, <2>2 DEF wt, w, p
  <1> HIDE DEF s
  <1>6. Position(line, w) = Len(s) + 1 /\ SubSeq(line, Position(line, w) + 3, Len(line)) = t
    <2>1. t \in Seq(E) /\ Mark("->") \in E /\ Space \in E /\ s \in Seq(E) /\ Mark("->") \notin ToSet(s)
      BY <1>1, <1>2, <1>4 DEF a
    <2> DEFINE l == s \o (Arrow \o t)
    <2>2. Position(l, Arrow) = Len(s) + 1 /\ SubSeq(l, Position(l, Arrow) + 3, Len(l)) = t
      BY <2>1, ArrowsAreFound, Zenon
    <2> QED  BY <1>5, <2>2 DEF w
  <1>7. t # <<>> /\ t \in Seq(E) /\ Len(s) \in Nat
    BY <1>1, <1>4 DEF t
  <1>8. Position(line, w) # 0
    BY <1>6, <1>7
  <1> DEFINE first == SelectInSeq(t, LAMBDA p : p # Slash)
             m == IF first = 0 THEN Len(t) ELSE first - 1
  <1>9. answer = IF t[1] # Slash THEN t
                 ELSE Ups(d) \o SubSeq(t, IF first = 0 THEN Len(t) + 1 ELSE first, Len(t))
    BY <1>6, <1>7, <1>8, Zenon DEF parse_symlink_target, Ups, w
  <1>10. m \in 0..Len(t) /\ (\A i \in 1..m : t[i] = Slash)
         /\ (IF first = 0 THEN Len(t) + 1 ELSE first) = m + 1
    <2> DEFINE I == {i \in 1..Len(t) : t[i] # Slash}
    <2>1. first = IF I # {} THEN Min(I) ELSE 0
      BY DEF SelectInSeq
    <2>2. Len(t) \in Nat
      BY <1>7
    <2>3. CASE I = {}
      <3>1. first = 0
        BY <2>1, <2>3
      <3>2. \A i \in 1..Len(t) : t[i] = Slash
        BY <2>3
      <3> HIDE DEF first
      <3> QED  BY <2>2, <3>1, <3>2
    <2>4. CASE I # {}
      <3> DEFINE x == Min(I)
      <3>1. I \subseteq Nat
        BY <2>2
      <3>2. x \in I /\ \A y \in I : x =< y
        <4> HIDE DEF I
        <4> QED  BY <2>4, <3>1, LeastIsThere
      <3>3. first = x
        BY <2>1, <2>4
      <3> HIDE DEF x, first
      <3>4. x \in 1..Len(t) /\ \A i \in 1..x - 1 : i \in 1..Len(t) /\ ~(x =< i)
        BY <2>2, <3>2
      <3>5. \A i \in 1..x - 1 : t[i] = Slash
        BY <3>2, <3>4
      <3> QED  BY <2>2, <3>3, <3>4, <3>5
    <2> QED  BY <2>3, <2>4
  <1> HIDE DEF answer, m, first
  <1>11. IsAnswer(answer, t, d)
    <2>1. CASE t[1] # Slash
      BY <1>9, <2>1 DEF IsAnswer
    <2>2. CASE t[1] = Slash
      <3>1. answer = Ups(d) \o SubSeq(t, m + 1, Len(t))
        BY <1>9, <1>10, <2>2
      <3> QED  BY <1>10, <2>2, <3>1 DEF IsAnswer
    <2> QED  BY <2>1, <2>2
  <1>12. answer # NoText
    <2> DEFINE G == ToSet(t) \cup {Mark(".."), Slash}
    <2>1. None \notin G
      <3>1. \A x : None # Mark(x)
        BY DEF None, Mark
      <3> QED  BY <3>1 DEF t, Slash
    <2>2. t \in Seq(ToSet(t)) /\ d \in Nat
      BY DEF IsFile, t, Depth
    <2>3. ToSet(t) \subseteq G /\ Mark("..") \in G /\ Slash \in G
      OBVIOUS
    <2> HIDE DEF G, d
    <2>4. t \in Seq(G)
      <3>1. \A S, x : S \subseteq G /\ x \in Seq(S) => x \in Seq(G)
        OBVIOUS
      <3> QED  BY <2>2, <2>3, <3>1
    <2>5. answer \in Seq(G)
      <3>1. Ups(d) \in Seq(G)
        BY <2>2, <2>3, UpsAreThere
      <3>2. \A i \in 0..Len(t) : SubSeq(t, i + 1, Len(t)) \in Seq(G)
        BY <2>4
      <3>3. \A x1, x2 \in Seq(G) : x1 \o x2 \in Seq(G)
        OBVIOUS
      <3> QED  BY <1>11, <2>4, <3>1, <3>2, <3>3 DEF IsAnswer
    <2> DEFINE none == None
    <2> HIDE DEF none
    <2>6. <<none>>[1] = none /\ 1 \in 1..Len(<<none>>)
      OBVIOUS
    <2>7. \A s2 \in Seq(G) : 1 \in 1..Len(s2) => s2[1] \in G
      OBVIOUS
    <2>8. <<none>> \notin Seq(G)
      BY <2>1, <2>6, <2>7 DEF none
    <2> QED  BY <2>5, <2>8, Zenon DEF NoText, none
  <1> QED  BY <1>11, <1>12, Zenon DEF answer, line, t, d

------------------------------------------------------------------------------
(***************************************************************************)
(* Names.                                                                  *)
(***************************************************************************)

\* One element more.
LEMMA OneElementMore ==
  ASSUME NEW E, NEW t \in Seq(E), NEW e \in E
  PROVE  /\ ToSet(Append(t, e)) = ToSet(t) \cup {e}
         /\ IsInjective(t) /\ e \notin ToSet(t) => IsInjective(Append(t, e))
  <1> DEFINE n == Len(t)
             w == Append(t, e)
  <1>1. n \in Nat /\ DOMAIN t = 1..n /\ DOMAIN w = 1..n + 1 /\ (\A i \in 1..n : w[i] = t[i]) /\ w[n + 1] = e
    OBVIOUS
  <1>2. 1..n + 1 = 1..n \cup {n + 1} /\ n + 1 \notin 1..n
    BY <1>1
  <1> HIDE DEF n, w
  <1>3. ToSet(w) = ToSet(t) \cup {e}
    BY <1>1, <1>2 DEF ToSet
  <1>4. ASSUME IsInjective(t), e \notin ToSet(t) PROVE IsInjective(w)
    <2>1. ASSUME NEW i \in 1..n + 1, NEW j \in 1..n + 1, w[i] = w[j] PROVE i = j
      <3>1. \A k \in 1..n : w[k] # e
        BY <1>1, <1>4 DEF ToSet
      <3>2. CASE i \in 1..n /\ j \in 1..n
        BY <1>1, <1>4, <2>1, <3>2 DEF IsInjective
      <3>3. CASE ~(i \in 1..n /\ j \in 1..n)
        BY <1>1, <1>2, <2>1, <3>1, <3>3
      <3> QED  BY <3>2, <3>3
    <2> QED  BY <1>1, <2>1 DEF IsInjective
  <1> QED  BY <1>3, <1>4 DEF w

\* If no two of the elements that stay are alike, they are what is left, each once.
LEMMA EachOnce ==
  ASSUME NEW E, NEW s \in Seq(E), NEW set,
         \A i, j \in 1..Len(s) : s[i] \notin set /\ s[i] = s[j] => i = j
  PROVE  ToSet(Without(s, set)) = ToSet(s) \ set /\ IsInjective(Without(s, set))
  <1> DEFINE n == Len(s)
             Some(k) == {s[i] : i \in 1..k}
  <1>1. n \in Nat /\ DOMAIN s = 1..n /\ \A i \in 1..n : s[i] \in E
    OBVIOUS
  <1>2. \A i, j \in 1..n : s[i] \notin set /\ s[i] = s[j] => i = j
    OBVIOUS
  <1>3. PICK a : AreLeft(a, s, set, E)
    BY Removed
  <1>4. /\ a[0] = <<>> /\ Without(s, set) = a[n]
        /\ \A k \in 1..n : a[k] = IF s[k] \in set THEN a[k - 1] ELSE Append(a[k - 1], s[k])
        /\ \A k \in 0..n : a[k] \in Seq(E)
    BY <1>3 DEF AreLeft
  <1>5. ToSet(s) = Some(n)
    BY <1>1 DEF ToSet
  <1> DEFINE Fine(k) == ToSet(a[k]) = Some(k) \ set /\ IsInjective(a[k])
             S == {k \in 0..n : Fine(k)}
  <1> HIDE DEF n
  <1>6. 0 \in S
    <2>1. DOMAIN a[0] = {} /\ Some(0) = {}
      BY <1>4
    <2> QED  BY <1>1, <2>1 DEF ToSet, IsInjective
  <1>7. ASSUME NEW k \in 0..n - 1, k \in S PROVE k + 1 \in S
    <2> DEFINE m == k + 1
               t == a[k]
               e == s[m]
    <2>1. m \in 1..n /\ m \in 0..n /\ k \in 0..n /\ m - 1 = k /\ 1..m = 1..k \cup {m} /\ m \notin 1..k
          /\ \A i \in 1..k : i \in 1..n
      BY <1>1
    <2> HIDE DEF m
    <2>2. Some(m) = Some(k) \cup {e} /\ e \in E /\ t \in Seq(E)
      BY <1>1, <1>4, <2>1
    <2>3. ToSet(t) = Some(k) \ set /\ IsInjective(t)
      BY <1>7
    <2>4. a[m] = IF e \in set THEN t ELSE Append(t, e)
      BY <1>4, <2>1
    <2>5. e \notin set => e \notin Some(k)
      BY <1>2, <2>1
    <2>6. /\ ToSet(Append(t, e)) = ToSet(t) \cup {e}
          /\ IsInjective(t) /\ e \notin ToSet(t) => IsInjective(Append(t, e))
      BY <2>2, OneElementMore
    <2> HIDE DEF t, e, Some
    <2>7. Fine(m)
      <3>1. CASE e \in set
        BY <2>2, <2>3, <2>4, <3>1
      <3>2. CASE e \notin set
        BY <2>2, <2>3, <2>4, <2>5, <2>6, <3>2
      <3> QED  BY <3>1, <3>2
    <2> HIDE DEF Fine
    <2> QED  BY <2>1, <2>7 DEF m
  <1> HIDE DEF S
  <1>8. 0..n \subseteq S
    BY <1>1, <1>6, <1>7, UpTo
  <1>9. n \in S
    BY <1>1, <1>8
  <1> QED  BY <1>4, <1>5, <1>9 DEF S

\* A piece is found where it is first.
LEMMA FirstPiece ==
  ASSUME NEW E, NEW t \in Seq(E), NEW x, NEW k \in 1..Len(t), t[k] = x, \A j \in 1..k - 1 : t[j] # x
  PROVE  Position(t, <<x>>) = k
  <1> DEFINE part == <<x>>
             n == Len(t)
  <1>1. Len(part) = 1 /\ part[1] = x /\ n \in Nat /\ k \in 1..n /\ \A i \in 1..n : t[i] \in E
    OBVIOUS
  <1>2. ASSUME NEW j \in 1..n
        PROVE  Len(SubSeq(t, j, j + 1 - 1)) = 1 /\ SubSeq(t, j, j + 1 - 1)[1] = t[j]
               /\ SubSeq(t, j, j + 1 - 1) \in Seq(E)
    OBVIOUS
  <1>3. x \in E
    BY <1>1
  <1> HIDE DEF n
  <1>4. SubSeq(t, k, k + 1 - 1) = part
    <2> DEFINE w == SubSeq(t, k, k + 1 - 1)
    <2>1. w \in Seq(E) /\ Len(w) = 1 /\ w[1] = x
      BY <1>1, <1>2
    <2>2. part \in Seq(E) /\ \A i \in 1..1 : i = 1
      BY <1>3
    <2> HIDE DEF w, part
    <2> QED  BY <1>1, <2>1, <2>2, SeqEqual DEF w
  <1>5. \A j \in 1..k - 1 : SubSeq(t, j, j + 1 - 1) # part
    <2> SUFFICES ASSUME NEW j \in 1..k - 1 PROVE SubSeq(t, j, j + 1 - 1)[1] # part[1]
      OBVIOUS
    <2>1. j \in 1..n
      BY <1>1
    <2> QED  BY <1>1, <1>2, <2>1
  <1> HIDE DEF part
  <1>6. k \in Nat /\ k >= 1 /\ k + Len(part) =< Len(t) + 1 /\ Len(t) \in Nat /\ Len(part) \in Nat
    BY <1>1 DEF n
  <1>7. SubSeq(t, k, k + Len(part) - 1) = part /\ \A j \in 1..k - 1 : SubSeq(t, j, j + Len(part) - 1) # part
    BY <1>1, <1>4, <1>5
  <1>8. Position(t, part) = k
    BY <1>6, <1>7, FoundFirst
  <1> QED  BY <1>8 DEF part

\* Where there is no arrow, none is found.
LEMMA NoArrowIsFound ==
  ASSUME NEW E, NEW t \in Seq(E), Mark("->") \notin ToSet(t)
  PROVE  Position(t, Arrow) = 0
  <1> DEFINE a == Mark("->")
             n == Len(t)
             hits == {k \in 1..n + 1 - Len(Arrow) : SubSeq(t, k, k + Len(Arrow) - 1) = Arrow}
  <1>1. Len(Arrow) = 3 /\ Arrow[2] = a
    <2>1. Arrow = <<Space, a, Space>>
      BY Zenon DEF Arrow
    <2> HIDE DEF a
    <2> QED  BY <2>1
  <1>2. n \in Nat /\ \A i \in 1..n : t[i] \in ToSet(t)
    BY DEF ToSet
  <1>3. \A i \in 1..n : t[i] \in E
    OBVIOUS
  <1> HIDE DEF n, a
  <1>4. ASSUME NEW k \in hits PROVE FALSE
    <2>1. k \in 1..n + 1 - 3 /\ SubSeq(t, k, k + 3 - 1) = Arrow
      BY <1>1
    <2>2. k \in Int /\ k + 3 - 1 \in Int /\ k <= k + 3 - 1 /\ k + 1 \in 1..n
          /\ (\A i \in k..k + 3 - 1 : i \in 1..n) /\ 2 \in 1..3 /\ k + 3 - 1 - k + 1 = 3 /\ k + 2 - 1 = k + 1
      BY <1>2, <2>1
    <2>3. \A i \in k..k + 3 - 1 : t[i] \in E
      BY <1>3, <2>2
    <2>4. \A i \in 1..3 : SubSeq(t, k, k + 3 - 1)[i] = t[k + i - 1]
      BY <2>2, <2>3, SubSeqProperties
    <2>5. Arrow[2] = t[k + 1]
      BY <2>1, <2>2, <2>4
    <2> QED  BY <1>1, <1>2, <2>2, <2>5 DEF a
  <1>5. Position(t, Arrow) = IF hits = {} THEN 0 ELSE Min(hits)
    BY Zenon DEF Position, n
  <1> QED  BY <1>4, <1>5

\* The columns of a line end with the clock, and there is no colon before it unless
\* an owner has one.
LEMMA TheClockIsLast ==
  ASSUME NEW f, IsFile(f), NEW ls, Mark(":") \notin ToSet(f.owner) \cup ToSet(f.group)
  PROVE  \E x \in Seq(ColumnPieces(f) \ {Mark(":")}) :
           InColumns(Columns(f, ls)) = x \o Append(Clock(f.time), Space)
  <1> DEFINE colon == Mark(":")
             G == ColumnPieces(f)
             H == G \ {colon}
             D == Seq(H \ {Space})
             c == Columns(f, ls)
             n == Len(c)
             off == IF ls.nlink THEN 1 ELSE 0
             more == IF IsDevice(f.type) THEN 2 ELSE IF f.type = "-" \/ ls.sizes THEN 1 ELSE 0
             mode == ModeStr(ModeString(f.type, f.perms))
             date == Date(f.time \div (Hour * Hour))
             seqs == [k \in 1..n |-> Append(c[k], Space)]
  <1>1. /\ Space \in G /\ Comma \in G /\ mode \in G
        /\ ToSet(f.owner) \subseteq G /\ ToSet(f.group) \subseteq G
        /\ \A x \in Int : Num(x) \in G /\ Date(x) \in G
    BY Zenon DEF ColumnPieces
  <1>2. /\ Space # colon /\ Comma # colon /\ mode # colon /\ \A x : Num(x) # colon /\ Date(x) # colon
    <2>1. \A x, y : Num(x) # Mark(y) /\ Date(x) # Mark(y) /\ ModeStr(x) # Mark(y) /\ Mark(y) # Space
      BY PiecesOfColumns DEF Num, Date, ModeStr, Mark
    <2>2. Comma # colon
      <3>1. Comma[2] = "," /\ colon[2] = ":" /\ "," # ":"
        BY Zenon DEF Comma, Mark
      <3> QED  BY <3>1, Zenon
    <2> QED  BY <2>1, <2>2, Zenon
  <1>3. f.owner \in Seq(ToSet(f.owner) \ {Space}) /\ f.group \in Seq(ToSet(f.group) \ {Space})
    BY DEF IsFile, IsColumn
  <1>4. f.nlink \in Int /\ f.size \in Int /\ f.major \in Int /\ f.minor \in Int
        /\ f.time \div (Hour * Hour) \in Int
    <2>1. f.nlink \in Int /\ f.size \in Int /\ f.major \in Int /\ f.minor \in Int /\ f.time \in Int
      BY DEF IsFile
    <2> QED  BY <2>1, DateAndClock
  <1>5. /\ c \in Seq(ColumnTexts(f)) /\ n = off + more + 5
        /\ c[1] = <<mode>>
        /\ ls.nlink => c[2] = <<Num(f.nlink)>>
        /\ c[off + 2] = f.owner /\ c[off + 3] = f.group
        /\ more = 2 => c[off + 4] = <<Num(f.major), Comma>> /\ c[off + 5] = <<Num(f.minor)>>
        /\ more = 1 => c[off + 4] = <<Num(f.size)>>
        /\ c[off + more + 4] = <<date>>
        /\ c[off + more + 5] = Clock(f.time)
    BY ColumnsOfAFile
  <1>6. off \in 0..1 /\ more \in 0..2 /\ (off = 1 => ls.nlink)
    OBVIOUS
  <1>7. Seq(G \ {Space}) \subseteq Seq(G)
    OBVIOUS
  <1>8. c \in Seq(Seq(G \ {Space})) /\ seqs \in Seq(Seq(G)) /\ Len(seqs) = n /\ n \in Nat
        /\ \A k \in 1..n : seqs[k] = Append(c[k], Space)
    <2> DEFINE A == Seq(G \ {Space})
    <2>1. ColumnTexts(f) \subseteq A
      BY ColumnsAreTexts
    <2>2. \A S : S \subseteq A /\ c \in Seq(S) => c \in Seq(A)
      OBVIOUS
    <2> HIDE DEF A, c
    <2>3. c \in Seq(A)
      BY <1>5, <2>1, <2>2
    <2> DEFINE B == Seq(G)
    <2>4. \A t \in A : Append(t, Space) \in B
      BY <1>1 DEF A
    <2>5. n \in Nat /\ \A k \in 1..n : c[k] \in A
      BY <2>3
    <2> HIDE DEF n, B
    <2>6. seqs \in Seq(B) /\ Len(seqs) = n /\ \A k \in 1..n : seqs[k] = Append(c[k], Space)
      <3> DEFINE After(k) == Append(c[k], Space)
                 w == [k \in 1..n |-> After(k)]
      <3>1. \A k \in 1..n : After(k) \in B
        BY <2>4, <2>5
      <3> HIDE DEF After
      <3>2. w \in Seq(B) /\ Len(w) = n /\ \A k \in 1..n : w[k] = After(k)
        BY <2>5, <3>1
      <3> QED  BY <3>2 DEF After
    <2> HIDE DEF seqs
    <2> QED  BY <2>3, <2>5, <2>6 DEF A, B
  <1>9. /\ \A e \in H \ {Space} : <<e>> \in D
        /\ \A e, g \in H \ {Space} : <<e, g>> \in D
        /\ f.owner \in D /\ f.group \in D
    <2>1. ToSet(f.owner) \ {Space} \subseteq H \ {Space} /\ ToSet(f.group) \ {Space} \subseteq H \ {Space}
      BY <1>1
    <2> HIDE DEF H
    <2>2. f.owner \in D /\ f.group \in D
      BY <1>3, <2>1
    <2> QED  BY <2>2
  <1>10. /\ mode \in H \ {Space} /\ date \in H \ {Space} /\ Comma \in H \ {Space}
         /\ \A x \in Int : Num(x) \in H \ {Space}
    BY <1>1, <1>2, <1>4, PiecesOfColumns
  <1> HIDE DEF c, n, off, more, mode, date, D, seqs
  <1>11. ASSUME NEW k \in 1..n - 1 PROVE c[k] \in D
    <2>3. n = off + more + 5
      BY <1>5
    <2>1. \/ k \in {1, off + 2, off + 3, off + more + 4} \/ (off = 1 /\ k = 2)
          \/ (more = 1 /\ k = off + 4) \/ (more = 2 /\ k \in {off + 4, off + 5})
      BY <1>6, <2>3
    <2>2. /\ <<mode>> \in D /\ <<Num(f.nlink)>> \in D /\ <<Num(f.size)>> \in D
          /\ <<Num(f.major), Comma>> \in D /\ <<Num(f.minor)>> \in D /\ <<date>> \in D
      BY <1>4, <1>9, <1>10
    <2> QED  BY <1>5, <1>6, <1>9, <2>1, <2>2
  <1>12. \A t \in D : Append(t, Space) \in Seq(H)
    BY <1>1, <1>2 DEF D
  <1>13. PICK a \in [0..n -> Seq(G)] :
           /\ a[0] = <<>>
           /\ \A k \in 1..n : a[k] = a[k - 1] \o seqs[k]
           /\ FlattenSeq(seqs) = a[n]
    BY <1>8, Flattens
  <1> DEFINE S == {k \in 0..n - 1 : a[k] \in Seq(H)}
  <1>14. n >= 5 /\ n \in Nat /\ n - 1 \in Nat
    BY <1>5, <1>6
  <1>15. 0 \in S
    BY <1>13, <1>14
  <1>16. ASSUME NEW k \in 0..(n - 1) - 1, k \in S PROVE k + 1 \in S
    <2>1. k + 1 \in 1..n /\ k + 1 \in 1..n - 1 /\ k + 1 \in 0..n - 1 /\ (k + 1) - 1 = k
      BY <1>14
    <2>2. a[k + 1] = a[k] \o seqs[k + 1] /\ seqs[k + 1] \in Seq(H)
      BY <1>8, <1>11, <1>12, <1>13, <2>1
    <2>3. a[k] \in Seq(H)
      BY <1>16
    <2>4. \A s, t \in Seq(H) : s \o t \in Seq(H)
      OBVIOUS
    <2> QED  BY <2>1, <2>2, <2>3, <2>4
  <1> HIDE DEF S
  <1>17. n - 1 \in S
    <2>1. 0..n - 1 \subseteq S
      BY <1>14, <1>15, <1>16, UpTo
    <2> QED  BY <1>14, <2>1
  <1>18. a[n] = a[n - 1] \o Append(Clock(f.time), Space) /\ a[n - 1] \in Seq(H)
    <2>1. n \in 1..n
      BY <1>14
    <2>2. a[n] = a[n - 1] \o seqs[n] /\ seqs[n] = Append(c[n], Space)
      BY <1>8, <1>13, <2>1
    <2>3. c[n] = Clock(f.time)
      BY <1>5
    <2> QED  BY <1>17, <2>2, <2>3 DEF S
  <1>19. InColumns(c) = a[n]
    BY <1>13 DEF InColumns, seqs, n
  <1> QED  BY <1>18, <1>19 DEF c

\* The name of a line is read back, whatever colons and blanks it has.
LEMMA NamesAreRead ==
  ASSUME NEW f, IsFile(f), NEW ls, Mark(":") \notin ToSet(f.owner) \cup ToSet(f.group),
         NEW name, name \in Seq(ToSet(name)), name # <<>>, Mark("->") \notin ToSet(name)
  PROVE  extract_filename(LsLine(f, name, ls)) = name
  <1> DEFINE E == LinePieces(f, name)
             colon == Mark(":")
             H == ColumnPieces(f) \ {colon}
             cols == InColumns(Columns(f, ls))
             link == LinkPart(f)
             rest == name \o link
             line == LsLine(f, name, ls)
             y == Append(Clock(f.time), Space)
             one == <<colon>>
             at == Position(line, one)
             arrow == Position(rest, Arrow)
  <1>1. /\ cols \in Seq(E) /\ name \in Seq(E) /\ f.target \in Seq(E) /\ link \in Seq(E)
        /\ line = cols \o rest
    BY PartsOfALine
  <1>2. PICK x \in Seq(H) : cols = x \o y
    BY TheClockIsLast
  <1>3. /\ H \subseteq E /\ Space \in E /\ Mark("->") \in E /\ colon \in E
        /\ \A k \in Int : Num(k) \in E
    BY Zenon DEF LinePieces, ColumnPieces
  <1>4. (\A k : Num(k) # colon) /\ Space # colon
    <2>1. \A k, z : Num(k) # Mark(z) /\ Space # Mark(z)
      BY PiecesOfColumns DEF Num, Mark
    <2> QED  BY <2>1, Zenon
  <1> DEFINE h == Num((f.time \div Hour) % Hour)
             m == Num(f.time % Hour)
  <1>5. y \in Seq(E) /\ Len(y) = 4 /\ y[1] = h /\ y[2] = colon
    <2> DEFINE clock == <<h, colon, m>>
    <2>1. Clock(f.time) = clock
      BY Zenon DEF Clock
    <2>2. h \in E /\ m \in E
      <3>1. f.time \in Int
        BY DEF IsFile
      <3>2. (f.time \div Hour) % Hour \in Int /\ f.time % Hour \in Int
        BY <3>1, DateAndClock
      <3> QED  BY <1>3, <3>2
    <2> HIDE DEF h, m, E, colon
    <2>3. clock \in Seq(E) /\ Len(clock) = 3 /\ clock[1] = h /\ clock[2] = colon
      BY <1>3, <2>2
    <2> HIDE DEF clock
    <2>4. Append(clock, Space) \in Seq(E) /\ Len(Append(clock, Space)) = 4
          /\ Append(clock, Space)[1] = h /\ Append(clock, Space)[2] = colon
      <3>1. \A t \in Seq(E) : /\ Append(t, Space) \in Seq(E) /\ Len(Append(t, Space)) = Len(t) + 1
                              /\ \A i \in 1..Len(t) : Append(t, Space)[i] = t[i]
        BY <1>3
      <3>2. 1 \in 1..3 /\ 2 \in 1..3 /\ 3 + 1 = 4
        OBVIOUS
      <3> QED  BY <2>3, <3>1, <3>2
    <2> QED  BY <2>1, <2>4
  <1>6. h # colon
    BY <1>4
  <1> HIDE DEF E, H, colon, cols, link, line, y, h, m
  <1>7. rest \in Seq(E) /\ IsJoin(line, cols, rest, E)
    <2>1. IsJoin(rest, name, link, E)
      BY <1>1, Joined
    <2>2. rest \in Seq(E)
      BY <2>1 DEF IsJoin
    <2> HIDE DEF rest
    <2>3. IsJoin(line, cols, rest, E)
      BY <1>1, <2>2, Joined
    <2> QED  BY <2>2, <2>3
  <1>8. IsJoin(cols, x, y, E) /\ Len(cols) = Len(x) + 4 /\ Len(x) \in Nat
        /\ \A i \in 1..Len(x) : x[i] # colon
    <2>1. x \in Seq(E)
      <3>1. \A S, z : S \subseteq E /\ z \in Seq(S) => z \in Seq(E)
        OBVIOUS
      <3> QED  BY <1>3, <3>1
    <2>2. IsJoin(x \o y, x, y, E)
      BY <1>5, <2>1, Joined
    <2>3. IsJoin(cols, x, y, E)
      BY <1>2, <2>2
    <2>4. \A i \in 1..Len(x) : x[i] \in H
      OBVIOUS
    <2> QED  BY <1>5, <2>3, <2>4 DEF IsJoin, H
  <1> DEFINE n == Len(x)
             N == Len(line)
  <1>9. /\ line \in Seq(E) /\ n \in Nat /\ N \in Nat /\ n + 4 =< N
        /\ (\A i \in 1..n : line[i] # colon) /\ line[n + 1] = h /\ line[n + 2] = colon
    <2>1. /\ line \in Seq(E) /\ N \in Nat /\ N = Len(cols) + Len(rest) /\ Len(rest) \in Nat
          /\ \A i \in 1..Len(cols) : line[i] = cols[i]
      BY <1>1, <1>7 DEF IsJoin
    <2>2. /\ \A i \in 1..n : cols[i] = x[i]
          /\ \A j \in 1..4 : cols[n + j] = y[j]
      BY <1>5, <1>8 DEF IsJoin
    <2> HIDE DEF n, N
    <2>3. n \in Nat /\ Len(cols) = n + 4
      BY <1>8 DEF n
    <2>4. (\A i \in 1..n : i \in 1..Len(cols)) /\ n + 1 \in 1..Len(cols) /\ n + 2 \in 1..Len(cols)
          /\ 1 \in 1..4 /\ 2 \in 1..4 /\ n + 4 =< N
      BY <2>1, <2>3
    <2>5. line[n + 1] = y[1] /\ line[n + 2] = y[2]
      BY <2>1, <2>2, <2>4
    <2>6. \A i \in 1..n : line[i] = x[i] /\ x[i] # colon
      BY <1>8, <2>1, <2>2, <2>4 DEF n
    <2> QED  BY <1>5, <2>1, <2>3, <2>4, <2>5, <2>6
  <1>10. at = n + 2
    <2> HIDE DEF n
    <2>1. n + 2 \in 1..Len(line) /\ \A j \in 1..(n + 2) - 1 : j \in 1..n \/ j = n + 1
      BY <1>9 DEF N
    <2>2. \A j \in 1..(n + 2) - 1 : line[j] # colon
      BY <1>6, <1>9, <2>1
    <2> QED  BY <1>9, <2>1, <2>2, FirstPiece
  <1>11. SubSeq(line, at + 3, N) = rest
    <2>1. SubSeq(cols \o rest, Len(cols) + 1, Len(cols \o rest)) = rest
      BY <1>1, <1>7, Cuts
    <2>2. Len(cols) + 1 = at + 3
      BY <1>8, <1>10
    <2> QED  BY <1>1, <2>1, <2>2
  <1>12. IF arrow = 0 THEN rest = name ELSE SubSeq(rest, 1, arrow - 1) = name
    <2>1. CASE f.type = "l"
      <3>1. rest = name \o (Arrow \o f.target)
        BY <2>1 DEF link, LinkPart
      <3>2. arrow = Len(name) + 1 /\ SubSeq(rest, 1, Len(name)) = name
        BY <1>1, <1>3, <3>1, ArrowsAreFound
      <3>3. Len(name) \in Nat
        BY <1>1
      <3>4. arrow # 0 /\ arrow - 1 = Len(name)
        <4> HIDE DEF arrow
        <4> QED  BY <3>2, <3>3
      <3> QED  BY <3>2, <3>4
    <2>2. CASE f.type # "l"
      <3>1. rest = name
        BY <1>1, <2>2 DEF link, LinkPart
      <3>2. Position(name, Arrow) = 0
        BY <1>1, NoArrowIsFound
      <3> QED  BY <3>1, <3>2
    <2> QED  BY <2>1, <2>2
  <1> HIDE DEF rest, arrow, n, N
  <1>13. extract_filename(line)
           = LET r == SubSeq(line, at + 3, N)
                 a == Position(r, Arrow)
                 found == IF a = 0 THEN r ELSE SubSeq(r, 1, a - 1)
             IN IF at = 0 \/ found = <<>> THEN NoText ELSE found
    BY Zenon DEF extract_filename, N, one, colon
  <1>14. at # 0
    <2> HIDE DEF at
    <2> QED  BY <1>9, <1>10
  <1> HIDE DEF at
  <1>15. extract_filename(line)
           = LET found == IF arrow = 0 THEN rest ELSE SubSeq(rest, 1, arrow - 1)
             IN IF found = <<>> THEN NoText ELSE found
    BY <1>11, <1>13, <1>14 DEF arrow
  <1>16. (IF arrow = 0 THEN rest ELSE SubSeq(rest, 1, arrow - 1)) = name
    BY <1>12
  <1> QED  BY <1>15, <1>16, Zenon DEF line

\* A line begins with its file's mode string, as the line of a file has to.
LEMMA ModesComeFirst ==
  ASSUME NEW f, IsFile(f), NEW ls, NEW name, name \in Seq(ToSet(name))
  PROVE  is_valid_ls_output(LsLine(f, name, ls))
  <1> DEFINE E == LinePieces(f, name)
             s == ModeString(f.type, f.perms)
             mode == ModeStr(s)
             c == Columns(f, ls)
             n == Len(c)
             cols == InColumns(c)
             rest == name \o LinkPart(f)
             line == LsLine(f, name, ls)
             seqs == [k \in 1..n |-> Append(c[k], Space)]
  <1>1. /\ c \in Seq(Seq(ColumnPieces(f) \ {Space})) /\ cols \in Seq(E) /\ name \in Seq(E)
        /\ LinkPart(f) \in Seq(E) /\ line = cols \o rest
    BY PartsOfALine
  <1>2. c[1] = <<mode>> /\ n >= 1
    <2>1. c[1] = <<mode>> /\ n = Links(ls) + Sizes(f, ls) + 5
      BY ColumnsAreTexts, ColumnsOfAFile DEF Links, Sizes
    <2>2. Links(ls) \in Nat /\ Sizes(f, ls) \in Nat
      BY DEF Links, Sizes
    <2> HIDE DEF c, n
    <2> QED  BY <2>1, <2>2
  <1>3. Space \in E /\ ColumnPieces(f) \subseteq E
    BY Zenon DEF LinePieces, ColumnPieces
  <1> HIDE DEF E, c, cols, line, mode, s
  <1>4. seqs \in Seq(Seq(E)) /\ Len(seqs) = n /\ n \in Nat
        /\ \A k \in 1..n : seqs[k] = Append(c[k], Space)
    <2> DEFINE A == Seq(ColumnPieces(f) \ {Space})
               B == Seq(E)
               After(k) == Append(c[k], Space)
               w == [k \in 1..n |-> After(k)]
    <2>1. \A t \in A : Append(t, Space) \in B
      BY <1>3
    <2>2. n \in Nat /\ \A k \in 1..n : c[k] \in A
      BY <1>1
    <2> HIDE DEF A, B, n
    <2>3. \A k \in 1..n : After(k) \in B
      BY <2>1, <2>2
    <2> HIDE DEF After
    <2>4. w \in Seq(B) /\ Len(w) = n /\ \A k \in 1..n : w[k] = After(k)
      BY <2>2, <2>3
    <2> QED  BY <2>2, <2>4 DEF After, B
  <1> HIDE DEF seqs, n
  <1>5. PICK a \in [0..n -> Seq(E)] :
           /\ a[0] = <<>>
           /\ \A k \in 1..n : a[k] = a[k - 1] \o seqs[k]
           /\ FlattenSeq(seqs) = a[n]
    BY <1>4, Flattens
  <1> DEFINE S == {k \in 0..n : k = 0 \/ (Len(a[k]) >= 1 /\ a[k][1] = mode)}
  <1>6. 0 \in S
    BY <1>4
  <1>7. ASSUME NEW k \in 0..n - 1, k \in S PROVE k + 1 \in S
    <2>1. k + 1 \in 1..n /\ k + 1 \in 0..n /\ k \in 0..n /\ (k + 1) - 1 = k
      BY <1>4
    <2> DEFINE t == seqs[k + 1]
               w == a[k] \o t
    <2>2. a[k + 1] = w /\ a[k] \in Seq(E) /\ t \in Seq(E)
      <3>1. a[k + 1] = a[k] \o seqs[k + 1]
        <4>1. \A i \in 1..n : a[i] = a[i - 1] \o seqs[i]
          BY <1>5
        <4>2. a[k + 1] = a[(k + 1) - 1] \o seqs[k + 1]
          BY <2>1, <4>1
        <4> QED  BY <2>1, <4>2
      <3>2. seqs[k + 1] \in Seq(E)
        BY <1>4, <2>1
      <3> QED  BY <2>1, <3>1, <3>2
    <2> HIDE DEF t
    <2>3. IsJoin(w, a[k], t, E)
      BY <2>2, Joined
    <2> HIDE DEF w
    <2>4. Len(w) >= 1 /\ w[1] = mode
      <3>1. CASE k = 0
        <4>1. t = Append(<<mode>>, Space)
          <5>1. k + 1 = 1 /\ 1 \in 1..n
            BY <2>1, <3>1
          <5>2. seqs[1] = Append(c[1], Space)
            BY <1>4, <5>1
          <5> QED  BY <1>2, <5>1, <5>2 DEF t
        <4>2. Len(t) = 2 /\ t[1] = mode
          BY <4>1
        <4>3. a[k] = <<>> /\ 1 \in 1..2 /\ 0 + 1 = 1
          BY <1>5, <3>1
        <4>4. Len(a[k]) = 0
          BY <4>3
        <4>5. /\ Len(w) = Len(a[k]) + Len(t)
              /\ \A j \in 1..Len(t) : w[Len(a[k]) + j] = t[j]
          BY <2>3 DEF IsJoin
        <4>6. w[0 + 1] = t[1] /\ Len(w) = 0 + 2
          BY <4>2, <4>3, <4>4, <4>5
        <4> QED  BY <4>2, <4>6
      <3>2. CASE k # 0
        <4>1. Len(a[k]) >= 1 /\ a[k][1] = mode
          BY <1>7, <3>2
        <4>2. /\ Len(a[k]) \in Nat /\ Len(t) \in Nat /\ Len(w) = Len(a[k]) + Len(t)
              /\ \A j \in 1..Len(a[k]) : w[j] = a[k][j]
          BY <2>3 DEF IsJoin
        <4>3. 1 \in 1..Len(a[k])
          BY <4>1, <4>2
        <4> QED  BY <4>1, <4>2, <4>3
      <3> QED  BY <3>1, <3>2
    <2> QED  BY <2>1, <2>2, <2>4
  <1> HIDE DEF S
  <1>8. n \in S /\ n # 0
    <2>1. 0..n \subseteq S
      BY <1>4, <1>6, <1>7, UpTo
    <2> QED  BY <1>2, <1>4, <2>1
  <1>9. Len(cols) >= 1 /\ cols[1] = mode
    <2>1. cols = a[n]
      BY <1>5 DEF InColumns, cols, seqs, n
    <2> QED  BY <1>8, <2>1 DEF S
  <1>10. line[1] = mode /\ Len(line) \in Nat /\ Len(line) >= 1
    <2>1. IsJoin(rest, name, LinkPart(f), E)
      BY <1>1, Joined
    <2>2. rest \in Seq(E)
      BY <2>1 DEF IsJoin
    <2> HIDE DEF rest
    <2>3. IsJoin(line, cols, rest, E)
      BY <1>1, <2>2, Joined
    <2>4. /\ Len(cols) \in Nat /\ Len(rest) \in Nat /\ Len(line) = Len(cols) + Len(rest)
          /\ \A i \in 1..Len(cols) : line[i] = cols[i]
      BY <2>3 DEF IsJoin
    <2>5. 1 \in 1..Len(cols)
      BY <1>9, <2>4
    <2> QED  BY <1>9, <2>4, <2>5
  <1>11. line # <<>>
    <2>1. Len(<<>>) = 0
      OBVIOUS
    <2> QED  BY <1>10, <2>1
  <1>12. mode[1] = "mode" /\ mode[2] = s
    BY DEF mode, ModeStr
  <1>13. s[2] \in {"r", "-"}
    <2>1. f.type \in Types /\ f.perms \in SUBSET Perms
      BY DEF IsFile, Perms
    <2> QED  BY <2>1, ModesAreRead DEF s
  <1> QED  BY <1>10, <1>11, <1>12, <1>13 DEF line, is_valid_ls_output

\* Two pieces are found where they are first side by side.
LEMMA FirstPair ==
  ASSUME NEW E, NEW t \in Seq(E), NEW x, NEW y, NEW k \in 1..Len(t) - 1, t[k] = x, t[k + 1] = y,
         \A j \in 1..k - 1 : ~(t[j] = x /\ t[j + 1] = y)
  PROVE  Position(t, <<x, y>>) = k
  <1> DEFINE part == <<x, y>>
             n == Len(t)
             At(j) == SubSeq(t, j, j + 2 - 1)
  <1>1. Len(part) = 2 /\ part[1] = x /\ part[2] = y /\ n \in Nat /\ k \in 1..n - 1 /\ \A i \in 1..n : t[i] \in E
    OBVIOUS
  <1> HIDE DEF n
  <1>2. ASSUME NEW j \in 1..n - 1
        PROVE  At(j) \in Seq(E) /\ Len(At(j)) = 2 /\ At(j)[1] = t[j] /\ At(j)[2] = t[j + 1]
    <2>1. j \in Int /\ j + 2 - 1 \in Int /\ j <= j + 2 - 1 /\ j + 2 - 1 - j + 1 = 2
          /\ (\A i \in j..j + 2 - 1 : i \in 1..n) /\ 1 \in 1..2 /\ 2 \in 1..2
          /\ j + 1 - 1 = j /\ j + 2 - 1 = j + 1
      BY <1>1
    <2>2. \A i \in j..j + 2 - 1 : t[i] \in E
      BY <1>1, <2>1
    <2>3. At(j) \in Seq(E) /\ Len(At(j)) = 2 /\ \A i \in 1..2 : At(j)[i] = t[j + i - 1]
      BY <2>1, <2>2, SubSeqProperties
    <2> HIDE DEF At
    <2>4. At(j)[1] = t[j + 1 - 1] /\ At(j)[2] = t[j + 2 - 1]
      BY <2>1, <2>3
    <2> QED  BY <2>1, <2>3, <2>4
  <1> HIDE DEF At
  <1>3. At(k) = part
    <2>1. x \in E /\ y \in E
      BY <1>1
    <2>2. part \in Seq(E) /\ \A i \in 1..2 : i = 1 \/ i = 2
      BY <2>1
    <2>3. At(k) \in Seq(E) /\ Len(At(k)) = 2 /\ At(k)[1] = x /\ At(k)[2] = y
      BY <1>1, <1>2
    <2> HIDE DEF part
    <2> QED  BY <1>1, <2>2, <2>3, SeqEqual
  <1>4. \A j \in 1..k - 1 : At(j) # part
    <2> SUFFICES ASSUME NEW j \in 1..k - 1, At(j) = part PROVE FALSE
      OBVIOUS
    <2>1. j \in 1..n - 1
      BY <1>1
    <2>2. t[j] = x /\ t[j + 1] = y
      <3> HIDE DEF part
      <3> QED  BY <1>1, <1>2, <2>1
    <2> QED  BY <2>2
  <1> HIDE DEF part
  <1>5. k \in Nat /\ k >= 1 /\ k + Len(part) =< Len(t) + 1 /\ Len(t) \in Nat /\ Len(part) \in Nat
    BY <1>1 DEF n
  <1>6. SubSeq(t, k, k + Len(part) - 1) = part /\ \A j \in 1..k - 1 : SubSeq(t, j, j + Len(part) - 1) # part
    BY <1>1, <1>3, <1>4 DEF At
  <1>7. Position(t, part) = k
    BY <1>5, <1>6, FoundFirst
  <1> QED  BY <1>7 DEF part
=============================================================================
