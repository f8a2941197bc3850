----------------------------- MODULE MountProofs -----------------------------
(***************************************************************************)
(* Proofs about adbfs from its start to its end: what the process that was *)
(* started says of the mount, and with what the mount is served; what      *)
(* becomes of the options; and, of the mount as it is served, the types,   *)
(* the answers of getattr and readlink, and the directory streams.         *)
(*                                                                         *)
(* main and mount go through their stages in the order of Startup, and     *)
(* what a stage has made is there until main returns (MadeSoFar).  What    *)
(* DeviceOpsProofs says of one answer is kept by every other step, and     *)
(* what a reader has got is the listing taken at opendir, up to its offset *)
(* (StreamInv).                                                            *)
(***************************************************************************)
EXTENDS DeviceOpsProofs

\* Position tells where the only occurrence of an element is.
LEMMA PositionOfOne ==
  ASSUME NEW S, NEW t \in Seq(S), NEW x \in S, NEW k \in 1..Len(t),
         \A j \in 1..Len(t) : t[j] = x <=> j = k
  PROVE  Position(t, <<x>>) = k
  <1>1. Len(<<x>>) = 1 /\ Len(t) \in Nat
    OBVIOUS
  <1>2. ASSUME NEW j \in 1..Len(t)
        PROVE  SubSeq(t, j, j) = <<x>> <=> j = k
    <2>1. SubSeq(t, j, j) = <<t[j]>>
      <3>1. /\ SubSeq(t, j, j) \in Seq(S) /\ Len(SubSeq(t, j, j)) = 1
            /\ SubSeq(t, j, j)[1] = t[j]
        OBVIOUS
      <3>2. <<t[j]>> \in Seq(S) /\ Len(<<t[j]>>) = 1 /\ <<t[j]>>[1] = t[j]
        OBVIOUS
      <3>3. \A i \in 1..1 : i = 1
        OBVIOUS
      <3> QED  BY <3>1, <3>2, <3>3, SeqEqual
    <2> QED  BY <2>1
  <1> DEFINE hits == {j \in 1..Len(t) + 1 - Len(<<x>>) : SubSeq(t, j, j + Len(<<x>>) - 1) = <<x>>}
  <1>3. hits = {j \in 1..Len(t) : SubSeq(t, j, j) = <<x>>}
    BY <1>1
  <1>4. hits = {k}
    BY <1>2, <1>3
  <1>5. Min({k}) = k
    BY DEF Min
  <1> HIDE DEF hits
  <1>6. (IF hits = {} THEN 0 ELSE Min(hits)) = k
    BY <1>4, <1>5
  <1> QED  BY <1>6 DEF Position, hits

\* The stages, and what comes after each.
LEMMA Stages ==
  /\ Startup[Position(Startup, <<"split">>) + 1] = "adbfs"
  /\ Startup[Position(Startup, <<"adbfs">>) + 1] = "session"
  /\ Startup[Position(Startup, <<"session">>) + 1] = "on_mounted"
  /\ Startup[Position(Startup, <<"on_mounted">>) + 1] = "spawn"
  /\ Startup[Position(Startup, <<"spawn">>) + 1] = "join"
  <1> DEFINE All == {"split", "adbfs", "session", "on_mounted", "spawn", "join"}
  <1>1. Startup \in Seq(All)
    BY DEF Startup
  <1>2. Len(Startup) = 6
    BY DEF Startup
  <1>3. /\ Startup[1] = "split" /\ Startup[2] = "adbfs" /\ Startup[3] = "session"
        /\ Startup[4] = "on_mounted" /\ Startup[5] = "spawn" /\ Startup[6] = "join"
    BY DEF Startup
  <1> HIDE DEF Startup, All
  <1>4. ASSUME NEW k \in 1..5
        PROVE  Startup[Position(Startup, <<Startup[k]>>) + 1] = Startup[k + 1]
    <2>1. \A i, j \in 1..6 : Startup[i] = Startup[j] => i = j
      <3>1. \A j \in 1..6 : j = 1 \/ j = 2 \/ j = 3 \/ j = 4 \/ j = 5 \/ j = 6
        OBVIOUS
      <3> QED  BY <1>3, <3>1
    <2>2. Position(Startup, <<Startup[k]>>) = k
      <3>1. k \in 1..Len(Startup) /\ Startup[k] \in All
        BY <1>1, <1>2
      <3>2. \A j \in 1..Len(Startup) : Startup[j] = Startup[k] <=> j = k
        BY <1>2, <2>1
      <3> QED  BY <1>1, <3>1, <3>2, PositionOfOne
    <2> QED  BY <2>2
  <1>5. 1 \in 1..5 /\ 2 \in 1..5 /\ 3 \in 1..5 /\ 4 \in 1..5 /\ 5 \in 1..5
    OBVIOUS
  <1> QED  BY <1>3, <1>4, <1>5

------------------------------------------------------------------------------
(***************************************************************************)
(* Options.                                                                *)
(***************************************************************************)
Keys == Timeouts \cup Ids \cup {"umask"} \cup Flags

Taken(fs, mount, invalid) == [fs |-> fs, mount |-> mount, invalid |-> invalid]

Begun == Taken(Default, <<>>, FALSE)

\* split takes the options one by one.
LEMMA OptionsRead ==
  ASSUME NEW T, NEW E, Begun \in T, NEW seq \in Seq(E),
         \A t \in T, e \in E : OptionRead(t, e) \in T
  PROVE  \E a : /\ a[0] = Begun
                /\ \A k \in 1..Len(seq) : a[k] = OptionRead(a[k - 1], seq[k])
                /\ split(seq) = a[Len(seq)]
  <1> DEFINE Folded(iter) ==
               [s \in SUBSET DOMAIN seq |->
                  IF s = {} THEN Begun ELSE OptionRead(iter[s \ {Max(s)}], seq[Max(s)])]
             c == CHOOSE iter : iter = Folded(iter)
             step == [p \in T \X E |-> OptionRead(p[1], p[2])]
             n == Len(seq)
  <1>1. split(seq) = c[DOMAIN seq]
    BY DEF split, Begun, Taken, FoldLeft, MapThenFoldSet
  <1>2. DOMAIN seq = 1..n /\ n \in Nat
    OBVIOUS
  <1>3. \E iter : iter = Folded(iter)
    <2>1. /\ step \in [T \X E -> T]
          /\ \A t \in T, e \in E : step[<<t, e>>] = OptionRead(t, e)
      OBVIOUS
    <2> HIDE DEF step
    <2>2. PICK iter \in [SUBSET (1..n) -> T] : Recursion(iter, n, step, Begun, seq)
      BY <2>1, FoldsExist
    <2>3. ASSUME NEW s \in SUBSET (1..n), s # {}
          PROVE  iter[s] = OptionRead(iter[s \ {Max(s)}], seq[Max(s)])
      <3>1. iter[s \ {Max(s)}] \in T /\ seq[Max(s)] \in E
        <4>1. Max(s) \in s
          BY <1>2, <2>3, GreatestIsThere
        <4>2. s \ {Max(s)} \in SUBSET (1..n) /\ Max(s) \in 1..n
          BY <4>1
        <4> HIDE DEF n
        <4> QED  BY <1>2, <4>2
      <3>2. iter[s] = step[<<iter[s \ {Max(s)}], seq[Max(s)]>>]
        BY <2>2, <2>3 DEF Recursion
      <3> QED  BY <2>1, <3>1, <3>2
    <2>4. iter[{}] = Begun
      BY <2>2 DEF Recursion
    <2>5. iter = [s \in SUBSET (1..n) |->
                    IF s = {} THEN Begun ELSE OptionRead(iter[s \ {Max(s)}], seq[Max(s)])]
      BY <2>3, <2>4
    <2> QED  BY <1>2, <2>5
  <1>4. c = Folded(c)
    BY <1>3
  <1>5. \A s \in SUBSET DOMAIN seq :
          c[s] = IF s = {} THEN Begun ELSE OptionRead(c[s \ {Max(s)}], seq[Max(s)])
    <2> HIDE DEF c
    <2> QED  BY <1>4
  <1> HIDE DEF c, step, Folded
  <1>6. ASSUME NEW k \in 1..n
        PROVE  c[1..k] = OptionRead(c[1..k - 1], seq[k])
    <2>1. k \in Nat /\ k > 0
      BY <1>2
    <2>2. Max(1..k) = k
      BY <2>1, GreatestOfAll
    <2>3. (1..k) \ {k} = 1..k - 1 /\ 1..k # {} /\ 1..k \in SUBSET DOMAIN seq
      <3> HIDE DEF n
      <3>1. k \in 1..k
        BY <2>1
      <3>2. 1..k \in SUBSET (1..n)
        BY <1>2
      <3>3. \A i : i \in (1..k) \ {k} <=> i \in 1..k - 1
        BY <2>1
      <3> QED  BY <1>2, <3>1, <3>2, <3>3
    <2>4. c[1..k] = OptionRead(c[(1..k) \ {Max(1..k)}], seq[Max(1..k)])
      BY <1>5, <2>3
    <2> QED  BY <2>2, <2>3, <2>4
  <1> DEFINE a == [k \in 0..n |-> c[1..k]]
  <1>7. a[0] = Begun
    <2>1. c[{}] = Begun
      BY <1>5
    <2> QED  BY <1>2, <2>1
  <1>8. \A k \in 1..n : a[k] = OptionRead(a[k - 1], seq[k])
    BY <1>6
  <1>9. split(seq) = a[n]
    BY <1>1, <1>2
  <1> HIDE DEF a
  <1> QED  BY <1>7, <1>8, <1>9

\* What an option of the filesystem sets its key to.
Value(o) ==
  CASE o[1] \in Flags -> TRUE
    [] o[1] \in Timeouts -> o[2]
    [] o[1] \in Ids -> <<o[2]>>
    [] OTHER -> o[2][2]

\* Times are numbers, and ids where they are given.
Sound(key, value) ==
  /\ key \in Timeouts => value[1] = "num" /\ value[2] >= 0
  /\ key \in Ids => value = Unset \/ IsNum(value)

\* The keys are told apart, and every one has a default.
LEMMA KeysAreKnown ==
  /\ Default \in [Keys -> {Default[k] : k \in Keys}]
  /\ \A k \in Keys : Sound(k, Default[k])
  /\ Flags \cap Timeouts = {} /\ Flags \cap Ids = {} /\ Timeouts \cap Ids = {}
  /\ "umask" \notin Timeouts \cup Ids \cup Flags
  <1>1. /\ Flags \cap Timeouts = {} /\ Flags \cap Ids = {} /\ Timeouts \cap Ids = {}
        /\ "umask" \notin Timeouts \cup Ids \cup Flags
    BY DEF Flags, Timeouts, Ids
  <1>2. Default \in [Keys -> {Default[k] : k \in Keys}]
    <2> DEFINE D(k) == CASE k \in Timeouts -> Num(IF k = "negative_timeout" THEN 0 ELSE 1)
                         [] k \in Flags -> FALSE
                         [] OTHER -> Unset
    <2>1. Default = [k \in Keys |-> D(k)]
      BY DEF Default, Keys
    <2> HIDE DEF D
    <2>2. DOMAIN Default = Keys /\ \A k \in Keys : Default[k] = D(k)
      BY <2>1
    <2>3. Default = [k \in Keys |-> Default[k]]
      BY <2>1, <2>2
    <2> QED  BY <2>2, <2>3
  <1>3. ASSUME NEW k \in Timeouts PROVE Default[k][1] = "num" /\ Default[k][2] >= 0
    <2>1. Default[k] = Num(IF k = "negative_timeout" THEN 0 ELSE 1)
      BY <1>1 DEF Default
    <2> QED  BY <2>1 DEF Num
  <1>4. ASSUME NEW k \in Ids PROVE Default[k] = Unset
    BY <1>1 DEF Default
  <1> QED  BY <1>1, <1>2, <1>3, <1>4 DEF Sound

\* What consume makes of an option.
LEMMA Consumed ==
  ASSUME NEW fs, DOMAIN fs = Keys, NEW o
  PROVE  LET r == consume(fs, o[1], o[2]) IN
         \/ r = None /\ ~IsFsOption(o)
         \/ r = <<"invalid">>
         \/ /\ r = <<"taken", [fs EXCEPT ![o[1]] = Value(o)]>>
            /\ IsFsOption(o) /\ o[1] \in Keys /\ Sound(o[1], Value(o))
  <1> DEFINE key == o[1]
             value == o[2]
             r == consume(fs, key, value)
             v == parse_value(key, value)
  <1>1. DOMAIN Default = Keys /\ Flags \subseteq Keys
    BY KeysAreKnown DEF Keys
  <1>2. CASE key \in Flags /\ value = NoText
    <2>1. r = <<"taken", [fs EXCEPT ![key] = TRUE]>>
      BY <1>2 DEF consume
    <2>2. Value(o) = TRUE /\ IsFsOption(o) /\ Sound(key, Value(o))
      BY <1>1, <1>2, KeysAreKnown DEF Value, IsFsOption, Sound
    <2> QED  BY <1>1, <1>2, <2>1, <2>2
  <1>3. CASE key \in Keys \ Flags /\ value # NoText
    <2>1. r = IF v = None THEN <<"invalid">> ELSE <<"taken", [fs EXCEPT ![key] = v[2]]>>
      BY <1>3 DEF consume
    <2>2. IsFsOption(o)
      BY <1>1, <1>3 DEF IsFsOption
    <2>3. CASE v = None
      BY <2>1, <2>3
    <2>4. CASE v # None
      <3>1. v[2] = Value(o) /\ Sound(key, Value(o))
        <4>1. CASE key \in Timeouts
          <5>1. v = seconds(value) /\ Value(o) = value /\ key \notin Ids
            BY <1>3, <4>1, KeysAreKnown DEF parse_value, Value
          <5>2. v = <<"value", value>> /\ value[1] = "num" /\ value[2] >= 0
            BY <2>4, <5>1 DEF seconds
          <5> QED  BY <4>1, <5>1, <5>2 DEF Sound
        <4>2. CASE key \in Ids
          <5>1. v = number(value, 10) /\ Value(o) = <<value>> /\ key \notin Timeouts
            BY <1>3, <4>2, KeysAreKnown DEF parse_value, Value
          <5>2. v = <<"value", <<value>> >> /\ value[1] = "num"
            BY <2>4, <5>1 DEF number
          <5>3. IsNum(<<value>>)
            BY <5>2 DEF IsNum
          <5> QED  BY <4>2, <5>1, <5>2, <5>3 DEF Sound
        <4>3. CASE key = "umask"
          <5>1. v = number(value, 8) /\ Value(o) = value[2] /\ key \notin Timeouts \cup Ids
            BY <1>3, <4>3, KeysAreKnown DEF parse_value, Value
          <5>2. v = <<"value", value[2]>>
            BY <2>4, <5>1 DEF number
          <5> QED  BY <5>1, <5>2 DEF Sound
        <4> QED  BY <1>3, <4>1, <4>2, <4>3 DEF Keys
      <3> HIDE DEF v
      <3> QED  BY <1>3, <2>1, <2>2, <2>4, <3>1
    <2> QED  BY <2>3, <2>4
  <1>4. CASE ~(key \in Flags /\ value = NoText) /\ ~(key \in Keys \ Flags /\ value # NoText)
    <2>1. r = None
      BY <1>4 DEF consume
    <2>2. ~IsFsOption(o)
      BY <1>1, <1>4 DEF IsFsOption
    <2> QED  BY <2>1, <2>2
  <1> HIDE DEF r
  <1> QED  BY <1>2, <1>3, <1>4 DEF r

\* The results of consume are told apart.
LEMMA ResultsDiffer ==
  /\ None # <<"invalid">>
  /\ \A x : <<"taken", x>> # None /\ <<"taken", x>> # <<"invalid">>
  <1>1. /\ Len(<<"none">>) = 1 /\ Len(<<"invalid">>) = 1
        /\ <<"none">>[1] = "none" /\ <<"invalid">>[1] = "invalid"
    OBVIOUS
  <1>2. \A x : <<"taken", x>>[1] = "taken"
    OBVIOUS
  <1> QED  BY <1>1, <1>2 DEF None

\* What an option does to those that have been taken; one that is invalid is the end.
LEMMA OneOption ==
  ASSUME NEW s, s.fs \in [Keys -> {s.fs[k] : k \in Keys}], s.invalid \in BOOLEAN, NEW o,
         s = Taken(s.fs, s.mount, s.invalid)
  PROVE  LET t == OptionRead(s, o) IN
         /\ s.invalid => t = s
         /\ ~s.invalid =>
              \/ t = Taken(s.fs, s.mount, TRUE)
              \/ t = Taken(s.fs, Append(s.mount, o), FALSE) /\ ~IsFsOption(o)
              \/ /\ t = Taken([s.fs EXCEPT ![o[1]] = Value(o)], s.mount, FALSE)
                 /\ IsFsOption(o) /\ o[1] \in Keys /\ Sound(o[1], Value(o))
  <1> DEFINE r == consume(s.fs, o[1], o[2])
             t == OptionRead(s, o)
  <1>1. DOMAIN s.fs = Keys
    OBVIOUS
  <1>2. \/ r = None /\ ~IsFsOption(o)
        \/ r = <<"invalid">>
        \/ /\ r = <<"taken", [s.fs EXCEPT ![o[1]] = Value(o)]>>
           /\ IsFsOption(o) /\ o[1] \in Keys /\ Sound(o[1], Value(o))
    BY <1>1, Consumed
  <1>3. t = CASE s.invalid -> s
              [] ~s.invalid /\ r = None -> [s EXCEPT !.mount = Append(@, o)]
              [] ~s.invalid /\ r = <<"invalid">> -> [s EXCEPT !.invalid = TRUE]
              [] OTHER -> [s EXCEPT !.fs = r[2]]
    BY DEF OptionRead
  <1> HIDE DEF r, t
  <1>4. CASE s.invalid
    BY <1>3, <1>4, ResultsDiffer DEF t
  <1>5. CASE ~s.invalid /\ r = None
    <2>1. t = [s EXCEPT !.mount = Append(@, o)]
      BY <1>3, <1>5, ResultsDiffer
    <2>2. t = Taken(s.fs, Append(s.mount, o), FALSE)
      BY <1>5, <2>1 DEF Taken
    <2> QED  BY <1>2, <1>5, <2>2, ResultsDiffer DEF t
  <1>6. CASE ~s.invalid /\ r = <<"invalid">>
    <2>1. t = [s EXCEPT !.invalid = TRUE]
      BY <1>3, <1>6, ResultsDiffer
    <2>2. t = Taken(s.fs, s.mount, TRUE)
      BY <2>1 DEF Taken
    <2> QED  BY <1>6, <2>2 DEF t
  <1>7. CASE ~s.invalid /\ r # None /\ r # <<"invalid">>
    <2>1. t = [s EXCEPT !.fs = r[2]]
      BY <1>3, <1>7
    <2>2. /\ r = <<"taken", [s.fs EXCEPT ![o[1]] = Value(o)]>>
          /\ IsFsOption(o) /\ o[1] \in Keys /\ Sound(o[1], Value(o))
      BY <1>2, <1>7
    <2>3. r[2] = [s.fs EXCEPT ![o[1]] = Value(o)]
      BY <2>2
    <2>4. t = Taken(r[2], s.mount, FALSE)
      BY <1>7, <2>1 DEF Taken
    <2> QED  BY <1>7, <2>2, <2>3, <2>4 DEF t
  <1> QED  BY <1>4, <1>5, <1>6, <1>7

------------------------------------------------------------------------------
\* An option of the filesystem that sets a key.
Sets(o, key) == o[1] = key /\ IsFsOption(o)

\* The value is that of the last of the first m options that sets the key.
IsTheLast(options, m, key, value) ==
  \/ value = Default[key] /\ \A j \in 1..m : ~Sets(options[j], key)
  \/ \E k \in 1..m : /\ Sets(options[k], key) /\ value = Value(options[k])
                     /\ \A j \in k + 1..m : ~Sets(options[j], key)

\* What split makes of options: the values are sound; and if all are valid, those
\* that are not the filesystem's go to the mount in their order, and of the others
\* the last one counts.
LEMMA OptionsTaken ==
  ASSUME NEW E, NEW o \in Seq(E)
  PROVE  LET s == split(o) IN
         /\ \A key \in Keys : Sound(key, s.fs[key])
         /\ ~s.invalid => /\ s.mount = Without(o, {x \in ToSet(o) : IsFsOption(x)})
                          /\ \A key \in Keys : IsTheLast(o, Len(o), key, s.fs[key])
  <1> DEFINE V == {Default[k] : k \in Keys} \cup {Value(x) : x \in E}
             FS == {fs \in [Keys -> V] : \A key \in Keys : Sound(key, fs[key])}
             T == [fs : FS, mount : Seq(E), invalid : BOOLEAN]
             n == Len(o)
             set == {x \in ToSet(o) : IsFsOption(x)}
  <1>1. n \in Nat /\ \A k \in 1..n : o[k] \in E /\ (o[k] \in set <=> IsFsOption(o[k]))
    BY DEF ToSet
  <1>a. /\ \A fs \in FS, m \in Seq(E), i \in BOOLEAN : Taken(fs, m, i) \in T
        /\ \A t \in T : \E fs \in FS, m \in Seq(E), i \in BOOLEAN : t = Taken(fs, m, i)
    <2> DEFINE Q == Seq(E)
    <2> HIDE DEF FS, Q
    <2>1. \A fs \in FS, m \in Q, i \in BOOLEAN : Taken(fs, m, i) \in [fs : FS, mount : Q, invalid : BOOLEAN]
      BY DEF Taken
    <2>2. ASSUME NEW t \in [fs : FS, mount : Q, invalid : BOOLEAN]
          PROVE  t.fs \in FS /\ t.mount \in Q /\ t.invalid \in BOOLEAN /\ t = Taken(t.fs, t.mount, t.invalid)
      BY DEF Taken
    <2> QED  BY <2>1, <2>2 DEF Q
  <1>2. ASSUME NEW fs \in FS, NEW m \in Seq(E), NEW i \in BOOLEAN, NEW x \in E
        PROVE  LET s == Taken(fs, m, i)
                   t == OptionRead(s, x)
               IN /\ t \in T
                  /\ i => t = s
                  /\ ~i => \/ t.invalid
                           \/ t = Taken(fs, Append(m, x), FALSE) /\ ~IsFsOption(x)
                           \/ /\ t = Taken([fs EXCEPT ![x[1]] = Value(x)], m, FALSE)
                              /\ IsFsOption(x) /\ x[1] \in Keys
    <2> DEFINE s == Taken(fs, m, i)
               t == OptionRead(s, x)
    <2>1. s.fs = fs /\ s.mount = m /\ s.invalid = i
      BY DEF Taken
    <2>2. fs \in [Keys -> {fs[k] : k \in Keys}]
      OBVIOUS
    <2>3. /\ i => t = s
          /\ ~i => \/ t = Taken(fs, m, TRUE)
                   \/ t = Taken(fs, Append(m, x), FALSE) /\ ~IsFsOption(x)
                   \/ /\ t = Taken([fs EXCEPT ![x[1]] = Value(x)], m, FALSE)
                      /\ IsFsOption(x) /\ x[1] \in Keys /\ Sound(x[1], Value(x))
      <3> HIDE DEF s, FS
      <3>1. s.fs \in [Keys -> {s.fs[k] : k \in Keys}] /\ s.invalid \in BOOLEAN
        BY <2>1, <2>2
      <3>2. s = Taken(s.fs, s.mount, s.invalid)
        BY <2>1 DEF s
      <3>3. /\ s.invalid => t = s
            /\ ~s.invalid =>
                 \/ t = Taken(s.fs, s.mount, TRUE)
                 \/ t = Taken(s.fs, Append(s.mount, x), FALSE) /\ ~IsFsOption(x)
                 \/ /\ t = Taken([s.fs EXCEPT ![x[1]] = Value(x)], s.mount, FALSE)
                    /\ IsFsOption(x) /\ x[1] \in Keys /\ Sound(x[1], Value(x))
        BY <3>1, <3>2, OneOption
      <3> HIDE DEF t
      <3> QED  BY <2>1, <3>3
    <2>4. x[1] \in Keys /\ Sound(x[1], Value(x)) => [fs EXCEPT ![x[1]] = Value(x)] \in FS
      OBVIOUS
    <2>5. Append(m, x) \in Seq(E)
      OBVIOUS
    <2> HIDE DEF t, FS
    <2> HIDE DEF T
    <2>6. t \in T
      <3>1. CASE i
        BY <1>a, <2>3, <3>1
      <3>2. CASE ~i
        BY <1>a, <2>3, <2>4, <2>5, <3>2
      <3> QED  BY <3>1, <3>2
    <2>7. Taken(fs, m, TRUE).invalid
      BY DEF Taken
    <2> HIDE DEF T
    <2> QED  BY <2>3, <2>6, <2>7 DEF t
  <1>3. Begun \in T /\ Default \in FS
    <2>1. Default \in FS
      BY KeysAreKnown
    <2>2. <<>> \in Seq(E)
      OBVIOUS
    <2> HIDE DEF FS, T
    <2> QED  BY <1>a, <2>1, <2>2 DEF Begun
  <1>4. \A t \in T, x \in E : OptionRead(t, x) \in T
    <2> HIDE DEF T, FS
    <2> SUFFICES ASSUME NEW t \in T, NEW x \in E PROVE OptionRead(t, x) \in T
      OBVIOUS
    <2>1. PICK fs \in FS, m \in Seq(E), i \in BOOLEAN : t = Taken(fs, m, i)
      BY <1>a
    <2>2. OptionRead(Taken(fs, m, i), x) \in T
      BY <1>2
    <2> QED  BY <2>1, <2>2
  <1>5. PICK a : /\ a[0] = Begun
                 /\ \A k \in 1..n : a[k] = OptionRead(a[k - 1], o[k])
                 /\ split(o) = a[n]
    <2> HIDE DEF T
    <2> QED  BY <1>3, <1>4, OptionsRead
  <1>6. PICK b : /\ b[0] = <<>>
                 /\ \A k \in 1..n : b[k] = IF o[k] \in set THEN b[k - 1] ELSE Append(b[k - 1], o[k])
                 /\ Without(o, set) = b[n]
    <2> HIDE DEF set
    <2> QED  BY Removals
  <1> HIDE DEF T, FS, V, set, n
  <1> DEFINE Kept(m) == \E fs \in FS, i \in BOOLEAN, mount \in Seq(E) :
                          /\ a[m] = Taken(fs, mount, i)
                          /\ ~i => /\ mount = b[m]
                                   /\ \A key \in Keys : IsTheLast(o, m, key, fs[key])
             R == {m \in 0..n : Kept(m)}
  <1>7. Kept(0)
    <2>1. <<>> \in Seq(E)
      OBVIOUS
    <2>2. \A key \in Keys : IsTheLast(o, 0, key, Default[key])
      BY DEF IsTheLast
    <2> QED  BY <1>3, <1>5, <1>6, <2>1, <2>2 DEF Begun
  <1>8. ASSUME NEW m \in 0..n - 1, Kept(m)
        PROVE  Kept(m + 1)
    <2> DEFINE x == o[m + 1]
    <2>1. m + 1 \in 1..n /\ m + 1 - 1 = m /\ m \in Nat
      BY <1>1
    <2>2. PICK fs \in FS, i \in BOOLEAN, mount \in Seq(E) :
            /\ a[m] = Taken(fs, mount, i)
            /\ ~i => /\ mount = b[m]
                     /\ \A key \in Keys : IsTheLast(o, m, key, fs[key])
      BY <1>8
    <2>3. /\ a[m + 1] = OptionRead(Taken(fs, mount, i), x)
          /\ b[m + 1] = IF x \in set THEN b[m] ELSE Append(b[m], x)
          /\ x \in E /\ (x \in set <=> IsFsOption(x))
      BY <1>1, <1>5, <1>6, <2>1, <2>2
    <2>4. \A key : ~Sets(x, key) => \A v : IsTheLast(o, m, key, v) => IsTheLast(o, m + 1, key, v)
      <3>1. \A j \in 1..m + 1 : j \in 1..m \/ j = m + 1
        BY <2>1
      <3>2. \A k \in 1..m : k \in 1..m + 1 /\ \A j \in k + 1..m + 1 : j \in k + 1..m \/ j = m + 1
        BY <2>1
      <3> QED  BY <3>1, <3>2 DEF IsTheLast
    <2>5. \A key : Sets(x, key) => IsTheLast(o, m + 1, key, Value(x))
      <3>1. m + 1 \in 1..m + 1 /\ m + 1 + 1..m + 1 = {}
        BY <2>1
      <3> QED  BY <3>1 DEF IsTheLast
    <2>6. fs \in [Keys -> V]
      BY DEF FS
    <2> HIDE DEF x
    <2>7. a[m + 1] \in T
      <3>1. a[m] \in T
        BY <1>a, <2>2
      <3> QED  BY <1>4, <2>2, <2>3, <3>1
    <2>8. PICK fs2 \in FS, mount2 \in Seq(E), i2 \in BOOLEAN : a[m + 1] = Taken(fs2, mount2, i2)
      BY <1>a, <2>7
    <2>9. CASE i2
      BY <2>8, <2>9
    <2>10. CASE ~i2
      <3>1. a[m + 1].fs = fs2 /\ a[m + 1].mount = mount2 /\ a[m + 1].invalid = i2
        BY <2>8 DEF Taken
      <3>2. ~i
        <4>1. i => a[m + 1] = Taken(fs, mount, i)
          BY <1>2, <2>3
        <4>2. Taken(fs, mount, i).invalid = i
          BY DEF Taken
        <4> QED  BY <2>10, <3>1, <4>1, <4>2
      <3>3. \/ a[m + 1] = Taken(fs, Append(mount, x), FALSE) /\ ~IsFsOption(x)
            \/ /\ a[m + 1] = Taken([fs EXCEPT ![x[1]] = Value(x)], mount, FALSE)
               /\ IsFsOption(x) /\ x[1] \in Keys
        <4>1. ~i => \/ OptionRead(Taken(fs, mount, i), x).invalid
                    \/ /\ OptionRead(Taken(fs, mount, i), x) = Taken(fs, Append(mount, x), FALSE)
                       /\ ~IsFsOption(x)
                    \/ /\ OptionRead(Taken(fs, mount, i), x)
                            = Taken([fs EXCEPT ![x[1]] = Value(x)], mount, FALSE)
                       /\ IsFsOption(x) /\ x[1] \in Keys
          BY <1>2, <2>3
        <4> QED  BY <2>3, <2>10, <3>1, <3>2, <4>1
      <3>4. CASE a[m + 1] = Taken(fs, Append(mount, x), FALSE) /\ ~IsFsOption(x)
        <4>1. fs2 = fs /\ mount2 = Append(mount, x)
          BY <3>1, <3>4 DEF Taken
        <4>2. mount2 = b[m + 1]
          BY <2>2, <2>3, <3>2, <3>4, <4>1
        <4>3. \A key \in Keys : IsTheLast(o, m + 1, key, fs2[key])
          BY <2>2, <2>4, <3>2, <3>4, <4>1 DEF Sets
        <4> QED  BY <2>8, <4>2, <4>3
      <3>5. CASE /\ a[m + 1] = Taken([fs EXCEPT ![x[1]] = Value(x)], mount, FALSE)
                 /\ IsFsOption(x) /\ x[1] \in Keys
        <4>1. fs2 = [fs EXCEPT ![x[1]] = Value(x)] /\ mount2 = mount
          BY <3>1, <3>5 DEF Taken
        <4>2. mount2 = b[m + 1]
          BY <2>2, <2>3, <3>2, <3>5, <4>1
        <4>3. ASSUME NEW key \in Keys PROVE IsTheLast(o, m + 1, key, fs2[key])
          <5>1. CASE key = x[1]
            BY <2>5, <2>6, <3>5, <4>1, <5>1 DEF Sets
          <5>2. CASE key # x[1]
            <6>1. fs2[key] = fs[key]
              BY <2>6, <4>1, <5>2
            <6> QED  BY <2>2, <2>4, <3>2, <5>2, <6>1 DEF Sets
          <5> QED  BY <5>1, <5>2
        <4> QED  BY <2>8, <4>2, <4>3
      <3> QED  BY <3>3, <3>4, <3>5
    <2> QED  BY <2>9, <2>10
  <1>9. Kept(n)
    <2> HIDE DEF Kept
    <2>1. 0 \in R /\ \A m \in 0..n - 1 : m \in R => m + 1 \in R
      <3>1. 0 \in 0..n /\ \A m \in 0..n - 1 : m + 1 \in 0..n
        BY <1>1
      <3> QED  BY <1>7, <1>8, <3>1
    <2> HIDE DEF R
    <2>2. 0..n \subseteq R
      BY <1>1, <2>1, UpTo
    <2> QED  BY <1>1, <2>2 DEF R
  <1>10. PICK fs \in FS, i \in BOOLEAN, mount \in Seq(E) :
           /\ a[n] = Taken(fs, mount, i)
           /\ ~i => /\ mount = b[n]
                    /\ \A key \in Keys : IsTheLast(o, n, key, fs[key])
    BY <1>9
  <1>11. split(o).fs = fs /\ split(o).mount = mount /\ split(o).invalid = i
    BY <1>5, <1>10 DEF Taken
  <1>12. \A key \in Keys : Sound(key, fs[key])
    BY DEF FS
  <1> QED  BY <1>6, <1>10, <1>11, <1>12 DEF n, set

------------------------------------------------------------------------------
(***************************************************************************)
(* What the stages have made.                                              *)
(***************************************************************************)
MadeSoFar ==
  /\ at \in {"session", "on_mounted", "setsid", "spawn", "join"} => tmp
  /\ at \in {"on_mounted", "setsid", "spawn", "join"} => mounted
  /\ at = "join" => Cardinality(threads) = n_threads
  /\ at # "over" => launcher \in {"running", "ok"}

\* The first stage has made nothing.
LEMMA NothingMade == Init => MadeSoFar
  BY DEF Init, MadeSoFar

\* Each stage makes what the next ones have; who leaves has nothing.
LEMMA StagesMake ==
  ASSUME MadeSoFar, [Next]_vars
  PROVE  /\ MadeSoFar'
         /\ launcher' # launcher =>
              \/ launcher' = "error" /\ ~mounted' /\ ~tmp'
              \/ launcher' = "ok" /\ mounted
  <1>1. CASE UNCHANGED mountVars
    BY <1>1 DEF mountVars, MadeSoFar, n_threads
  <1>2. ASSUME NEW exit \in {"ok", "error"}, Leave(exit), exit = "ok" => mounted
        PROVE  /\ MadeSoFar'
               /\ launcher' # launcher =>
                    \/ launcher' = "error" /\ ~mounted' /\ ~tmp'
                    \/ launcher' = "ok" /\ mounted
    BY <1>2 DEF Leave, MadeSoFar
  <1>3. CASE Begins /\ UNCHANGED cmd
    <2>1. CASE Split
      BY <1>2, <2>1, Stages DEF Split, Forward, MadeSoFar
    <2>2. CASE NewFs
      BY <1>2, <2>2, Stages DEF NewFs, Forward, MadeSoFar
    <2>3. CASE NewSession
      BY <1>2, <2>3, Stages DEF NewSession, Forward, MadeSoFar
    <2>4. CASE OnMounted
      BY <1>2, <2>4, Stages DEF OnMounted, Forward, MadeSoFar
    <2>5. CASE Setsid
      BY <1>2, <2>5, Stages DEF Setsid, MadeSoFar
    <2>6. CASE Spawn
      BY <1>2, <1>3, <2>6, Stages DEF Spawn, Forward, MadeSoFar, n_threads
    <2>7. CASE Unmounted
      BY <1>2, <2>7 DEF Unmounted, MadeSoFar
    <2> QED  BY <1>3, <2>1, <2>2, <2>3, <2>4, <2>5, <2>6, <2>7 DEF Begins
  <1> QED  BY <1>1, <1>3 DEF Next, Request, Serve, Reread, vars, mountVars

------------------------------------------------------------------------------
(***************************************************************************)
(* What the options are while the mount is started and served.             *)
(***************************************************************************)
OptionsSplit ==
  /\ cmd.o \in Seq(ToSet(cmd.o))
  /\ at = "split" => opts = Default
  /\ at \notin {"split", "over"} =>
       LET s == split(cmd.o) IN ~s.invalid /\ opts = s.fs /\ to_mount = s.mount
  /\ \A key \in Keys : Sound(key, opts[key])

MountTypes ==
  /\ at \in {"split", "adbfs", "session", "on_mounted", "setsid", "spawn", "join", "over"}
  /\ launcher \in {"running", "ok", "error"}
  /\ threads \subseteq Workers
  /\ tmp \in BOOLEAN /\ mounted \in BOOLEAN

\* At the start the options are the defaults.
LEMMA NothingSplit == Init => OptionsSplit /\ MountTypes
  BY ScenesAreReal, KeysAreKnown DEF Init, OptionsSplit, MountTypes

\* After Split nobody changes them, and nobody comes back to Split.
LEMMA OptionsStay ==
  ASSUME OptionsSplit, MountTypes, [Next]_vars
  PROVE  OptionsSplit' /\ MountTypes'
  <1>1. CASE UNCHANGED <<mountVars, opts>>
    BY <1>1 DEF mountVars, OptionsSplit, MountTypes
  <1>2. CASE Begins /\ UNCHANGED cmd
    <2>1. CASE Split
      <3> DEFINE s == split(cmd.o)
      <3>1. \A key \in Keys : Sound(key, s.fs[key])
        BY OptionsTaken DEF OptionsSplit
      <3>2. CASE s.invalid
        <4>1. Leave("error") /\ UNCHANGED <<opts, to_mount>>
          BY <2>1, <3>2 DEF Split
        <4> QED  BY <1>2, <4>1 DEF Leave, OptionsSplit, MountTypes
      <3>3. CASE ~s.invalid
        <4>1. /\ opts' = s.fs /\ to_mount' = s.mount /\ at' = "adbfs"
              /\ UNCHANGED <<tmp, mounted, launcher, threads>>
          BY <2>1, <3>3, Stages DEF Split, Forward
        <4> HIDE DEF s
        <4>2. OptionsSplit'
          BY <1>2, <3>1, <3>3, <4>1 DEF OptionsSplit, s
        <4> QED  BY <4>1, <4>2 DEF MountTypes
      <3> QED  BY <3>2, <3>3
    <2>2. ASSUME UNCHANGED <<opts, to_mount>>, at # "split", at # "over", at' # "split", MountTypes'
          PROVE  OptionsSplit' /\ MountTypes'
      BY <1>2, <2>2 DEF OptionsSplit
    <2>3. ASSUME NEW exit \in {"ok", "error"}, Leave(exit)
          PROVE  at' # "split" /\ MountTypes'
      BY <2>3 DEF Leave, MountTypes
    <2>4. CASE NewFs
      <3>1. at' # "split" /\ MountTypes' /\ at = "adbfs" /\ UNCHANGED <<opts, to_mount>>
        BY <2>3, <2>4, Stages DEF NewFs, Forward, MountTypes
      <3> QED  BY <2>2, <3>1
    <2>5. CASE NewSession
      <3>1. at' # "split" /\ MountTypes' /\ at = "session" /\ UNCHANGED <<opts, to_mount>>
        BY <2>3, <2>5, Stages DEF NewSession, Forward, MountTypes
      <3> QED  BY <2>2, <3>1
    <2>6. CASE OnMounted
      <3>1. at' # "split" /\ MountTypes' /\ at = "on_mounted" /\ UNCHANGED <<opts, to_mount>>
        BY <2>3, <2>6, Stages DEF OnMounted, Forward, MountTypes
      <3> QED  BY <2>2, <3>1
    <2>7. CASE Setsid
      <3>1. at' # "split" /\ MountTypes' /\ at = "setsid" /\ UNCHANGED <<opts, to_mount>>
        BY <2>3, <2>7, Stages DEF Setsid, MountTypes
      <3> QED  BY <2>2, <3>1
    <2>8. CASE Spawn
      <3>1. at' # "split" /\ MountTypes' /\ at = "spawn" /\ UNCHANGED <<opts, to_mount>>
        BY <2>3, <2>8, Stages DEF Spawn, Forward, MountTypes
      <3> QED  BY <2>2, <3>1
    <2>9. CASE Unmounted
      <3>1. at' # "split" /\ MountTypes' /\ at = "join" /\ UNCHANGED <<opts, to_mount>>
        BY <2>3, <2>9 DEF Unmounted
      <3> QED  BY <2>2, <3>1
    <2> QED  BY <1>2, <2>1, <2>4, <2>5, <2>6, <2>7, <2>8, <2>9 DEF Begins
  <1>3. ASSUME NEW w \in Workers, Request(w) \/ Serve(w)
        PROVE  UNCHANGED <<mountVars, opts>>
    BY <1>3, WhatWorkersChange DEF Request, Serve
  <1>4. CASE Reread
    BY <1>1, <1>4 DEF Reread, Rewind, opsVars
  <1> QED  BY <1>1, <1>2, <1>3, <1>4 DEF Next, vars, mountVars, opsVars

------------------------------------------------------------------------------
(***************************************************************************)
(* What is said of the files.                                              *)
(***************************************************************************)

\* Where the number of links is not printed, no owner is a number.
OwnersAreTold == \A s \in Scenes : s.phone.ls.nlink \/ OwnersHaveNames

\* The device stays the one it is.
PhoneInv == OwnersAreTold => phone.ls.nlink \/ OwnersHaveNames

\* Before the options are split there is no mount, and nobody has asked.
NotYet == at = "split" => ~mounted /\ last.op \notin {"stat", "readlink"}

\* It is so at the start.
LEMMA NobodyAsked == Init => PhoneInv /\ NotYet
  BY DEF Init, OpsInit, NothingYet, PhoneInv, NotYet, OwnersAreTold

\* The start comes once, and only Split changes the options.
LEMMA StartsOnce ==
  ASSUME Begins
  PROVE  at' # "split" /\ (at # "split" => UNCHANGED opts)
  <1>1. ASSUME NEW exit, Leave(exit) PROVE at' # "split"
    BY <1>1 DEF Leave
  <1>2. CASE Split
    BY <1>1, <1>2, Stages DEF Split, Forward
  <1>3. CASE NewFs
    BY <1>1, <1>3, Stages DEF NewFs, Forward
  <1>4. CASE NewSession
    BY <1>1, <1>4, Stages DEF NewSession, Forward
  <1>5. CASE OnMounted
    BY <1>1, <1>5, Stages DEF OnMounted, Forward
  <1>6. CASE Setsid
    BY <1>1, <1>6, Stages DEF Setsid
  <1>7. CASE Spawn
    BY <1>1, <1>7, Stages DEF Spawn, Forward
  <1>8. CASE Unmounted
    BY <1>1, <1>8 DEF Unmounted
  <1> QED  BY <1>2, <1>3, <1>4, <1>5, <1>6, <1>7, <1>8 DEF Begins

\* What a step may do to the latest answer: leave it, with the options and the
\* device it was given for; answer something else; or look at a name.
LEMMA StepsOfLooks ==
  ASSUME OpsInv, PhoneInv, NotYet, [Next]_vars
  PROVE  /\ PhoneInv' /\ NotYet'
         /\ UNCHANGED phone
         /\ \/ UNCHANGED <<last, opts>>
            \/ last'.op \notin {"stat", "readlink"}
            \/ UNCHANGED opts /\ \E w \in Workers, n \in Names : Stat(w, n) \/ Readlink(w, n)
  <1>1. CASE UNCHANGED <<opsVars, mountVars>>
    BY <1>1 DEF opsVars, mountVars, PhoneInv, NotYet
  <1>2. CASE Begins /\ UNCHANGED <<phone, last>>
    BY <1>2, StartsOnce DEF PhoneInv, NotYet
  <1>3. ASSUME NEW w \in Workers, DirRequest(w) \/ DirStep(w), UNCHANGED mountVars,
               mounted \/ DirStep(w)
        PROVE  /\ PhoneInv' /\ NotYet'
               /\ UNCHANGED phone
               /\ \/ UNCHANGED <<last, opts>>
                  \/ last'.op \notin {"stat", "readlink"}
                  \/ UNCHANGED opts /\ \E n \in Names : Stat(w, n) \/ Readlink(w, n)
    <2>1. UNCHANGED <<phone, opts>>
      BY <1>3, WhatWorkersChange
    <2>2. \/ UNCHANGED last
          \/ last'.op \in Ops \cup {"opendir"}
          \/ \E n \in Names : Stat(w, n) \/ Readlink(w, n)
      BY <1>3, WhatIsAnswered
    <2>3. last'.op \in Ops \cup {"opendir"} => last'.op \notin {"stat", "readlink"}
      BY DEF Ops, Mutations
    <2>4. NotYet'
      <3>1. CASE mounted
        BY <1>3, <3>1 DEF NotYet, mountVars
      <3>2. CASE DirStep(w)
        <4>1. OpsStep(w)
          BY <3>2 DEF DirStep, Beside
        <4>2. UNCHANGED last \/ last'.op \in Ops
          <5>1. CASE Rescan(w)
            <6>1. call[w].op \in Ops
              BY <5>1 DEF OpsInv, RescansFollow, Rescan
            <6>2. UNCHANGED last \/ \E did, answer : Reply(w, call[w], did, NoFile, answer)
              BY <5>1 DEF Rescan
            <6> QED  BY <6>1, <6>2 DEF Reply
          <5>2. CASE RunTouch(w)
            <6>1. call[w].op \in Ops
              BY <5>2 DEF OpsInv, TouchesRun, Ops, RunTouch
            <6> QED  BY <5>2, <6>1 DEF RunTouch, Changed, Reply
          <5> QED  BY <4>1, <5>1, <5>2 DEF OpsStep, LoadMode, FallBack
        <4> QED  BY <1>3, <2>3, <4>2 DEF NotYet, mountVars
      <3> QED  BY <1>3, <3>1, <3>2
    <2> QED  BY <2>1, <2>2, <2>3, <2>4 DEF PhoneInv
  <1>4. ASSUME NEW w \in Workers, Request(w) \/ Serve(w)
        PROVE  (DirRequest(w) \/ DirStep(w)) /\ UNCHANGED mountVars /\ (mounted \/ DirStep(w))
    BY <1>4 DEF Request, Serve
  <1>5. CASE Reread
    BY <1>1, <1>5 DEF Reread, Rewind
  <1>6. CASE \E w \in Workers : Request(w) \/ Serve(w)
    BY <1>3, <1>4, <1>6
  <1> QED  BY <1>1, <1>2, <1>5, <1>6 DEF Next, vars

------------------------------------------------------------------------------
(***************************************************************************)
(* Directory streams.                                                      *)
(***************************************************************************)

(***************************************************************************)
(* A handle that is open holds a listing, in which no file is one that has *)
(* not been there and none is missing that has been there since; and its   *)
(* reader has got the listing up to the offset.                            *)
(***************************************************************************)
StreamIs(h) ==
  IF open_dirs[h] = NoDir THEN offset[h] = 0 /\ got[h] = <<>>
  ELSE /\ IsListing(open_dirs[h], seen[h], there[h])
       /\ offset[h] \in 0..Len(open_dirs[h])
       /\ got[h] = SubSeq(open_dirs[h], 1, offset[h])

StreamTypes ==
  /\ open_dirs = [h \in Handles |-> open_dirs[h]] /\ offset = [h \in Handles |-> offset[h]]
  /\ got = [h \in Handles |-> got[h]]
  /\ there = [h \in Handles |-> there[h]] /\ seen = [h \in Handles |-> seen[h]]

StreamInv == StreamTypes /\ \A h \in Handles : StreamIs(h)

\* None is open at the start.
LEMMA NoneOpen == Init => StreamInv
  BY DEF Init, DirInit, StreamInv, StreamTypes, StreamIs

\* What has been there goes on to have been there, and what has been there all the
\* time was there before.
LEMMA ListingsLast ==
  ASSUME NEW D, NEW some, NEW all, IsListing(D, some, all),
         NEW more, some \subseteq more, NEW fewer, fewer \subseteq all
  PROVE  IsListing(D, more, fewer)
  BY DEF IsListing

\* The streams stay as they are while the directory changes.
LEMMA StreamsWatch ==
  ASSUME StreamInv, Watch, UNCHANGED <<open_dirs, offset, got>>
  PROVE  StreamInv'
  <1>1. StreamTypes'
    BY DEF StreamInv, StreamTypes, Watch
  <1>2. ASSUME NEW h \in Handles PROVE StreamIs(h)'
    <2>1. StreamIs(h)
      BY DEF StreamInv
    <2>2. CASE open_dirs[h] = NoDir
      BY <2>1, <2>2 DEF StreamIs
    <2>3. CASE open_dirs[h] # NoDir
      <3>1. seen[h] \subseteq seen'[h] /\ there'[h] \subseteq there[h]
        BY <2>3 DEF Watch
      <3>2. IsListing(open_dirs[h], seen'[h], there'[h])
        BY <2>1, <2>3, <3>1, ListingsLast DEF StreamIs
      <3> QED  BY <2>1, <2>3, <3>2 DEF StreamIs
    <2> QED  BY <2>2, <2>3
  <1> QED  BY <1>1, <1>2 DEF StreamInv

\* A step that changes the state of one handle.
LEMMA OneStream ==
  ASSUME StreamInv, NEW h \in Handles, StreamTypes', StreamIs(h)',
         \A i \in Handles \ {h} : /\ open_dirs'[i] = open_dirs[i] /\ offset'[i] = offset[i]
                                  /\ got'[i] = got[i] /\ there'[i] = there[i] /\ seen'[i] = seen[i]
  PROVE  StreamInv'
  <1>1. ASSUME NEW i \in Handles, i # h PROVE StreamIs(i)'
    <2>1. StreamIs(i)
      BY DEF StreamInv
    <2>2. /\ open_dirs'[i] = open_dirs[i] /\ offset'[i] = offset[i]
          /\ got'[i] = got[i] /\ there'[i] = there[i] /\ seen'[i] = seen[i]
      BY <1>1
    <2> QED  BY <2>1, <2>2, Zenon DEF StreamIs
  <1> QED  BY <1>1 DEF StreamInv

\* A piece more is read: the reader has got the listing up to the next offset.
LEMMA StreamsAreRead ==
  ASSUME StreamInv, NEW w, NEW h \in Handles, Readdir(w, h)
  PROVE  StreamInv'
  <1> DEFINE D == open_dirs[h]
             o == offset[h]
  <1>1. D # NoDir /\ UNCHANGED <<open_dirs, there, seen>>
    BY DEF Readdir
  <1>2. IsListing(D, seen[h], there[h]) /\ o \in 0..Len(D) /\ got[h] = SubSeq(D, 1, o)
    BY <1>1 DEF StreamInv, StreamIs
  <1>3. PICK room \in Rooms :
          LET end == Min({o + room, Len(D)}) IN
          /\ end > o
          /\ got' = [got EXCEPT ![h] = @ \o SubSeq(D, o + 1, end)]
          /\ offset' = [offset EXCEPT ![h] = OffsetOf(end)]
    BY DEF Readdir
  <1> DEFINE end == Min({o + room, Len(D)})
  <1>4. D \in Seq(ToSet(D)) /\ Len(D) \in Nat /\ o \in Nat /\ room \in Nat
    BY <1>2, RoomsAreNumbers DEF IsListing
  <1>5. end \in 0..Len(D) /\ o < end
    <2> DEFINE I == {o + room, Len(D)}
    <2> HIDE DEF D, o
    <2>1. I \subseteq Nat /\ I # {} /\ Len(D) \in I
      BY <1>4
    <2> HIDE DEF I
    <2>2. Min(I) \in I /\ Min(I) =< Len(D)
      BY <2>1, LeastIsThere
    <2>3. Min(I) > o
      BY <1>3 DEF I
    <2> DEFINE x == Min(I)
    <2>4. x \in Nat /\ x =< Len(D) /\ x > o
      BY <2>1, <2>2, <2>3
    <2> HIDE DEF x
    <2>5. x \in 0..Len(D) /\ o < x
      BY <1>4, <2>4
    <2> QED  BY <2>5 DEF x, I
  <1>6. /\ got' = [got EXCEPT ![h] = @ \o SubSeq(D, o + 1, end)]
        /\ offset' = [offset EXCEPT ![h] = end]
    BY <1>3 DEF OffsetOf
  <1> HIDE DEF end
  <1>7. SubSeq(D, 1, o) \o SubSeq(D, o + 1, end) = SubSeq(D, 1, end)
    BY <1>2, <1>4, <1>5, ReadOn
  <1>8. /\ offset'[h] = end /\ got'[h] = SubSeq(D, 1, end)
        /\ \A i \in Handles \ {h} : offset'[i] = offset[i] /\ got'[i] = got[i]
    <2> HIDE DEF D, o
    <2>1. got'[h] = got[h] \o SubSeq(D, o + 1, end)
      BY <1>6 DEF StreamInv, StreamTypes
    <2>2. offset'[h] = end /\ \A i \in Handles \ {h} : offset'[i] = offset[i] /\ got'[i] = got[i]
      BY <1>6 DEF StreamInv, StreamTypes
    <2> QED  BY <1>2, <1>7, <2>1, <2>2
  <1>9. StreamTypes'
    BY <1>1, <1>6 DEF StreamInv, StreamTypes
  <1>10. StreamIs(h)'
    BY <1>1, <1>2, <1>5, <1>8 DEF StreamIs
  <1> QED  BY <1>1, <1>8, <1>9, <1>10, OneStream

\* A stream that is opened holds a listing of what is there.
LEMMA StreamsAreOpened ==
  ASSUME StreamInv, FilesInv, NamesArePlain, OwnersAreWords, phone.ls.nlink \/ OwnersHaveNames,
         NEW w, NEW h \in Handles, Opendir(w, h)
  PROVE  StreamInv'
  <1> DEFINE t == Listing.stdout
             listed(n) == list_dir(SubSeq(t, 1, n))
             all(n) == IF n < Len(t) THEN {} ELSE Visible
             answer(n) == IF \E k \in DOMAIN listed(n) : listed(n)[k][2] = Panic THEN Panic
                          ELSE shell(Output(SubSeq(t, 1, n), <<>>, IF n < Len(t) THEN 255 ELSE 0))
  <1>1. PICK n \in 0..Len(t) :
          IF answer(n) = Ok
          THEN /\ open_dirs' = [open_dirs EXCEPT ![h] = Entries(listed(n))]
               /\ there' = [there EXCEPT ![h] = all(n)]
               /\ seen' = [seen EXCEPT ![h] = Present]
          ELSE UNCHANGED <<open_dirs, there, seen>>
    BY Zenon DEF Opendir
  <1>2. open_dirs[h] = NoDir /\ UNCHANGED <<offset, got>>
    BY DEF Opendir
  <1>3. offset[h] = 0 /\ got[h] = <<>>
    BY <1>2 DEF StreamInv, StreamIs
  <1> DEFINE D == Entries(listed(n))
             some == Present
             must == all(n)
  <1>4. ASSUME answer(n) = Ok
        PROVE  /\ IsListing(D, some, must)
               /\ open_dirs' = [open_dirs EXCEPT ![h] = D]
               /\ there' = [there EXCEPT ![h] = must] /\ seen' = [seen EXCEPT ![h] = some]
    <2>1. \A k \in DOMAIN listed(n) : listed(n)[k][2] # Panic
      <3>1. Panic # Ok
        BY DEF Panic, Ok
      <3> QED  BY <1>4, <3>1, Zenon
    <2>2. IsListing(D, some, must)
      BY <2>1, ListingsAreTold, Zenon
    <2> QED  BY <1>1, <1>4, <2>2, Zenon
  <1>5. ASSUME answer(n) # Ok
        PROVE  UNCHANGED <<open_dirs, there, seen>>
    BY <1>1, <1>5, Zenon
  <1> HIDE DEF answer, D, some, must
  <1>6. CASE answer(n) # Ok
    BY <1>2, <1>5, <1>6 DEF StreamInv, StreamTypes, StreamIs
  <1>7. CASE answer(n) = Ok
    <2>1. IsListing(D, some, must)
      BY <1>4, <1>7
    <2>2. /\ open_dirs' = [open_dirs EXCEPT ![h] = D]
          /\ there' = [there EXCEPT ![h] = must] /\ seen' = [seen EXCEPT ![h] = some]
      BY <1>4, <1>7
    <2>3. StreamTypes'
      BY <1>2, <2>2 DEF StreamInv, StreamTypes
    <2>4. /\ open_dirs'[h] = D /\ there'[h] = must /\ seen'[h] = some
          /\ \A i \in Handles \ {h} :
               open_dirs'[i] = open_dirs[i] /\ there'[i] = there[i] /\ seen'[i] = seen[i]
      BY <2>2 DEF StreamInv, StreamTypes
    <2>5. 0 \in 0..Len(D) /\ <<>> = SubSeq(D, 1, 0)
      <3>1. D \in Seq(ToSet(D))
        BY <2>1 DEF IsListing
      <3> QED  BY <3>1
    <2>6. StreamIs(h)'
      BY <1>2, <1>3, <2>1, <2>4, <2>5 DEF StreamIs
    <2> QED  BY <1>2, <2>3, <2>4, <2>6, OneStream
  <1> QED  BY <1>6, <1>7

\* Every step keeps the streams.
LEMMA StreamsStay ==
  ASSUME StreamInv, FilesInv, PhoneInv, NamesArePlain, OwnersAreWords, OwnersAreTold, [Next]_vars
  PROVE  StreamInv'
  <1>1. CASE UNCHANGED dirVars
    BY <1>1 DEF dirVars, StreamInv, StreamTypes, StreamIs
  <1>2. ASSUME NEW w \in Workers, DirRequest(w) \/ DirStep(w)
        PROVE  StreamInv'
    <2>1. CASE Beside(OpsRequest(w)) \/ Beside(OpsStep(w))
      BY <2>1, StreamsWatch DEF Beside
    <2>2. ASSUME NEW h \in Handles, Opendir(w, h) PROVE StreamInv'
      BY <2>2, StreamsAreOpened DEF PhoneInv
    <2>3. ASSUME NEW h \in Handles, Readdir(w, h) PROVE StreamInv'
      BY <2>3, StreamsAreRead
    <2>4. ASSUME NEW h \in Handles, Releasedir(w, h) PROVE StreamInv'
      <3>1. /\ open_dirs' = [open_dirs EXCEPT ![h] = NoDir]
            /\ offset' = [offset EXCEPT ![h] = 0] /\ got' = [got EXCEPT ![h] = <<>>]
            /\ there' = [there EXCEPT ![h] = {}] /\ seen' = [seen EXCEPT ![h] = {}]
        BY <2>4 DEF Releasedir
      <3>2. StreamTypes'
        BY <3>1 DEF StreamInv, StreamTypes
      <3>3. /\ open_dirs'[h] = NoDir /\ offset'[h] = 0 /\ got'[h] = <<>>
            /\ \A i \in Handles \ {h} :
                 /\ open_dirs'[i] = open_dirs[i] /\ offset'[i] = offset[i]
                 /\ got'[i] = got[i] /\ there'[i] = there[i] /\ seen'[i] = seen[i]
        BY <3>1 DEF StreamInv, StreamTypes
      <3>4. StreamIs(h)'
        BY <3>3 DEF StreamIs
      <3> QED  BY <3>2, <3>3, <3>4, OneStream
    <2> QED  BY <1>2, <2>1, <2>2, <2>3, <2>4 DEF DirRequest, DirStep
  <1>3. ASSUME NEW h \in Handles, Rewind(h)
        PROVE  StreamInv'
    <2>1. /\ open_dirs[h] # NoDir /\ UNCHANGED <<open_dirs, there, seen>>
          /\ offset' = [offset EXCEPT ![h] = 0] /\ got' = [got EXCEPT ![h] = <<>>]
      BY <1>3 DEF Rewind
    <2>2. StreamTypes'
      BY <2>1 DEF StreamInv, StreamTypes
    <2>3. /\ offset'[h] = 0 /\ got'[h] = <<>>
          /\ \A i \in Handles \ {h} : offset'[i] = offset[i] /\ got'[i] = got[i]
      BY <2>1 DEF StreamInv, StreamTypes
    <2>4. IsListing(open_dirs[h], seen[h], there[h])
      BY <2>1 DEF StreamInv, StreamIs
    <2>5. 0 \in 0..Len(open_dirs[h]) /\ <<>> = SubSeq(open_dirs[h], 1, 0)
      <3> DEFINE D == open_dirs[h]
      <3>1. D \in Seq(ToSet(D))
        BY <2>4 DEF IsListing
      <3> HIDE DEF D
      <3>2. 0 \in 0..Len(D) /\ <<>> = SubSeq(D, 1, 0)
        BY <3>1
      <3> QED  BY <3>2 DEF D
    <2>6. StreamIs(h)'
      BY <2>1, <2>3, <2>4, <2>5 DEF StreamIs
    <2> QED  BY <2>1, <2>2, <2>3, <2>6, OneStream
  <1>4. CASE \E w \in Workers : Request(w) \/ Serve(w)
    BY <1>2, <1>4 DEF Request, Serve
  <1>5. CASE Reread
    BY <1>3, <1>5 DEF Reread
  <1> QED  BY <1>1, <1>4, <1>5 DEF Next, vars

------------------------------------------------------------------------------
(***************************************************************************)
(* Session::spawn starts all the worker threads or the mount is not        *)
(* served at all; and for as long as it is, the temporary directory is     *)
(* there, whatever the options and the device.                             *)
(***************************************************************************)
THEOREM TheMountIsServedInFull == Spec => []ServedInFull
  <1>1. MadeSoFar => ServedInFull
    BY DEF MadeSoFar, ServedInFull
  <1>2. MadeSoFar /\ [Next]_vars => MadeSoFar'
    BY StagesMake
  <1> QED  BY NothingMade, <1>1, <1>2, PTL DEF Spec

(***************************************************************************)
(* The exit status of the process that was started: zero only with the     *)
(* mount there (in the background daemonize waits for it, main.rs), and    *)
(* another one only when mount and directory are gone.                     *)
(***************************************************************************)
THEOREM TheExitTellsTheMount == Spec => ExitTellsTheMount
  <1> DEFINE Told == launcher' # launcher =>
                       \/ launcher' = "error" /\ ~mounted' /\ ~tmp'
                       \/ launcher' = "ok" /\ mounted
  <1>1. MadeSoFar /\ [Next]_vars => MadeSoFar' /\ [Told]_vars
    BY StagesMake
  <1> HIDE DEF Told
  <1>2. Spec => [][Told]_vars
    BY NothingMade, <1>1, PTL DEF Spec
  <1> QED  BY <1>2 DEF ExitTellsTheMount, Told

(***************************************************************************)
(* MountOptions::split, for every list of -o options: those of the         *)
(* filesystem are taken and all others go on to the mount in their order,  *)
(* of those with the same key the last one counts, and a key that is not   *)
(* given has its default; so it stays until the unmount.                   *)
(***************************************************************************)
THEOREM OptionsAreTaken == Spec => []OptionsAreKept
  <1>1. OptionsSplit /\ MountTypes => OptionsAreKept
    <2> SUFFICES ASSUME OptionsSplit, at # "split", at # "over" PROVE OptionsAreKept
      BY DEF OptionsAreKept
    <2> DEFINE o == cmd.o
               n == Len(o)
    <2>1. opts = split(o).fs /\ to_mount = split(o).mount /\ ~split(o).invalid /\ o \in Seq(ToSet(o))
      BY DEF OptionsSplit
    <2>2. to_mount = Without(o, {x \in ToSet(o) : IsFsOption(x)})
      BY <2>1, OptionsTaken
    <2>3. ASSUME NEW key \in Keys
          PROVE  LET k == LastThatSets(o, key)
                 IN opts[key] = IF k = 0 THEN Default[key] ELSE Value(o[k])
      <3> DEFINE I == {i \in 1..n : o[i][1] = key /\ IsFsOption(o[i])}
                 k == IF I # {} THEN Max(I) ELSE 0
      <3>1. LastThatSets(o, key) = k
        BY DEF LastThatSets, SelectLastInSeq
      <3>2. IsTheLast(o, n, key, opts[key])
        BY <2>1, OptionsTaken
      <3>3. n \in Nat /\ I = {i \in 1..n : Sets(o[i], key)}
        BY <2>1 DEF Sets
      <3> HIDE DEF I, n
      <3>4. CASE I = {}
        BY <3>1, <3>2, <3>3, <3>4 DEF IsTheLast
      <3>5. CASE I # {}
        <4>1. Max(I) \in I /\ \A i \in I : i =< Max(I)
          <5>1. I \in SUBSET (1..n)
            BY <3>3
          <5> QED  BY <3>3, <3>5, <5>1, GreatestIsThere
        <4>2. PICK i \in 1..n : /\ Sets(o[i], key) /\ opts[key] = Value(o[i])
                                /\ \A j \in i + 1..n : ~Sets(o[j], key)
          BY <3>2, <3>3, <3>5 DEF IsTheLast
        <4>3. i \in I /\ Max(I) \in 1..n
          BY <3>3, <4>1, <4>2
        <4>4. ~ (i < Max(I))
          BY <3>3, <4>1, <4>2, <4>3
        <4>5. i = Max(I)
          BY <3>3, <4>1, <4>3, <4>4
        <4>6. k = i /\ k # 0
          BY <3>5, <4>3, <4>5
        <4> HIDE DEF k
        <4> QED  BY <3>1, <4>2, <4>6
      <3> QED  BY <3>4, <3>5
    <2>4. ASSUME NEW key \in Keys, NEW x, x[1] = key
          PROVE  Value(x) = CASE key \in Flags -> TRUE
                              [] key \in Timeouts -> x[2]
                              [] key \in Ids -> <<x[2]>>
                              [] OTHER -> x[2][2]
      BY <2>4 DEF Value
    <2>5. ASSUME NEW key \in Keys
          PROVE  LET k == LastThatSets(o, key)
                 IN k # 0 => o[k][1] = key
      <3> DEFINE I == {i \in 1..n : o[i][1] = key /\ IsFsOption(o[i])}
      <3>1. LastThatSets(o, key) = IF I # {} THEN Max(I) ELSE 0
        BY DEF LastThatSets, SelectLastInSeq
      <3>2. I # {} => Max(I) \in I
        <4>1. n \in Nat /\ I \in SUBSET (1..n)
          BY <2>1
        <4> HIDE DEF I, n
        <4> QED  BY <4>1, GreatestIsThere
      <3> HIDE DEF n
      <3> QED  BY <3>1, <3>2
    <2>6. DOMAIN Default = Keys
      BY KeysAreKnown
    <2> QED  BY <2>2, <2>3, <2>4, <2>5, <2>6 DEF OptionsAreKept
  <1>2. (OptionsSplit /\ MountTypes) /\ [Next]_vars => (OptionsSplit /\ MountTypes)'
    BY OptionsStay
  <1> QED  BY NothingSplit, <1>1, <1>2, PTL DEF Spec

(***************************************************************************)
(* Types, of a mount with any options, device and threads: above all, that *)
(* the files of the device are files whatever the commands did, and that   *)
(* what the mount goes by are options whose values were checked.           *)
(***************************************************************************)
THEOREM MountTypeOK == Spec => []TypeOK
  <1> DEFINE All == OptionsSplit /\ MountTypes /\ OpsInv /\ FilesInv
  <1>1. All => TypeOK
    <2> SUFFICES ASSUME All PROVE TypeOK
      OBVIOUS
    <2>1. \A n \in Names : files[n] # NoFile =>
            \E f \in Contents \cup {NewDir, NewFile} : files[n] = [f EXCEPT !.time = files[n].time]
      BY FilesThereMayBe DEF FilesInv, HoldsFiles
    <2>2. /\ \A k \in Timeouts : opts[k][1] = "num" /\ opts[k][2] >= 0
          /\ \A k \in Ids : opts[k] = Unset \/ IsNum(opts[k])
      BY DEF OptionsSplit, Sound, Keys
    <2>3. /\ stage \in [Workers -> {"idle", "load", "touch", "store", "rescan_from", "rescan", "dead"}]
          /\ gnu \in [Workers -> BOOLEAN] /\ touch_gnu_mode \in BOOLEAN
      BY DEF OpsInv, OpsTypes
    <2>4. at \in ToSet(Startup) \cup {"setsid", "over"}
      <3>1. ToSet(Startup) = {"split", "adbfs", "session", "on_mounted", "spawn", "join"}
        BY DEF Startup, ToSet
      <3> QED  BY <3>1 DEF MountTypes
    <2> QED  BY <2>1, <2>2, <2>3, <2>4 DEF MountTypes, TypeOK
  <1>2. Init => All
    BY NothingSplit, NothingAsked, HeldAtFirst
  <1>3. All /\ [Next]_vars => All'
    BY OptionsStay, AnswersStayHonest, FilesStay
  <1> HIDE DEF All
  <1> QED  BY <1>1, <1>2, <1>3, PTL DEF Spec

(***************************************************************************)
(* getattr and lookup (get_metadata, parse_ls_line, meta_to_attr): what is *)
(* said of a file is what the device has there, with the options in the    *)
(* place of its owner and permissions; a file that is said not to be there *)
(* is not there, unless adb was cut off; and whatever ls prints, in        *)
(* whichever columns.  Not so where a text that is looked for in the       *)
(* device's lines is part of a name, or where an owner without a name is   *)
(* taken for the number of links.                                          *)
(***************************************************************************)
THEOREM StatIsTrue ==
  ASSUME NoErrorInPaths, NoErrorInTargets, OwnersAreTold
  PROVE  Spec => []StatTellsTruth
  <1> DEFINE All == OpsInv /\ FilesInv /\ PhoneInv /\ NotYet /\ StatTellsTruth
  <1>1. Init => All
    <2>1. Init => StatTellsTruth
      BY DEF Init, OpsInit, NothingYet, StatTellsTruth
    <2> QED  BY <2>1, NothingAsked, HeldAtFirst, NobodyAsked
  <1>2. ASSUME All, [Next]_vars PROVE All'
    <2>1. OpsInv' /\ FilesInv'
      BY <1>2, AnswersStayHonest, FilesStay
    <2>2. /\ PhoneInv' /\ NotYet' /\ UNCHANGED phone
          /\ \/ UNCHANGED <<last, opts>>
             \/ last'.op \notin {"stat", "readlink"}
             \/ UNCHANGED opts /\ \E w \in Workers, n \in Names : Stat(w, n) \/ Readlink(w, n)
      BY <1>2, StepsOfLooks
    <2>3. ASSUME UNCHANGED <<last, opts>> PROVE StatTellsTruth'
      <3>1. \A f : Expected(f)' = Expected(f)
        BY <2>2, <2>3 DEF Expected
      <3> QED  BY <1>2, <2>3, <3>1 DEF StatTellsTruth
    <2>4. ASSUME last'.op # "stat" PROVE StatTellsTruth'
      BY <2>4 DEF StatTellsTruth
    <2>5. ASSUME NEW w \in Workers, NEW n \in Names, Stat(w, n) PROVE StatTellsTruth'
      BY <1>2, <2>5, StatsAreTrue DEF PhoneInv
    <2>6. ASSUME NEW w \in Workers, NEW n \in Names, Readlink(w, n) PROVE last'.op # "stat"
      <3>1. PICK did, answer : Reply(w, Call("readlink", n, <<>>, 0), did, files[n], answer)
        BY <2>6 DEF Readlink
      <3> QED  BY <3>1 DEF Reply, Call
    <2>7. StatTellsTruth'
      BY <2>2, <2>3, <2>4, <2>5, <2>6
    <2> QED  BY <2>1, <2>2, <2>7
  <1>3. All => StatTellsTruth
    OBVIOUS
  <1> HIDE DEF All
  <1> QED  BY <1>1, <1>2, <1>3, PTL DEF Spec

\* No path has an arrow in it.
NoArrowInPaths == \A n \in Names : Mark("->") \notin ToSet(Path(n))

(***************************************************************************)
(* readlink (parse_symlink_target): what is answered leads, from the       *)
(* link's directory in the mount, where the target leads on the device; a  *)
(* target from the top of the device is made one from the top of the       *)
(* mount, with as many ups as the directory is deep, and no link is        *)
(* answered as if it had no target.  Not so where a path or an owner has   *)
(* the arrow in it that the parser looks for, nor for a target from the    *)
(* top that goes up again.                                                 *)
(***************************************************************************)
THEOREM LinksLead ==
  ASSUME NoErrorInPaths, NoErrorInTargets, OwnersAreTold, LinksArePlain, DirIsPlain, NoArrowInPaths
  PROVE  Spec => []LinksResolve
  <1> DEFINE All == OpsInv /\ FilesInv /\ PhoneInv /\ NotYet /\ LinksResolve
  <1>1. Init => All
    <2>1. Init => LinksResolve
      BY DEF Init, OpsInit, NothingYet, LinksResolve
    <2> QED  BY <2>1, NothingAsked, HeldAtFirst, NobodyAsked
  <1>2. ASSUME All, [Next]_vars PROVE All'
    <2>1. OpsInv' /\ FilesInv'
      BY <1>2, AnswersStayHonest, FilesStay
    <2>2. /\ PhoneInv' /\ NotYet' /\ UNCHANGED phone
          /\ \/ UNCHANGED <<last, opts>>
             \/ last'.op \notin {"stat", "readlink"}
             \/ UNCHANGED opts /\ \E w \in Workers, n \in Names : Stat(w, n) \/ Readlink(w, n)
      BY <1>2, StepsOfLooks
    <2>3. ASSUME UNCHANGED last PROVE LinksResolve'
      BY <1>2, <2>3 DEF LinksResolve
    <2>4. ASSUME last'.op # "readlink" PROVE LinksResolve'
      BY <2>4 DEF LinksResolve
    <2>5. ASSUME NEW w \in Workers, NEW n \in Names, Readlink(w, n) PROVE LinksResolve'
      BY <1>2, <2>5, ReadlinksAreTrue DEF PhoneInv, NoArrowInPaths
    <2>6. ASSUME NEW w \in Workers, NEW n \in Names, Stat(w, n) PROVE last'.op # "readlink"
      <3>1. PICK did, answer : Reply(w, Call("stat", n, <<>>, 0), did, files[n], answer)
        BY <2>6 DEF Stat
      <3> QED  BY <3>1 DEF Reply, Call
    <2>7. LinksResolve'
      BY <2>2, <2>3, <2>4, <2>5, <2>6
    <2> QED  BY <2>1, <2>2, <2>7
  <1>3. All => LinksResolve
    OBVIOUS
  <1> HIDE DEF All
  <1> QED  BY <1>1, <1>2, <1>3, PTL DEF Spec

(***************************************************************************)
(* opendir, readdir and releasedir (list_dir, extract_filename): whatever  *)
(* the workers do to the directory, whatever part of a listing adb brought *)
(* and however the kernel cuts its reads, a reader gets no entry twice and *)
(* none that has not been there, and a reader to the end of a whole        *)
(* listing misses none that has been there all the time.  Not so for a     *)
(* name that list_dir cannot take from a line: one with an arrow or a      *)
(* quote before a blank in it, or where an owner has a colon in it.        *)
(***************************************************************************)
THEOREM ReadersSeeTheDirectory ==
  ASSUME NamesArePlain, OwnersAreWords, OwnersAreTold
  PROVE  Spec => []ReadsTellTheDirectory
  <1> DEFINE All == OpsInv /\ FilesInv /\ PhoneInv /\ NotYet /\ StreamInv
  <1>1. Init => All
    BY NothingAsked, HeldAtFirst, NobodyAsked, NoneOpen
  <1>2. ASSUME All, [Next]_vars PROVE All'
    BY <1>2, AnswersStayHonest, FilesStay, StepsOfLooks, StreamsStay
  <1>3. ASSUME All PROVE ReadsTellTheDirectory
    <2> SUFFICES ASSUME NEW h \in Handles, open_dirs[h] # NoDir
                 PROVE  LET names == SubSeq(got[h], 3, Len(got[h])) IN
                        /\ IsInjective(got[h])
                        /\ IsPrefix(got[h], Dots) \/ IsPrefix(Dots, got[h])
                        /\ ToSet(names) \subseteq seen[h]
                        /\ offset[h] = Len(open_dirs[h]) => there[h] \subseteq ToSet(names)
      BY Zenon DEF ReadsTellTheDirectory
    <2>1. /\ IsListing(open_dirs[h], seen[h], there[h]) /\ offset[h] \in 0..Len(open_dirs[h])
          /\ got[h] = SubSeq(open_dirs[h], 1, offset[h])
      BY <1>3, Zenon DEF StreamInv, StreamIs
    <2> QED  BY <2>1, ReadersAreTold, Zenon
  <1> HIDE DEF All
  <1> QED  BY <1>1, <1>2, <1>3, PTL DEF Spec
=============================================================================
