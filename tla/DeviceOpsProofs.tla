--------------------------- MODULE DeviceOpsProofs ---------------------------
(***************************************************************************)
(* Proofs about what adbfs answers to a command on the device: that it     *)
(* tells what the device did, what its file is, where its link leads and   *)
(* what its directory holds.                                               *)
(***************************************************************************)
EXTENDS Mount, LsLineProofs, FiniteSetTheorems

(***************************************************************************)
(* The message of an output.                                               *)
(***************************************************************************)

\* A line that is not blank is the message, if it is all that was printed.
LEMMA MessageOfALine ==
  ASSUME NEW o, NEW line, o.stderr \o o.stdout = <<line>>, ToSet(line) \ {Space} # {}
  PROVE  first_message(o) = line
  <1> DEFINE L == <<line>>
             I == {i \in 1..Len(L) : ToSet(L[i]) \ {Space} # {}}
  <1>1. Len(L) = 1 /\ L[1] = line
    OBVIOUS
  <1>2. I = {1}
    BY <1>1
  <1>3. first_message(o) = IF (IF I # {} THEN Min(I) ELSE 0) = 0 THEN NoText
                           ELSE L[IF I # {} THEN Min(I) ELSE 0]
    BY DEF first_message, SelectInSeq
  <1> HIDE DEF I, L
  <1>4. (IF I # {} THEN Min(I) ELSE 0) = 1
    BY <1>2, LeastOfOne
  <1> QED  BY <1>1, <1>3, <1>4

\* Where nothing was printed there is no message.
LEMMA MessageOfNothing ==
  ASSUME NEW o, o.stderr \o o.stdout = <<>>
  PROVE  first_message(o) = NoText
  <1> DEFINE L == <<>>
             I == {i \in 1..Len(L) : ToSet(L[i]) \ {Space} # {}}
  <1>1. I = {}
    OBVIOUS
  <1>3. first_message(o) = IF (IF I # {} THEN Min(I) ELSE 0) = 0 THEN NoText
                           ELSE L[IF I # {} THEN Min(I) ELSE 0]
    BY DEF first_message, SelectInSeq
  <1> HIDE DEF I, L
  <1> QED  BY <1>1, <1>3

------------------------------------------------------------------------------
(***************************************************************************)
(* The errors that errno_for_message knows.                                *)
(***************************************************************************)
Errors == {"EACCES", "EPERM", "ENOENT", "ENOTEMPTY", "EEXIST", "EROFS", "EISDIR",
           "ENOTDIR", "EXDEV", "ENOSPC", "EBUSY", "ENAMETOOLONG", "EINVAL"}

\* They are in the table, each once.
LEMMA TheTable ==
  /\ Table \in Seq(Errors) /\ Len(Table) = 13
  /\ \A i, j \in 1..13 : Table[i] = Table[j] => i = j
  /\ \A k \in 1..13 : Table[k] \in Errors
  /\ ToSet(Table) = Errors
  <1>1. Table \in Seq(Errors) /\ Len(Table) = 13
    BY DEF Table, Errors
  <1>2. /\ Table[1] = "EACCES" /\ Table[2] = "EPERM" /\ Table[3] = "ENOENT"
        /\ Table[4] = "ENOTEMPTY" /\ Table[5] = "EEXIST" /\ Table[6] = "EROFS"
        /\ Table[7] = "EISDIR" /\ Table[8] = "ENOTDIR" /\ Table[9] = "EXDEV"
        /\ Table[10] = "ENOSPC" /\ Table[11] = "EBUSY" /\ Table[12] = "ENAMETOOLONG"
        /\ Table[13] = "EINVAL"
    BY DEF Table
  <1>3. \A j \in 1..13 : \/ j = 1 \/ j = 2 \/ j = 3 \/ j = 4 \/ j = 5 \/ j = 6 \/ j = 7
                         \/ j = 8 \/ j = 9 \/ j = 10 \/ j = 11 \/ j = 12 \/ j = 13
    OBVIOUS
  <1> HIDE DEF Table
  <1>4. \A i, j \in 1..13 : Table[i] = Table[j] => i = j
    BY <1>2, <1>3
  <1>5. \A k \in 1..13 : Table[k] \in Errors
    BY <1>2, <1>3 DEF Errors
  <1>6. \A e \in Errors : \E k \in 1..13 : Table[k] = e
    <2>1. /\ 1 \in 1..13 /\ 2 \in 1..13 /\ 3 \in 1..13 /\ 4 \in 1..13 /\ 5 \in 1..13
          /\ 6 \in 1..13 /\ 7 \in 1..13 /\ 8 \in 1..13 /\ 9 \in 1..13 /\ 10 \in 1..13
          /\ 11 \in 1..13 /\ 12 \in 1..13 /\ 13 \in 1..13
      OBVIOUS
    <2> QED  BY <1>2, <2>1 DEF Errors
  <1>7. ToSet(Table) = {Table[k] : k \in 1..13}
    BY <1>1 DEF ToSet
  <1> QED  BY <1>1, <1>4, <1>5, <1>6, <1>7

\* Of a message without the text of an error it says EIO, and with the text of
\* one error that error.
LEMMA ErrnoOfALine ==
  ASSUME NEW line
  PROVE  /\ errno_for_message(line) \in Errors \cup {"EIO"}
         /\ \A e : (\A x \in Errors : Err(x) \in ToSet(line) <=> x = e)
                     => errno_for_message(line) = IF e \in Errors THEN e ELSE "EIO"
  <1> DEFINE I == {i \in 1..Len(Table) : Err(Table[i]) \in ToSet(line)}
             k == IF I # {} THEN Min(I) ELSE 0
  <1>1. errno_for_message(line) = IF k = 0 THEN "EIO" ELSE Table[k]
    BY DEF errno_for_message, SelectInSeq
  <1>2. I \subseteq 1..13
    BY TheTable
  <1>3. I # {} => k \in 1..13
    <2>1. I \subseteq Nat
      BY <1>2
    <2> HIDE DEF I
    <2>2. I # {} => Min(I) \in I
      BY <2>1, LeastIsThere
    <2> QED  BY <1>2, <2>2
  <1>4. errno_for_message(line) \in Errors \cup {"EIO"}
    BY <1>1, <1>3, TheTable
  <1>5. ASSUME NEW e, \A x \in Errors : Err(x) \in ToSet(line) <=> x = e
        PROVE  errno_for_message(line) = IF e \in Errors THEN e ELSE "EIO"
    <2>1. I = {i \in 1..13 : Table[i] = e}
      BY <1>5, TheTable
    <2>2. CASE e \in Errors
      <3>1. PICK i \in 1..13 : Table[i] = e
        BY <2>2, TheTable DEF ToSet
      <3>2. I = {i}
        BY <2>1, <3>1, TheTable
      <3>3. Min(I) = i /\ I # {}
        BY <3>2, LeastOfOne
      <3> HIDE DEF I
      <3> QED  BY <1>1, <2>2, <3>1, <3>3
    <2>3. CASE e \notin Errors
      <3>1. I = {}
        BY <2>1, <2>3, TheTable
      <3> HIDE DEF I
      <3> QED  BY <1>1, <2>3, <3>1
    <2> QED  BY <2>2, <2>3
  <1> QED  BY <1>4, <1>5

------------------------------------------------------------------------------
(***************************************************************************)
(* What the device prints when it refuses.                                 *)
(***************************************************************************)

\* No path has the text of an error in it.
NoErrorInPaths == \A n \in Names : \A e \in Errors : Err(e) \notin ToSet(Path(n))

\* The pieces of a line are told apart.
LEMMA PiecesDiffer ==
  /\ \A x, y : Err(x) # Mark(y) /\ Err(x) # Word(y) /\ (Err(x) = Err(y) => x = y)
  /\ \A x : Err(x) # Space /\ Mark(x) # Space /\ Word(x) # Space /\ Mark(x) # None
  BY DEF Err, Mark, Space, Word, None

\* A path is a text.
LEMMA PathIsAText == ASSUME NEW n \in Names PROVE Path(n) \in Seq(ToSet(Path(n)))
  <1>1. Dir \in Seq(ToSet(Dir)) /\ n \in Seq(ToSet(n))
    BY PathsAreTexts
  <1>2. Path(n) \in Seq(ToSet(Dir) \cup {Slash} \cup ToSet(n))
    BY <1>1 DEF Path
  <1> QED  BY <1>2 DEF ToSet

\* A complaint has the path's pieces, the marks and the error.
LEMMA InAComplaint ==
  ASSUME NEW n \in Names, NEW e
  PROVE  ToSet(Complaint(Path(n), e)) = ToSet(Path(n)) \cup {Mark(":"), Space, Err(e)}
  <1> DEFINE p == Path(n)
             line == Complaint(Path(n), e)
  <1>1. p \in Seq(ToSet(p))
    BY PathIsAText
  <1> HIDE DEF p
  <1>2. /\ Len(p) \in Nat /\ DOMAIN p = 1..Len(p)
        /\ line = p \o <<Mark(":"), Space, Err(e)>>
    BY <1>1 DEF Complaint, p
  <1> HIDE DEF line
  <1> DEFINE ending == <<Mark(":"), Space, Err(e)>>
             S == ToSet(p) \cup {Mark(":"), Space, Err(e)}
  <1>8. /\ ending \in Seq(S) /\ Len(ending) = 3 /\ ending[1] = Mark(":")
        /\ ending[2] = Space /\ ending[3] = Err(e)
    OBVIOUS
  <1>9. p \in Seq(S)
    <2>1. ToSet(p) \subseteq S
      OBVIOUS
    <2> QED  BY <1>1, <2>1, SeqMonotonic
  <1> HIDE DEF ending, S
  <1>3. /\ DOMAIN line = 1..Len(p) + 3
        /\ \A j \in 1..Len(p) : line[j] = p[j]
        /\ line[Len(p) + 1] = Mark(":") /\ line[Len(p) + 2] = Space
        /\ line[Len(p) + 3] = Err(e)
    <2>1. line = p \o ending
      BY <1>2 DEF ending
    <2> QED  BY <1>2, <1>8, <1>9, <2>1, ConcatProperties
  <1>4. \A j \in 1..Len(p) + 3 :
          j \in 1..Len(p) \/ j = Len(p) + 1 \/ j = Len(p) + 2 \/ j = Len(p) + 3
    BY <1>2
  <1>5. ToSet(line) \subseteq ToSet(p) \cup {Mark(":"), Space, Err(e)}
    BY <1>2, <1>3, <1>4 DEF ToSet
  <1>6. ToSet(p) \cup {Mark(":"), Space, Err(e)} \subseteq ToSet(line)
    <2>1. \A j \in 1..Len(p) + 3 : line[j] \in ToSet(line)
      BY <1>3 DEF ToSet
    <2>2. /\ \A j \in 1..Len(p) : j \in 1..Len(p) + 3
          /\ {Len(p) + 1, Len(p) + 2, Len(p) + 3} \subseteq 1..Len(p) + 3
      BY <1>2
    <2>3. ToSet(p) \subseteq ToSet(line)
      BY <1>2, <1>3, <2>1, <2>2 DEF ToSet
    <2> QED  BY <1>3, <2>1, <2>2, <2>3
  <1> QED  BY <1>5, <1>6 DEF p, line

\* It is the message, and told from that about a date; and from a path that has no
\* error in it errno_for_message reads the device's.
LEMMA Complaints ==
  ASSUME NEW n \in Names, NEW e
  PROVE  LET line == Complaint(Path(n), e) IN
         /\ first_message(Printed(line)) = line
         /\ line # NoText /\ line # BadDate
         /\ NoErrorInPaths =>
              errno_for_message(line) = IF e \in Errors THEN e ELSE "EIO"
  <1> DEFINE line == Complaint(Path(n), e)
  <1>1. ToSet(line) = ToSet(Path(n)) \cup {Mark(":"), Space, Err(e)}
    BY InAComplaint
  <1> HIDE DEF line
  <1>2. ToSet(line) \ {Space} # {}
    BY <1>1, PiecesDiffer
  <1>3. Printed(line).stderr \o Printed(line).stdout = <<line>>
    <2>1. <<line>> \o <<>> = <<line>> /\ <<>> \o <<line>> = <<line>>
      OBVIOUS
    <2> QED  BY <2>1 DEF Printed, Output
  <1>4. first_message(Printed(line)) = line
    BY <1>2, <1>3, MessageOfALine
  <1>5. line # NoText
    <2>1. ToSet(NoText) = {None}
      BY DEF NoText, ToSet
    <2> QED  BY <1>1, <2>1, PiecesDiffer
  <1>6. line # BadDate
    <2>1. Err(e) \notin ToSet(BadDate)
      BY PiecesDiffer DEF BadDate, ToSet
    <2> QED  BY <1>1, <2>1
  <1>7. NoErrorInPaths => errno_for_message(line) = IF e \in Errors THEN e ELSE "EIO"
    <2>1. NoErrorInPaths => \A x \in Errors : Err(x) \in ToSet(line) <=> x = e
      BY <1>1, PiecesDiffer DEF NoErrorInPaths
    <2> QED  BY <2>1, ErrnoOfALine
  <1> QED  BY <1>4, <1>5, <1>6, <1>7 DEF line

------------------------------------------------------------------------------
(***************************************************************************)
(* How commands end, and what is made of it.                               *)
(***************************************************************************)

\* When adb does not reach the device, silence comes with an exit code, and what
\* is said is not about a date.
LEMMA LostCommands ==
  ASSUME NEW o \in Lost
  PROVE  /\ first_message(o) # BadDate
         /\ first_message(o) = NoText => o.exit # 0
         /\ shell(o) = Fails("EIO")
  <1> DEFINE gone == <<Word("error"), Mark(":"), Space, Word("no_devices")>>
  <1>1. BadDate # NoText
    <2>1. Len(BadDate) = 4 /\ Len(NoText) = 1
      BY DEF BadDate, NoText
    <2> QED  BY <2>1
  <1>2. gone # BadDate
    <2>1. gone[1] = Word("error") /\ BadDate[1] = Word("touch")
      BY DEF BadDate
    <2>2. Word("error") # Word("touch")
      BY DEF Word
    <2> QED  BY <2>1, <2>2
  <1>3. gone # NoText
    <2>1. Len(gone) = 4 /\ Len(NoText) = 1
      BY DEF NoText
    <2> QED  BY <2>1
  <1>4. ToSet(gone) \ {Space} # {}
    <2>1. Mark(":") \in ToSet(gone)
      <3>1. gone[2] = Mark(":") /\ 2 \in DOMAIN gone
        OBVIOUS
      <3> QED  BY <3>1 DEF ToSet
    <2> QED  BY <2>1, PiecesDiffer
  <1> HIDE DEF gone
  <1>5. o = Output(<<>>, <<gone>>, 1) \/ o = Output(<<>>, <<>>, 255)
    BY DEF Lost, gone
  <1>6. CASE o = Output(<<>>, <<gone>>, 1)
    <2>1. <<gone>> \o <<>> = <<gone>>
      OBVIOUS
    <2>2. o.stderr = <<gone>> /\ o.stdout = <<>> /\ o.exit = 1
      BY <1>6 DEF Output
    <2>3. o.stderr \o o.stdout = <<gone>>
      BY <2>1, <2>2
    <2>4. first_message(o) = gone
      BY <1>4, <2>3, MessageOfALine
    <2> QED  BY <1>2, <1>3, <2>2, <2>4 DEF shell
  <1>7. CASE o = Output(<<>>, <<>>, 255)
    <2>1. <<>> \o <<>> = <<>>
      OBVIOUS
    <2>2. o.stderr = <<>> /\ o.stdout = <<>> /\ o.exit = 255
      BY <1>7 DEF Output
    <2>3. first_message(o) = NoText
      BY <2>1, <2>2, MessageOfNothing
    <2> QED  BY <1>1, <2>2, <2>3 DEF shell
  <1> QED  BY <1>5, <1>6, <1>7

\* A command that was carried out says nothing.
LEMMA SilentCommands == first_message(Silence) = NoText /\ Silence.exit = 0
  <1>1. <<>> \o <<>> = <<>>
    OBVIOUS
  <1>2. Silence.stderr \o Silence.stdout = <<>> /\ Silence.exit = 0
    BY <1>1 DEF Silence, Output
  <1> QED  BY <1>2, MessageOfNothing

\* The device's reasons to refuse.
LEMMA Reasons ==
  ASSUME NEW c
  PROVE  Refusals(c) \subseteq {"EROFS", "strange", "EEXIST", "ENOENT", "EISDIR", "ENOTEMPTY", "ENOTDIR"}
  BY DEF Refusals

\* The three ways a command ends: done and silent, refused with a complaint, or lost.
LEMMA HowCommandsEnd ==
  ASSUME NEW c, c.name \in Names, NEW e \in Ends(c)
  PROVE  \/ e.did = "done" /\ first_message(e.out) = NoText /\ e.out.exit = 0
         \/ /\ e.did \in Refusals(c)
            /\ first_message(e.out) = Complaint(Path(c.name), e.did)
         \/ e.did = "lost" /\ e.out \in Lost
  <1> DEFINE refused == {[did |-> x, files |-> files, out |-> Printed(Complaint(Path(c.name), x))]
                           : x \in Refusals(c)}
             lost == [did : {"lost"}, files : {files}, out : Lost]
             done1 == {[did |-> "done", files |-> Effect(c), out |-> Silence]}
             died == [did : {"lost"}, files : {Effect(c)}, out : {Output(<<>>, <<>>, 255)}]
  <1>1. e \in refused \/ e \in lost \/ e \in done1 \/ e \in died
    BY DEF Ends
  <1>2. CASE e \in refused
    BY <1>2, Complaints
  <1>3. CASE e \in lost
    BY <1>3
  <1>4. CASE e \in done1
    BY <1>4, SilentCommands
  <1>5. CASE e \in died
    BY <1>5 DEF Lost
  <1> QED  BY <1>1, <1>2, <1>3, <1>4, <1>5

\* Failures and successes are told apart, and failures by their errno.
LEMMA AnswersDiffer ==
  /\ \A x : Fails(x) # Ok /\ Fails(x) # <<"fall_back">>
  /\ \A x, y : Fails(x) = Fails(y) => x = y
  /\ Ok # <<"fall_back">> /\ Ok # Panic
  BY DEF Fails, Ok, Panic

\* run_mutation answers Ok exactly for what was carried out, and to a refusal with
\* the device's errno.
LEMMA MutationsAreAnswered ==
  ASSUME NEW c, c.name \in Names, NEW e \in Ends(c)
  PROVE  /\ run_mutation(e.out) = Ok <=> e.did = "done"
         /\ e.did \notin {"done", "lost"} /\ NoErrorInPaths =>
              run_mutation(e.out) = Fails(IF e.did \in Errors THEN e.did ELSE "EIO")
         /\ e.did \notin {"nothing", "date"}
  <1>1. CASE e.did = "done" /\ first_message(e.out) = NoText /\ e.out.exit = 0
    BY <1>1 DEF run_mutation
  <1>2. CASE e.did \in Refusals(c) /\ first_message(e.out) = Complaint(Path(c.name), e.did)
    <2>1. e.did \notin {"nothing", "date", "done", "lost"}
      BY <1>2, Reasons
    <2>2. run_mutation(e.out) = Fails(errno_for_message(Complaint(Path(c.name), e.did)))
      BY <1>2, Complaints DEF run_mutation
    <2> QED  BY <2>1, <2>2, Complaints, AnswersDiffer
  <1>3. CASE e.did = "lost" /\ e.out \in Lost
    BY <1>3, LostCommands, AnswersDiffer DEF run_mutation
  <1> QED  BY <1>1, <1>2, <1>3, HowCommandsEnd

\* A touch that does not start again: it is not about the date, and the errno is
\* the device's.
LEMMA TouchesAreAnswered ==
  ASSUME NEW w, call[w].name \in Names, NEW e \in TouchEnds(w),
         TouchAnswer(w, e.out, gnu[w]) # <<"fall_back">>
  PROVE  LET answer == TouchAnswer(w, e.out, gnu[w]) IN
         /\ answer # Fails("ENOSYS")
         /\ e.did = "done" => answer = Ok
         /\ answer = Ok => e.did \in {"done", "lost"}
         /\ e.did \notin {"nothing", "date"}
         /\ e.did \notin {"done", "lost"} /\ NoErrorInPaths =>
              answer = Fails(IF e.did \in Errors THEN e.did ELSE "EIO")
  <1> DEFINE m == first_message(e.out)
             answer == TouchAnswer(w, e.out, gnu[w])
  <1>1. /\ m = NoText => answer = Ok
        /\ m # NoText /\ m # BadDate => answer = Fails(errno_for_message(m))
        /\ m # NoText /\ m = BadDate => ~gnu[w]
    BY DEF TouchAnswer
  <1>2. errno_for_message(m) # "ENOSYS"
    BY ErrnoOfALine DEF Errors
  <1>3. ASSUME e.did = "lost", e.out \in Lost
        PROVE  answer = Ok \/ answer = Fails(errno_for_message(m))
    <2>1. m # BadDate
      BY <1>3, LostCommands
    <2> HIDE DEF m, answer
    <2> QED  BY <1>1, <2>1
  <1>4. CASE gnu[w] /\ ~phone.gnu
    <2>1. \/ e.did = "lost" /\ e.out \in Lost
          \/ e.did = "date" /\ e.out = Printed(BadDate)
      <3>1. e \in {[did |-> "date", files |-> files, out |-> Printed(BadDate)]}
                    \cup [did : {"lost"}, files : {files}, out : Lost]
        BY <1>4 DEF TouchEnds
      <3>2. CASE e \in {[did |-> "date", files |-> files, out |-> Printed(BadDate)]}
        BY <3>2
      <3>3. CASE e \in [did : {"lost"}, files : {files}, out : Lost]
        BY <3>3
      <3> QED  BY <3>1, <3>2, <3>3
    <2>2. CASE e.out = Printed(BadDate)
      <3>1. ToSet(BadDate) \ {Space} # {}
        <4>1. BadDate[1] = Word("touch") /\ 1 \in DOMAIN BadDate
          BY DEF BadDate
        <4> QED  BY <4>1, PiecesDiffer DEF ToSet
      <3>2. BadDate # NoText
        <4>1. Len(BadDate) = 4 /\ Len(NoText) = 1
          BY DEF BadDate, NoText
        <4> QED  BY <4>1
      <3>3. Printed(BadDate).stderr \o Printed(BadDate).stdout = <<BadDate>>
        <4>1. <<BadDate>> \o <<>> = <<BadDate>> /\ <<>> \o <<BadDate>> = <<BadDate>>
          OBVIOUS
        <4> QED  BY <4>1 DEF Printed, Output
      <3>4. m = BadDate
        BY <2>2, <3>1, <3>3, MessageOfALine
      <3> QED  BY <1>1, <1>4, <3>2, <3>4
    <2> HIDE DEF m, answer
    <2> QED  BY <1>2, <1>3, <2>1, <2>2, AnswersDiffer DEF answer
  <1>5. CASE ~(gnu[w] /\ ~phone.gnu)
    <2>1. e \in Ends(call[w])
      BY <1>5 DEF TouchEnds
    <2>2. CASE e.did = "done" /\ m = NoText
      BY <1>1, <2>2, AnswersDiffer
    <2>3. CASE e.did \in Refusals(call[w]) /\ m = Complaint(Path(call[w].name), e.did)
      <3>1. e.did \notin {"nothing", "date", "done", "lost"}
        BY <2>3, Reasons
      <3>2. answer = Fails(errno_for_message(m))
        BY <1>1, <2>3, Complaints
      <3> HIDE DEF answer
      <3> QED  BY <1>2, <2>3, <3>1, <3>2, Complaints, AnswersDiffer DEF answer
    <2>4. CASE e.did = "lost" /\ e.out \in Lost
      <3> HIDE DEF m, answer
      <3> QED  BY <1>2, <1>3, <2>4, AnswersDiffer DEF answer
    <2> QED  BY <2>1, <2>2, <2>3, <2>4, HowCommandsEnd
  <1> QED  BY <1>4, <1>5

------------------------------------------------------------------------------
(***************************************************************************)
(* The invariant: of an operation that waits for the media scanner the     *)
(* device's part is done (of touch it may be lost), and what was answered  *)
(* last is what the device did.                                            *)
(***************************************************************************)
Ops == Mutations \cup {"touch"}

Calls == [op : Ops \cup {"none"}, name : Names \cup {<<>>}, to : Names \cup {<<>>},
          time : Times \cup {0}]

\* An answer to an operation with which the device did did.
Honest(op, did, answer) ==
  /\ op \in Mutations /\ answer = Ok => did = "done"
  /\ op \in Ops /\ did = "done" => answer = Ok
  /\ op = "touch" => answer # Fails("ENOSYS") /\ did # "date"
  /\ NoErrorInPaths /\ op \in Ops /\ did \notin {"done", "lost", "nothing"} =>
       answer = Fails(IF did \in Errors THEN did ELSE "EIO")

OpsTypes ==
  /\ call \in [Workers -> Calls]
  /\ stage \in [Workers -> {"idle", "load", "touch", "store", "rescan_from", "rescan", "dead"}]
  /\ gnu \in [Workers -> BOOLEAN] /\ touch_gnu_mode \in BOOLEAN
  /\ done \in [Workers -> {"nothing", "done", "lost"}]

TouchesRun ==
  \A w \in Workers : stage[w] \in {"load", "touch", "store"} =>
    call[w].op = "touch" /\ call[w].name \in Names

RescansFollow ==
  \A w \in Workers : stage[w] \in {"rescan_from", "rescan"} =>
    /\ call[w].op \in Ops
    /\ done[w] = "done" \/ (call[w].op = "touch" /\ done[w] = "lost")

OpsInv == OpsTypes /\ TouchesRun /\ RescansFollow /\ Honest(last.op, last.done, last.answer)

\* At the start nothing was asked.
LEMMA NothingAsked == Init => OpsInv
  BY DEF Init, OpsInit, OpsInv, OpsTypes, TouchesRun, RescansFollow, Honest, Calls, Ops,
         Mutations, Idle, Call, NothingYet

\* An answer leaves the worker idle, and has to be honest.
LEMMA ReplyKeeps ==
  ASSUME OpsInv, NEW w \in Workers, NEW c, NEW did, NEW was, NEW answer,
         Honest(c.op, did, answer), Reply(w, c, did, was, answer), UNCHANGED touch_gnu_mode
  PROVE  OpsInv'
  <1>1. Idle \in Calls
    BY DEF Idle, Call, Calls
  <1>2. OpsTypes'
    BY <1>1 DEF OpsInv, OpsTypes, Reply
  <1>3. /\ stage' = [stage EXCEPT ![w] = IF answer = Panic THEN "dead" ELSE "idle"]
        /\ \A v \in Workers \ {w} : /\ stage'[v] = stage[v] /\ call'[v] = call[v]
                                    /\ done'[v] = done[v]
        /\ stage'[w] \in {"idle", "dead"}
    BY DEF OpsInv, OpsTypes, Reply
  <1>4. TouchesRun' /\ RescansFollow'
    BY <1>3 DEF OpsInv, TouchesRun, RescansFollow
  <1>5. last'.op = c.op /\ last'.done = did /\ last'.answer = answer
    BY DEF Reply
  <1> QED  BY <1>2, <1>4, <1>5 DEF OpsInv, Honest

\* So does a change, told to the media scanner or not.
LEMMA ChangedKeeps ==
  ASSUME OpsInv, NEW w \in Workers, NEW c \in Calls, c.op \in Ops, NEW did, NEW answer,
         Honest(c.op, did, answer), answer = Ok => did \in {"done", "lost"},
         Changed(w, c, did, answer), UNCHANGED touch_gnu_mode
  PROVE  OpsInv'
  <1>1. CASE answer = Ok /\ phone.rescan /\ c.op # "mkdir"
    <2>1. /\ call' = [call EXCEPT ![w] = c]
          /\ stage' = [stage EXCEPT ![w] = IF c.op = "mv" THEN "rescan_from" ELSE "rescan"]
          /\ done' = [done EXCEPT ![w] = did]
          /\ UNCHANGED <<gnu, last>>
      BY <1>1 DEF Changed
    <2>2. OpsTypes'
      BY <1>1, <2>1 DEF OpsInv, OpsTypes
    <2>3. /\ \A v \in Workers \ {w} : /\ stage'[v] = stage[v] /\ call'[v] = call[v]
                                      /\ done'[v] = done[v]
          /\ stage'[w] \in {"rescan_from", "rescan"} /\ call'[w] = c /\ done'[w] = did
      BY <2>1 DEF OpsInv, OpsTypes
    <2>4. did = "done" \/ (c.op = "touch" /\ did = "lost")
      BY <1>1 DEF Honest, Ops
    <2>5. TouchesRun'
      BY <2>3 DEF OpsInv, TouchesRun
    <2>6. RescansFollow'
      BY <2>3, <2>4 DEF OpsInv, RescansFollow
    <2> QED  BY <2>1, <2>2, <2>5, <2>6 DEF OpsInv, Honest
  <1>2. CASE ~(answer = Ok /\ phone.rescan /\ c.op # "mkdir")
    BY <1>2, ReplyKeeps DEF Changed
  <1> QED  BY <1>1, <1>2

\* What the media scanner has to say about it changes nothing.
LEMMA RescanKeeps ==
  ASSUME OpsInv, NEW w \in Workers, Rescan(w)
  PROVE  OpsInv'
  <1> DEFINE broadcast == Output(<<(<<Word("Broadcasting")>>)>>, <<>>, 0)
  <1>1. PICK o \in Lost \cup {broadcast} :
          IF rescan(o) = Ok /\ stage[w] = "rescan_from"
          THEN stage' = [stage EXCEPT ![w] = "rescan"] /\ UNCHANGED <<call, gnu, done, last>>
          ELSE Reply(w, call[w], IF o \in Lost THEN "lost" ELSE done[w], NoFile, rescan(o))
    BY DEF Rescan
  <1>2. stage[w] \in {"rescan_from", "rescan"} /\ UNCHANGED touch_gnu_mode
    BY DEF Rescan
  <1>3. /\ call[w].op \in Ops
        /\ done[w] = "done" \/ (call[w].op = "touch" /\ done[w] = "lost")
    BY <1>2 DEF OpsInv, RescansFollow
  <1>4. o \in Lost => rescan(o) = Fails("EIO")
    BY LostCommands DEF rescan
  <1>5. o \notin Lost => rescan(o) = Ok
    <2>1. broadcast.exit = 0
      BY DEF Output
    <2> QED  BY <2>1 DEF rescan, shell
  <1>6. CASE rescan(o) = Ok /\ stage[w] = "rescan_from"
    <2>1. stage' = [stage EXCEPT ![w] = "rescan"] /\ UNCHANGED <<call, gnu, done, last>>
      BY <1>1, <1>6
    <2> QED  BY <1>2, <1>3, <2>1 DEF OpsInv, OpsTypes, TouchesRun, RescansFollow, Honest
  <1>7. CASE ~(rescan(o) = Ok /\ stage[w] = "rescan_from")
    <2> DEFINE did == IF o \in Lost THEN "lost" ELSE done[w]
    <2>1. Reply(w, call[w], did, NoFile, rescan(o))
      BY <1>1, <1>7
    <2>2. Honest(call[w].op, did, rescan(o))
      BY <1>3, <1>4, <1>5, AnswersDiffer DEF Honest, Ops, Mutations
    <2> QED  BY <1>2, <2>1, <2>2, ReplyKeeps
  <1> QED  BY <1>6, <1>7

\* mkdir, rm, rmdir and mv.
LEMMA MutateKeeps ==
  ASSUME OpsInv, NEW w \in Workers, NEW c \in Calls, c.op \in Mutations, c.name \in Names,
         Mutate(w, c)
  PROVE  OpsInv'
  <1>1. PICK e \in Ends(c) : Changed(w, c, e.did, run_mutation(e.out))
    BY DEF Mutate
  <1>2. Honest(c.op, e.did, run_mutation(e.out)) /\ c.op \in Ops
    BY MutationsAreAnswered DEF Honest, Ops, Mutations
  <1>3. run_mutation(e.out) = Ok => e.did \in {"done", "lost"}
    BY MutationsAreAnswered
  <1> QED  BY <1>1, <1>2, <1>3, ChangedKeeps DEF Mutate

\* The run of touch, which may have to be tried again.
LEMMA RunTouchKeeps ==
  ASSUME OpsInv, NEW w \in Workers, RunTouch(w)
  PROVE  OpsInv'
  <1>1. PICK e \in TouchEnds(w) :
          IF TouchAnswer(w, e.out, gnu[w]) = <<"fall_back">>
          THEN stage' = [stage EXCEPT ![w] = "store"] /\ UNCHANGED <<call, gnu, done, last>>
          ELSE Changed(w, call[w], e.did, TouchAnswer(w, e.out, gnu[w]))
    BY DEF RunTouch
  <1>2. stage[w] = "touch" /\ UNCHANGED touch_gnu_mode
    BY DEF RunTouch
  <1>3. call[w].op = "touch" /\ call[w].name \in Names /\ call[w] \in Calls
    BY <1>2 DEF OpsInv, TouchesRun, OpsTypes
  <1>4. CASE TouchAnswer(w, e.out, gnu[w]) = <<"fall_back">>
    <2>1. stage' = [stage EXCEPT ![w] = "store"] /\ UNCHANGED <<call, gnu, done, last>>
      BY <1>1, <1>4
    <2> QED  BY <1>2, <1>3, <2>1 DEF OpsInv, OpsTypes, TouchesRun, RescansFollow, Honest
  <1>5. CASE TouchAnswer(w, e.out, gnu[w]) # <<"fall_back">>
    <2> DEFINE answer == TouchAnswer(w, e.out, gnu[w])
    <2>1. Changed(w, call[w], e.did, answer)
      BY <1>1, <1>5
    <2>2. /\ answer # Fails("ENOSYS")
          /\ e.did = "done" => answer = Ok
          /\ answer = Ok => e.did \in {"done", "lost"}
          /\ e.did \notin {"nothing", "date"}
          /\ e.did \notin {"done", "lost"} /\ NoErrorInPaths =>
               answer = Fails(IF e.did \in Errors THEN e.did ELSE "EIO")
      BY <1>3, <1>5, TouchesAreAnswered
    <2> HIDE DEF answer
    <2>3. Honest(call[w].op, e.did, answer) /\ call[w].op \in Ops
      BY <1>3, <2>2 DEF Honest, Ops, Mutations
    <2> QED  BY <1>2, <1>3, <2>1, <2>2, <2>3, ChangedKeeps
  <1> QED  BY <1>4, <1>5

\* touch before and after its run.
LEMMA TouchKeeps ==
  ASSUME OpsInv, NEW w \in Workers,
         \/ \E n \in Names, t \in Times : Touch(w, n, t)
         \/ LoadMode(w)
         \/ FallBack(w)
  PROVE  OpsInv'
  <1>1. CASE \E n \in Names, t \in Times : Touch(w, n, t)
    <2>1. PICK n \in Names, t \in Times : Touch(w, n, t)
      BY <1>1
    <2>2. Call("touch", n, <<>>, t) \in Calls
      BY DEF Call, Calls, Ops
    <2>3. Call("touch", n, <<>>, t).op = "touch" /\ Call("touch", n, <<>>, t).name \in Names
      BY DEF Call
    <2> QED  BY <2>1, <2>2, <2>3 DEF Touch, OpsInv, OpsTypes, TouchesRun, RescansFollow, Honest
  <1>2. CASE LoadMode(w)
    BY <1>2 DEF LoadMode, OpsInv, OpsTypes, TouchesRun, RescansFollow, Honest
  <1>3. CASE FallBack(w)
    BY <1>3 DEF FallBack, OpsInv, OpsTypes, TouchesRun, RescansFollow, Honest
  <1> QED  BY <1>1, <1>2, <1>3

\* What is answered to stat, readlink and opendir is not about a change.
LEMMA LooksKeep ==
  ASSUME OpsInv, NEW w \in Workers, UNCHANGED touch_gnu_mode,
         NEW c, c.op \in {"stat", "readlink", "opendir"}, NEW did, NEW was, NEW answer,
         Reply(w, c, did, was, answer)
  PROVE  OpsInv'
  <1>1. Honest(c.op, did, answer)
    BY DEF Honest, Ops, Mutations
  <1> QED  BY <1>1, ReplyKeeps

\* An operation of the kernel.
LEMMA RequestKeeps ==
  ASSUME OpsInv, NEW w \in Workers, OpsRequest(w)
  PROVE  OpsInv'
  <1>1. CASE \E n \in Names, op \in asks \cap {"mkdir", "rm", "rmdir"} :
               Mutate(w, Call(op, n, <<>>, 0))
    <2>1. PICK n \in Names, op \in asks \cap {"mkdir", "rm", "rmdir"} :
            Mutate(w, Call(op, n, <<>>, 0))
      BY <1>1
    <2> DEFINE c == Call(op, n, <<>>, 0)
    <2>2. c \in Calls /\ c.op \in Mutations /\ c.name \in Names
      BY DEF Call, Calls, Ops, Mutations
    <2> QED  BY <2>1, <2>2, MutateKeeps
  <1>2. CASE \E n, m \in Names : Mutate(w, Call("mv", n, m, 0))
    <2>1. PICK n, m \in Names : Mutate(w, Call("mv", n, m, 0))
      BY <1>2
    <2> DEFINE c == Call("mv", n, m, 0)
    <2>2. c \in Calls /\ c.op \in Mutations /\ c.name \in Names
      BY DEF Call, Calls, Ops, Mutations
    <2> QED  BY <2>1, <2>2, MutateKeeps
  <1>3. CASE \E n \in Names, t \in Times : Touch(w, n, t)
    BY <1>3, TouchKeeps
  <1>4. CASE \E n \in Names : Stat(w, n)
    <2>1. PICK n \in Names : \E did, answer :
            Reply(w, Call("stat", n, <<>>, 0), did, files[n], answer)
      BY <1>4 DEF Stat
    <2>2. Call("stat", n, <<>>, 0).op = "stat" /\ UNCHANGED touch_gnu_mode
      BY <1>4 DEF Call, Stat
    <2> QED  BY <2>1, <2>2, LooksKeep
  <1>5. CASE \E n \in Names : Readlink(w, n)
    <2>1. PICK n \in Names : \E did, answer :
            Reply(w, Call("readlink", n, <<>>, 0), did, files[n], answer)
      BY <1>5 DEF Readlink
    <2>2. Call("readlink", n, <<>>, 0).op = "readlink" /\ UNCHANGED touch_gnu_mode
      BY <1>5 DEF Call, Readlink
    <2> QED  BY <2>1, <2>2, LooksKeep
  <1> QED  BY <1>1, <1>2, <1>3, <1>4, <1>5 DEF OpsRequest

\* Each step of a run keeps the invariant.
LEMMA AnswersStayHonest == OpsInv /\ [Next]_vars => OpsInv'
  <1> SUFFICES ASSUME OpsInv, [Next]_vars PROVE OpsInv'
    OBVIOUS
  <1>1. ASSUME NEW w \in Workers, OpsStep(w)
        PROVE  OpsInv'
    BY <1>1, TouchKeeps, RunTouchKeeps, RescanKeeps DEF OpsStep
  <1>2. CASE UNCHANGED opsVars
    BY <1>2 DEF opsVars, OpsInv, OpsTypes, TouchesRun, RescansFollow, Honest
  <1>3. CASE Begins /\ UNCHANGED <<touch_gnu_mode, call, stage, gnu, done, last>>
    BY <1>3 DEF OpsInv, OpsTypes, TouchesRun, RescansFollow, Honest
  <1>4. ASSUME NEW w \in Workers, NEW h \in Handles, Opendir(w, h)
        PROVE  OpsInv'
    <2>1. PICK did, answer :
            Reply(w, Call("opendir", <<>>, <<>>, 0), did, NoFile, answer)
      BY <1>4 DEF Opendir
    <2>2. Call("opendir", <<>>, <<>>, 0).op = "opendir" /\ UNCHANGED touch_gnu_mode
      BY <1>4 DEF Call, Opendir
    <2> QED  BY <2>1, <2>2, LooksKeep
  <1>5. ASSUME NEW w \in Workers, DirRequest(w)
        PROVE  OpsInv'
    <2>1. CASE OpsRequest(w)
      BY <2>1, RequestKeeps
    <2>2. ASSUME NEW h \in Handles, Opendir(w, h) \/ Readdir(w, h) \/ Releasedir(w, h)
          PROVE  OpsInv'
      BY <1>2, <1>4, <2>2 DEF Readdir, Releasedir
    <2> QED  BY <1>5, <2>1, <2>2 DEF DirRequest, Beside
  <1>6. CASE \E w \in Workers : Request(w) \/ Serve(w)
    BY <1>1, <1>5, <1>6 DEF Request, Serve, DirStep, Beside
  <1>7. CASE Reread
    BY <1>2, <1>7 DEF Reread, Rewind
  <1> QED  BY <1>2, <1>3, <1>6, <1>7 DEF Next, vars

------------------------------------------------------------------------------
(***************************************************************************)
(* The directory: what is in it are the files there may be, at the time    *)
(* that a touch has given them.                                            *)
(***************************************************************************)
MayBe(f) == \E g \in Contents \cup {NewDir, NewFile}, t \in Int : f = [g EXCEPT !.time = t]

HoldsFiles(dir) == \A n \in Names : dir[n] = NoFile \/ MayBe(dir[n])

FilesInv == HoldsFiles(files)

\* The files there may be are files, at all times.
LEMMA FilesThereMayBe ==
  ASSUME NEW f
  PROVE  /\ f \in Contents \cup {NewDir, NewFile} => MayBe(f)
         /\ MayBe(f) => IsFile(f) /\ \A t \in Int : MayBe([f EXCEPT !.time = t])
         /\ MayBe(f) => \E g \in Contents \cup {NewDir, NewFile} : f = [g EXCEPT !.time = f.time]
  <1> DEFINE C == Contents \cup {NewDir, NewFile}
  <1>1. ASSUME NEW g \in C
        PROVE  /\ IsFile(g) /\ g.time \in Int /\ g = [g EXCEPT !.time = g.time]
               /\ \A t \in Int : [g EXCEPT !.time = t].time = t /\ IsFile([g EXCEPT !.time = t])
               /\ \A t, u : [[g EXCEPT !.time = t] EXCEPT !.time = u] = [g EXCEPT !.time = u]
    <2>1. IsFile(g)
      BY FilesAreFiles
    <2> DEFINE R == [type : Types, perms : SUBSET ((1..3) \X {"r", "w", "x", "s"}), nlink : Nat \ {0},
                     owner : {g.owner}, group : {g.group}, size : Nat, major : Nat, minor : Nat,
                     time : Int, target : {g.target}, denied : BOOLEAN]
    <2>2. g \in R
      BY <2>1 DEF IsFile
    <2>3. g.time \in Int /\ g = [g EXCEPT !.time = g.time]
      BY <2>2
    <2>4. ASSUME NEW t \in Int
          PROVE  [g EXCEPT !.time = t].time = t /\ IsFile([g EXCEPT !.time = t])
      <3> DEFINE h == [g EXCEPT !.time = t]
      <3>1. h \in R /\ h.time = t /\ h.owner = g.owner /\ h.group = g.group /\ h.target = g.target
        BY <2>2
      <3> HIDE DEF h
      <3> QED  BY <2>1, <3>1 DEF IsFile, h
    <2>5. \A t, u : [[g EXCEPT !.time = t] EXCEPT !.time = u] = [g EXCEPT !.time = u]
      BY <2>2
    <2> QED  BY <2>1, <2>3, <2>4, <2>5
  <1>2. f \in C => MayBe(f)
    BY <1>1 DEF MayBe
  <1>3. ASSUME MayBe(f)
        PROVE  /\ IsFile(f) /\ \A t \in Int : MayBe([f EXCEPT !.time = t])
               /\ \E g \in C : f = [g EXCEPT !.time = f.time]
    <2>1. PICK g \in C, t \in Int : f = [g EXCEPT !.time = t]
      BY <1>3 DEF MayBe
    <2>2. IsFile(f) /\ f.time = t
      BY <1>1, <2>1
    <2>3. ASSUME NEW u \in Int PROVE MayBe([f EXCEPT !.time = u])
      <3>1. [f EXCEPT !.time = u] = [g EXCEPT !.time = u]
        BY <1>1, <2>1
      <3> QED  BY <3>1 DEF MayBe
    <2> QED  BY <2>1, <2>2, <2>3
  <1> QED  BY <1>2, <1>3

\* A command makes, moves and removes such files.
LEMMA EffectsHoldFiles ==
  ASSUME FilesInv, NEW c, c.time \in Int
  PROVE  HoldsFiles(Effect(c))
  <1> SUFFICES ASSUME NEW n \in Names PROVE Effect(c)[n] = NoFile \/ MayBe(Effect(c)[n])
    BY DEF HoldsFiles
  <1> DEFINE f == FileAt(c.name)
  <1>1. f = NoFile \/ MayBe(f)
    BY DEF FileAt, Meant, FilesInv, HoldsFiles
  <1>2. MayBe(NewDir) /\ MayBe(NewFile)
    BY FilesThereMayBe
  <1>3. MayBe([(IF f = NoFile THEN NewFile ELSE f) EXCEPT !.time = c.time])
    BY <1>1, <1>2, FilesThereMayBe
  <1>4. files[n] = NoFile \/ MayBe(files[n])
    BY DEF FilesInv, HoldsFiles
  <1>5. Effect(c)[n] \in {NewDir, [(IF f = NoFile THEN NewFile ELSE f) EXCEPT !.time = c.time],
                          f, NoFile, files[n]}
    BY DEF Effect
  <1> QED  BY <1>1, <1>2, <1>3, <1>4, <1>5

\* However a command ends.
LEMMA EndsHoldFiles ==
  ASSUME FilesInv, NEW c, c.time \in Int, NEW e \in Ends(c)
  PROVE  HoldsFiles(e.files)
  <1>1. e.files \in {files, Effect(c)}
    <2>1. CASE e \in {[did |-> x, files |-> files, out |-> Printed(Complaint(Path(c.name), x))]
                        : x \in Refusals(c)}
      BY <2>1
    <2>2. CASE e \in [did : {"lost"}, files : {files}, out : Lost]
      BY <2>2
    <2>3. CASE e \in {[did |-> "done", files |-> Effect(c), out |-> Silence]}
      BY <2>3
    <2>4. CASE e \in [did : {"lost"}, files : {Effect(c)}, out : {Output(<<>>, <<>>, 255)}]
      BY <2>4
    <2> QED  BY <2>1, <2>2, <2>3, <2>4 DEF Ends
  <1> QED  BY <1>1, EffectsHoldFiles DEF FilesInv

\* At the start the directory holds what the scene says.
LEMMA HeldAtFirst == Init => FilesInv
  <1> SUFFICES ASSUME Init PROVE FilesInv
    OBVIOUS
  <1>1. files \in [Names -> Contents \cup {NoFile}]
    BY ScenesAreReal DEF Init
  <1> QED  BY <1>1, FilesThereMayBe DEF FilesInv, HoldsFiles

\* Only a command that changes the directory and a touch change it, and nobody
\* changes the options of a mount, nor the device.
LEMMA WhatWorkersChange ==
  ASSUME NEW w \in Workers, DirRequest(w) \/ DirStep(w)
  PROVE  /\ UNCHANGED <<phone, opts, asks>>
         /\ \/ UNCHANGED files
            \/ \E op : \E n \in Names, m \in Names \cup {<<>>} : Mutate(w, Call(op, n, m, 0))
            \/ RunTouch(w)
  <1>1. CASE OpsRequest(w)
    BY <1>1 DEF OpsRequest, Mutate, Touch, Stat, Readlink
  <1>2. CASE OpsStep(w)
    BY <1>2 DEF OpsStep, LoadMode, RunTouch, FallBack, Rescan
  <1>3. CASE \E h \in Handles : Opendir(w, h) \/ Readdir(w, h) \/ Releasedir(w, h)
    BY <1>3 DEF Opendir, Readdir, Releasedir, opsVars
  <1> QED  BY <1>1, <1>2, <1>3 DEF DirRequest, DirStep, Beside

\* Each step of a run leaves files in the directory.
LEMMA FilesStay == OpsInv /\ FilesInv /\ [Next]_vars => FilesInv'
  <1> SUFFICES ASSUME OpsInv, FilesInv, [Next]_vars PROVE FilesInv'
    OBVIOUS
  <1>1. CASE UNCHANGED files
    BY <1>1 DEF FilesInv, HoldsFiles
  <1>2. ASSUME NEW w \in Workers, NEW n, NEW m, NEW op, Mutate(w, Call(op, n, m, 0))
        PROVE  FilesInv'
    <2>1. PICK e \in Ends(Call(op, n, m, 0)) : files' = e.files
      BY <1>2 DEF Mutate
    <2>2. Call(op, n, m, 0).time \in Int
      BY DEF Call
    <2>3. HoldsFiles(e.files)
      BY <2>1, <2>2, EndsHoldFiles
    <2> QED  BY <2>1, <2>3 DEF FilesInv, HoldsFiles
  <1>3. ASSUME NEW w \in Workers, RunTouch(w)
        PROVE  FilesInv'
    <2>1. PICK e \in TouchEnds(w) : files' = e.files
      BY <1>3 DEF RunTouch
    <2>2. call[w].time \in Int
      <3>1. call[w] \in Calls
        BY DEF OpsInv, OpsTypes
      <3>2. call[w].time \in Times \cup {0}
        BY <3>1 DEF Calls
      <3> DEFINE t == call[w].time
      <3> HIDE DEF t
      <3>3. t \in Times \cup {0}
        BY <3>2 DEF t
      <3>4. t \in Int
        BY <3>3, TimesAreMinutes
      <3> QED  BY <3>4 DEF t
    <2>3. HoldsFiles(e.files)
      <3>1. CASE gnu[w] /\ ~phone.gnu
        <4>1. e.files = files
          <5>1. CASE e \in {[did |-> "date", files |-> files, out |-> Printed(BadDate)]}
            BY <5>1
          <5>2. CASE e \in [did : {"lost"}, files : {files}, out : Lost]
            BY <5>2
          <5> QED  BY <3>1, <5>1, <5>2 DEF TouchEnds
        <4> QED  BY <4>1 DEF FilesInv
      <3>2. CASE ~(gnu[w] /\ ~phone.gnu)
        BY <2>2, <3>2, EndsHoldFiles DEF TouchEnds
      <3> QED  BY <3>1, <3>2
    <2> QED  BY <2>1, <2>3 DEF FilesInv, HoldsFiles
  <1>4. ASSUME NEW w \in Workers, Request(w) \/ Serve(w)
        PROVE  FilesInv'
    BY <1>1, <1>2, <1>3, <1>4, WhatWorkersChange DEF Request, Serve
  <1>5. CASE Reread
    BY <1>1, <1>5 DEF Reread, Rewind, opsVars
  <1> QED  BY <1>1, <1>4, <1>5 DEF Next, vars, opsVars

------------------------------------------------------------------------------
(***************************************************************************)
(* What the device says of a file, and what get_metadata makes of it.      *)
(***************************************************************************)

\* Paths are absolute.
LEMMA PathsBegin ==
  ASSUME NEW n \in Names
  PROVE  /\ Path(n) \in Seq(ToSet(Path(n))) /\ Len(Path(n)) \in Nat /\ Len(Path(n)) >= 1
         /\ Path(n) # <<>> /\ Path(n)[1] = Slash /\ Path(n)[1] # Space
         /\ ToSet(Path(n)) \ {Space} # {}
  <1> DEFINE E == ToSet(Dir) \cup ToSet(n) \cup {Slash}
             p == Dir \o <<Slash>>
  <1>1. Dir \in Seq(E) /\ n \in Seq(E) /\ <<Slash>> \in Seq(E)
    <2>1. Dir \in Seq(ToSet(Dir)) /\ n \in Seq(ToSet(n))
      BY PathsAreTexts
    <2>2. \A S, x : S \subseteq E /\ x \in Seq(S) => x \in Seq(E)
      OBVIOUS
    <2>3. ToSet(Dir) \subseteq E /\ ToSet(n) \subseteq E /\ {Slash} \subseteq E /\ <<Slash>> \in Seq({Slash})
      OBVIOUS
    <2> QED  BY <2>1, <2>2, <2>3
  <1> HIDE DEF E
  <1>2. IsJoin(p, Dir, <<Slash>>, E)
    BY <1>1, Joined
  <1>3. p \in Seq(E)
    BY <1>2 DEF IsJoin
  <1>4. IsJoin(Path(n), p, n, E)
    <2> HIDE DEF p
    <2>1. IsJoin(p \o n, p, n, E)
      BY <1>1, <1>3, Joined
    <2> QED  BY <2>1 DEF Path, p
  <1>5. Len(p) \in Nat /\ Len(p) = Len(Dir) + 1 /\ Len(Dir) \in Nat /\ p[Len(Dir) + 1] = Slash
    <2> DEFINE one == <<Slash>>
    <2>1. Len(one) = 1 /\ one[1] = Slash /\ 1 \in 1..1
      OBVIOUS
    <2> HIDE DEF one
    <2>2. /\ Len(p) = Len(Dir) + Len(one) /\ Len(Dir) \in Nat
          /\ \A j \in 1..Len(one) : p[Len(Dir) + j] = one[j]
      BY <1>2 DEF IsJoin, one
    <2> HIDE DEF p
    <2> QED  BY <2>1, <2>2
  <1>6. p[1] = Slash
    <2>1. CASE Dir = <<>>
      <3>1. Len(Dir) = 0
        BY <2>1
      <3> HIDE DEF p
      <3> QED  BY <1>5, <3>1
    <2>2. CASE Dir # <<>>
      <3>1. Dir[1] = Slash /\ 1 \in 1..Len(Dir)
        <4>1. Len(Dir) # 0
          BY <1>1, <2>2
        <4> QED  BY <1>5, <2>2, <4>1, DirIsAbsolute
      <3> QED  BY <1>2, <3>1 DEF IsJoin
    <2> QED  BY <2>1, <2>2
  <1> HIDE DEF p
  <1>7. 1 \in 1..Len(p)
    BY <1>5
  <1>8. Path(n)[1] = Slash
    BY <1>4, <1>6, <1>7 DEF IsJoin
  <1>9. Len(Path(n)) \in Nat /\ Len(Path(n)) >= 1
    <2>1. Len(Path(n)) = Len(p) + Len(n) /\ Len(n) \in Nat
      BY <1>4 DEF IsJoin
    <2> QED  BY <1>5, <2>1
  <1>10. Path(n) # <<>>
    BY <1>9
  <1>11. Path(n)[1] # Space /\ Path(n)[1] \in ToSet(Path(n))
    <2>1. 1 \in DOMAIN Path(n)
      BY <1>9, PathIsAText
    <2> QED  BY <1>8, <2>1, PiecesOfColumns DEF ToSet
  <1> QED  BY <1>8, <1>9, <1>10, <1>11, PathIsAText

\* A command is about the file whose name it was given (shell_escape_path).
LEMMA TheFileIsMeant ==
  ASSUME NEW n \in Names
  PROVE  Meant(n) = {n} /\ FileAt(n) = files[n]
  <1>1. Argument(Path(n)) = Path(n)
    BY PathIsAText, ArgumentIsThePath
  <1>2. ASSUME NEW m \in Names, Path(m) = Path(n)
        PROVE  m = n
    <2> DEFINE E == ToSet(Dir) \cup ToSet(n) \cup ToSet(m) \cup {Slash}
    <2>1. Dir \in Seq(E) /\ n \in Seq(E) /\ m \in Seq(E) /\ <<Slash>> \in Seq(E)
      <3>1. Dir \in Seq(ToSet(Dir)) /\ n \in Seq(ToSet(n)) /\ m \in Seq(ToSet(m))
        BY PathsAreTexts
      <3>2. \A S, x : S \subseteq E /\ x \in Seq(S) => x \in Seq(E)
        OBVIOUS
      <3>3. /\ ToSet(Dir) \subseteq E /\ ToSet(n) \subseteq E /\ ToSet(m) \subseteq E
            /\ {Slash} \subseteq E /\ <<Slash>> \in Seq({Slash})
        OBVIOUS
      <3> QED  BY <3>1, <3>2, <3>3
    <2> HIDE DEF E
    <2> DEFINE p == Dir \o <<Slash>>
    <2>2. p \in Seq(E)
      <3>1. IsJoin(p, Dir, <<Slash>>, E)
        BY <2>1, Joined
      <3> QED  BY <3>1 DEF IsJoin
    <2>3. p \o m = p \o n
      BY <1>2 DEF Path
    <2> HIDE DEF p
    <2> QED  BY <2>1, <2>2, <2>3, ConcatSimplifications
  <1>3. Meant(n) = {n}
    BY <1>1, <1>2 DEF Meant
  <1>4. (CHOOSE m \in Meant(n) : TRUE) = n /\ Meant(n) # {}
    BY <1>3
  <1> QED  BY <1>3, <1>4 DEF FileAt

\* The end of a line is the end of what it ends with.
LEMMA LastOfASuffix ==
  ASSUME NEW E, NEW s \in Seq(E), NEW t \in Seq(E), s # <<>>, IsSuffix(s, t)
  PROVE  t # <<>> /\ t[Len(t)] = s[Len(s)]
  <1> DEFINE n == Len(s)
             m == Len(t)
             r == Reverse(s)
             u == Reverse(t)
  <1>1. n \in Nat /\ m \in Nat /\ n > 0
    OBVIOUS
  <1>2. r \in Seq(E) /\ Len(r) = n /\ r[1] = s[n]
    <2>1. r = [i \in 1..n |-> s[(n - i) + 1]]
      BY DEF Reverse
    <2>2. \A i \in 1..n : (n - i) + 1 \in 1..n
      BY <1>1
    <2>3. \A i \in 1..n : s[(n - i) + 1] \in E
      BY <2>2
    <2>4. 1 \in 1..n /\ (n - 1) + 1 = n
      BY <1>1
    <2> HIDE DEF n, r
    <2>5. r \in [1..n -> E] /\ r[1] = s[n]
      BY <2>1, <2>3, <2>4
    <2> QED  BY <1>1, <2>5
  <1>3. u \in Seq(E) /\ Len(u) = m /\ (m > 0 => u[1] = t[m])
    <2>1. u = [i \in 1..m |-> t[(m - i) + 1]]
      BY DEF Reverse
    <2>2. \A i \in 1..m : (m - i) + 1 \in 1..m
      BY <1>1
    <2>3. \A i \in 1..m : t[(m - i) + 1] \in E
      BY <2>2
    <2>4. m > 0 => 1 \in 1..m /\ (m - 1) + 1 = m
      BY <1>1
    <2> HIDE DEF m, u
    <2>5. u \in [1..m -> E] /\ (m > 0 => u[1] = t[m])
      BY <2>1, <2>3, <2>4
    <2> QED  BY <1>1, <2>5
  <1>4. n =< m /\ SubSeq(r, 1, n) = SubSeq(u, 1, n)
    BY <1>2, <1>3 DEF IsSuffix, IsPrefix
  <1> HIDE DEF r, u, n, m
  <1>5. SubSeq(r, 1, n)[1] = r[1] /\ SubSeq(u, 1, n)[1] = u[1]
    <2>1. n \in 0..Len(r) /\ n \in 0..Len(u) /\ 1 \in 1..n
      BY <1>1, <1>2, <1>3, <1>4
    <2>2. \A i \in 1..n : SubSeq(r, 1, n)[i] = r[i]
      BY <1>2, <2>1, Beginnings
    <2>3. \A i \in 1..n : SubSeq(u, 1, n)[i] = u[i]
      BY <1>3, <2>1, Beginnings
    <2> QED  BY <2>1, <2>2, <2>3
  <1>6. t[m] = s[n] /\ m > 0
    BY <1>1, <1>2, <1>3, <1>4, <1>5
  <1>7. t # <<>>
    BY <1>6 DEF m
  <1> QED  BY <1>6, <1>7 DEF n, m

\* What two sequences together end with.
LEMMA EndOfBoth ==
  ASSUME NEW E, NEW s \in Seq(E), NEW t \in Seq(E)
  PROVE  /\ t # <<>> => s \o t # <<>> /\ (s \o t)[Len(s \o t)] = t[Len(t)]
         /\ IsSuffix(t, s \o t)
  <1> DEFINE st == s \o t
             n == Len(s)
             m == Len(t)
             r == Reverse(t)
             u == Reverse(st)
  <1>1. IsJoin(st, s, t, E)
    BY Joined
  <1>2. /\ n \in Nat /\ m \in Nat /\ st \in Seq(E) /\ Len(st) = n + m
        /\ \A j \in 1..m : st[n + j] = t[j]
    BY <1>1 DEF IsJoin
  <1>3. t # <<>> => m > 0
    BY <1>2
  <1>4. r = [i \in 1..m |-> t[(m - i) + 1]] /\ u = [i \in 1..Len(st) |-> st[(Len(st) - i) + 1]]
    BY DEF Reverse
  <1>9. \A k \in 1..n + m : st[k] \in E
    BY <1>2
  <1>10. \A k \in 1..m : t[k] \in E
    OBVIOUS
  <1> HIDE DEF st, n, m, r, u
  <1>5. t # <<>> => st # <<>> /\ st[Len(st)] = t[m]
    <2>1. ASSUME t # <<>> PROVE st # <<>> /\ st[Len(st)] = t[m]
      <3>1. m \in 1..m /\ n + m > 0
        BY <1>2, <1>3, <2>1
      <3>2. Len(st) # Len(<<>>)
        BY <1>2, <3>1
      <3> QED  BY <1>2, <3>1, <3>2
    <2> QED  BY <2>1
  <1>6. r \in Seq(E) /\ Len(r) = m /\ \A i \in 1..m : r[i] = t[(m - i) + 1]
    <2>1. \A i \in 1..m : (m - i) + 1 \in 1..m
      BY <1>2
    <2>2. \A i \in 1..m : t[(m - i) + 1] \in E
      BY <1>10, <2>1
    <2>3. r \in [1..m -> E] /\ \A i \in 1..m : r[i] = t[(m - i) + 1]
      BY <1>4, <2>2
    <2> QED  BY <1>2, <2>3
  <1>7. u \in Seq(E) /\ Len(u) = n + m /\ \A i \in 1..n + m : u[i] = st[((n + m) - i) + 1]
    <2>1. \A i \in 1..n + m : ((n + m) - i) + 1 \in 1..n + m
      BY <1>2
    <2>2. \A i \in 1..n + m : st[((n + m) - i) + 1] \in E
      BY <1>9, <2>1
    <2>3. u \in [1..n + m -> E] /\ \A i \in 1..n + m : u[i] = st[((n + m) - i) + 1]
      BY <1>2, <1>4, <2>2
    <2> QED  BY <1>2, <2>3
  <1>8. IsSuffix(t, st)
    <2> DEFINE p == SubSeq(r, 1, m)
               q == SubSeq(u, 1, m)
    <2>1. m \in 0..Len(r) /\ m \in 0..Len(u) /\ m =< n + m
      BY <1>2, <1>6, <1>7
    <2>2. p \in Seq(E) /\ Len(p) = m /\ \A i \in 1..m : p[i] = r[i]
      BY <1>6, <2>1, Beginnings
    <2>3. q \in Seq(E) /\ Len(q) = m /\ \A i \in 1..m : q[i] = u[i]
      BY <1>7, <2>1, Beginnings
    <2> HIDE DEF p, q
    <2>4. \A i \in 1..m : r[i] = u[i]
      <3> SUFFICES ASSUME NEW i \in 1..m PROVE r[i] = u[i]
        OBVIOUS
      <3> DEFINE j == (m - i) + 1
                 k == n + m
                 l == ((n + m) - i) + 1
      <3>1. j \in 1..m /\ l = n + j /\ i \in 1..k
        BY <1>2
      <3>2. r[i] = t[j]
        BY <1>6
      <3>3. u[i] = st[l]
        BY <1>7, <3>1, Zenon
      <3> HIDE DEF j, l, k
      <3>4. st[n + j] = t[j]
        BY <1>2, <3>1
      <3> QED  BY <3>1, <3>2, <3>3, <3>4
    <2>5. \A i \in 1..m : p[i] = q[i]
      BY <2>2, <2>3, <2>4
    <2>6. p = q
      BY <2>2, <2>3, <2>5, SeqEqual
    <2>7. IsPrefix(r, u)
      BY <1>6, <1>7, <2>1, <2>6 DEF IsPrefix, p, q
    <2> QED  BY <2>7 DEF IsSuffix, r, u
  <1> QED  BY <1>5, <1>8 DEF st, m

\* A complaint ends with its error, and is no file's line.
LEMMA ComplaintsAreRead ==
  ASSUME NEW n \in Names, NEW e
  PROVE  LET line == Complaint(Path(n), e) IN
         /\ IsSuffix(<<Mark(":"), Space, Err("EACCES")>>, line) <=> e = "EACCES"
         /\ parse_ls_line(line) = None
  <1> DEFINE p == Path(n)
             colon == Mark(":")
             x == Err(e)
             y == Err("EACCES")
             s == <<colon, Space, x>>
             t == <<colon, Space, y>>
             E == ToSet(p) \cup {colon, Space, x, y}
             line == p \o s
  <1>1. Complaint(p, e) = line
    BY Zenon DEF Complaint
  <1>2. x = y <=> e = "EACCES"
    BY DEF Err
  <1>3. p \in Seq(E) /\ p # <<>> /\ p[1] = Slash /\ Len(p) \in Nat /\ Len(p) >= 1
    <2>1. \A S, z : S \subseteq E /\ z \in Seq(S) => z \in Seq(E)
      OBVIOUS
    <2>2. ToSet(p) \subseteq E
      OBVIOUS
    <2> HIDE DEF E, p
    <2> QED  BY <2>1, <2>2, PathsBegin DEF p
  <1> HIDE DEF x, y, p, colon
  <1>4. /\ s \in Seq(E) /\ Len(s) = 3 /\ s[3] = x /\ s # <<>>
        /\ t \in Seq(E) /\ Len(t) = 3 /\ t[3] = y /\ t # <<>>
        /\ Space \in E /\ (x = y => s = t)
    OBVIOUS
  <1> HIDE DEF s, t, E
  <1>5. line \in Seq(E) /\ line # <<>> /\ line[1] = Slash
    <2>1. IsJoin(line, p, s, E)
      BY <1>3, <1>4, Joined
    <2>2. 1 \in 1..Len(p)
      BY <1>3
    <2> HIDE DEF line
    <2>3. line \in Seq(E) /\ line[1] = Slash /\ Len(line) = Len(p) + 3
      BY <1>3, <1>4, <2>1, <2>2 DEF IsJoin
    <2>4. line # <<>>
      BY <1>3, <2>3
    <2> QED  BY <2>3, <2>4
  <1>6. line[Len(line)] = x /\ IsSuffix(s, line)
    BY <1>3, <1>4, EndOfBoth
  <1> HIDE DEF line
  <1>7. IsSuffix(t, line) => x = y
    <2>1. ASSUME IsSuffix(t, line) PROVE x = y
      <3>1. line[Len(line)] = t[Len(t)]
        BY <1>4, <1>5, <2>1, LastOfASuffix
      <3> QED  BY <1>4, <1>6, <3>1
    <2> QED  BY <2>1
  <1>8. x = y => IsSuffix(t, line)
    BY <1>4, <1>6
  <1>9. parse_ls_line(line) = None
    <2>1. Slash # Space /\ Slash[1] # "mode"
      <3>1. \A z : Mark(z) # Space /\ Mark(z)[1] # "mode"
        BY PiecesDiffer DEF Mark
      <3> QED  BY <3>1, Zenon DEF Slash
    <2> QED  BY <1>4, <1>5, <2>1, OtherLinesAreLeft
  <1> QED  BY <1>1, <1>2, <1>7, <1>8, <1>9 DEF p, t, colon, y

\* Nor is what adb says, and it ends with another word.
LEMMA LostIsRead ==
  LET line == <<Word("error"), Mark(":"), Space, Word("no_devices")>> IN
  /\ ~IsSuffix(<<Mark(":"), Space, Err("EACCES")>>, line)
  /\ parse_ls_line(line) = None
  <1> DEFINE a == Word("error")
             b == Word("no_devices")
             colon == Mark(":")
             y == Err("EACCES")
             line == <<a, colon, Space, b>>
             t == <<colon, Space, y>>
             E == {a, b, colon, Space, y}
  <1>1. b # y /\ a # Space /\ a[1] # "mode"
    BY DEF Word, Err, Space
  <1> HIDE DEF a, b, colon, y
  <1>2. /\ line \in Seq(E) /\ line # <<>> /\ Len(line) = 4 /\ line[1] = a /\ line[4] = b
        /\ t \in Seq(E) /\ t # <<>> /\ Len(t) = 3 /\ t[3] = y /\ Space \in E
    OBVIOUS
  <1> HIDE DEF line, t, E
  <1>3. ~IsSuffix(t, line)
    <2>1. ASSUME IsSuffix(t, line) PROVE FALSE
      <3>1. line[Len(line)] = t[Len(t)]
        BY <1>2, <2>1, LastOfASuffix
      <3> QED  BY <1>1, <1>2, <3>1
    <2> QED  BY <2>1
  <1>4. parse_ls_line(line) = None
    BY <1>1, <1>2, OtherLinesAreLeft
  <1> QED  BY <1>3, <1>4 DEF line, t, a, b, colon, y

\* No owner is a number, none and no group has a colon in it, and no link's target
\* has the text of an error in it.
OwnersHaveNames == \A f \in Contents \cup {NewDir, NewFile} : ~IsNum(f.owner)
OwnersAreWords ==
  \A f \in Contents \cup {NewDir, NewFile} : Mark(":") \notin ToSet(f.owner) \cup ToSet(f.group)
NoErrorInTargets ==
  \A f \in Contents \cup {NewDir, NewFile} : Err("EACCES") \notin ToSet(f.target)

\* A link has a target, which is a text; a target from the top does not go up on its
\* way; and what is printed of a link before its arrow has no arrow.
LinkIsPlain(f) ==
  f.type = "l" =>
    /\ f.target # <<>> /\ None \notin ToSet(f.target)
    /\ (f.target[1] = Slash => Mark("..") \notin ToSet(f.target))
    /\ Mark("->") \notin ToSet(f.owner) \cup ToSet(f.group)

LinksArePlain == \A f \in Contents \cup {NewDir, NewFile} : LinkIsPlain(f)

\* That goes for all files of the directory.
LEMMA WhatFilesShare ==
  ASSUME NEW f, MayBe(f)
  PROVE  /\ IsFile(f)
         /\ LinksArePlain => LinkIsPlain(f)
         /\ OwnersHaveNames => ~IsNum(f.owner)
         /\ OwnersAreWords => Mark(":") \notin ToSet(f.owner) \cup ToSet(f.group)
         /\ NoErrorInTargets => Err("EACCES") \notin ToSet(f.target)
  <1>1. IsFile(f)
    BY FilesThereMayBe
  <1>2. PICK g \in Contents \cup {NewDir, NewFile}, t \in Int : f = [g EXCEPT !.time = t]
    BY DEF MayBe
  <1>3. f.owner = g.owner /\ f.target = g.target /\ f.group = g.group /\ f.type = g.type
    <2>1. IsFile(g)
      BY FilesAreFiles
    <2>2. "owner" \in DOMAIN g /\ "target" \in DOMAIN g /\ "group" \in DOMAIN g /\ "type" \in DOMAIN g
      BY <2>1 DEF IsFile
    <2> QED  BY <1>2, <2>2
  <1>4. LinksArePlain => LinkIsPlain(g)
    BY DEF LinksArePlain
  <1> QED  BY <1>1, <1>3, <1>4 DEF OwnersHaveNames, OwnersAreWords, NoErrorInTargets, LinkIsPlain

\* A file's line ends with its name or the link's target: no complaint.
LEMMA LinesEnd ==
  ASSUME NEW n \in Names, NEW f, IsFile(f), NEW ls,
         Err("EACCES") \notin ToSet(Path(n)), Err("EACCES") \notin ToSet(f.target)
  PROVE  ~IsSuffix(<<Mark(":"), Space, Err("EACCES")>>, LsLine(f, Path(n), ls))
  <1> DEFINE p == Path(n)
             colon == Mark(":")
             y == Err("EACCES")
             t == <<colon, Space, y>>
             F == LinePieces(f, p)
             E == F \cup {colon, Space, y}
             x == InColumns(Columns(f, ls))
             link == LinkPart(f)
             line == LsLine(f, p, ls)
             target == f.target
  <1>1. p \in Seq(ToSet(p)) /\ p # <<>> /\ Len(p) \in Nat /\ Len(p) >= 1
    BY PathsBegin
  <1>2. /\ x \in Seq(F) /\ p \in Seq(F) /\ target \in Seq(F) /\ Arrow \in Seq(F) /\ link \in Seq(F)
        /\ line = x \o (p \o link)
    BY <1>1, PartsOfALine
  <1>3. link = IF f.type = "l" THEN Arrow \o target ELSE <<>>
    BY DEF LinkPart
  <1>4. y # Space
    BY PiecesDiffer
  <1>5. Arrow # <<>> /\ Arrow[Len(Arrow)] = Space
    <2> DEFINE a == Mark("->")
    <2>1. Arrow = <<Space, a, Space>>
      BY Zenon DEF Arrow
    <2> HIDE DEF a
    <2> QED  BY <2>1
  <1>6. \A s : s \in Seq(F) => s \in Seq(E)
    <2>1. F \subseteq E
      OBVIOUS
    <2> HIDE DEF F, E
    <2> QED  BY <2>1
  <1>7. t \in Seq(E) /\ t # <<>> /\ t[Len(t)] = y
    <2> HIDE DEF colon, y, F
    <2>1. t \in Seq({colon, Space, y}) /\ {colon, Space, y} \subseteq E
      OBVIOUS
    <2> HIDE DEF E
    <2>2. t # <<>> /\ Len(t) = 3 /\ t[3] = y
      OBVIOUS
    <2> HIDE DEF t
    <2>3. \A S, z : S \subseteq E /\ z \in Seq(S) => z \in Seq(E)
      OBVIOUS
    <2> QED  BY <2>1, <2>2, <2>3
  <1> HIDE DEF x, link, line, t, F, E
  <1>8. \A s : s \in Seq(F) /\ s # <<>> => s[Len(s)] \in ToSet(s)
    <2> SUFFICES ASSUME NEW s, s \in Seq(F), s # <<>> PROVE s[Len(s)] \in ToSet(s)
      OBVIOUS
    <2>1. Len(s) \in DOMAIN s
      OBVIOUS
    <2> QED  BY <2>1 DEF ToSet
  <1>9. y \notin ToSet(p) /\ y \notin ToSet(target)
    OBVIOUS
  <1> HIDE DEF y, p, target
  <1>10. p \o link # <<>> /\ (p \o link)[Len(p \o link)] # y /\ p \o link \in Seq(F)
    <2>1. p \o link \in Seq(F)
      BY <1>2
    <2>2. CASE f.type # "l"
      <3>1. p \o link = p
        BY <1>2, <1>3, <2>2
      <3> QED  BY <1>1, <1>2, <1>8, <1>9, <3>1
    <2>3. CASE f.type = "l"
      <3>1. link # <<>> /\ link[Len(link)] # y
        <4>1. CASE target = <<>>
          <5>1. link = Arrow
            BY <1>2, <1>3, <2>3, <4>1
          <5> QED  BY <1>4, <1>5, <5>1
        <4>2. CASE target # <<>>
          <5>1. link # <<>> /\ link[Len(link)] = target[Len(target)]
            BY <1>2, <1>3, <2>3, <4>2, EndOfBoth
          <5> QED  BY <1>2, <1>8, <1>9, <4>2, <5>1
        <4> QED  BY <4>1, <4>2
      <3>2. p \o link # <<>> /\ (p \o link)[Len(p \o link)] = link[Len(link)]
        BY <1>2, <3>1, EndOfBoth
      <3> QED  BY <2>1, <3>1, <3>2
    <2> QED  BY <2>2, <2>3
  <1>11. line[Len(line)] # y /\ line \in Seq(F)
    <2> DEFINE rest == p \o link
    <2>1. rest \in Seq(F) /\ rest # <<>> /\ rest[Len(rest)] # y /\ line = x \o rest
      BY <1>2, <1>10
    <2> HIDE DEF rest
    <2>2. line[Len(line)] = rest[Len(rest)]
      BY <1>2, <2>1, EndOfBoth
    <2>3. IsJoin(line, x, rest, F)
      BY <1>2, <2>1, Joined
    <2> QED  BY <2>1, <2>2, <2>3 DEF IsJoin
  <1>12. ~IsSuffix(t, line)
    <2>1. ASSUME IsSuffix(t, line) PROVE FALSE
      <3>1. line[Len(line)] = t[Len(t)]
        BY <1>6, <1>7, <1>11, <2>1, LastOfASuffix
      <3> QED  BY <1>7, <1>11, <3>1
    <2> QED  BY <2>1
  <1> QED  BY <1>12 DEF t, line, p, colon, y

\* get_metadata reads the line that was printed, wherever it was printed.
LEMMA OneLineIsRead ==
  ASSUME NEW o, NEW line, o.stdout = <<line>> \/ (o.stdout = <<>> /\ o.stderr = <<line>>)
  PROVE  get_metadata(o)
           = IF IsSuffix(<<Mark(":"), Space, Err("EACCES")>>, line) THEN Fails("EACCES")
             ELSE IF parse_ls_line(line) = None THEN Fails("ENOENT") ELSE parse_ls_line(line)
  <1> DEFINE t == <<Mark(":"), Space, Err("EACCES")>>
             lines == IF o.stdout = <<>> THEN o.stderr ELSE o.stdout
  <1>1. get_metadata(o)
          = IF lines = <<>> THEN Fails("EAGAIN")
            ELSE IF IsSuffix(t, Head(lines)) THEN Fails("EACCES")
            ELSE IF parse_ls_line(Head(lines)) = None THEN Fails("ENOENT")
            ELSE parse_ls_line(Head(lines))
    BY Zenon DEF get_metadata
  <1> HIDE DEF t
  <1>2. <<line>> # <<>> /\ Head(<<line>>) = line
    OBVIOUS
  <1>3. lines = <<line>>
    BY <1>2
  <1> HIDE DEF lines
  <1> QED  BY <1>1, <1>2, <1>3 DEF t

\* What comes of a look at a name: the device did not get to answer, has nothing
\* there, may not be asked, or tells what the file is.
LEMMA WhatLooksSay ==
  ASSUME FilesInv, NoErrorInPaths, NoErrorInTargets, phone.ls.nlink \/ OwnersHaveNames,
         NEW n \in Names, NEW s \in Shows(n)
  PROVE  LET f == files[n]
             r == get_metadata(s.out)
         IN \/ s.did = "lost" /\ r \in {Fails("EAGAIN"), Fails("ENOENT")}
            \/ f = NoFile /\ r = Fails("ENOENT")
            \/ f # NoFile /\ f.denied /\ r = Fails("EACCES")
            \/ /\ f # NoFile /\ ~f.denied /\ s.out.stdout = <<LsLine(f, Path(n), phone.ls)>>
               /\ r \in {Panic, <<"meta", Metadata(f, phone.ls)>>}
  <1> DEFINE f == files[n]
             t == <<Mark(":"), Space, Err("EACCES")>>
             gone == <<Word("error"), Mark(":"), Space, Word("no_devices")>>
             Read(line) == IF IsSuffix(t, line) THEN Fails("EACCES")
                           ELSE IF parse_ls_line(line) = None THEN Fails("ENOENT")
                           ELSE parse_ls_line(line)
  <1>1. ASSUME NEW e
        PROVE  get_metadata(Printed(Complaint(Path(n), e)))
                 = IF e = "EACCES" THEN Fails("EACCES") ELSE Fails("ENOENT")
    <2> DEFINE line == Complaint(Path(n), e)
               o == Printed(line)
    <2>1. o.stdout = <<line>> \/ (o.stdout = <<>> /\ o.stderr = <<line>>)
      <3> HIDE DEF line
      <3> QED  BY DEF Printed, Output
    <2>2. (IsSuffix(t, line) <=> e = "EACCES") /\ parse_ls_line(line) = None
      BY ComplaintsAreRead
    <2>3. get_metadata(o) = Read(line)
      BY <2>1, OneLineIsRead
    <2> HIDE DEF line, t, o
    <2> QED  BY <2>2, <2>3 DEF line, o
  <1>2. ASSUME NEW o \in Lost
        PROVE  get_metadata(o) \in {Fails("EAGAIN"), Fails("ENOENT")}
    <2>1. ~IsSuffix(t, gone) /\ parse_ls_line(gone) = None
      BY LostIsRead
    <2>2. Output(<<>>, <<gone>>, 1).stdout = <<>> /\ Output(<<>>, <<gone>>, 1).stderr = <<gone>>
      <3> HIDE DEF gone
      <3> QED  BY DEF Output
    <2>3. get_metadata(Output(<<>>, <<gone>>, 1)) = Read(gone)
      BY <2>2, OneLineIsRead
    <2>4. get_metadata(Output(<<>>, <<>>, 255)) = Fails("EAGAIN")
      <3> DEFINE p == Output(<<>>, <<>>, 255)
      <3>1. p.stdout = <<>> /\ p.stderr = <<>>
        BY DEF Output
      <3> HIDE DEF p
      <3>2. get_metadata(p) = Fails("EAGAIN")
        BY <3>1, Zenon DEF get_metadata
      <3> QED  BY <3>2 DEF p
    <2>5. o = Output(<<>>, <<gone>>, 1) \/ o = Output(<<>>, <<>>, 255)
      BY Zenon DEF Lost
    <2> HIDE DEF gone, t
    <2> QED  BY <2>1, <2>3, <2>4, <2>5
  <1>3. FileAt(n) = f
    BY TheFileIsMeant
  <1>4. \/ s.did = "lost" /\ (s.out \in Lost \/ s.out = Printed(Complaint(Path(n), "strange")))
        \/ s \in Shown(n)
    <2> DEFINE L == Lost \cup {Printed(Complaint(Path(n), "strange"))}
    <2>1. s \in Shown(n) \/ s \in [did : {"lost"}, out : L]
      BY Zenon DEF Shows
    <2>2. s \in [did : {"lost"}, out : L] => s.did = "lost" /\ s.out \in L
      <3> HIDE DEF L
      <3> QED  OBVIOUS
    <2> QED  BY <2>1, <2>2
  <1>5. CASE s.did = "lost" /\ s.out \in Lost
    BY <1>2, <1>5
  <1>6. CASE s.did = "lost" /\ s.out = Printed(Complaint(Path(n), "strange"))
    BY <1>1, <1>6
  <1>7. CASE s \in Shown(n)
    <2> DEFINE line == LsLine(f, Path(n), phone.ls)
    <2>1. CASE f = NoFile
      <3>1. s.out = Printed(Complaint(Path(n), "ENOENT"))
        BY <1>3, <1>7, <2>1 DEF Shown
      <3> QED  BY <1>1, <2>1, <3>1
    <2>2. CASE f # NoFile /\ f.denied
      <3>1. s.out = Printed(Complaint(Path(n), "EACCES"))
        BY <1>3, <1>7, <2>2 DEF Shown
      <3> QED  BY <1>1, <2>2, <3>1
    <2>3. CASE f # NoFile /\ ~f.denied
      <3>1. s.out = Output(<<line>>, <<>>, 0)
        BY <1>3, <1>7, <2>3 DEF Shown
      <3>2. s.out.stdout = <<line>>
        <4> HIDE DEF line
        <4> QED  BY <3>1 DEF Output
      <3>3. MayBe(f)
        BY <2>3 DEF FilesInv, HoldsFiles
      <3>4. IsFile(f) /\ (phone.ls.nlink \/ ~IsNum(f.owner)) /\ Err("EACCES") \notin ToSet(f.target)
        BY <3>3, WhatFilesShare
      <3>5. Err("EACCES") \notin ToSet(Path(n))
        BY DEF NoErrorInPaths, Errors
      <3>6. ~IsSuffix(t, line)
        BY <3>4, <3>5, LinesEnd
      <3>7. parse_ls_line(line)
              = IF f.time - Zone < 0 THEN Panic ELSE <<"meta", Metadata(f, phone.ls)>>
        BY <3>4, PathsBegin, LinesAreReadBack
      <3>8. get_metadata(s.out) = Read(line)
        BY <3>2, OneLineIsRead
      <3>9. None # Panic /\ None # <<"meta", Metadata(f, phone.ls)>>
        BY DEF None, Panic
      <3> HIDE DEF line, t
      <3> QED  BY <2>3, <3>2, <3>6, <3>7, <3>8, <3>9 DEF line
    <2> QED  BY <2>1, <2>2, <2>3
  <1> HIDE DEF f, t, gone
  <1> QED  BY <1>4, <1>5, <1>6, <1>7 DEF f

\* What the options make of a file's metadata is what is expected of them.
LEMMA AttrsAreExpected ==
  ASSUME NEW f, IsFile(f)
  PROVE  meta_to_attr(Metadata(f, phone.ls)) = Expected(f)
  <1> DEFINE blank == ""
             all == (1..3) \X {"r", "w", "x"}
             nlink == IF phone.ls.nlink THEN f.nlink ELSE 1
             owner == Resolve(f.owner)
             group == Resolve(f.group)
             size == IF f.type = "-" THEN f.size ELSE 0
             rdev == IF IsDevice(f.type) THEN f.major * 256 + f.minor ELSE 0
             mtime == f.time - Zone
             m == [type |-> f.type, perms |-> f.perms, nlink |-> nlink, uid |-> owner,
                   gid |-> group, size |-> size, rdev |-> rdev, mtime |-> mtime]
             attr == [m EXCEPT !.uid = IF opts.uid = Unset THEN @ ELSE opts.uid,
                               !.gid = IF opts.gid = Unset THEN @ ELSE opts.gid,
                               !.perms = IF opts.umask = Unset THEN @ ELSE all \ opts.umask,
                               !.type = IF @ = blank THEN "-" ELSE @]
  <1>1. f.type # blank
    <2>1. f.type \in Types
      BY DEF IsFile
    <2> QED  BY <2>1, Zenon DEF Types
  <1>2. Metadata(f, phone.ls) = m
    BY Zenon DEF Metadata
  <1>3. meta_to_attr(m) = attr
    <2> HIDE DEF m
    <2> QED  BY Zenon DEF meta_to_attr
  <1>4. Expected(f)
          = [type |-> f.type, perms |-> IF opts.umask = Unset THEN f.perms ELSE all \ opts.umask,
             nlink |-> nlink, uid |-> IF opts.uid = Unset THEN owner ELSE opts.uid,
             gid |-> IF opts.gid = Unset THEN group ELSE opts.gid,
             size |-> size, rdev |-> rdev, mtime |-> mtime]
    BY Zenon DEF Expected
  <1> HIDE DEF blank, all, nlink, owner, group, size, rdev, mtime
  <1> DEFINE perms2 == IF opts.umask = Unset THEN f.perms ELSE all \ opts.umask
             uid2 == IF opts.uid = Unset THEN owner ELSE opts.uid
             gid2 == IF opts.gid = Unset THEN group ELSE opts.gid
             attr2 == [[[[m EXCEPT !.uid = uid2] EXCEPT !.gid = gid2] EXCEPT !.perms = perms2]
                         EXCEPT !.type = f.type]
  <1>5. m.uid = owner /\ m.gid = group /\ m.perms = f.perms /\ m.type = f.type
    OBVIOUS
  <1>6. attr = attr2
    <2> HIDE DEF m
    <2> QED  BY <1>1, <1>5
  <1> HIDE DEF perms2, uid2, gid2, attr
  <1> DEFINE R(p, u, g) == [type |-> f.type, perms |-> p, nlink |-> nlink, uid |-> u, gid |-> g,
                            size |-> size, rdev |-> rdev, mtime |-> mtime]
  <1>7. attr2 = R(perms2, uid2, gid2)
    <2> DEFINE WithUid(x, v) == [x EXCEPT !.uid = v]
               WithGid(x, v) == [x EXCEPT !.gid = v]
               WithPerms(x, v) == [x EXCEPT !.perms = v]
               WithType(x, v) == [x EXCEPT !.type = v]
    <2>1. \A p, u, g, v : WithUid(R(p, u, g), v) = R(p, v, g)
      OBVIOUS
    <2>2. \A p, u, g, v : WithGid(R(p, u, g), v) = R(p, u, v)
      OBVIOUS
    <2>3. \A p, u, g, v : WithPerms(R(p, u, g), v) = R(v, u, g)
      OBVIOUS
    <2>4. \A p, u, g : WithType(R(p, u, g), f.type) = R(p, u, g)
      OBVIOUS
    <2>5. m = R(f.perms, owner, group)
      OBVIOUS
    <2> HIDE DEF R, m
    <2>6. attr2 = WithType(WithPerms(WithGid(WithUid(m, uid2), gid2), perms2), f.type)
      OBVIOUS
    <2> HIDE DEF attr2, WithUid, WithGid, WithPerms, WithType
    <2> QED  BY <2>1, <2>2, <2>3, <2>4, <2>5, <2>6
  <1> HIDE DEF attr2, m
  <1>8. meta_to_attr(Metadata(f, phone.ls)) = attr2
    BY <1>2, <1>3, <1>6
  <1> QED  BY <1>4, <1>7, <1>8 DEF perms2, uid2, gid2

\* An answer to a look at a name is that of Stat or Readlink, all others are of a
\* change or an opendir.
LEMMA WhatIsAnswered ==
  ASSUME OpsInv, NEW w \in Workers, DirRequest(w) \/ DirStep(w)
  PROVE  \/ UNCHANGED last
         \/ last'.op \in Ops \cup {"opendir"}
         \/ \E n \in Names : Stat(w, n) \/ Readlink(w, n)
  <1>1. ASSUME NEW c, c.op \in Ops, NEW did, NEW answer, Changed(w, c, did, answer)
        PROVE  UNCHANGED last \/ last'.op \in Ops
    BY <1>1 DEF Changed, Reply
  <1>2. CASE \E c : c.op \in Ops /\ Mutate(w, c)
    BY <1>1, <1>2 DEF Mutate
  <1>3. CASE RunTouch(w)
    <2>1. call[w].op \in Ops
      BY <1>3 DEF OpsInv, TouchesRun, Ops, RunTouch
    <2> QED  BY <1>1, <1>3, <2>1 DEF RunTouch
  <1>4. CASE Rescan(w)
    <2>1. call[w].op \in Ops
      BY <1>4 DEF OpsInv, RescansFollow, Rescan
    <2>2. UNCHANGED last \/ \E did, answer : Reply(w, call[w], did, NoFile, answer)
      BY <1>4 DEF Rescan
    <2> QED  BY <2>1, <2>2 DEF Reply
  <1>5. CASE OpsRequest(w)
    <2>1. ASSUME NEW op \in Mutations, NEW n, NEW m, Mutate(w, Call(op, n, m, 0))
          PROVE  \E c : c.op \in Ops /\ Mutate(w, c)
      <3>1. Call(op, n, m, 0).op \in Ops
        BY DEF Call, Ops
      <3> QED  BY <2>1, <3>1
    <2>2. {"mkdir", "rm", "rmdir", "mv"} \subseteq Mutations
      BY DEF Mutations
    <2> QED  BY <1>2, <1>5, <2>1, <2>2 DEF OpsRequest, Touch
  <1>6. CASE \E h \in Handles : Opendir(w, h) \/ Readdir(w, h) \/ Releasedir(w, h)
    <2>1. ASSUME NEW h \in Handles, Opendir(w, h) PROVE last'.op = "opendir"
      <3>1. PICK did, answer : Reply(w, Call("opendir", <<>>, <<>>, 0), did, NoFile, answer)
        BY <2>1 DEF Opendir
      <3> QED  BY <3>1 DEF Reply, Call
    <2> QED  BY <1>6, <2>1 DEF Readdir, Releasedir, opsVars
  <1>7. CASE OpsStep(w)
    BY <1>3, <1>4, <1>7 DEF OpsStep, LoadMode, FallBack
  <1> QED  BY <1>5, <1>6, <1>7 DEF DirRequest, DirStep, Beside

\* As many ups are counted as a link is deep.
LEMMA UpsAreCounted ==
  ASSUME NEW E, Mark("..") \in E, Slash \in E, NEW d \in Nat, NEW tail \in Seq(E),
         Mark("..") \notin ToSet(tail)
  PROVE  /\ Cardinality({k \in DOMAIN (Ups(d) \o tail) : (Ups(d) \o tail)[k] = Mark("..")}) = d
         /\ SubSeq(Ups(d) \o tail, 2 * d + 1, Len(Ups(d) \o tail)) = tail
  <1> DEFINE up == Mark("..")
             all == Ups(d)
             text == all \o tail
             S == {k \in DOMAIN text : text[k] = up}
  <1>1. all \in Seq(E) /\ Len(all) = 2 * d /\ \A k \in 1..d : all[2 * k - 1] = up /\ all[2 * k] = Slash
    BY UpsAreThere
  <1> HIDE DEF all
  <1>2. SubSeq(text, 2 * d + 1, Len(text)) = tail
    BY <1>1, Cuts
  <1>3. IsJoin(text, all, tail, E)
    BY <1>1, Joined
  <1>4. up # Slash
    <2>1. Mark("..") # Mark("/")
      BY DEF Mark
    <2> QED  BY <2>1, Zenon DEF Slash
  <1>5. \A k \in 1..Len(tail) : tail[k] # up
    <2>1. \A k \in 1..Len(tail) : tail[k] \in ToSet(tail)
      BY DEF ToSet
    <2> QED  BY <2>1
  <1> HIDE DEF text, up
  <1>6. /\ DOMAIN text = 1..2 * d + Len(tail) /\ Len(tail) \in Nat
        /\ (\A i \in 1..2 * d : text[i] = all[i]) /\ \A j \in 1..Len(tail) : text[2 * d + j] = tail[j]
    BY <1>1, <1>3 DEF IsJoin
  <1>7. \A k \in 1..d : text[2 * k - 1] = up /\ text[2 * k] = Slash
    <2>1. \A k \in 1..d : 2 * k - 1 \in 1..2 * d /\ 2 * k \in 1..2 * d
      OBVIOUS
    <2> QED  BY <1>1, <1>6, <2>1
  <1>8. \A i \in DOMAIN text : i \in S <=> \E k \in 1..d : i = 2 * k - 1
    <2> SUFFICES ASSUME NEW i \in DOMAIN text
                 PROVE  text[i] = up <=> \E k \in 1..d : i = 2 * k - 1
      OBVIOUS
    <2>1. i \in Nat /\ i >= 1 /\ i =< 2 * d + Len(tail)
      BY <1>6
    <2>2. CASE i > 2 * d
      <3>1. i - 2 * d \in 1..Len(tail) /\ 2 * d + (i - 2 * d) = i
        BY <1>6, <2>1, <2>2
      <3>2. text[i] # up
        BY <1>5, <1>6, <3>1
      <3> QED  BY <2>1, <2>2, <3>2
    <2>3. CASE i =< 2 * d
      <3>1. \E k \in 1..d : i = 2 * k - 1 \/ i = 2 * k
        <4>1. i % 2 \in 0..1 /\ i = 2 * (i \div 2) + (i % 2)
          BY <2>1
        <4> DEFINE h == i \div 2
                   e == i % 2
        <4>2. h \in Int /\ e \in 0..1 /\ i = 2 * h + e
          BY <2>1, <4>1
        <4> HIDE DEF h, e
        <4>3. CASE e = 0
          BY <2>1, <2>3, <4>2, <4>3
        <4>4. CASE e = 1
          <5>1. h + 1 \in 1..d /\ i = 2 * (h + 1) - 1
            BY <2>1, <2>3, <4>2, <4>4
          <5> QED  BY <5>1
        <4> QED  BY <4>2, <4>3, <4>4
      <3>2. PICK k \in 1..d : i = 2 * k - 1 \/ i = 2 * k
        BY <3>1
      <3>3. CASE i = 2 * k - 1
        BY <1>7, <3>3
      <3>4. CASE i = 2 * k
        <4>1. \A l \in 1..d : i # 2 * l - 1
          BY <3>4
        <4> QED  BY <1>4, <1>7, <3>4, <4>1
      <3> QED  BY <3>2, <3>3, <3>4
    <2> QED  BY <2>1, <2>2, <2>3
  <1>9. \A k \in 1..d : 2 * k - 1 \in S
    <2> SUFFICES ASSUME NEW k \in 1..d PROVE 2 * k - 1 \in S
      OBVIOUS
    <2>1. 2 * k - 1 \in 1..2 * d + Len(tail)
      BY <1>6
    <2> QED  BY <1>6, <1>7, <2>1
  <1> DEFINE f == [k \in 1..d |-> 2 * k - 1]
  <1>10. S \subseteq DOMAIN text
    OBVIOUS
  <1> HIDE DEF S
  <1>11. f \in Bijection(1..d, S)
    <2>1. f \in [1..d -> S]
      BY <1>9
    <2>2. \A k, l \in 1..d : f[k] = f[l] => k = l
      OBVIOUS
    <2>3. \A i \in S : \E k \in 1..d : f[k] = i
      BY <1>8, <1>10
    <2> HIDE DEF f
    <2> QED  BY <2>1, <2>2, <2>3 DEF Bijection, Injection, Surjection, IsInjective
  <1>12. Cardinality(S) = d
    <2>1. IsFiniteSet(1..d) /\ Cardinality(1..d) = d
      BY FS_Interval
    <2>2. ExistsBijection(1..d, S)
      BY <1>11 DEF ExistsBijection
    <2> QED  BY <2>1, <2>2, FS_Bijection
  <1> QED  BY <1>2, <1>12 DEF S, text, all, up

\* The directory is as deep as it has slashes, and a name has none.
DirIsPlain ==
  /\ Slashes(Dir) = Len(Without(Dir, {Slash}))
  /\ \A n \in Names : Slash \notin ToSet(n)

\* A path has one slash more than the directory.
LEMMA SlashesOfPaths ==
  ASSUME NEW n \in Names, Slash \notin ToSet(n)
  PROVE  Slashes(Dir) \in Nat /\ Slashes(Path(n)) = Slashes(Dir) + 1
  <1> DEFINE E == ToSet(Dir) \cup ToSet(n) \cup {Slash}
             rest == <<Slash>> \o n
             p == Dir \o rest
             d == Len(Dir)
             S == {k \in DOMAIN Dir : Dir[k] = Slash}
             T == {k \in DOMAIN p : p[k] = Slash}
  <1>1. Dir \in Seq(E) /\ n \in Seq(E) /\ <<Slash>> \in Seq(E) /\ Len(<<Slash>>) = 1
    <2>1. Dir \in Seq(ToSet(Dir)) /\ n \in Seq(ToSet(n))
      BY PathsAreTexts
    <2>2. \A X, x : X \subseteq E /\ x \in Seq(X) => x \in Seq(E)
      OBVIOUS
    <2>3. ToSet(Dir) \subseteq E /\ ToSet(n) \subseteq E /\ Slash \in E
      OBVIOUS
    <2> HIDE DEF E
    <2> QED  BY <2>1, <2>2, <2>3
  <1> HIDE DEF E
  <1>2. rest \in Seq(E) /\ Len(n) \in Nat /\ Len(rest) = 1 + Len(n) /\ rest[1] = Slash
        /\ \A j \in 1..Len(n) : rest[1 + j] = n[j]
    <2>1. IsJoin(rest, <<Slash>>, n, E)
      BY <1>1, Joined
    <2> HIDE DEF rest
    <2>2. 1 \in 1..1 /\ <<Slash>>[1] = Slash
      OBVIOUS
    <2> QED  BY <1>1, <2>1, <2>2 DEF IsJoin
  <1>3. Path(n) = p
    BY <1>1, ConcatAssociative DEF Path
  <1> HIDE DEF rest
  <1>4. /\ p \in Seq(E) /\ d \in Nat /\ DOMAIN Dir = 1..d /\ DOMAIN p = 1..d + Len(rest)
        /\ \A i \in 1..d : p[i] = Dir[i]
        /\ \A j \in 1..Len(rest) : p[d + j] = rest[j]
    <2>1. IsJoin(p, Dir, rest, E)
      BY <1>1, <1>2, Joined
    <2>2. d \in Nat /\ DOMAIN Dir = 1..d
      BY <1>1
    <2> HIDE DEF p, d
    <2> QED  BY <2>1, <2>2 DEF IsJoin, d
  <1> HIDE DEF p, d
  <1>5. \A j \in 1..Len(n) : n[j] # Slash
    <2>1. \A j \in 1..Len(n) : n[j] \in ToSet(n)
      BY DEF ToSet
    <2> QED  BY <2>1
  <1>6. \A k \in DOMAIN p : p[k] = Slash <=> k \in S \/ k = d + 1
    <2> SUFFICES ASSUME NEW k \in DOMAIN p PROVE p[k] = Slash <=> k \in S \/ k = d + 1
      OBVIOUS
    <2>1. k \in 1..d + (1 + Len(n))
      BY <1>2, <1>4
    <2>2. CASE k \in 1..d
      BY <1>4, <2>2
    <2>3. CASE k = d + 1
      <3>1. 1 \in 1..Len(rest)
        BY <1>2
      <3> QED  BY <1>2, <1>4, <2>3, <3>1
    <2>4. CASE k > d + 1
      <3> DEFINE j == k - (d + 1)
      <3>1. j \in 1..Len(n) /\ 1 + j \in 1..Len(rest) /\ d + (1 + j) = k
        BY <1>2, <1>4, <2>1, <2>4
      <3> HIDE DEF j
      <3>2. p[k] # Slash
        BY <1>2, <1>4, <1>5, <3>1
      <3>3. k \notin S /\ k # d + 1
        BY <1>4, <2>1, <2>4
      <3> QED  BY <3>2, <3>3
    <2> QED  BY <1>2, <1>4, <2>1, <2>2, <2>3, <2>4
  <1>7. T = S \cup {d + 1} /\ d + 1 \notin S
    <2>1. \A k \in S : k \in DOMAIN p
      BY <1>2, <1>4
    <2>2. d + 1 \in DOMAIN p
      BY <1>2, <1>4
    <2>3. d + 1 \notin S
      BY <1>4
    <2> QED  BY <1>6, <2>1, <2>2, <2>3
  <1>8. IsFiniteSet(S)
    <2>1. IsFiniteSet(1..d)
      BY <1>4, FS_Interval
    <2>2. S \in SUBSET (1..d)
      BY <1>4
    <2> QED  BY <2>1, <2>2, FS_Subset
  <1> HIDE DEF S, T
  <1>9. Cardinality(S) \in Nat /\ Cardinality(T) = Cardinality(S) + 1
    BY <1>7, <1>8, FS_AddElement, FS_CardinalityType
  <1> QED  BY <1>3, <1>9 DEF Slashes, S, T

\* Where an answer leads, from a directory as deep as there are ups.
LEMMA AnswersLead ==
  ASSUME NEW dir, dir \in Seq(ToSet(dir)), NEW target, target \in Seq(ToSet(target)), target # <<>>,
         target[1] = Slash => Mark("..") \notin ToSet(target),
         NEW d \in Nat, d = Len(Without(dir, {Slash})),
         NEW answer, IsAnswer(answer, target, d)
  PROVE  Follow(dir, answer)
           = IF target[1] = Slash THEN Without(target, {Slash}) ELSE Follow(dir, target)
  <1>1. CASE target[1] # Slash
    BY <1>1 DEF IsAnswer
  <1>2. CASE target[1] = Slash
    <2> DEFINE E == ToSet(target) \cup {Mark(".."), Slash}
               parts == Without(dir, {Slash})
    <2>1. PICK m \in 0..Len(target) :
             /\ \A i \in 1..m : target[i] = Slash
             /\ answer = Ups(d) \o SubSeq(target, m + 1, Len(target))
      BY <1>2 DEF IsAnswer
    <2> DEFINE tail == SubSeq(target, m + 1, Len(target))
               ups == Cardinality({k \in DOMAIN answer : answer[k] = Mark("..")})
               rest == Without(SubSeq(answer, 2 * ups + 1, Len(answer)), {Slash})
    <2>2. Mark("..") \in E /\ Slash \in E /\ target \in Seq(E) /\ Len(target) \in Nat
      <3>1. ToSet(target) \subseteq E
        OBVIOUS
      <3> HIDE DEF E
      <3>2. \A X, x : X \subseteq E /\ x \in Seq(X) => x \in Seq(E)
        OBVIOUS
      <3> QED  BY <3>1, <3>2 DEF E
    <2>3. tail \in Seq(E) /\ Mark("..") \notin ToSet(tail)
      <3> DEFINE G == ToSet(target)
      <3>1. \A i \in m + 1..Len(target) : target[i] \in G
        OBVIOUS
      <3>2. m + 1 \in Int /\ Len(target) \in Int
        OBVIOUS
      <3> HIDE DEF G
      <3>3. tail \in Seq(G)
        BY <3>1, <3>2, SubSeqProperties
      <3> HIDE DEF tail
      <3>4. G \subseteq E
        BY DEF G
      <3> HIDE DEF E
      <3>5. \A X, x : X \subseteq E /\ x \in Seq(X) => x \in Seq(E)
        OBVIOUS
      <3>6. ToSet(tail) \subseteq G
        BY <3>3 DEF ToSet
      <3> QED  BY <1>2, <3>3, <3>4, <3>5, <3>6 DEF G
    <2>4. Without(tail, {Slash}) = Without(target, {Slash})
      <3>1. \A i \in 1..m : target[i] \in {Slash}
        BY <2>1
      <3> HIDE DEF E
      <3> QED  BY <2>2, <3>1, BeginningsGo
    <2> HIDE DEF tail, E
    <2>5. ups = d /\ SubSeq(answer, 2 * d + 1, Len(answer)) = tail
      <3>1. answer = Ups(d) \o tail
        BY <2>1 DEF tail
      <3> QED  BY <2>2, <2>3, <3>1, UpsAreCounted
    <2> HIDE DEF ups
    <2>6. rest = Without(target, {Slash})
      BY <2>4, <2>5
    <2>7. rest \in Seq(E)
      BY <2>2, <2>6, WithoutIsASeq
    <2>8. SubSeq(parts, 1, Len(parts) - d) = <<>>
      <3> DEFINE s == SubSeq(parts, 1, 0)
      <3>1. Len(parts) - d = 0
        OBVIOUS
      <3>2. s \in Seq({}) /\ Len(s) = 0
        <4> HIDE DEF parts
        <4>1. \A i \in 1..0 : parts[i] \in {}
          OBVIOUS
        <4> QED  BY <4>1, SubSeqProperties
      <3> HIDE DEF s, parts
      <3>3. s = <<>>
        BY <3>2
      <3> QED  BY <3>1, <3>3 DEF s
    <2>9. Follow(dir, answer)
            = IF ups > Len(parts) THEN NoText ELSE SubSeq(parts, 1, Len(parts) - ups) \o rest
      BY Zenon DEF Follow, ups
    <2> HIDE DEF rest, parts
    <2>10. Follow(dir, answer) = <<>> \o rest
      <3>1. Len(parts) = d
        BY DEF parts
      <3>2. ~ (d > d)
        OBVIOUS
      <3> QED  BY <2>5, <2>8, <2>9, <3>1, <3>2
    <2>11. <<>> \o rest = rest
      BY <2>7
    <2> QED  BY <1>2, <2>6, <2>10, <2>11
  <1> QED  BY <1>1, <1>2

\* A link is told as where it leads.
LEMMA ReadlinksAreTrue ==
  ASSUME FilesInv, NoErrorInPaths, NoErrorInTargets, phone.ls.nlink \/ OwnersHaveNames,
         LinksArePlain, DirIsPlain, NEW w \in Workers, NEW n \in Names, Mark("->") \notin ToSet(Path(n)),
         Readlink(w, n)
  PROVE  LinksResolve'
  <1> DEFINE f == files[n]
             meta == Metadata(f, phone.ls)
             c == Call("readlink", n, <<>>, 0)
  <1>1. f # NoFile /\ f.type = "l"
    BY DEF Readlink
  <1>2. PICK s \in Shows(n) :
          LET r == get_metadata(s.out)
              target == parse_symlink_target(Head(s.out.stdout), Slashes(Path(n)))
          IN Reply(w, c, s.did, f,
                   IF r[1] # "meta" THEN r ELSE IF target = NoText THEN Fails("ENOSYS") ELSE <<"target", target>>)
    BY Zenon DEF Readlink
  <1> DEFINE r == get_metadata(s.out)
             target == parse_symlink_target(Head(s.out.stdout), Slashes(Path(n)))
             answer == IF r[1] # "meta" THEN r
                       ELSE IF target = NoText THEN Fails("ENOSYS") ELSE <<"target", target>>
             line == LsLine(f, Path(n), phone.ls)
  <1>3. last'.was = f /\ last'.answer = answer
    BY <1>2 DEF Reply
  <1>4. \/ r \in {Fails("EAGAIN"), Fails("ENOENT"), Fails("EACCES"), Panic}
        \/ s.out.stdout = <<line>> /\ r = <<"meta", meta>>
    BY WhatLooksSay
  <1>5. /\ \A x : Fails(x)[1] = "errno" /\ <<"meta", x>>[1] = "meta" 
        /\ \A x : <<"target", x>>[1] = "target" /\ <<"target", x>>[2] = x
        /\ \A x, y : <<"target", x>> # Fails(y)
        /\ Panic[1] = "panic" /\ \A x : Panic # Fails(x)
        /\ Fails("EAGAIN") # Fails("ENOSYS") /\ Fails("EACCES") # Fails("ENOSYS")
        /\ Fails("ENOENT") # Fails("ENOSYS")
    BY DEF Fails, Panic
  <1>6. IsFile(f) /\ LinkIsPlain(f)
    BY <1>1, WhatFilesShare DEF FilesInv, HoldsFiles
  <1> DEFINE d == Slashes(Dir)
  <1>7. d \in Nat /\ d = Len(Without(Dir, {Slash})) /\ Depth(Slashes(Path(n))) = d
    <2>1. Slashes(Dir) \in Nat /\ Slashes(Path(n)) = Slashes(Dir) + 1
      BY SlashesOfPaths DEF DirIsPlain
    <2> QED  BY <2>1 DEF DirIsPlain, Depth
  <1> HIDE DEF r, meta, f, d
  <1>8. ASSUME s.out.stdout = <<line>>
        PROVE  target # NoText /\ IsAnswer(target, f.target, d)
    <2>1. Head(s.out.stdout) = line
      <3> HIDE DEF line
      <3> QED  BY <1>8
    <2>2. Path(n) \in Seq(ToSet(Path(n)))
      BY PathsBegin
    <2>3. /\ f.target # <<>> /\ None \notin ToSet(f.target)
          /\ Mark("->") \notin ToSet(Path(n)) \cup ToSet(f.owner) \cup ToSet(f.group)
      BY <1>1, <1>6 DEF LinkIsPlain
    <2>5. Slashes(Path(n)) \in Nat
      BY SlashesOfPaths DEF DirIsPlain
    <2>4. /\ parse_symlink_target(line, Slashes(Path(n))) # NoText
          /\ IsAnswer(parse_symlink_target(line, Slashes(Path(n))), f.target, Depth(Slashes(Path(n))))
      BY <1>1, <1>6, <2>2, <2>3, <2>5, TargetsAreRead
    <2> QED  BY <1>7, <2>1, <2>4
  <1> HIDE DEF target
  <1>9. /\ answer # Fails("ENOSYS")
        /\ answer[1] = "target" => IsAnswer(answer[2], f.target, d)
    <2>1. CASE r \in {Fails("EAGAIN"), Fails("ENOENT"), Fails("EACCES"), Panic}
      BY <1>5, <2>1
    <2>2. CASE s.out.stdout = <<line>> /\ r = <<"meta", meta>>
      BY <1>5, <1>8, <2>2
    <2> QED  BY <1>4, <2>1, <2>2
  <1> HIDE DEF answer
  <1>10. ASSUME NEW x, IsAnswer(x, f.target, d)
         PROVE  Follow(Dir, x) = IF f.target[1] = Slash THEN Without(f.target, {Slash}) ELSE Follow(Dir, f.target)
    <2>1. Dir \in Seq(ToSet(Dir)) /\ f.target \in Seq(ToSet(f.target))
      BY <1>6, PathsAreTexts DEF IsFile
    <2>2. f.target # <<>> /\ (f.target[1] = Slash => Mark("..") \notin ToSet(f.target))
      BY <1>1, <1>6 DEF LinkIsPlain
    <2> QED  BY <1>7, <1>10, <2>1, <2>2, AnswersLead
  <1> QED  BY <1>3, <1>9, <1>10 DEF LinksResolve

\* A stat tells the truth.
LEMMA StatsAreTrue ==
  ASSUME FilesInv, NoErrorInPaths, NoErrorInTargets, phone.ls.nlink \/ OwnersHaveNames,
         NEW w \in Workers, NEW n \in Names, Stat(w, n)
  PROVE  StatTellsTruth'
  <1> DEFINE f == files[n]
             meta == Metadata(f, phone.ls)
  <1>1. PICK s \in Shows(n) :
          LET r == get_metadata(s.out) IN
          Reply(w, Call("stat", n, <<>>, 0), s.did, f, IF r[1] = "meta" THEN <<"attr", meta_to_attr(r[2])>> ELSE r)
    BY DEF Stat
  <1> DEFINE r == get_metadata(s.out)
             answer == IF r[1] = "meta" THEN <<"attr", meta_to_attr(r[2])>> ELSE r
  <1>2. last'.done = s.did /\ last'.was = f /\ last'.answer = answer
    BY <1>1 DEF Reply
  <1>3. \A m : Expected(m)' = Expected(m)
    BY DEF Stat, Expected
  <1>4. \/ s.did = "lost" /\ r \in {Fails("EAGAIN"), Fails("ENOENT")}
        \/ f = NoFile /\ r = Fails("ENOENT")
        \/ f # NoFile /\ f.denied /\ r = Fails("EACCES")
        \/ f # NoFile /\ ~f.denied /\ r \in {Panic, <<"meta", meta>>}
    BY WhatLooksSay
  <1>5. ASSUME f # NoFile PROVE meta_to_attr(meta) = Expected(f)
    <2>1. IsFile(f)
      BY <1>5, FilesThereMayBe DEF FilesInv, HoldsFiles
    <2> QED  BY <2>1, AttrsAreExpected
  <1>6. /\ \A x : Fails(x)[1] = "errno" /\ <<"meta", x>>[1] = "meta" /\ <<"meta", x>>[2] = x
        /\ \A x, y : <<"attr", x>>[1] = "attr" /\ <<"attr", x>>[2] = x /\ <<"attr", x>> # Fails(y)
        /\ Panic[1] = "panic" /\ \A x : Panic # Fails(x)
        /\ Fails("EAGAIN") # Fails("ENOENT") /\ Fails("EAGAIN") # Fails("EACCES")
        /\ Fails("ENOENT") # Fails("EACCES")
    BY DEF Fails, Panic
  <1> HIDE DEF r, meta, f
  <1>7. /\ answer[1] = "attr" => f # NoFile /\ answer[2] = Expected(f)
        /\ answer = Fails("ENOENT") => f = NoFile \/ s.did = "lost"
        /\ answer = Fails("EACCES") => f # NoFile /\ f.denied
    <2>1. CASE s.did = "lost" /\ r \in {Fails("EAGAIN"), Fails("ENOENT")}
      BY <1>6, <2>1
    <2>2. CASE f = NoFile /\ r = Fails("ENOENT")
      BY <1>6, <2>2
    <2>3. CASE f # NoFile /\ f.denied /\ r = Fails("EACCES")
      BY <1>6, <2>3
    <2>4. CASE f # NoFile /\ ~f.denied /\ r = Panic
      BY <1>6, <2>4
    <2>5. CASE f # NoFile /\ ~f.denied /\ r = <<"meta", meta>>
      BY <1>5, <1>6, <2>5
    <2> QED  BY <1>4, <2>1, <2>2, <2>3, <2>4, <2>5
  <1> HIDE DEF answer
  <1> QED  BY <1>2, <1>3, <1>7 DEF StatTellsTruth

------------------------------------------------------------------------------
(***************************************************************************)
(* Listings.                                                               *)
(***************************************************************************)

\* A name that is not blank and not one that ls puts there, and in which there is
\* nothing that list_dir takes for the end of one: no slash, no arrow, and no quote
\* before a blank.
NameIsPlain(n) ==
  /\ ToSet(n) \ {Space} # {} /\ n \notin {NoText, Dot("."), Dot("..")}
  /\ Slash \notin ToSet(n) /\ Mark("->") \notin ToSet(n)
  /\ \A k \in 1..Len(Path(n)) - 1 : ~(Path(n)[k] = Quote /\ Path(n)[k + 1] = Space)

\* A path is the directory, a slash and the name.
LEMMA PathsInParts ==
  ASSUME NEW n \in Names
  PROVE  LET d == Len(Dir)
             p == Path(n)
         IN /\ d \in Nat /\ Len(n) \in Nat /\ p \in Seq(ToSet(p)) /\ Len(p) = d + 1 + Len(n)
            /\ p[d + 1] = Slash /\ \A i \in 1..Len(n) : p[d + 1 + i] = n[i]
  <1> DEFINE E == ToSet(Dir) \cup ToSet(n) \cup {Slash}
             one == <<Slash>>
             q == Dir \o one
             p == Path(n)
             d == Len(Dir)
             m == Len(n)
  <1>1. Dir \in Seq(E) /\ n \in Seq(E) /\ one \in Seq(E) /\ Len(one) = 1 /\ one[1] = Slash
    <2>1. Dir \in Seq(ToSet(Dir)) /\ n \in Seq(ToSet(n))
      BY PathsAreTexts
    <2>2. \A S, x : S \subseteq E /\ x \in Seq(S) => x \in Seq(E)
      OBVIOUS
    <2>3. ToSet(Dir) \subseteq E /\ ToSet(n) \subseteq E /\ Slash \in E
      OBVIOUS
    <2> HIDE DEF E
    <2> QED  BY <2>1, <2>2, <2>3
  <1> HIDE DEF E, one
  <1>2. IsJoin(q, Dir, one, E)
    BY <1>1, Joined
  <1>3. q \in Seq(E)
    BY <1>2 DEF IsJoin
  <1>4. p = q \o n
    BY DEF Path, one
  <1> HIDE DEF q, p
  <1>5. IsJoin(p, q, n, E)
    BY <1>1, <1>3, <1>4, Joined
  <1>6. /\ d \in Nat /\ Len(q) = d + 1 /\ \A j \in 1..1 : q[d + j] = one[j]
    BY <1>1, <1>2 DEF IsJoin
  <1>7. /\ m \in Nat /\ Len(p) = Len(q) + m
        /\ (\A i \in 1..Len(q) : p[i] = q[i]) /\ \A j \in 1..m : p[Len(q) + j] = n[j]
    BY <1>5 DEF IsJoin
  <1> HIDE DEF d, m
  <1>8. 1 \in 1..1 /\ d + 1 \in 1..Len(q)
    BY <1>6
  <1>9. p[d + 1] = Slash
    BY <1>1, <1>6, <1>7, <1>8
  <1>10. p \in Seq(ToSet(p))
    BY PathIsAText DEF p
  <1> QED  BY <1>6, <1>7, <1>9, <1>10 DEF d, m, p

\* The name of a file that ls may not look at is read off the message
\* (extract_name_from_perm_error).
LEMMA DeniedNamesAreRead ==
  ASSUME NEW n \in Names, NameIsPlain(n)
  PROVE  EntryOf(LstatFailed(n)) = <<n, None>>
  <1> DEFINE p == Path(n)
             d == Len(Dir)
             m == Len(n)
             colon == Mark(":")
             err == Err("EACCES")
             lstat == Word("lstat")
             failed == Word("failed")
             h == <<lstat, Space, Quote>>
             t == <<Quote, Space, failed, colon, Space, err>>
             E == ToSet(p) \cup {lstat, Space, Quote, failed, colon, err}
             rest == p \o t
             line == LstatFailed(n)
             N == Len(line)
             k == d + 4
             end == d + m + 5
  <1>1. /\ d \in Nat /\ m \in Nat /\ p \in Seq(ToSet(p)) /\ Len(p) = d + 1 + m
        /\ p[d + 1] = Slash /\ \A i \in 1..m : p[d + 1 + i] = n[i]
    BY PathsInParts
  <1>2. p[1] # Space
    BY PathsBegin
  <1>3. /\ Slash \notin {lstat, Space, Quote, failed, colon, err} /\ lstat # Quote /\ Quote # Space
        /\ lstat[1] # "mode"
    <2>1. \A x, y : Word(x) # Mark(y) /\ Err(x) # Mark(y) /\ Word(x)[1] # "mode" /\ Mark(x) # Space
                    /\ (Mark(x) = Mark(y) => x = y)
      BY PiecesDiffer DEF Word, Err, Mark
    <2>2. "/" # "'" /\ "/" # ":"
      BY Zenon
    <2> QED  BY <2>1, <2>2, Zenon DEF Slash, Quote
  <1>4. \A i \in 1..m : n[i] # Slash
    <2>1. Slash \notin ToSet(n) /\ n \in Seq(ToSet(n))
      BY PathsAreTexts DEF NameIsPlain
    <2>2. \A i \in 1..m : n[i] \in ToSet(n)
      BY <2>1
    <2> QED  BY <2>1, <2>2
  <1>5. \A i \in 1..Len(p) - 1 : ~(p[i] = Quote /\ p[i + 1] = Space)
    BY DEF NameIsPlain
  <1>6. line = h \o p \o t
    BY Zenon DEF LstatFailed
  <1> HIDE DEF p, d, m, colon, err, lstat, failed, line, N
  <1>7. /\ h \in Seq(E) /\ Len(h) = 3 /\ h[1] = lstat /\ h[2] = Space /\ h[3] = Quote
        /\ t \in Seq(E) /\ Len(t) = 6 /\ t[1] = Quote /\ t[2] = Space /\ t[3] = failed /\ t[4] = colon
        /\ t[5] = Space /\ t[6] = err
    OBVIOUS
  <1>8. p \in Seq(E)
    <2>1. ToSet(p) \subseteq E /\ \A S, x : S \subseteq E /\ x \in Seq(S) => x \in Seq(E)
      OBVIOUS
    <2> HIDE DEF E
    <2> QED  BY <1>1, <2>1
  <1> HIDE DEF E, h, t
  <1>9. line = h \o rest
    <2>1. \A a, b, c \in Seq(E) : a \o b \o c = a \o (b \o c)
      BY ConcatAssociative
    <2> QED  BY <1>6, <1>7, <1>8, <2>1
  <1>10. IsJoin(rest, p, t, E)
    BY <1>7, <1>8, Joined
  <1>11. rest \in Seq(E)
    BY <1>10 DEF IsJoin
  <1> HIDE DEF rest
  <1>12. IsJoin(line, h, rest, E)
    BY <1>7, <1>9, <1>11, Joined
  <1>13. /\ line \in Seq(E) /\ N \in Nat /\ N = d + m + 10
         /\ line[1] = lstat /\ line[2] = Space /\ line[3] = Quote
         /\ \A i \in 1..d + 1 + m : line[3 + i] = p[i]
         /\ \A j \in 1..6 : line[3 + (d + 1 + m + j)] = t[j]
    <2>1. /\ Len(rest) = Len(p) + 6 /\ (\A i \in 1..Len(p) : rest[i] = p[i])
          /\ \A j \in 1..6 : rest[Len(p) + j] = t[j]
      BY <1>7, <1>10 DEF IsJoin
    <2>2. /\ line \in Seq(E) /\ N = 3 + Len(rest)
          /\ (\A i \in 1..3 : line[i] = h[i]) /\ \A j \in 1..Len(rest) : line[3 + j] = rest[j]
      BY <1>7, <1>12 DEF IsJoin, N
    <2>3. /\ 1 \in 1..3 /\ 2 \in 1..3 /\ 3 \in 1..3 /\ N \in Nat /\ N = d + m + 10
          /\ (\A i \in 1..d + 1 + m : i \in 1..Len(rest) /\ i \in 1..Len(p))
          /\ \A j \in 1..6 : d + 1 + m + j \in 1..Len(rest)
      BY <1>1, <2>1, <2>2
    <2>4. ASSUME NEW j \in 1..6 PROVE line[3 + (d + 1 + m + j)] = t[j]
      <3> DEFINE i == d + 1 + m + j
      <3>1. i \in 1..Len(rest) /\ Len(p) + j = i
        BY <1>1, <2>3
      <3> HIDE DEF i
      <3>2. line[3 + i] = rest[i] /\ rest[i] = t[j]
        BY <2>1, <2>2, <3>1
      <3> QED  BY <3>2 DEF i
    <2>5. ASSUME NEW i \in 1..d + 1 + m PROVE line[3 + i] = p[i]
      BY <2>1, <2>2, <2>3
    <2> QED  BY <1>7, <2>2, <2>3, <2>4, <2>5
  <1>14. /\ k \in 1..N /\ line[k] = Slash
         /\ (\A i \in 1..N : line[i] = Slash => i =< k)
         /\ \A i \in 1..m : line[k + i] = n[i]
    <2>1. k \in 1..N /\ 3 + (d + 1) = k /\ d + 1 \in 1..d + 1 + m
          /\ \A i \in 1..m : 3 + (d + 1 + i) = k + i /\ d + 1 + i \in 1..d + 1 + m
      BY <1>1, <1>13
    <2> HIDE DEF k
    <2>2. \A i \in 1..m : line[k + i] = n[i]
      BY <1>1, <1>13, <2>1
    <2>3. ASSUME NEW i \in 1..N, i > k PROVE line[i] # Slash
      <3>1. CASE i =< k + m
        <4>1. PICK j \in 1..m : i = k + j
          <5>1. i - k \in 1..m /\ i = k + (i - k)
            BY <1>1, <1>13, <2>1, <2>3, <3>1
          <5> QED  BY <5>1
        <4> QED  BY <1>4, <2>2, <4>1
      <3>2. CASE i > k + m
        <4>1. PICK j \in 1..6 : i = 3 + (d + 1 + m + j)
          <5>1. i - (k + m) \in 1..6 /\ i = 3 + (d + 1 + m + (i - (k + m)))
            BY <1>1, <1>13, <2>1, <3>2
          <5> QED  BY <5>1
        <4>2. line[i] = t[j]
          BY <1>13, <4>1
        <4>3. j \in {1, 2, 3, 4, 5, 6}
          OBVIOUS
        <4> QED  BY <1>3, <1>7, <4>2, <4>3
      <3> QED  BY <1>1, <1>13, <2>1, <3>1, <3>2
    <2>4. line[k] = Slash
      BY <1>1, <1>13, <2>1
    <2>5. \A i \in 1..N : line[i] = Slash => i =< k
      BY <1>1, <1>13, <2>1, <2>3
    <2> QED  BY <2>1, <2>2, <2>4, <2>5
  <1>15. /\ end \in 1..N - 1 /\ line[end] = Quote /\ line[end + 1] = Space
         /\ \A j \in 1..end - 1 : ~(line[j] = Quote /\ line[j + 1] = Space)
    <2>1. /\ end \in 1..N - 1 /\ 3 + (d + 1 + m + 1) = end /\ 3 + (d + 1 + m + 2) = end + 1
          /\ 1 \in 1..6 /\ 2 \in 1..6
      BY <1>1, <1>13
    <2> HIDE DEF end
    <2>2. line[end] = Quote /\ line[end + 1] = Space
      BY <1>7, <1>13, <2>1
    <2>3. ASSUME NEW j \in 1..end - 1, line[j] = Quote, line[j + 1] = Space PROVE FALSE
      <3>1. j # 1 /\ j # 2
        BY <1>3, <1>13, <2>3
      <3>2. CASE j = 3
        <4>1. line[3 + 1] = p[1]
          <5>1. 1 \in 1..d + 1 + m
            BY <1>1
          <5> QED  BY <1>13, <5>1
        <4> QED  BY <1>2, <2>3, <3>2, <4>1
      <3>3. CASE j > 3 /\ j < end - 1
        <4> DEFINE i == j - 3
        <4>1. i \in 1..Len(p) - 1 /\ i \in 1..d + 1 + m /\ i + 1 \in 1..d + 1 + m
              /\ 3 + i = j /\ 3 + (i + 1) = j + 1
          BY <1>1, <2>1, <3>3
        <4> HIDE DEF i
        <4>2. line[j] = p[i] /\ line[j + 1] = p[i + 1]
          BY <1>13, <4>1
        <4> QED  BY <1>5, <2>3, <4>1, <4>2
      <3>4. CASE j = end - 1
        <4>1. j + 1 = end
          BY <2>1, <3>4
        <4> QED  BY <1>3, <2>2, <2>3, <4>1
      <3>5. j = 3 \/ (j > 3 /\ j < end - 1) \/ j = end - 1
        BY <2>1, <3>1
      <3> QED  BY <3>2, <3>3, <3>4, <3>5
    <2> QED  BY <2>1, <2>2, <2>3
  <1>16. Position(line, <<Quote, Space>>) = end
    <2> HIDE DEF end
    <2>1. /\ line \in Seq(E)
          /\ end \in 1..Len(line) - 1 /\ line[end] = Quote /\ line[end + 1] = Space
          /\ \A j \in 1..end - 1 : ~(line[j] = Quote /\ line[j + 1] = Space)
      BY <1>13, <1>15, Zenon DEF N
    <2> DEFINE q == Quote
               sp == Space
    <2> HIDE DEF q, sp
    <2>2. /\ line \in Seq(E)
          /\ end \in 1..Len(line) - 1 /\ line[end] = q /\ line[end + 1] = sp
          /\ \A j \in 1..end - 1 : ~(line[j] = q /\ line[j + 1] = sp)
      BY <2>1, Zenon DEF q, sp
    <2>3. Position(line, <<q, sp>>) = end
      BY <2>2, FirstPair
    <2> QED  BY <2>3, Zenon DEF q, sp
  <1>17. SelectLastInSeq(line, LAMBDA x : x = Slash) = k
    <2> DEFINE I == {i \in 1..Len(line) : line[i] = Slash}
    <2> HIDE DEF k
    <2>1. k \in I /\ I \in SUBSET (1..N) /\ \A i \in I : i =< k
      BY <1>14 DEF N
    <2>2. SelectLastInSeq(line, LAMBDA x : x = Slash) = IF I # {} THEN Max(I) ELSE 0
      BY DEF SelectLastInSeq
    <2> HIDE DEF I
    <2>3. Max(I) \in I /\ \A i \in I : i =< Max(I)
      BY <1>13, <2>1, GreatestIsThere
    <2>4. Max(I) = k
      <3> DEFINE top == Max(I)
      <3>1. \A i \in 1..N : i \in Nat
        BY <1>13
      <3> HIDE DEF top
      <3>2. top \in Nat /\ k \in Nat /\ top =< k /\ k =< top
        BY <2>1, <2>3, <3>1 DEF top
      <3> QED  BY <3>2 DEF top
    <2> QED  BY <2>1, <2>2, <2>4
  <1>18. SubSeq(line, k + 1, end - 1) = n
    <2> DEFINE w == SubSeq(line, k + 1, end - 1)
    <2>1. /\ k + 1 \in Int /\ end - 1 \in Int /\ (\A i \in k + 1..end - 1 : i \in 1..N)
          /\ (k + 1 <= end - 1 <=> 1 <= m) /\ end - 1 - (k + 1) + 1 = m
          /\ \A i \in 1..m : k + 1 + i - 1 = k + i
      BY <1>1, <1>13
    <2>2. \A i \in 1..N : line[i] \in E
      BY <1>13 DEF N
    <2>3. n \in Seq(E) /\ Len(n) = m
      <3>1. n \in Seq(ToSet(n)) /\ \A i \in 1..m : n[i] \in E
        <4>1. \A i \in 1..m : d + 1 + i \in 1..Len(p)
          BY <1>1
        <4>2. \A i \in 1..m : p[d + 1 + i] \in E
          BY <1>8, <4>1
        <4> QED  BY <1>1, <4>2, PathsAreTexts
      <3> QED  BY <3>1 DEF m
    <2> HIDE DEF end, k
    <2>4. \A i \in k + 1..end - 1 : line[i] \in E
      BY <2>1, <2>2
    <2>5. w \in Seq(E) /\ Len(w) = (IF k + 1 <= end - 1 THEN end - 1 - (k + 1) + 1 ELSE 0)
          /\ \A i \in 1..end - 1 - (k + 1) + 1 : w[i] = line[k + 1 + i - 1]
      BY <2>1, <2>4, SubSeqProperties
    <2> HIDE DEF w
    <2>6. Len(w) = m
      BY <1>1, <2>1, <2>5
    <2>7. \A i \in 1..m : w[i] = n[i]
      BY <1>14, <2>1, <2>5
    <2>8. w = n
      BY <2>3, <2>5, <2>6, <2>7, SeqEqual
    <2> QED  BY <2>8 DEF w
  <1>19. ~is_valid_ls_output(line) /\ Last(line) = err
    <2>1. line[1] = lstat
      BY <1>13
    <2>2. line[N] = err
      <3>1. 6 \in 1..6 /\ 3 + (d + 1 + m + 6) = N
        BY <1>1, <1>13
      <3> QED  BY <1>7, <1>13, <3>1
    <2> QED  BY <1>3, <2>1, <2>2 DEF is_valid_ls_output, Last, N
  <1>20. k # 0 /\ end # 0 /\ ~(end < k)
    BY <1>1
  <1> HIDE DEF k, end
  <1>21. extract_name_from_perm_error(line) = n
    <2>1. extract_name_from_perm_error(line)
            = IF k = 0 \/ end = 0 \/ end < k THEN NoText ELSE SubSeq(line, k + 1, end - 1)
      BY <1>16, <1>17 DEF extract_name_from_perm_error
    <2> QED  BY <1>18, <1>20, <2>1
  <1> QED  BY <1>19, <1>21 DEF EntryOf, line, err

\* A finite set in some order: each element once.
LEMMA SetsInOrder ==
  ASSUME NEW S, IsFiniteSet(S)
  PROVE  SetToSeq(S) \in Seq(S) /\ IsInjective(SetToSeq(S)) /\ ToSet(SetToSeq(S)) = S
  <1> DEFINE n == Cardinality(S)
             s == SetToSeq(S)
  <1>1. n \in Nat /\ Bijection(1..n, S) # {}
    BY FS_CardinalityType DEF ExistsBijection
  <1>2. \A f \in Bijection(1..n, S) : f \in [1..n -> S] /\ IsInjective(f)
    BY DEF Bijection, Injection, IsInjective
  <1>3. s \in [1..n -> S] /\ IsInjective(s)
    <2>1. \E f \in [1..n -> S] : IsInjective(f)
      BY <1>1, <1>2
    <2> HIDE DEF n
    <2> QED  BY <2>1 DEF SetToSeq, n
  <1>4. IsFiniteSet(1..n) /\ Cardinality(1..n) = n
    <2>1. 1 \in Int /\ n \in Int /\ 1 <= n + 1 /\ n - 1 + 1 = n
      BY <1>1
    <2> HIDE DEF n
    <2> QED  BY <1>1, <2>1, FS_Interval
  <1> HIDE DEF n, s
  <1>5. s \in Injection(1..n, S)
    BY <1>3 DEF Injection, IsInjective
  <1>6. s \in Surjection(1..n, S)
    BY <1>4, <1>5, FS_Injection DEF n
  <1>7. \A e \in S : \E i \in 1..n : s[i] = e
    BY <1>6 DEF Surjection
  <1>8. s \in Seq(S) /\ DOMAIN s = 1..n
    BY <1>1, <1>3
  <1>9. ToSet(s) = S
    BY <1>3, <1>7, <1>8 DEF ToSet
  <1> QED  BY <1>3, <1>8, <1>9 DEF s

(***************************************************************************)
(* The files there are, and those that `ls` names on stdout, in its order. *)
(***************************************************************************)
NamesThere == {n \in Names : files[n] # NoFile}

NamesShown ==
  LET names == SetToSeq(NamesThere)
  IN IF phone.v2 THEN Without(names, {n \in ToSet(names) : files[n].denied}) ELSE names

\* It names each file once, if it may look at it or tells it on stdout that it may not.
LEMMA FilesAreNamed ==
  /\ NamesShown \in Seq(NamesThere) /\ IsInjective(NamesShown)
  /\ ToSet(NamesShown) = {n \in NamesThere : ~(phone.v2 /\ files[n].denied)}
  <1> DEFINE S == NamesThere
             s == SetToSeq(S)
             set == {n \in ToSet(s) : files[n].denied}
  <1>1. IsFiniteSet(S)
    BY NamesAreFinite, FS_Subset DEF NamesThere
  <1> HIDE DEF S
  <1>2. s \in Seq(S) /\ IsInjective(s) /\ ToSet(s) = S
    BY <1>1, SetsInOrder
  <1>3. NamesShown = IF phone.v2 THEN Without(s, set) ELSE s
    BY DEF NamesShown, S
  <1> HIDE DEF s
  <1>4. \A i, j \in 1..Len(s) : s[i] \notin set /\ s[i] = s[j] => i = j
    BY <1>2 DEF IsInjective
  <1> HIDE DEF set
  <1>5. ToSet(Without(s, set)) = ToSet(s) \ set /\ IsInjective(Without(s, set))
    BY <1>2, <1>4, EachOnce
  <1>6. Without(s, set) \in Seq(S)
    BY <1>2, WithoutIsASeq
  <1>7. S \ set = {n \in S : ~files[n].denied}
    BY <1>2 DEF set
  <1> QED  BY <1>2, <1>3, <1>5, <1>6, <1>7 DEF S

\* Its lines: the total, the directory and the one above, and the files.
LEMMA LinesOfAListing ==
  LET t == Listing.stdout
      s == NamesShown
  IN /\ Len(s) \in Nat /\ Len(t) = 3 + Len(s)
     /\ \E E : t \in Seq(E)
     /\ t[1] = <<Word("total"), Space, Num(0)>>
     /\ t[2] = LsLine(Self, Dot("."), phone.ls) /\ t[3] = LsLine(Self, Dot(".."), phone.ls)
     /\ \A k \in 1..Len(s) : t[3 + k] = LineOf(s[k])
  <1> DEFINE a == <<Word("total"), Space, Num(0)>>
             b == LsLine(Self, Dot("."), phone.ls)
             c == LsLine(Self, Dot(".."), phone.ls)
             s == NamesShown
             h == <<a, b, c>>
             w == [k \in 1..Len(s) |-> LineOf(s[k])]
             t == Listing.stdout
             E == {a, b, c} \cup {LineOf(n) : n \in NamesThere}
  <1>1. t = h \o w
    <2> HIDE DEF a, b, c
    <2>1. t = <<a, b, c>> \o w
      BY Zenon DEF Listing, Output, NamesShown, NamesThere, a, b, c
    <2> QED  BY <2>1
  <1>2. Len(s) \in Nat /\ s \in Seq(NamesThere)
    BY FilesAreNamed
  <1> HIDE DEF a, b, c, s
  <1>3. h \in Seq(E) /\ Len(h) = 3 /\ h[1] = a /\ h[2] = b /\ h[3] = c
    OBVIOUS
  <1>4. w \in Seq(E) /\ Len(w) = Len(s) /\ \A k \in 1..Len(s) : w[k] = LineOf(s[k])
    <2>1. \A k \in 1..Len(s) : s[k] \in NamesThere
      BY <1>2
    <2>2. \A k \in 1..Len(s) : LineOf(s[k]) \in E
      BY <2>1
    <2> HIDE DEF E
    <2> QED  BY <1>2, <2>2
  <1> HIDE DEF E, h, w, t
  <1>5. IsJoin(t, h, w, E)
    BY <1>1, <1>3, <1>4, Joined
  <1>6. /\ t \in Seq(E) /\ Len(t) = 3 + Len(s)
        /\ (\A i \in 1..3 : t[i] = h[i]) /\ \A k \in 1..Len(s) : t[3 + k] = w[k]
    BY <1>3, <1>4, <1>5 DEF IsJoin
  <1>7. t[1] = a /\ t[2] = b /\ t[3] = c
    <2>1. 1 \in 1..3 /\ 2 \in 1..3 /\ 3 \in 1..3
      OBVIOUS
    <2> QED  BY <1>3, <1>6, <2>1
  <1>8. \A k \in 1..Len(s) : t[3 + k] = LineOf(s[k])
    BY <1>4, <1>6
  <1> QED  BY <1>2, <1>6, <1>7, <1>8, Zenon DEF a, b, c, s, t

NamesArePlain == \A n \in Names : NameIsPlain(n)

\* What a directory entry tells of a file.
ToldOf(n) == <<n, IF files[n].denied THEN "-" ELSE files[n].type>>

\* The first lines are that of no file, and those of "." and "..".
LEMMA FirstEntries ==
  /\ EntryOf(<<Word("total"), Space, Num(0)>>)[1] = NoText
  /\ \A dots \in {".", ".."} : EntryOf(LsLine(Self, Dot(dots), phone.ls))[1] = Dot(dots)
  <1>1. EntryOf(<<Word("total"), Space, Num(0)>>)[1] = NoText
    <2> DEFINE a == Word("total")
               b == Num(0)
               line == <<a, Space, b>>
    <2>1. a[1] # "mode" /\ b # Err("EACCES")
      BY DEF Word, Num, Err
    <2> HIDE DEF a, b
    <2>2. line[1] = a /\ Last(line) = b
      BY DEF Last
    <2> HIDE DEF line
    <2>3. ~is_valid_ls_output(line)
      BY <2>1, <2>2 DEF is_valid_ls_output
    <2>4. EntryOf(line) = <<NoText, None>>
      BY <2>1, <2>2, <2>3, Zenon DEF EntryOf
    <2>5. EntryOf(line)[1] = NoText
      BY <2>4
    <2> QED  BY <2>5 DEF line, a, b
  <1>2. IsFile(Self) /\ Mark(":") \notin ToSet(Self.owner) \cup ToSet(Self.group)
    <2> DEFINE root == <<Word("root")>>
               none == <<>>
    <2>1. /\ Self.type = "d" /\ Self.perms = {} /\ Self.nlink = 2 /\ Self.owner = root /\ Self.group = root
          /\ Self.size = 0 /\ Self.major = 0 /\ Self.minor = 0 /\ Self.time = Zone
          /\ Self.target = none /\ Self.denied = FALSE
      BY DEF Self
    <2>2. IsColumn(root) /\ Mark(":") \notin ToSet(root)
      <3>1. Word("root") # Space /\ Word("root") # Mark(":")
        BY PiecesDiffer DEF Word, Mark
      <3> DEFINE r == Word("root")
      <3> HIDE DEF r
      <3>2. <<r>> # <<>> /\ ToSet(<<r>>) = {r} /\ \A S : r \in S => <<r>> \in Seq(S)
        BY DEF ToSet
      <3> QED  BY <3>1, <3>2 DEF IsColumn, r
    <2>3. none \in Seq(ToSet(none))
      OBVIOUS
    <2> HIDE DEF root, none
    <2>4. Self \in [type : Types, perms : SUBSET ((1..3) \X {"r", "w", "x", "s"}), nlink : Nat \ {0},
                    owner : {root}, group : {root}, size : Nat, major : Nat, minor : Nat,
                    time : Int, target : {none}, denied : BOOLEAN]
      <3>1. "d" \in Types
        BY Zenon DEF Types
      <3> QED  BY <3>1, ClocksTick DEF Self, root, none
    <2> QED  BY <2>1, <2>2, <2>3, <2>4, Zenon DEF IsFile
  <1>3. ASSUME NEW dots \in {".", ".."} PROVE EntryOf(LsLine(Self, Dot(dots), phone.ls))[1] = Dot(dots)
    <2> DEFINE d == Dot(dots)
               line == LsLine(Self, d, phone.ls)
    <2>1. d \in Seq(ToSet(d)) /\ d # <<>> /\ Mark("->") \notin ToSet(d)
      <3>1. Mark("->") # Mark(dots)
        BY DEF Mark
      <3> DEFINE r == Mark(dots)
      <3>2. d = <<r>>
        BY DEF Dot
      <3> HIDE DEF r
      <3>3. <<r>> # <<>> /\ ToSet(<<r>>) = {r} /\ <<r>> \in Seq({r})
        BY DEF ToSet
      <3> QED  BY <3>1, <3>2, <3>3 DEF r
    <2> HIDE DEF d
    <2>2. extract_filename(line) = d
      BY <1>2, <2>1, NamesAreRead
    <2>3. is_valid_ls_output(line)
      BY <1>2, <2>1, ModesComeFirst
    <2> HIDE DEF line
    <2>4. EntryOf(line) = <<d, parse_ls_line(line)>>
      BY <2>2, <2>3 DEF EntryOf
    <2>5. EntryOf(line)[1] = d
      BY <2>4
    <2> QED  BY <2>5 DEF line, d
  <1> QED  BY <1>1, <1>3

\* The line of a file gives its name and, if it can be dated, what a directory entry
\* tells of it.
LEMMA EntriesAreRead ==
  ASSUME FilesInv, OwnersAreWords, phone.ls.nlink \/ OwnersHaveNames,
         NEW n \in Names, NameIsPlain(n), files[n] # NoFile
  PROVE  LET e == EntryOf(LineOf(n))
         IN e[1] = n /\ (e[2] # Panic => Typed(e) = ToldOf(n))
  <1> DEFINE f == files[n]
             ls == phone.ls
             meta == Metadata(f, ls)
             line == LsLine(f, n, ls)
             blank == ""
  <1>1. MayBe(f)
    BY DEF FilesInv, HoldsFiles
  <1>2. IsFile(f) /\ (ls.nlink \/ ~IsNum(f.owner)) /\ Mark(":") \notin ToSet(f.owner) \cup ToSet(f.group)
    BY <1>1, WhatFilesShare
  <1>3. /\ n \in Seq(ToSet(n)) /\ n # <<>> /\ ToSet(n) \ {Space} # {}
        /\ Mark("->") \notin ToSet(n)
    <2>1. n \in Seq(ToSet(n)) /\ ToSet(n) \ {Space} # {} /\ Mark("->") \notin ToSet(n)
      BY PathsAreTexts DEF NameIsPlain
    <2>2. ToSet(<<>>) = {}
      BY DEF ToSet
    <2> QED  BY <2>1, <2>2
  <1> DEFINE Type(e) == IF e[2] = None \/ e[2][2].type = blank THEN "-" ELSE e[2][2].type
  <1>4. \A e : Typed(e) = <<e[1], Type(e)>>
    BY Zenon DEF Typed
  <1>5. CASE f.denied
    <2> DEFINE e == <<n, None>>
    <2>1. EntryOf(LineOf(n)) = e
      <3>1. LineOf(n) = LstatFailed(n)
        BY <1>5, Zenon DEF LineOf
      <3> QED  BY <3>1, DeniedNamesAreRead
    <2>2. e[1] = n /\ e[2] = None
      OBVIOUS
    <2> HIDE DEF e
    <2>3. Type(e) = "-"
      BY <2>2, Zenon
    <2>4. Typed(e) = ToldOf(n)
      BY <1>4, <1>5, <2>2, <2>3, Zenon DEF ToldOf
    <2> QED  BY <2>1, <2>2, <2>4
  <1>6. CASE ~f.denied
    <2> DEFINE p == parse_ls_line(line)
               e == <<n, p>>
    <2>1. EntryOf(LineOf(n)) = e
      <3>1. LineOf(n) = line
        BY <1>6, Zenon DEF LineOf
      <3>2. is_valid_ls_output(line)
        BY <1>2, <1>3, ModesComeFirst
      <3>3. extract_filename(line) = n
        BY <1>2, <1>3, NamesAreRead
      <3> QED  BY <3>1, <3>2, <3>3, Zenon DEF EntryOf
    <2>2. p = Panic \/ p = <<"meta", meta>>
      BY <1>2, <1>3, LinesAreReadBack
    <2> HIDE DEF p, meta
    <2>3. e[1] = n /\ e[2] = p
      OBVIOUS
    <2> HIDE DEF e
    <2>4. ASSUME p = <<"meta", meta>> PROVE Typed(e) = ToldOf(n)
      <3>1. p # None /\ p[2] = meta
        BY <2>4 DEF None
      <3>2. meta.type = f.type
        BY Zenon DEF meta, Metadata
      <3>3. f.type # blank
        <4>1. f.type \in Types
          BY <1>2 DEF IsFile
        <4> QED  BY <4>1, Zenon DEF Types
      <3> HIDE DEF blank
      <3>4. Type(e) = f.type
        BY <2>3, <3>1, <3>2, <3>3
      <3> QED  BY <1>4, <1>6, <2>3, <3>4, Zenon DEF ToldOf
    <2> QED  BY <2>1, <2>2, <2>3, <2>4
  <1> QED  BY <1>5, <1>6

\* Of a list's lines the first is none, the next two are the dots, and the others
\* have names of their own.
DotsAreRead(r, none, dots) ==
  /\ none \notin dots
  /\ \A k \in 1..Len(r) :
       /\ k = 1 => r[k][1] = none
       /\ k \in {2, 3} => r[k][1] \in dots
       /\ k > 3 => r[k][1] \notin dots \cup {none}
  /\ \A i, j \in 2..Len(r) : r[i][1] = r[j][1] => i = j

\* What is left of a list without the entries of some names.
LeftOf(list, names) == Without(list, {e \in ToSet(list) : e[1] \in names})

\* These are left: each once, with nothing else.
LEMMA OthersAreLeft ==
  ASSUME NEW E, NEW r \in Seq(E), NEW none, NEW dots, DotsAreRead(r, none, dots)
  PROVE  LET listed == LeftOf(r, {none})
             others == LeftOf(listed, dots)
         IN /\ others \in Seq(E) /\ IsInjective(others)
            /\ ToSet(others) = {r[k] : k \in 4..Len(r)}
            /\ listed \in Seq(E) /\ ToSet(others) \subseteq ToSet(listed)
  <1> DEFINE n == Len(r)
             listed == LeftOf(r, {none})
             others == LeftOf(listed, dots)
             S == {e \in ToSet(r) : e[1] \in {none}}
             T == {e \in ToSet(listed) : e[1] \in dots}
  <1>0. /\ listed = Without(r, S) /\ others = Without(listed, T)
        /\ \A k \in 1..n :
             /\ k = 1 => r[k][1] = none
             /\ k \in {2, 3} => r[k][1] \in dots
             /\ k > 3 => r[k][1] \notin dots \cup {none}
        /\ \A i, j \in 2..n : r[i][1] = r[j][1] => i = j
        /\ none \notin dots
    BY Zenon DEF DotsAreRead, LeftOf
  <1> HIDE DEF listed, others
  <1>1. n \in Nat /\ ToSet(r) = {r[k] : k \in 1..n}
    BY DEF ToSet
  <1>2. \A i \in 1..n : (r[i] \in S <=> i = 1) /\ (r[i][1] \in dots <=> i \in {2, 3})
                        /\ (i # 1 => i \in 2..n)
    <2>1. ASSUME NEW i \in 1..n PROVE i \in Nat /\ (i = 1 \/ i \in {2, 3} \/ i > 3) /\ (i # 1 => i \in 2..n)
      BY <1>1
    <2>2. \A i \in 1..n : r[i] \in S <=> r[i][1] = none
      BY <1>1
    <2> HIDE DEF S, n
    <2>3. ASSUME NEW i \in 1..n
          PROVE  (r[i][1] = none <=> i = 1) /\ (r[i][1] \in dots <=> i \in {2, 3})
      BY <1>0, <2>1
    <2> QED  BY <2>1, <2>2, <2>3
  <1>3. \A i, j \in 1..Len(r) : r[i] \notin S /\ r[i] = r[j] => i = j
    <2>1. ASSUME NEW i \in 1..n, NEW j \in 1..n, r[i] \notin S, r[i] = r[j] PROVE i = j
      <3>1. i \in 2..n /\ j \in 2..n
        <4> HIDE DEF S, n
        <4> QED  BY <1>2, <2>1
      <3>2. r[i][1] = r[j][1]
        BY <2>1
      <3> QED  BY <1>0, <3>1, <3>2, Zenon
    <2> QED  BY <2>1
  <1> HIDE DEF S
  <1>4. ToSet(listed) = ToSet(r) \ S /\ IsInjective(listed)
    <2>1. ToSet(Without(r, S)) = ToSet(r) \ S /\ IsInjective(Without(r, S))
      BY <1>3, EachOnce
    <2> QED  BY <1>0, <2>1, Zenon
  <1>5. listed \in Seq(E)
    BY <1>0, WithoutIsASeq
  <1>6. \A i, j \in 1..Len(listed) : listed[i] \notin T /\ listed[i] = listed[j] => i = j
    <2>1. DOMAIN listed = 1..Len(listed)
      BY <1>5
    <2> HIDE DEF T
    <2> QED  BY <1>4, <2>1, Zenon DEF IsInjective
  <1>7. ToSet(others) = ToSet(listed) \ T /\ IsInjective(others)
    <2> HIDE DEF T
    <2>1. ToSet(Without(listed, T)) = ToSet(listed) \ T /\ IsInjective(Without(listed, T))
      BY <1>5, <1>6, EachOnce
    <2> QED  BY <1>0, <2>1, Zenon
  <1>8. others \in Seq(E)
    <2> HIDE DEF T
    <2> QED  BY <1>0, <1>5, WithoutIsASeq
  <1>9. \A i \in 1..n : i # 1 /\ i \notin {2, 3} <=> i \in 4..n
    BY <1>1
  <1>10. ToSet(listed) = {r[k] : k \in 2..n}
    <2>1. \A i \in 2..n : i \in 1..n /\ i # 1
      BY <1>1
    <2>2. \A i \in 1..n : (r[i] \in S <=> i = 1) /\ (i # 1 => i \in 2..n)
      BY <1>2
    <2> HIDE DEF n
    <2>3. ToSet(r) \ S = {r[k] : k \in 2..n}
      <3>1. ASSUME NEW e \in ToSet(r) \ S PROVE e \in {r[k] : k \in 2..n}
        <4>1. PICK i \in 1..n : e = r[i]
          BY <1>1
        <4> QED  BY <2>2, <3>1, <4>1
      <3>2. ASSUME NEW i \in 2..n PROVE r[i] \in ToSet(r) \ S
        BY <1>1, <2>1, <2>2
      <3> QED  BY <3>1, <3>2
    <2> QED  BY <1>4, <2>3, Zenon
  <1>11. \A i \in 2..n : i \in 1..n /\ (r[i] \in T <=> i \in {2, 3})
    <2>1. \A i \in 2..n : i \in 1..n
      BY <1>1
    <2> HIDE DEF n
    <2> QED  BY <1>2, <1>10, <2>1
  <1>12. ToSet(listed) \ T = {r[k] : k \in 4..n}
    <2>1. \A i \in 4..n : i \in 2..n
      BY <1>1
    <2>2. \A i \in 2..n : i # 1
      BY <1>1
    <2> HIDE DEF n, T
    <2> QED  BY <1>9, <1>10, <1>11, <2>1, <2>2
  <1> QED  BY <1>5, <1>7, <1>8, <1>12 DEF n, others, listed

(***************************************************************************)
(* What a directory stream holds: "." and "..", then files that have been  *)
(* there, each once, and among them all of those that must not be missing. *)
(***************************************************************************)
IsListing(D, some, all) ==
  /\ D \in Seq(ToSet(D)) /\ Len(D) >= 2 /\ D[1] = Dots[1] /\ D[2] = Dots[2]
  /\ IsInjective(D)
  /\ \A k \in 3..Len(D) : D[k] \in some
  /\ \A e \in all : \E k \in 3..Len(D) : D[k] = e

\* Entries other than "." and "..", each of a name of its own.
HaveNames(others) ==
  /\ \A j \in 1..Len(others) : others[j][1] \notin {Dot("."), Dot("..")}
  /\ \A i, j \in 1..Len(others) : others[i][1] = others[j][1] => i = j

\* "." and ".." are put before what is left of a list without them.
LEMMA DotsComeFirst ==
  ASSUME NEW listed, NEW others, HaveNames(others), Len(others) \in Nat,
         others = LeftOf(listed, {Dot("."), Dot("..")})
  PROVE  LET D == Entries(listed)
             m == Len(others)
         IN /\ D \in Seq(ToSet(D)) /\ m \in Nat /\ Len(D) = 2 + m
            /\ D[1] = Dots[1] /\ D[2] = Dots[2] /\ IsInjective(D)
            /\ \A j \in 1..m : D[2 + j] = Typed(others[j])
  <1> DEFINE m == Len(others)
             As(j) == Typed(others[j])
             w == [j \in 1..m |-> As(j)]
             D == Entries(listed)
             one == <<Dot("."), "d">>
             two == <<Dot(".."), "d">>
             G == {one, two} \cup {As(j) : j \in 1..m}
  <1>1. Dots = <<one, two>> /\ D = Dots \o w
    BY Zenon DEF Dots, Entries, LeftOf
  <1>2. one[1] = Dot(".") /\ two[1] = Dot("..") /\ Dot(".") # Dot("..")
    <2>1. Mark(".") # Mark("..")
      BY DEF Mark
    <2> DEFINE a == Mark(".")
               b == Mark("..")
    <2> HIDE DEF a, b
    <2>2. <<a>> # <<b>>
      BY <2>1 DEF a, b
    <2>3. Dot(".") # Dot("..")
      BY <2>2, Zenon DEF Dot, a, b
    <2> DEFINE x == Dot(".")
               y == Dot("..")
    <2> HIDE DEF x, y
    <2>4. <<x, "d">>[1] = x /\ <<y, "d">>[1] = y
      OBVIOUS
    <2> QED  BY <2>3, <2>4, Zenon DEF x, y
  <1>3. \A j \in 1..m : Typed(others[j])[1] = others[j][1]
    <2>1. ASSUME NEW e PROVE Typed(e)[1] = e[1]
      <3>1. PICK t : Typed(e) = <<e[1], t>>
        BY Zenon DEF Typed
      <3> QED  BY <3>1
    <2> QED  BY <2>1
  <1> HIDE DEF one, two
  <1>4. Dots \in Seq(G) /\ Len(Dots) = 2 /\ Dots[1] = one /\ Dots[2] = two
    BY <1>1
  <1>5. m \in Nat /\ w \in Seq(G) /\ Len(w) = m /\ \A j \in 1..m : w[j] = As(j)
    <2>1. m \in Nat
      OBVIOUS
    <2> HIDE DEF As
    <2>2. \A j \in 1..m : As(j) \in G
      OBVIOUS
    <2> HIDE DEF m, G
    <2> QED  BY <2>1, <2>2
  <1> HIDE DEF G, D, w, m
  <1>6. IsJoin(D, Dots, w, G)
    BY <1>1, <1>4, <1>5, Joined
  <1>7. /\ D \in Seq(G) /\ Len(D) = 2 + m /\ (\A i \in 1..2 : D[i] = Dots[i])
        /\ \A j \in 1..m : D[2 + j] = Typed(others[j])
    <2> DEFINE l == Len(Dots)
    <2>1. /\ D \in Seq(G) /\ Len(D) = l + Len(w) /\ (\A i \in 1..l : D[i] = Dots[i])
          /\ \A j \in 1..Len(w) : D[l + j] = w[j]
      BY <1>6 DEF IsJoin
    <2>2. l = 2 /\ Len(w) = m
      BY <1>4, <1>5
    <2> HIDE DEF l, As
    <2>3. /\ D \in Seq(G) /\ Len(D) = 2 + m /\ (\A i \in 1..2 : D[i] = Dots[i])
          /\ \A j \in 1..m : D[2 + j] = As(j)
      BY <1>5, <2>1, <2>2
    <2> QED  BY <2>3 DEF As
  <1>8. D[1] = one /\ D[2] = two
    <2>1. 1 \in 1..2 /\ 2 \in 1..2
      OBVIOUS
    <2> QED  BY <1>4, <1>7, <2>1
  <1>9. D \in Seq(ToSet(D))
    <2>1. DOMAIN D = 1..Len(D) /\ Len(D) \in Nat
      BY <1>7
    <2> QED  BY <1>7, <2>1 DEF ToSet
  <1>10. IsInjective(D)
    <2> DEFINE x == Dot(".")
               y == Dot("..")
    <2>1. DOMAIN D = 1..2 + m
      BY <1>5, <1>7
    <2>2. D[1][1] = x /\ D[2][1] = y /\ x # y
      BY <1>2, <1>8
    <2>3. \A j \in 1..m : D[2 + j][1] = others[j][1] /\ others[j][1] # x /\ others[j][1] # y
      BY <1>3, <1>7, Zenon DEF m, HaveNames
    <2> HIDE DEF x, y
    <2>4. ASSUME NEW i \in 1..2 + m PROVE i \in {1, 2} \/ \E j \in 1..m : i = 2 + j
      <3>1. i \in {1, 2} \/ (i - 2 \in 1..m /\ i = 2 + (i - 2))
        BY <1>5
      <3> QED  BY <3>1
    <2>5. ASSUME NEW i \in 1..2 + m, NEW k \in 1..2 + m, D[i] = D[k] PROVE i = k
      <3>1. CASE i \in {1, 2} /\ k \in {1, 2}
        BY <2>2, <2>5, <3>1
      <3>2. \A l \in {1, 2}, j \in 1..m : D[l] # D[2 + j]
        <4> SUFFICES ASSUME NEW l \in {1, 2}, NEW j \in 1..m, D[l] = D[2 + j] PROVE FALSE
          OBVIOUS
        <4>1. D[l][1] = x \/ D[l][1] = y
          BY <2>2
        <4>2. D[l][1] = D[2 + j][1]
          OBVIOUS
        <4>3. D[l][1] = others[j][1]
          BY <2>3, <4>2, Zenon
        <4> QED  BY <2>3, <4>1, <4>3, Zenon
      <3>3. ~(i \in {1, 2} /\ \E j \in 1..m : k = 2 + j) /\ ~(k \in {1, 2} /\ \E j \in 1..m : i = 2 + j)
        BY <2>5, <3>2, Zenon
      <3>4. ASSUME NEW a \in 1..m, NEW b \in 1..m, i = 2 + a, k = 2 + b PROVE i = k
        <4>1. D[2 + a] = D[2 + b]
          BY <2>5, <3>4
        <4>2. D[2 + a][1] = D[2 + b][1]
          BY <4>1
        <4>3. others[a][1] = others[b][1]
          BY <2>3, <4>2, Zenon
        <4> QED  BY <3>4, <4>3, Zenon DEF m, HaveNames
      <3> QED  BY <2>4, <3>1, <3>2, <3>3, <3>4
    <2> QED  BY <2>1, <2>5 DEF IsInjective
  <1> QED  BY <1>4, <1>5, <1>7, <1>8, <1>9, <1>10 DEF D, m

\* What opendir makes of a listing, or of the part of it that came, holds the files
\* there are, and all that can be seen if it is whole (list_dir, opendir).
LEMMA ListingsAreTold ==
  ASSUME FilesInv, NamesArePlain, OwnersAreWords, phone.ls.nlink \/ OwnersHaveNames,
         NEW n \in 0..Len(Listing.stdout),
         NEW listed, listed = list_dir(SubSeq(Listing.stdout, 1, n)),
         \A k \in DOMAIN listed : listed[k][2] # Panic
  PROVE  IsListing(Entries(listed), Present, IF n < Len(Listing.stdout) THEN {} ELSE Visible)
  <1> DEFINE t == Listing.stdout
             s == NamesShown
             lines == SubSeq(t, 1, n)
             r == [k \in 1..Len(lines) |-> EntryOf(lines[k])]
             G == {EntryOf(t[k]) : k \in 1..n}
             dots == {Dot("."), Dot("..")}
             S == {e \in ToSet(r) : e[1] = NoText}
             T == {e \in ToSet(listed) : e[1] \in dots}
             others == Without(listed, T)
             D == Entries(listed)
             m == Len(others)
  <1>1. /\ Len(s) \in Nat /\ Len(t) = 3 + Len(s) /\ \E E : t \in Seq(E)
        /\ t[1] = <<Word("total"), Space, Num(0)>>
        /\ t[2] = LsLine(Self, Dot("."), phone.ls) /\ t[3] = LsLine(Self, Dot(".."), phone.ls)
        /\ \A k \in 1..Len(s) : t[3 + k] = LineOf(s[k])
    BY LinesOfAListing, Zenon
  <1>2. /\ s \in Seq(NamesThere) /\ IsInjective(s)
        /\ ToSet(s) = {name \in NamesThere : ~(phone.v2 /\ files[name].denied)}
    BY FilesAreNamed
  <1>3. /\ EntryOf(t[1])[1] = NoText
        /\ EntryOf(t[2])[1] = Dot(".") /\ EntryOf(t[3])[1] = Dot("..")
    <2>1. "." \in {".", ".."} /\ ".." \in {".", ".."}
      BY Zenon
    <2> QED  BY <1>1, <2>1, FirstEntries, Zenon
  <1>4. ASSUME NEW name \in NamesThere
        PROVE  /\ name \notin dots \cup {NoText} /\ EntryOf(LineOf(name))[1] = name
               /\ EntryOf(LineOf(name))[2] # Panic => Typed(EntryOf(LineOf(name))) = ToldOf(name)
    <2>1. name \in Names /\ files[name] # NoFile /\ NameIsPlain(name)
      BY DEF NamesThere, NamesArePlain
    <2>2. name \notin dots \cup {NoText}
      BY <2>1, Zenon DEF NameIsPlain
    <2> QED  BY <2>1, <2>2, EntriesAreRead, Zenon
  <1>5. Dot(".") # Dot("..") /\ NoText \notin dots
    <2>1. Mark(".") # Mark("..") /\ Mark(".") # None /\ Mark("..") # None
      BY DEF Mark, None
    <2> DEFINE a == Mark(".")
               b == Mark("..")
               c == None
    <2> HIDE DEF a, b, c
    <2>2. <<a>> # <<b>> /\ <<a>> # <<c>> /\ <<b>> # <<c>>
      BY <2>1 DEF a, b, c
    <2> QED  BY <2>2, Zenon DEF Dot, NoText, a, b, c
  <1>6. Present = {ToldOf(name) : name \in NamesThere}
    BY Zenon DEF Present, ToldOf, NamesThere
  <1>7. Visible \subseteq {ToldOf(name) : name \in ToSet(s)}
    <2> SUFFICES ASSUME NEW e \in Visible PROVE e \in {ToldOf(name) : name \in ToSet(s)}
      OBVIOUS
    <2>1. e \in Present /\ ~(phone.v2 /\ files[e[1]].denied)
      BY Zenon DEF Visible
    <2>2. PICK name \in NamesThere : e = ToldOf(name)
      BY <1>6, <2>1
    <2>3. e[1] = name
      BY <2>2 DEF ToldOf
    <2> QED  BY <1>2, <2>1, <2>2, <2>3
  <1>8. listed = Without(r, S) /\ D = Entries(listed)
    BY Zenon DEF list_dir
  <1> HIDE DEF t, s, D
  <1>9. n \in Nat /\ n <= Len(t) /\ \A k \in 1..n : k \in 1..Len(t)
    BY <1>1 DEF t
  <1>10. Len(lines) = n /\ \A k \in 1..n : lines[k] = t[k]
    <2>1. PICK E : t \in Seq(E)
      BY <1>1
    <2>2. \A k \in 1..n : t[k] \in E
      BY <1>9, <2>1
    <2> QED  BY <1>9, <2>1, <2>2
  <1> HIDE DEF lines
  <1>11. r \in Seq(G) /\ Len(r) = n /\ \A k \in 1..n : r[k] = EntryOf(t[k])
    <2>1. \A k \in 1..n : EntryOf(lines[k]) = EntryOf(t[k])
      BY <1>10
    <2>2. \A k \in 1..n : EntryOf(t[k]) \in G
      OBVIOUS
    <2> HIDE DEF G
    <2> QED  BY <1>9, <1>10, <2>1, <2>2
  <1> HIDE DEF r, G
  <1>12. ASSUME NEW k \in 4..n
         PROVE  /\ k - 3 \in 1..Len(s) /\ s[k - 3] \in NamesThere /\ r[k][1] = s[k - 3]
                /\ r[k][2] # Panic => Typed(r[k]) = ToldOf(s[k - 3])
    <2>1. k \in 1..n /\ k - 3 \in 1..Len(s) /\ 3 + (k - 3) = k
      BY <1>1, <1>9
    <2> DEFINE name == s[k - 3]
    <2>2. name \in NamesThere
      BY <1>2, <2>1
    <2>3. r[k] = EntryOf(LineOf(name))
      BY <1>1, <1>11, <2>1
    <2> HIDE DEF name
    <2>4. r[k][1] = name /\ (r[k][2] # Panic => Typed(r[k]) = ToldOf(name))
      BY <1>4, <2>2, <2>3, Zenon
    <2> QED  BY <2>1, <2>2, <2>4 DEF name
  <1>13. \A k \in 1..Len(r) : /\ k = 1 => r[k][1] = NoText
                              /\ k \in {2, 3} => r[k][1] \in dots
                              /\ k > 3 => r[k][1] \notin dots \cup {NoText}
    <2> SUFFICES ASSUME NEW k \in 1..n
                 PROVE  /\ k = 1 => r[k][1] = NoText
                        /\ k \in {2, 3} => r[k][1] \in dots
                        /\ k > 3 => r[k][1] \notin dots \cup {NoText}
      BY <1>11
    <2>1. k > 3 => k \in 4..n
      BY <1>9
    <2>2. k = 1 => r[k][1] = NoText
      BY <1>3, <1>11, Zenon
    <2>3. k = 2 => r[k][1] = Dot(".")
      BY <1>3, <1>11, Zenon
    <2>4. k = 3 => r[k][1] = Dot("..")
      BY <1>3, <1>11, Zenon
    <2>5. k > 3 => r[k][1] \notin dots \cup {NoText}
      BY <1>4, <1>12, <2>1, Zenon
    <2>6. k \in {2, 3} => k = 2 \/ k = 3
      OBVIOUS
    <2> QED  BY <2>2, <2>3, <2>4, <2>5, <2>6, Zenon
  <1>14. ASSUME NEW i \in 2..Len(r), NEW j \in 2..Len(r), r[i][1] = r[j][1] PROVE i = j
    <2> DEFINE a == Dot(".")
               b == Dot("..")
    <2>1. /\ i \in 1..n /\ j \in 1..n
          /\ (i = 2 \/ i = 3 \/ i \in 4..n) /\ (j = 2 \/ j = 3 \/ j \in 4..n)
      BY <1>9, <1>11
    <2>2. a # b /\ \A name \in NamesThere : name # a /\ name # b
      BY <1>4, <1>5, Zenon
    <2>3. \A k \in 1..n : (k = 2 => r[k][1] = a) /\ (k = 3 => r[k][1] = b)
      BY <1>3, <1>11, Zenon
    <2> HIDE DEF a, b
    <2>4. CASE i \in 4..n /\ j \in 4..n
      <3>1. i - 3 \in 1..Len(s) /\ j - 3 \in 1..Len(s) /\ s[i - 3] = s[j - 3]
        BY <1>12, <1>14, <2>4
      <3>2. DOMAIN s = 1..Len(s)
        BY <1>2
      <3>3. i - 3 = j - 3
        BY <1>2, <3>1, <3>2, Zenon DEF IsInjective
      <3> QED  BY <2>4, <3>3
    <2>5. \A k \in 4..n : r[k][1] \in NamesThere
      BY <1>12
    <2> QED  BY <1>14, <2>1, <2>2, <2>3, <2>4, <2>5
  <1>15. /\ others \in Seq(G) /\ IsInjective(others)
         /\ ToSet(others) = {r[k] : k \in 4..n} /\ ToSet(others) \subseteq ToSet(listed)
         /\ listed \in Seq(G)
    <2> DEFINE none == NoText
    <2> HIDE DEF dots, none
    <2>1. \A i, j \in 2..Len(r) : r[i][1] = r[j][1] => i = j
      BY <1>14
    <2>2. DotsAreRead(r, none, dots)
      BY <1>5, <1>13, <2>1, Zenon DEF DotsAreRead, dots, none
    <2>3. listed = LeftOf(r, {none})
      <3>1. S = {e \in ToSet(r) : e[1] \in {none}}
        BY DEF none
      <3> QED  BY <1>8, <3>1, Zenon DEF LeftOf
    <2>4. others = LeftOf(listed, dots)
      BY Zenon DEF others, LeftOf
    <2> HIDE DEF others
    <2> DEFINE l == LeftOf(r, {none})
               o == LeftOf(l, dots)
    <2>5. /\ o \in Seq(G) /\ IsInjective(o)
          /\ ToSet(o) = {r[k] : k \in 4..Len(r)}
          /\ l \in Seq(G) /\ ToSet(o) \subseteq ToSet(l)
      BY <1>11, <2>2, OthersAreLeft, Zenon
    <2>6. l = listed /\ o = others
      BY <2>3, <2>4, Zenon
    <2> HIDE DEF l, o
    <2> QED  BY <1>11, <2>5, <2>6, Zenon
  <1> HIDE DEF others
  <1>16. /\ m \in Nat /\ DOMAIN others = 1..m
         /\ \A j \in 1..m : \E k \in 4..n : others[j] = r[k]
         /\ \A k \in 4..n : \E j \in 1..m : others[j] = r[k]
         /\ \A j \in 1..m : others[j][2] # Panic
    <2>1. DOMAIN others = 1..m /\ m \in Nat
      BY <1>15
    <2>2. ToSet(others) = {others[j] : j \in 1..m} /\ ToSet(listed) = {listed[j] : j \in DOMAIN listed}
      BY <1>15 DEF ToSet
    <2> HIDE DEF m
    <2>3. {others[j] : j \in 1..m} = {r[k] : k \in 4..n}
      BY <1>15, <2>2, Zenon
    <2>4. \A j \in 1..m : \E i \in DOMAIN listed : others[j] = listed[i]
      BY <1>15, <2>2
    <2>5. \A j \in 1..m : others[j] \in {r[k] : k \in 4..n}
      BY <2>3
    <2>6. \A k \in 4..n : r[k] \in {others[j] : j \in 1..m}
      BY <2>3
    <2> QED  BY <2>1, <2>4, <2>5, <2>6
  <1> HIDE DEF m
  <1>17. \A j \in 1..m : others[j][1] \notin dots
    <2> SUFFICES ASSUME NEW j \in 1..m PROVE others[j][1] \notin dots
      BY Zenon
    <2>1. PICK k \in 4..n : others[j] = r[k]
      BY <1>16
    <2>2. r[k][1] \in NamesThere
      BY <1>12, Zenon
    <2>3. r[k][1] \notin dots
      BY <1>4, <2>2, Zenon
    <2> QED  BY <2>1, <2>3, Zenon
  <1>18. ASSUME NEW i \in 1..m, NEW j \in 1..m, others[i][1] = others[j][1] PROVE i = j
    <2>1. PICK k \in 4..n : others[i] = r[k]
      BY <1>16
    <2>2. PICK l \in 4..n : others[j] = r[l]
      BY <1>16
    <2>3. k \in 2..Len(r) /\ l \in 2..Len(r)
      BY <1>11
    <2>4. k = l
      BY <1>14, <1>18, <2>1, <2>2, <2>3
    <2>5. others[i] = others[j] /\ i \in DOMAIN others /\ j \in DOMAIN others
      BY <1>16, <2>1, <2>2, <2>4, Zenon
    <2> QED  BY <1>15, <2>5, Zenon DEF IsInjective
  <1>19. /\ D \in Seq(ToSet(D)) /\ Len(D) = 2 + m
         /\ D[1] = Dots[1] /\ D[2] = Dots[2] /\ IsInjective(D)
         /\ \A j \in 1..m : D[2 + j] = Typed(others[j])
    <2>1. others = LeftOf(listed, {Dot("."), Dot("..")})
      BY Zenon DEF others, LeftOf
    <2> DEFINE F == Entries(listed)
    <2>2. HaveNames(others) /\ Len(others) \in Nat
      <3>1. \A i, j \in 1..m : others[i][1] = others[j][1] => i = j
        BY <1>18
      <3> QED  BY <1>16, <1>17, <3>1, Zenon DEF HaveNames, m
    <2>3. /\ F \in Seq(ToSet(F)) /\ m \in Nat /\ Len(F) = 2 + m
          /\ F[1] = Dots[1] /\ F[2] = Dots[2] /\ IsInjective(F)
          /\ \A j \in 1..m : F[2 + j] = Typed(others[j])
      BY <2>1, <2>2, DotsComeFirst, Zenon DEF m
    <2> HIDE DEF F
    <2> QED  BY <1>8, <2>3 DEF F
  <1>20. ASSUME NEW k \in 3..Len(D) PROVE D[k] \in Present
    <2>1. k - 2 \in 1..m /\ 2 + (k - 2) = k
      BY <1>16, <1>19
    <2>2. PICK l \in 4..n : others[k - 2] = r[l]
      BY <1>16, <2>1
    <2>3. D[k] = Typed(r[l]) /\ r[l][2] # Panic
      BY <1>16, <1>19, <2>1, <2>2
    <2> QED  BY <1>6, <1>12, <2>3
  <1>21. ASSUME ~(n < Len(t)), NEW e \in Visible PROVE \E k \in 3..Len(D) : D[k] = e
    <2>1. PICK i \in 1..Len(s) : e = ToldOf(s[i])
      BY <1>2, <1>7 DEF ToSet
    <2>2. i + 3 \in 4..n /\ i + 3 - 3 = i
      BY <1>1, <1>9, <1>21
    <2>3. PICK j \in 1..m : others[j] = r[i + 3]
      BY <1>16, <2>2
    <2>4. D[2 + j] = e
      <3>1. r[i + 3][2] # Panic
        BY <1>16, <2>3
      <3>2. Typed(r[i + 3]) = ToldOf(s[i + 3 - 3])
        BY <1>12, <2>2, <3>1
      <3> QED  BY <1>19, <2>1, <2>2, <2>3, <3>2
    <2>5. 2 + j \in 3..Len(D)
      BY <1>16, <1>19
    <2> QED  BY <2>4, <2>5
  <1>22. Len(D) >= 2
    BY <1>16, <1>19
  <1>23. IsListing(D, Present, IF n < Len(t) THEN {} ELSE Visible)
    BY <1>19, <1>20, <1>21, <1>22 DEF IsListing
  <1> QED  BY <1>23, Zenon DEF D, t

\* A part of a listing from its beginning: its entries, in order.
LEMMA BeginningOf ==
  ASSUME NEW E, NEW D \in Seq(E), NEW o \in 0..Len(D)
  PROVE  /\ SubSeq(D, 1, o) \in Seq(E) /\ Len(SubSeq(D, 1, o)) = o
         /\ \A k \in 1..o : k \in 1..Len(D) /\ SubSeq(D, 1, o)[k] = D[k]
  OBVIOUS

\* What follows is put behind it.
LEMMA ReadOn ==
  ASSUME NEW E, NEW D \in Seq(E), NEW o \in 0..Len(D), NEW end \in 0..Len(D), o < end
  PROVE  SubSeq(D, 1, o) \o SubSeq(D, o + 1, end) = SubSeq(D, 1, end)
  <1> DEFINE a == SubSeq(D, 1, o)
             b == SubSeq(D, o + 1, end)
             c == SubSeq(D, 1, end)
             w == a \o b
  <1>1. a \in Seq(E) /\ Len(a) = o /\ \A k \in 1..o : a[k] = D[k]
    BY BeginningOf
  <1>2. c \in Seq(E) /\ Len(c) = end /\ \A k \in 1..end : c[k] = D[k]
    BY BeginningOf
  <1>3. /\ o \in Nat /\ end \in Nat /\ o + 1 \in Int /\ end \in Int /\ o + 1 <= end
        /\ (end - (o + 1)) + 1 = end - o /\ end - (o + 1) + 1 = end - o
        /\ (\A k \in o + 1..end : k \in 1..Len(D)) /\ \A k \in 1..end - o : o + 1 + k - 1 = o + k
    OBVIOUS
  <1>4. b \in Seq(E) /\ Len(b) = end - o /\ \A k \in 1..end - o : b[k] = D[o + k]
    <2>1. \A k \in o + 1..end : D[k] \in E
      BY <1>3
    <2>2. b \in Seq(E) /\ Len(b) = (IF o + 1 <= end THEN end - (o + 1) + 1 ELSE 0)
          /\ \A k \in 1..end - (o + 1) + 1 : b[k] = D[o + 1 + k - 1]
      BY <1>3, <2>1, SubSeqProperties
    <2> HIDE DEF b
    <2> QED  BY <1>3, <2>2
  <1> HIDE DEF a, b, c, w
  <1>5. IsJoin(w, a, b, E)
    BY <1>1, <1>4, Joined DEF w
  <1>6. /\ w \in Seq(E) /\ Len(w) = o + (end - o)
        /\ (\A k \in 1..o : w[k] = a[k]) /\ \A k \in 1..end - o : w[o + k] = b[k]
    BY <1>1, <1>4, <1>5 DEF IsJoin
  <1>7. Len(w) = end
    BY <1>3, <1>6
  <1>8. ASSUME NEW k \in 1..end PROVE w[k] = c[k]
    <2>1. CASE k \in 1..o
      BY <1>1, <1>2, <1>6, <2>1
    <2>2. CASE ~(k \in 1..o)
      <3> DEFINE j == k - o
      <3>1. j \in 1..end - o /\ o + j = k
        BY <1>3, <2>2
      <3> HIDE DEF j
      <3>2. w[o + j] = b[j] /\ b[j] = D[o + j]
        BY <1>4, <1>6, <3>1
      <3> QED  BY <1>2, <3>1, <3>2
    <2> QED  BY <2>1, <2>2
  <1>9. w = c
    BY <1>2, <1>6, <1>7, <1>8, SeqEqual
  <1> QED  BY <1>9 DEF w, a, b, c

\* Whoever has read a part of a listing has got no entry twice and none that has not
\* been there; who has read all has got all that must not be missing.
LEMMA ReadersAreTold ==
  ASSUME NEW D, NEW some, NEW all, IsListing(D, some, all), NEW o \in 0..Len(D),
         NEW g, g = SubSeq(D, 1, o)
  PROVE  LET names == SubSeq(g, 3, Len(g))
         IN /\ IsInjective(g)
            /\ IsPrefix(g, Dots) \/ IsPrefix(Dots, g)
            /\ ToSet(names) \subseteq some
            /\ o = Len(D) => all \subseteq ToSet(names)
  <1> DEFINE E == ToSet(D)
             names == SubSeq(g, 3, o)
  <1>1. D \in Seq(E) /\ Len(D) \in Nat /\ Len(D) >= 2 /\ DOMAIN D = 1..Len(D)
    BY DEF IsListing
  <1>2. /\ D[1] = Dots[1] /\ D[2] = Dots[2] /\ IsInjective(D)
        /\ (\A k \in 3..Len(D) : D[k] \in some) /\ \A e \in all : \E k \in 3..Len(D) : D[k] = e
    BY DEF IsListing
  <1> HIDE DEF E
  <1>3. /\ g \in Seq(E) /\ Len(g) = o /\ DOMAIN g = 1..o /\ o \in Nat
        /\ \A k \in 1..o : k \in 1..Len(D) /\ g[k] = D[k]
    BY <1>1, BeginningOf
  <1>4. IsInjective(g)
    BY <1>1, <1>2, <1>3 DEF IsInjective
  <1>5. Dots \in Seq(E) /\ Len(Dots) = 2
    <2> DEFINE a == <<Dot("."), "d">>
               b == <<Dot(".."), "d">>
    <2>1. Dots = <<a, b>>
      BY Zenon DEF Dots
    <2> HIDE DEF a, b
    <2>2. Dots[1] \in E /\ Dots[2] \in E
      <3>1. D[1] \in E /\ D[2] \in E
        BY <1>1
      <3> QED  BY <1>2, <3>1, Zenon
    <2>3. a \in E /\ b \in E
      BY <2>1, <2>2
    <2> QED  BY <2>1, <2>3
  <1>6. ASSUME o =< 2 PROVE IsPrefix(g, Dots)
    <2>1. o \in 0..Len(g) /\ o \in 0..Len(Dots)
      BY <1>3, <1>5, <1>6
    <2>2. /\ SubSeq(g, 1, o) \in Seq(E) /\ Len(SubSeq(g, 1, o)) = o
          /\ \A k \in 1..o : SubSeq(g, 1, o)[k] = g[k]
      BY <1>3, <2>1, BeginningOf
    <2>3. /\ SubSeq(Dots, 1, o) \in Seq(E) /\ Len(SubSeq(Dots, 1, o)) = o
          /\ \A k \in 1..o : SubSeq(Dots, 1, o)[k] = Dots[k]
      BY <1>5, <2>1, BeginningOf
    <2>4. \A k \in 1..o : g[k] = Dots[k]
      <3>1. \A k \in 1..o : k = 1 \/ k = 2
        BY <1>3, <1>6
      <3> QED  BY <1>2, <1>3, <3>1
    <2>5. SubSeq(g, 1, o) = SubSeq(Dots, 1, o)
      BY <2>2, <2>3, <2>4, SeqEqual
    <2>6. Len(g) <= Len(Dots)
      BY <1>3, <1>5, <1>6
    <2> QED  BY <1>3, <2>5, <2>6, Zenon DEF IsPrefix
  <1>7. ASSUME ~(o =< 2) PROVE IsPrefix(Dots, g)
    <2>1. 2 \in 0..Len(g) /\ 2 \in 0..Len(Dots)
      BY <1>3, <1>5, <1>7
    <2>2. /\ SubSeq(g, 1, 2) \in Seq(E) /\ Len(SubSeq(g, 1, 2)) = 2
          /\ \A k \in 1..2 : SubSeq(g, 1, 2)[k] = g[k]
      BY <1>3, <2>1, BeginningOf
    <2>3. /\ SubSeq(Dots, 1, 2) \in Seq(E) /\ Len(SubSeq(Dots, 1, 2)) = 2
          /\ \A k \in 1..2 : SubSeq(Dots, 1, 2)[k] = Dots[k]
      BY <1>5, <2>1, BeginningOf
    <2>4. \A k \in 1..2 : g[k] = Dots[k]
      <3>1. \A k \in 1..2 : (k = 1 \/ k = 2) /\ k \in 1..o
        BY <1>3, <1>7
      <3> QED  BY <1>2, <1>3, <3>1
    <2>5. SubSeq(g, 1, 2) = SubSeq(Dots, 1, 2)
      <3> DEFINE a == SubSeq(g, 1, 2)
                 b == SubSeq(Dots, 1, 2)
      <3>1. a \in Seq(E) /\ b \in Seq(E) /\ Len(a) = Len(b) /\ \A k \in 1..Len(a) : a[k] = b[k]
        BY <2>2, <2>3, <2>4
      <3> HIDE DEF a, b
      <3>2. a = b
        BY <3>1, SeqEqual
      <3> QED  BY <3>2 DEF a, b
    <2>6. 2 =< Len(g)
      BY <1>3, <1>7
    <2> QED  BY <1>5, <2>5, <2>6, Zenon DEF IsPrefix
  <1>8. /\ (\A j \in DOMAIN names : \E k \in 3..o : names[j] = g[k])
        /\ \A k \in 3..o : \E j \in DOMAIN names : names[j] = g[k]
    <2>1. /\ 3 \in Int /\ o \in Int /\ (\A k \in 3..o : k \in 1..o)
          /\ \A j \in 1..o - 3 + 1 : 3 + j - 1 \in 3..o
      BY <1>3
    <2>2. \A k \in 3..o : g[k] \in E
      BY <1>3, <2>1
    <2>3. names \in Seq(E) /\ Len(names) = (IF 3 <= o THEN o - 3 + 1 ELSE 0)
          /\ \A j \in 1..o - 3 + 1 : names[j] = g[3 + j - 1]
      BY <2>1, <2>2, SubSeqProperties
    <2> HIDE DEF names
    <2>4. \A j \in DOMAIN names : j \in 1..o - 3 + 1
      BY <1>3, <2>3
    <2>5. ASSUME NEW k \in 3..o PROVE \E j \in DOMAIN names : names[j] = g[k]
      <3> DEFINE j == k - 2
      <3>1. j \in 1..o - 3 + 1 /\ 3 + j - 1 = k /\ j \in DOMAIN names
        BY <1>3, <2>3
      <3> HIDE DEF j
      <3> QED  BY <2>3, <3>1
    <2> QED  BY <2>1, <2>3, <2>4, <2>5
  <1> HIDE DEF names
  <1>9. \A k \in 3..o : k \in 3..Len(D) /\ k \in 1..o
    BY <1>1, <1>3
  <1>10. ToSet(names) \subseteq some
    BY <1>2, <1>3, <1>8, <1>9 DEF ToSet
  <1>11. ASSUME o = Len(D) PROVE all \subseteq ToSet(names)
    BY <1>2, <1>3, <1>8, <1>9, <1>11 DEF ToSet
  <1> QED  BY <1>3, <1>4, <1>6, <1>7, <1>10, <1>11 DEF names

------------------------------------------------------------------------------
(***************************************************************************)
(* run_mutation: mkdir, rm, rmdir and mv are answered Ok only if the       *)
(* device carried them out, whichever shell protocol it speaks, and        *)
(* wherever adb was cut off.                                               *)
(***************************************************************************)
THEOREM OkIsDone == Spec => []OkMeansDone
  <1>1. OpsInv => OkMeansDone
    BY DEF OpsInv, Honest, OkMeansDone
  <1> QED  BY NothingAsked, AnswersStayHonest, <1>1, PTL DEF Spec

(***************************************************************************)
(* A change that the device made, with adb there until the end, is         *)
(* answered Ok: what am broadcast prints (rescan) and the date that the    *)
(* device did not know first (touch) are no failures.                      *)
(***************************************************************************)
THEOREM DoneIsOk == Spec => []DoneMeansOk
  <1>1. OpsInv => DoneMeansOk
    BY DEF OpsInv, Honest, DoneMeansOk, Ops
  <1> QED  BY NothingAsked, AnswersStayHonest, <1>1, PTL DEF Spec

(***************************************************************************)
(* touch: however many threads learn at the same time that the device      *)
(* wants the old dates, and whenever one lowers touch_gnu_mode, no touch   *)
(* gives up on the date.                                                   *)
(***************************************************************************)
THEOREM TouchGetsThrough == Spec => []TouchFallsBack
  <1>1. OpsInv => TouchFallsBack
    BY DEF OpsInv, Honest, TouchFallsBack
  <1> QED  BY NothingAsked, AnswersStayHonest, <1>1, PTL DEF Spec

(***************************************************************************)
(* errno_for_message: a refusal is told with the device's errno, or EIO,   *)
(* as long as no path has the text of an error in it: it is looked for in  *)
(* the whole message.                                                      *)
(***************************************************************************)
THEOREM RefusalsAreTold ==
  ASSUME NoErrorInPaths
  PROVE  Spec => []ErrnoIsTheDevices
  <1>1. OpsInv => ErrnoIsTheDevices
    BY TheTable DEF OpsInv, Honest, ErrnoIsTheDevices, Ops
  <1> QED  BY NothingAsked, AnswersStayHonest, <1>1, PTL DEF Spec
=============================================================================
