------------------------------- MODULE MCMount -------------------------------
(***************************************************************************)
(* Instances of Mount for TLC.                                             *)
(***************************************************************************)
EXTENDS Mount, TLC

File(type, perms, size) ==
  [type |-> type, perms |-> perms, nlink |-> 2, owner |-> <<Word("root")>>,
   group |-> <<Word("sdcard")>>, size |-> size, major |-> 3, minor |-> 5, time |-> 4,
   target |-> <<>>, denied |-> FALSE]

Plain == File("-", {<<1, "r">>, <<1, "w">>}, 7)
Setuid == File("-", {<<1, "r">>, <<1, "s">>, <<3, "x">>, <<3, "s">>}, 0)
Folder == File("d", {<<1, "r">>, <<1, "x">>}, 0)
Device == File("c", {<<2, "r">>}, 0)
Absolute == [File("l", {<<1, "r">>}, 0) EXCEPT
               !.target = <<Slash, Word("data"), Slash, Word("x")>>]
Relative == [File("l", {<<1, "r">>}, 0) EXCEPT
               !.target = <<Mark(".."), Slash, Word("x"), Space, Word("y")>>]
Denied == [Plain EXCEPT !.denied = TRUE]

MCContents == {Plain, Setuid, Folder, Device, Absolute, Relative, Denied}

\* The directory /mnt/sd, and two names in it: one is a word, the other begins
\* with a space and has a quote and a colon.
MCDir == <<Slash, Word("mnt"), Slash, Word("sd")>>
Name == <<Word("a")>>
Odd == <<Space, Word("b"), Quote, Mark(":"), Space, Word("c")>>
MCNames == {Name, Odd}

\* A name with the words of an error in it: "permission denied".
TellingNames == {Name, <<Err("EACCES")>>}

MCTimes == {4}
MCAccounts == {<<Word("root")>>}

Modern == [v2 |-> TRUE, gnu |-> TRUE, ls |-> [nlink |-> TRUE, sizes |-> TRUE], rescan |-> TRUE]
Toybox == [v2 |-> TRUE, gnu |-> FALSE, ls |-> [nlink |-> TRUE, sizes |-> FALSE], rescan |-> FALSE]
Old == [v2 |-> FALSE, gnu |-> FALSE, ls |-> [nlink |-> FALSE, sizes |-> FALSE], rescan |-> TRUE]

Command(o, f, s) == [o |-> o, f |-> f, d |-> FALSE, s |-> s]

Uid == <<"uid", Num(1000)>>
Umask == <<"umask", Octal({<<3, "r">>, <<3, "w">>, <<3, "x">>})>>

Commands ==
  {Command(o, f, s) : f \in BOOLEAN, s \in BOOLEAN, o \in {
     <<>>,
     <<Uid, Umask, <<"allow_other", NoText>>, <<"attr_timeout", Num(0)>>, <<"uid", Num(0)>> >>,
     <<(<<"debug", Num(1)>>), <<"direct_io", NoText>> >>,
     <<(<<"debug", NoText>>), <<"negative_timeout", Num(5)>> >>,
     <<(<<"uid", Word("root")>>)>>,
     <<(<<"umask", Num(999)>>), Uid>>,
     <<(<<"entry_timeout", Num(-1)>>)>> }}

Holding(contents) == [Names -> contents]

\* The answers about a file, of any kind; the commands, with what makes a difference
\* to them; touch by two threads; a directory read while it is changed; and the
\* ways to start.
MCScenes ==
  [cmd : {Command(<<>>, TRUE, TRUE), Command(<<Uid, Umask>>, FALSE, TRUE)},
   phone : {Modern, Toybox, Old}, files : {Holding(MCContents \cup {NoFile})},
   asks : {{"stat", "readlink"}}]
  \cup
  [cmd : {Command(<<>>, TRUE, TRUE)},
   phone : {Modern, Toybox, Old}, files : {Holding({Plain, Folder, NoFile})},
   asks : {{"mkdir", "rm", "rmdir", "mv"}}]
  \cup
  [cmd : {Command(<<>>, TRUE, FALSE)},
   phone : {Modern, Toybox, Old}, files : {Holding({Plain, NoFile})},
   asks : {{"touch", "rm"}}]
  \cup
  [cmd : {Command(<<>>, TRUE, TRUE)},
   phone : {Modern, Old}, files : {Holding({Folder, Plain, Denied, NoFile})},
   asks : {{"mv", "opendir"}}]
  \cup
  [cmd : Commands, phone : {Modern}, files : {Holding({NoFile})}, asks : {{}}]

Symmetry == Permutations(Workers)

\* What the theorems of MountProofs and DeviceOpsProofs suppose of names and files is so
\* here, with all the blanks, quotes and colons of these names.
Proofs == INSTANCE MountProofs

ASSUME HypothesesHold ==
  Names = MCNames =>
    /\ Proofs!NoErrorInPaths /\ Proofs!NoErrorInTargets
    /\ Proofs!OwnersAreTold /\ Proofs!OwnersAreWords
    /\ Proofs!LinksArePlain /\ Proofs!DirIsPlain
    /\ Proofs!NoArrowInPaths /\ Proofs!NamesArePlain
=============================================================================
