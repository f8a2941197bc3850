------------------------------- MODULE OneFile -------------------------------
(***************************************************************************)
(* What sharing a local copy is for (src/src/fs.rs, the comment on         *)
(* LocalCopy): concurrent opens of one inode "behave like two descriptors  *)
(* on one file instead of two copies that overwrite each other on push".   *)
(*                                                                         *)
(* An inode somebody uses has one file.  The first user finds it with some *)
(* contents; from then on it changes only by a user's writes and by        *)
(* truncation, until the last user leaves.                                 *)
(***************************************************************************)
EXTENDS Naturals

CONSTANTS
  Inodes,
  Users,     \* whoever may hold an inode open
  Data,      \* what files are made of: numbers, their place in the file
  Gone       \* no user, no file

VARIABLES
  users,     \* the users of each inode
  content    \* what all of them see

file == <<users, content>>

Used(i) == users[i] # {}

Enter(i, u) ==
  /\ users' = [users EXCEPT ![i] = @ \cup {u}]
  /\ \E d \in SUBSET Data :
       content' = IF Used(i) THEN content ELSE [content EXCEPT ![i] = d]

\* A worker thread hands its reference to a handle, or takes it from one.
Hand(i, u, v) ==
  /\ users' = [users EXCEPT ![i] = (@ \ {u}) \cup {v}]
  /\ UNCHANGED content

Leave(i, u) ==
  /\ users' = [users EXCEPT ![i] = @ \ {u}]
  /\ content' = IF users[i] = {u} THEN [content EXCEPT ![i] = Gone] ELSE content

Write(i, x) ==
  /\ Used(i)
  /\ content' = [content EXCEPT ![i] = @ \cup {x}]
  /\ UNCHANGED users

\* Also by an O_TRUNC open that is still on its way in.
Cut(i, n) ==
  /\ Used(i)
  /\ content' = [content EXCEPT ![i] = {x \in @ : x < n}]
  /\ UNCHANGED users

Init ==
  /\ users = [i \in Inodes |-> {}]
  /\ content = [i \in Inodes |-> Gone]

\* A user comes, goes or hands over, or the contents change under all of them.
Next ==
  \E i \in Inodes :
    \/ /\ users' # users
       /\ \/ \E u \in Users \ users[i] : Enter(i, u)
          \/ \E u \in users[i] : Leave(i, u)
          \/ \E u \in users[i], v \in Users \ users[i] : Hand(i, u, v)
    \/ /\ content' # content
       /\ UNCHANGED users
       /\ \E x \in Data : Write(i, x) \/ Cut(i, x)

Spec == Init /\ [][Next]_file
=============================================================================
