------------------------------ MODULE CopyTable ------------------------------
(***************************************************************************)
(* The table of local copies of src/src/fs.rs: AdbFs::open_copies, the     *)
(* LocalCopy objects it points to, and AdbFs::open_files, the handles that *)
(* keep them alive.  acquire_copy and release_copy are run by the FUSE     *)
(* worker threads; every step below is one operation another thread can    *)
(* observe: a DashMap call, a lock or unlock of a copy's mutex, a change   *)
(* of the local file.                                                      *)
(*                                                                         *)
(* A copy is the identity of an Arc<LocalCopy>.  The Arc is freed when     *)
(* nothing points to it, so an identity no longer referred to is fresh     *)
(* again.  The local file is named after the inode (local_path_for), not   *)
(* after the copy: an old and a new copy of one inode share the name.      *)
(***************************************************************************)
EXTENDS Naturals, FiniteSets

CONSTANTS
  Workers,   \* FUSE worker threads (fs.rs, mount: n_threads)
  Inodes,    \* inode numbers the kernel holds
  Handles,   \* file handle numbers (fs.rs, next_fh)
  Copies,    \* identities of Arc<LocalCopy>
  NoInode,   \* a worker with no request
  NoWorker,  \* owner of an unlocked mutex
  NoCopy,    \* no entry, no Arc held
  NoHandle   \* no entry in open_files

ASSUME ThreadsAndHandlesAreFinite ==
  IsFiniteSet(Workers) /\ IsFiniteSet(Handles)

ASSUME IdentitiesAreDistinct ==
  /\ NoWorker \notin Workers
  /\ NoCopy \notin Copies
  /\ NoInode \notin Inodes
  /\ NoHandle \notin [ino : Inodes, copy : Copies]
  /\ Workers \cap Handles = {}

VARIABLES
  open_copies,  \* the map: inode -> copy
  open_files,   \* handle -> the inode and the Arc it keeps
  refs,         \* CopyState::refs
  pulled,       \* CopyState::pulled
  evicted,      \* CopyState::evicted
  owner,        \* which worker holds the mutex of a copy
  files,        \* inodes whose local file exists in tmp_dir
  pc,           \* where a worker stands in acquire_copy or release_copy
  ino,          \* the inode it works on
  init,         \* how it would populate the copy (CopyInit)
  held          \* the Arc in its hands

copyVars == <<open_copies, open_files, refs, pulled, evicted, owner, files,
              pc, ino, init, held>>

(***************************************************************************)
(* Points of acquire_copy: "lookup" (before entry()), "lock" (before       *)
(* state.lock()), "populate", "count".  "using" is after it returned Ok:   *)
(* the worker owns one reference.  Points of release_copy: "release"       *)
(* (before state.lock()), "remove".  "unmap" and "unlock" close both.      *)
(***************************************************************************)
PCs == {"idle", "lookup", "lock", "populate", "count", "using",
        "release", "remove", "unmap", "unlock"}

Inits == {"Pull", "Empty"}

Entry == [ino : Inodes, copy : Copies]

(***************************************************************************)
(* The handles open on a copy, and the workers that own a reference to it  *)
(* and have not yet given it to a handle or given it back.                 *)
(***************************************************************************)
Opened == {h \in Handles : open_files[h] # NoHandle}

HandlesOf(c) == {h \in Opened : open_files[h].copy = c}

WorkersOf(c) == {w \in Workers : pc[w] \in {"using", "release"} /\ held[w] = c}

Holders(c) == HandlesOf(c) \cup WorkersOf(c)

\* An identity nothing refers to: the Arc has been freed or never existed.
Fresh == {c \in Copies : /\ \A i \in Inodes : open_copies[i] # c
                         /\ \A w \in Workers : held[w] # c
                         /\ HandlesOf(c) = {}}

------------------------------------------------------------------------------
CopyInitState ==
  /\ open_copies = [i \in Inodes |-> NoCopy]
  /\ open_files = [h \in Handles |-> NoHandle]
  /\ refs = [c \in Copies |-> 0]
  /\ pulled = [c \in Copies |-> FALSE]
  /\ evicted = [c \in Copies |-> FALSE]
  /\ owner = [c \in Copies |-> NoWorker]
  /\ files = {}
  /\ pc = [w \in Workers |-> "idle"]
  /\ ino = [w \in Workers |-> NoInode]
  /\ init = [w \in Workers |-> "Pull"]
  /\ held = [w \in Workers |-> NoCopy]

(***************************************************************************)
(* acquire_copy.                                                           *)
(***************************************************************************)

\* A handler calls acquire_copy(i, path, k): open, create or setattr.
Acquire(w, i, k) ==
  /\ pc[w] = "idle"
  /\ pc' = [pc EXCEPT ![w] = "lookup"]
  /\ ino' = [ino EXCEPT ![w] = i]
  /\ init' = [init EXCEPT ![w] = k]
  /\ UNCHANGED <<open_copies, open_files, refs, pulled, evicted, owner, files, held>>

\* entry(ino).or_insert_with(LocalCopy::new), Arc::clone: one shard lock.
LookupMapped(w) ==
  /\ pc[w] = "lookup"
  /\ open_copies[ino[w]] # NoCopy
  /\ held' = [held EXCEPT ![w] = open_copies[ino[w]]]
  /\ pc' = [pc EXCEPT ![w] = "lock"]
  /\ UNCHANGED <<open_copies, open_files, refs, pulled, evicted, owner, files, ino, init>>

LookupNew(w, c) ==
  /\ pc[w] = "lookup"
  /\ open_copies[ino[w]] = NoCopy
  /\ c \in Fresh
  /\ open_copies' = [open_copies EXCEPT ![ino[w]] = c]
  /\ refs' = [refs EXCEPT ![c] = 0]
  /\ pulled' = [pulled EXCEPT ![c] = FALSE]
  /\ evicted' = [evicted EXCEPT ![c] = FALSE]
  /\ owner' = [owner EXCEPT ![c] = NoWorker]
  /\ held' = [held EXCEPT ![w] = c]
  /\ pc' = [pc EXCEPT ![w] = "lock"]
  /\ UNCHANGED <<open_files, files, ino, init>>

\* Bug: the mutex is not held across the pull.
LockShared(w) ==
  /\ pc[w] = "lock"
  /\ ~evicted[held[w]]
  /\ owner' = [owner EXCEPT ![held[w]] = w]
  /\ pc' = [pc EXCEPT ![w] = "populate"]
  /\ UNCHANGED <<open_copies, open_files, refs, pulled, evicted, files, ino, init, held>>

\* Bug: `evicted` is not looked at after the wait.
LockEvicted(w) ==
  /\ pc[w] = "lock"
  /\ owner[held[w]] = NoWorker
  /\ owner' = [owner EXCEPT ![held[w]] = w]
  /\ pc' = [pc EXCEPT ![w] = "populate"]
  /\ UNCHANGED <<open_copies, open_files, refs, pulled, evicted, files, ino, init, held>>

\* The mutex is free and the copy is live: keep the lock and populate.
Lock(w) ==
  /\ pc[w] = "lock"
  /\ owner[held[w]] = NoWorker
  /\ ~evicted[held[w]]
  /\ owner' = [owner EXCEPT ![held[w]] = w]
  /\ pc' = [pc EXCEPT ![w] = "populate"]
  /\ UNCHANGED <<open_copies, open_files, refs, pulled, evicted, files, ino, init, held>>

\* `if state.evicted { continue; }`: the guard is dropped, start over.
Retry(w) ==
  /\ pc[w] = "lock"
  /\ owner[held[w]] = NoWorker
  /\ evicted[held[w]]
  /\ held' = [held EXCEPT ![w] = NoCopy]
  /\ pc' = [pc EXCEPT ![w] = "lookup"]
  /\ UNCHANGED <<open_copies, open_files, refs, pulled, evicted, owner, files, ino, init>>

\* File::create, or ops.pull when nothing was pulled yet: the local file now
\* exists.  A copy that was pulled is taken as it is.
MustPopulate(w) == init[w] = "Empty" \/ ~pulled[held[w]]

Populate(w) ==
  /\ pc[w] = "populate"
  /\ files' = IF MustPopulate(w) THEN files \cup {ino[w]} ELSE files
  /\ pc' = [pc EXCEPT ![w] = "count"]
  /\ UNCHANGED <<open_copies, open_files, refs, pulled, evicted, owner, ino, init, held>>

\* Bug: the reference is not counted.
CountNothing(w) ==
  /\ pc[w] = "count"
  /\ pulled' = [pulled EXCEPT ![held[w]] = TRUE]
  /\ owner' = [owner EXCEPT ![held[w]] = NoWorker]
  /\ pc' = [pc EXCEPT ![w] = "using"]
  /\ UNCHANGED <<open_copies, open_files, refs, evicted, files, ino, init, held>>

\* Bug: only the first reference is counted.
CountOnce(w) ==
  /\ pc[w] = "count"
  /\ pulled' = [pulled EXCEPT ![held[w]] = TRUE]
  /\ refs' = [refs EXCEPT ![held[w]] = 1]
  /\ owner' = [owner EXCEPT ![held[w]] = NoWorker]
  /\ pc' = [pc EXCEPT ![w] = "using"]
  /\ UNCHANGED <<open_copies, open_files, evicted, files, ino, init, held>>

\* pulled = true, refs += 1, drop(state), Ok(copy).
Count(w) ==
  /\ pc[w] = "count"
  /\ pulled' = [pulled EXCEPT ![held[w]] = TRUE]
  /\ refs' = [refs EXCEPT ![held[w]] = @ + 1]
  /\ owner' = [owner EXCEPT ![held[w]] = NoWorker]
  /\ pc' = [pc EXCEPT ![w] = "using"]
  /\ UNCHANGED <<open_copies, open_files, evicted, files, ino, init, held>>

\* Bug: the copy of a failed pull stays in the map.
PopulateFailKeeps(w) ==
  /\ pc[w] = "populate"
  /\ MustPopulate(w)
  /\ files' \in IF init[w] = "Pull" THEN {files, files \cup {ino[w]}} ELSE {files}
  /\ pc' = [pc EXCEPT ![w] = "unlock"]
  /\ UNCHANGED <<open_copies, open_files, refs, pulled, evicted, owner, ino, init, held>>

\* The pull or the create failed.  What an interrupted `adb pull` leaves on
\* the local disk is adb's choice.  A copy nobody has is evicted; one that is
\* open elsewhere stays.
PopulateFail(w) ==
  /\ pc[w] = "populate"
  /\ MustPopulate(w)
  /\ files' \in IF init[w] = "Pull" THEN {files, files \cup {ino[w]}} ELSE {files}
  /\ IF refs[held[w]] = 0
       THEN /\ evicted' = [evicted EXCEPT ![held[w]] = TRUE]
            /\ pc' = [pc EXCEPT ![w] = "unmap"]
       ELSE /\ pc' = [pc EXCEPT ![w] = "unlock"]
            /\ UNCHANGED evicted
  /\ UNCHANGED <<open_copies, open_files, refs, pulled, owner, ino, init, held>>

------------------------------------------------------------------------------
(***************************************************************************)
(* What a handler does with the reference it got, and release_copy.        *)
(***************************************************************************)

\* open_files.insert: the handle keeps the Arc and with it the reference.
Install(w, h) ==
  /\ pc[w] = "using"
  /\ open_files[h] = NoHandle
  /\ open_files' = [open_files EXCEPT ![h] = [ino |-> ino[w], copy |-> held[w]]]
  /\ held' = [held EXCEPT ![w] = NoCopy]
  /\ ino' = [ino EXCEPT ![w] = NoInode]
  /\ init' = [init EXCEPT ![w] = "Pull"]
  /\ pc' = [pc EXCEPT ![w] = "idle"]
  /\ UNCHANGED <<open_copies, refs, pulled, evicted, owner, files>>

\* The handler failed after acquire_copy, or setattr is done: release_copy.
Drop(w) ==
  /\ pc[w] = "using"
  /\ pc' = [pc EXCEPT ![w] = "release"]
  /\ UNCHANGED <<open_copies, open_files, refs, pulled, evicted, owner, files, ino, init, held>>

\* The release request: open_files.remove, then release_copy.
ReleaseHandle(w, h) ==
  /\ pc[w] = "idle"
  /\ h \in Opened
  /\ open_files' = [open_files EXCEPT ![h] = NoHandle]
  /\ ino' = [ino EXCEPT ![w] = open_files[h].ino]
  /\ held' = [held EXCEPT ![w] = open_files[h].copy]
  /\ pc' = [pc EXCEPT ![w] = "release"]
  /\ UNCHANGED <<open_copies, refs, pulled, evicted, owner, files, init>>

\* lock, refs -= 1, and nothing else to do unless that was the last one.
ReleaseShared(w) ==
  /\ pc[w] = "release"
  /\ owner[held[w]] = NoWorker
  /\ refs[held[w]] # 1
  /\ refs' = [refs EXCEPT ![held[w]] = @ - 1]
  /\ held' = [held EXCEPT ![w] = NoCopy]
  /\ ino' = [ino EXCEPT ![w] = NoInode]
  /\ init' = [init EXCEPT ![w] = "Pull"]
  /\ pc' = [pc EXCEPT ![w] = "idle"]
  /\ UNCHANGED <<open_copies, open_files, pulled, evicted, owner, files>>

\* Bug: remove_if comes before remove_file.
ReleaseLastUnmapsFirst(w) ==
  /\ pc[w] = "release"
  /\ owner[held[w]] = NoWorker
  /\ refs[held[w]] = 1
  /\ refs' = [refs EXCEPT ![held[w]] = 0]
  /\ evicted' = [evicted EXCEPT ![held[w]] = TRUE]
  /\ owner' = [owner EXCEPT ![held[w]] = w]
  /\ open_copies' = [open_copies EXCEPT ![ino[w]] = NoCopy]
  /\ pc' = [pc EXCEPT ![w] = "remove"]
  /\ UNCHANGED <<open_files, pulled, files, ino, init, held>>

\* Bug: the first handle to go evicts the copy.
ReleaseAnyEvicts(w) ==
  /\ pc[w] = "release"
  /\ owner[held[w]] = NoWorker
  /\ refs' = [refs EXCEPT ![held[w]] = @ - 1]
  /\ evicted' = [evicted EXCEPT ![held[w]] = TRUE]
  /\ owner' = [owner EXCEPT ![held[w]] = w]
  /\ pc' = [pc EXCEPT ![w] = "remove"]
  /\ UNCHANGED <<open_copies, open_files, pulled, files, ino, init, held>>

\* lock, refs reaches zero, evicted = true.
ReleaseLast(w) ==
  /\ pc[w] = "release"
  /\ owner[held[w]] = NoWorker
  /\ refs[held[w]] = 1
  /\ refs' = [refs EXCEPT ![held[w]] = 0]
  /\ evicted' = [evicted EXCEPT ![held[w]] = TRUE]
  /\ owner' = [owner EXCEPT ![held[w]] = w]
  /\ pc' = [pc EXCEPT ![w] = "remove"]
  /\ UNCHANGED <<open_copies, open_files, pulled, files, ino, init, held>>

\* std::fs::remove_file(&copy.path), errors ignored.
RemoveFile(w) ==
  /\ pc[w] = "remove"
  /\ files' = files \ {ino[w]}
  /\ pc' = [pc EXCEPT ![w] = "unmap"]
  /\ UNCHANGED <<open_copies, open_files, refs, pulled, evicted, owner, ino, init, held>>

\* Bug: the entry stays in the map.
UnmapForgotten(w) ==
  /\ pc[w] = "unmap"
  /\ pc' = [pc EXCEPT ![w] = "unlock"]
  /\ UNCHANGED <<open_copies, open_files, refs, pulled, evicted, owner, files, ino, init, held>>

\* open_copies.remove_if(ino, ptr_eq): only the copy's own entry.
Unmap(w) ==
  /\ pc[w] = "unmap"
  /\ open_copies' = [open_copies EXCEPT ![ino[w]] = IF @ = held[w] THEN NoCopy ELSE @]
  /\ pc' = [pc EXCEPT ![w] = "unlock"]
  /\ UNCHANGED <<open_files, refs, pulled, evicted, owner, files, ino, init, held>>

\* The guard goes out of scope and the handler replies.
Unlock(w) ==
  /\ pc[w] = "unlock"
  /\ owner' = [owner EXCEPT ![held[w]] = NoWorker]
  /\ held' = [held EXCEPT ![w] = NoCopy]
  /\ ino' = [ino EXCEPT ![w] = NoInode]
  /\ init' = [init EXCEPT ![w] = "Pull"]
  /\ pc' = [pc EXCEPT ![w] = "idle"]
  /\ UNCHANGED <<open_copies, open_files, refs, pulled, evicted, files>>

------------------------------------------------------------------------------
\* The kernel sends requests that take or give back a reference.
Request(w) ==
  \/ \E i \in Inodes, k \in Inits : Acquire(w, i, k)
  \/ \E h \in Handles : ReleaseHandle(w, h)

\* What a worker does on its own until it has answered.
Step(w) ==
  \/ LookupMapped(w) \/ (\E c \in Copies : LookupNew(w, c))
  \/ Lock(w) \/ Retry(w)
  \/ Populate(w) \/ PopulateFail(w) \/ Count(w)
  \/ (\E h \in Handles : Install(w, h)) \/ Drop(w)
  \/ ReleaseShared(w) \/ ReleaseLast(w) \/ RemoveFile(w)
  \/ Unmap(w) \/ Unlock(w)

CopyNext == \E w \in Workers : Request(w) \/ Step(w)

CopySpec == CopyInitState /\ [][CopyNext]_copyVars

------------------------------------------------------------------------------
(***************************************************************************)
(* Properties.                                                             *)
(***************************************************************************)

\* Every variable keeps its type (the fields of AdbFs, LocalCopy, CopyState).
CopyTypeOK ==
  /\ open_copies \in [Inodes -> Copies \cup {NoCopy}]
  /\ open_files \in [Handles -> Entry \cup {NoHandle}]
  /\ refs \in [Copies -> Nat]
  /\ pulled \in [Copies -> BOOLEAN]
  /\ evicted \in [Copies -> BOOLEAN]
  /\ owner \in [Copies -> Workers \cup {NoWorker}]
  /\ files \subseteq Inodes
  /\ pc \in [Workers -> PCs]
  /\ ino \in [Workers -> Inodes \cup {NoInode}]
  /\ init \in [Workers -> Inits]
  /\ held \in [Workers -> Copies \cup {NoCopy}]

\* Whoever has a reference to an inode's copy has the copy the map shows, and
\* it is not evicted: two opens of one file share one local copy (the comment
\* on LocalCopy, fs.rs:36-40).
OneCopyPerInode ==
  /\ \A h \in Opened :
       LET e == open_files[h]
       IN  open_copies[e.ino] = e.copy /\ ~evicted[e.copy]
  /\ \A w \in Workers : pc[w] \in {"using", "release"} =>
       open_copies[ino[w]] = held[w] /\ ~evicted[held[w]]

\* refs counts the references that exist, so release_copy's test for zero is
\* right and `refs -= 1` cannot wrap (fs.rs:273).
RefsAreExact ==
  \A c \in Copies \ Fresh : refs[c] = Cardinality(Holders(c))

\* The local file is there, and stays there, while anybody may read or write
\* it, although other workers evict and re-create copies under the same name.
FilePresent ==
  /\ \A h \in Opened : open_files[h].ino \in files
  /\ \A w \in Workers : pc[w] \in {"using", "release"} => ino[w] \in files

\* A pull, which replaces the contents of the local file, and the removal of
\* the file happen only while nobody has the inode open (fs.rs:244-250, 276).
NoClobber ==
  \A w \in Workers :
    \/ pc[w] = "populate" /\ init[w] = "Pull" /\ MustPopulate(w)
    \/ pc[w] = "remove"
    => /\ \A h \in Opened : open_files[h].ino # ino[w]
       /\ \A v \in Workers \ {w} :
            pc[v] \in {"populate", "count", "using", "release", "remove"}
              => ino[v] # ino[w]

\* A copy stays in the map only while it has a reference or a worker is about
\* to take one: a failed pull leaves nothing behind that a later open would
\* take for the file's contents (fs.rs:1098).
NoOrphan ==
  \A i \in Inodes : open_copies[i] # NoCopy =>
    \/ refs[open_copies[i]] > 0
    \/ \E w \in Workers : held[w] = open_copies[i]
=============================================================================
