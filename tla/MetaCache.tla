------------------------------ MODULE MetaCache ------------------------------
(***************************************************************************)
(* The metadata cache of src/src/cache.rs and every handler of             *)
(* src/src/fs.rs that fills it or clears it.  A handler is a list of       *)
(* steps: questions to the device and calls of the cache, in the order the *)
(* code makes them.  Any of the device's answers may be an error, which    *)
(* ends the handler; the steps of different workers interleave.            *)
(*                                                                         *)
(* The metadata of a file is a token that changes when the file does.  The *)
(* times and the link count of a directory, which change with its entries, *)
(* are left out, and so is an answer of `ls` that does not parse, which    *)
(* get_metadata takes for "no such file".  Paths are as in InodeMap.       *)
(***************************************************************************)
EXTENDS Naturals, FiniteSets, Sequences, SequencesExt

CONSTANTS
  Workers,   \* FUSE worker threads
  Paths,     \* device paths: sequences of names
  Tokens,    \* metadata of files that exist
  Absent,    \* no such file; in the cache, a negative entry
  NoEntry    \* the cache has no entry

Metas == Tokens \cup {Absent}

Entries == [meta : Metas, old : BOOLEAN]

ASSUME ValuesAreDistinct == Absent \notin Tokens /\ NoEntry \notin Entries
ASSUME PathsAreSequences == IsFiniteSet(Paths) /\ \A p \in Paths : Len(p) \in Nat

VARIABLES
  device,    \* the metadata of each path
  cache,     \* MetadataCache::entries: the metadata and whether the TTL is over
  todo,      \* the steps a worker has left
  answer,    \* the metadata it has from the device
  tainted    \* history: paths changed with nobody told, or with an error reported

vars == <<device, cache, todo, answer, tainted>>

Idle(w) == todo[w] = <<>>

\* p is the prefix or below it; the boundary is a path component.
Under(p, prefix) == IsPrefix(prefix, p)

\* A step: a question or a call, its path, and what else it needs: where mv
\* moves to, the metadata that ls gave.
Kinds == {"get", "stat", "stat_or_none", "insert", "invalidate", "invalidate_prefix",
          "list", "insert_listed", "change", "mkdir", "rm", "mv"}

Steps == [do : Kinds, path : Paths, to : Paths \cup Metas]

Do(what, p) == [do |-> what, path |-> p, to |-> p]

\* Whatever exists has its parent directory, where the model has that.
IsTree(d) ==
  \A p, q \in Paths : d[p] # Absent /\ Under(p, q) => d[q] # Absent

Init ==
  /\ device \in {d \in [Paths -> Metas] : IsTree(d)}
  /\ cache = [p \in Paths |-> NoEntry]
  /\ todo = [w \in Workers |-> <<>>]
  /\ answer = [w \in Workers |-> Absent]
  /\ tainted = {}

------------------------------------------------------------------------------
(***************************************************************************)
(* The handlers.                                                           *)
(***************************************************************************)

\* fetch_meta: lookup, getattr, readlink.
Fetch(p) == <<Do("get", p), Do("stat_or_none", p), Do("insert", p)>>

\* get_metadata and cache.insert, at the end of mkdir, mknod, create, setattr.
StatAndInsert(p) == <<Do("stat", p), Do("insert", p)>>

\* push_if_dirty: push_and_sync, cache.invalidate.  flush does this and no more.
Flush(p) == <<Do("change", p), Do("invalidate", p)>>

\* create pushes an empty file.  With nothing dirty by now, it asks only.
Create(p) == {Flush(p) \o StatAndInsert(p), StatAndInsert(p)}

Mkdir(p) == <<Do("mkdir", p), Do("invalidate", p)>> \o StatAndInsert(p)

\* mknod pushes a node over whatever is there.
Mknod(p) == Flush(p) \o StatAndInsert(p)

\* setattr: truncate, touch, both or neither, and the new attributes.
Truncates(p) == {Flush(p), <<>>}
Touches(p)   == {<<Do("change", p), Do("invalidate", p)>>, <<>>}

Setattr(p) == {t \o u \o StatAndInsert(p) : t \in Truncates(p), u \in Touches(p)}

Unlink(p) == <<Do("rm", p), Do("invalidate", p)>>

Rmdir(p) == <<Do("rm", p), Do("invalidate_prefix", p)>>

\* Bug: what was cached below the old name stays.
RenameExact(p, q) == <<[do |-> "mv", path |-> p, to |-> q],
                       Do("invalidate", p), Do("invalidate", q)>>

Rename(p, q) == <<[do |-> "mv", path |-> p, to |-> q],
                  Do("invalidate_prefix", p), Do("invalidate_prefix", q)>>

\* opendir: list_dir, and cache.insert for each child it could parse.
Opendir(p) == <<Do("list", p)>>

\* The kernel renames neither a file to itself nor a directory into itself.
Renames == {pq \in Paths \X Paths : ~Under(pq[1], pq[2]) /\ ~Under(pq[2], pq[1])}

HandlersAt(p) ==
  {Fetch(p), Flush(p), Mkdir(p), Mknod(p), Unlink(p), Rmdir(p), Opendir(p)}
    \cup Create(p) \cup Setattr(p)

Handlers ==
  {Rename(pq[1], pq[2]) : pq \in Renames} \cup (UNION {HandlersAt(p) : p \in Paths})

Request(w, h) ==
  /\ Idle(w)
  /\ todo' = [todo EXCEPT ![w] = h]
  /\ UNCHANGED <<device, cache, answer, tainted>>

------------------------------------------------------------------------------
(***************************************************************************)
(* Steps.                                                                  *)
(***************************************************************************)

Now(w, what) == ~Idle(w) /\ Head(todo[w]).do = what

At(w) == Head(todo[w]).path

\* On with the next step; or out, with the reply.
Proceed(w) == todo' = [todo EXCEPT ![w] = Tail(@)]

Reply(w) ==
  /\ todo' = [todo EXCEPT ![w] = <<>>]
  /\ answer' = [answer EXCEPT ![w] = Absent]

\* The last step of a handler is its reply.
ProceedOrReply(w) ==
  IF Len(todo[w]) = 1 THEN Reply(w) ELSE Proceed(w) /\ UNCHANGED answer

Fresh(p) == cache[p] # NoEntry /\ ~cache[p].old

\* Bug: the TTL is not looked at.
Present(p) == cache[p] # NoEntry

\* What a get of p would return.
Hit(p) == Fresh(p)

\* Bug: the entry carries no time.
EntryUndated(m) == [meta |-> m]

Entry(m) == [meta |-> m, old |-> FALSE]

\* MetadataCache::get: a hit is the answer.
GetHit(w) ==
  /\ Now(w, "get") /\ Hit(At(w))
  /\ Reply(w)
  /\ UNCHANGED <<device, cache, tainted>>

\* No entry, or one that is too old: it is removed in a call of its own.
GetMiss(w) ==
  /\ Now(w, "get") /\ ~Hit(At(w))
  /\ todo' = [todo EXCEPT ![w] =
       IF cache[At(w)] = NoEntry THEN Tail(@) ELSE <<Do("invalidate", At(w))>> \o Tail(@)]
  /\ UNCHANGED <<device, cache, answer, tainted>>

\* get_metadata finds the file, or knows that there is none ...
Stat(w) ==
  /\ Now(w, "stat") \/ Now(w, "stat_or_none")
  /\ Now(w, "stat") => device[At(w)] # Absent
  /\ answer' = [answer EXCEPT ![w] = device[At(w)]]
  /\ Proceed(w)
  /\ UNCHANGED <<device, cache, tainted>>

\* ... or fails.
StatFail(w) ==
  /\ Now(w, "stat") \/ Now(w, "stat_or_none")
  /\ Reply(w)
  /\ UNCHANGED <<device, cache, tainted>>

\* History: the cache now has the word of the device, unless that has changed
\* again behind the mount's back.
Heard(p, m) == tainted' = IF p \in tainted /\ m # device[p] THEN tainted ELSE tainted \ {p}

Insert(w) ==
  /\ Now(w, "insert")
  /\ cache' = [cache EXCEPT ![At(w)] = Entry(answer[w])]
  /\ Heard(At(w), answer[w])
  /\ ProceedOrReply(w)
  /\ UNCHANGED device

Invalidate(w) ==
  /\ Now(w, "invalidate")
  /\ cache' = [cache EXCEPT ![At(w)] = NoEntry]
  /\ tainted' = tainted \ {At(w)}
  /\ ProceedOrReply(w)
  /\ UNCHANGED device

InvalidatePrefix(w) ==
  /\ Now(w, "invalidate_prefix")
  /\ LET gone == {p \in Paths : Under(p, At(w))} IN
       /\ cache' = [p \in Paths |-> IF p \in gone THEN NoEntry ELSE cache[p]]
       /\ tainted' = tainted \ gone
  /\ ProceedOrReply(w)
  /\ UNCHANGED device

\* list_dir: the children it finds, each to be inserted.
List(w) ==
  /\ Now(w, "list")
  /\ LET d == At(w)
         found == {p \in Paths : Len(p) = Len(d) + 1 /\ Under(p, d) /\ device[p] # Absent}
     IN  todo' = [todo EXCEPT ![w] =
           [k \in 1..Len(SetToSeq(found)) |->
              [do |-> "insert_listed", path |-> SetToSeq(found)[k], to |-> device[SetToSeq(found)[k]]]]]
  /\ UNCHANGED <<device, cache, answer, tainted>>

InsertListed(w) ==
  /\ Now(w, "insert_listed")
  /\ cache' = [cache EXCEPT ![At(w)] = Entry(Head(todo[w]).to)]
  /\ Heard(At(w), Head(todo[w]).to)
  /\ Proceed(w)
  /\ UNCHANGED <<device, answer>>

\* What a command makes of the device.
Outcomes(step) ==
  LET p == step.path
      q == step.to
  IN  CASE step.do \in {"change", "mkdir"} -> {[device EXCEPT ![p] = t] : t \in Tokens}
        [] step.do = "rm"     -> {[device EXCEPT ![p] = Absent]}
        [] step.do = "mv"     ->
             {[r \in Paths |->
                 IF Under(r, q) THEN LET s == p \o SubSeq(r, Len(q) + 1, Len(r))
                                     IN  IF s \in Paths THEN device[s] ELSE Absent
                 ELSE IF Under(r, p) THEN Absent ELSE device[r]]}
        [] OTHER -> {}

\* mv needs its source, rm its file, mkdir a place.  Bound: mv finds no target.
Possible(step) ==
  /\ step.do \in {"mv", "rm"} => device[step.path] # Absent
  /\ step.do = "mkdir" => device[step.path] = Absent
  /\ step.do = "mv" => device[step.to] = Absent

Changed(new) == {p \in Paths : new[p] # device[p]}

\* The command succeeds and the handler goes on.
Command(w) ==
  /\ ~Idle(w) /\ Possible(Head(todo[w]))
  /\ \E new \in Outcomes(Head(todo[w])) : IsTree(new) /\ device' = new
  /\ ProceedOrReply(w)
  /\ UNCHANGED <<cache, tainted>>

\* The handler ends with an error: the command failed, or it did not but the
\* sync or the media rescan after it did.
CommandFail(w) ==
  /\ ~Idle(w) /\ Head(todo[w]).do \in {"change", "mkdir", "rm", "mv", "list"}
  /\ \/ UNCHANGED <<device, tainted>>
     \/ /\ Possible(Head(todo[w]))
        /\ \E new \in Outcomes(Head(todo[w])) :
             IsTree(new) /\ device' = new /\ tainted' = tainted \cup Changed(new)
  /\ Reply(w)
  /\ UNCHANGED cache

------------------------------------------------------------------------------
\* Another program on the device changes a file.
Outside(p) ==
  /\ \E m \in Metas \ {device[p]} : device' = [device EXCEPT ![p] = m]
  /\ IsTree(device')
  /\ tainted' = tainted \cup {p}
  /\ UNCHANGED <<cache, todo, answer>>

\* The TTL of an entry is over.
Expire(p) ==
  /\ Fresh(p)
  /\ cache' = [cache EXCEPT ![p].old = TRUE]
  /\ UNCHANGED <<device, todo, answer, tainted>>

Step(w) ==
  \/ GetHit(w) \/ GetMiss(w) \/ Stat(w) \/ StatFail(w) \/ Insert(w)
  \/ Invalidate(w) \/ InvalidatePrefix(w) \/ List(w) \/ InsertListed(w)
  \/ Command(w) \/ CommandFail(w)

Next ==
  \/ \E w \in Workers : Step(w) \/ \E h \in Handlers : Request(w, h)
  \/ \E p \in Paths : Outside(p) \/ Expire(p)

Spec == Init /\ [][Next]_vars

\* Time passes, the threads run, and the device answers.
FairSpec ==
  /\ Spec
  /\ \A w \in Workers : WF_vars(Step(w))
  /\ \A p \in Paths : WF_vars(Expire(p))

------------------------------------------------------------------------------
(***************************************************************************)
(* Properties.                                                             *)
(***************************************************************************)

\* Every variable keeps its type.
TypeOK ==
  /\ device \in [Paths -> Metas]
  /\ cache \in [Paths -> Entries \cup {NoEntry}]
  /\ todo \in [Workers -> Seq(Steps)]
  /\ answer \in [Workers -> Metas]
  /\ tainted \subseteq Paths

\* Between two requests of a single thread the cache tells the truth about
\* every path, positive or negative, but for changes that came from elsewhere
\* or were reported as an error.
CacheIsCurrent ==
  (\A w \in Workers : Idle(w)) =>
    \A p \in Paths \ tainted : Hit(p) => cache[p].meta = device[p]

\* However the workers' questions and invalidations interleave, a wrong entry
\* is served for a TTL at most: once the files stop changing, what the cache
\* answers becomes and stays true.
TruthReturns ==
  <>[][device' = device]_vars => <>[](\A p \in Paths : Hit(p) => cache[p].meta = device[p])
=============================================================================
