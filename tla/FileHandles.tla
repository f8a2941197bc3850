----------------------------- MODULE FileHandles -----------------------------
(***************************************************************************)
(* The file handlers of src/src/fs.rs - open, create, setattr with a size, *)
(* write, flush, release - over the table of local copies, with the data   *)
(* they move: the local file, the file on the device, the dirty flag.      *)
(* Every step conjoins a step of CopyTable, or leaves the table alone, with*)
(* what happens to the data.                                               *)
(*                                                                         *)
(* The contents of a file are the set of writes it holds; OnDevice is what *)
(* it held before the mount.  Every write is made once, and has a place in *)
(* the file, so that truncating to n keeps the writes below n.             *)
(*                                                                         *)
(* A rename moves the file on the device, then the path of the inode that  *)
(* is open; how the maps do that is InodeMap's subject, metadata are those *)
(* of the cache.                                                           *)
(***************************************************************************)
EXTENDS CopyTable

CONSTANTS
  Writes,    \* writes made to a file, named by their place: a subset of 1..n
  Sizes,     \* bound: sizes setattr truncates a file to
  Paths,     \* paths on the device, in one directory
  Nowhere,   \* no path
  Absent,    \* no such file on the device
  NoFh       \* the worker serves no request on a handle

OnDevice == 0

Contents == SUBSET (Writes \cup {OnDevice})

ASSUME WritesHavePlaces == Writes \subseteq Nat \ {0} /\ Sizes \subseteq Nat
ASSUME AbsentIsNoContents == \A x \in Contents : x # Absent
ASSUME NoFhIsNoHandle == NoFh \notin Handles
ASSUME NowhereIsNoPath == Nowhere \notin Paths

VARIABLES
  local,      \* what the local file of an inode holds, if it exists
  device,     \* what the device has under a path, or Absent
  path,       \* ino_to_path
  dirty,      \* LocalCopy::dirty
  op,         \* the handler a worker runs
  stage,      \* where it stands in it, outside acquire_copy and release_copy
  fh,         \* the handle a write or flush is about
  arg,        \* the write made, or the size truncated to
  snap,       \* what a push has read of the local file, or failed to push
  remote,     \* the path a handler has looked up; those of a rename
  \* History, for the kernel's side of the protocol and for the properties:
  written,    \* writes made to an inode so far
  unflushed,  \* handles written to since their last flush began
  delivered,  \* writes known to be on the device by a push or a pull
  failed,     \* writes in a push whose failure was reported
  due,        \* writes acknowledged before a flush began
  home,       \* the path under which the device has the file of an inode
  astray      \* paths of files one of whose renames was reported as failed

fileVars == <<local, device, dirty, op, stage, fh, arg, snap, remote,
              written, unflushed, delivered, failed, due>>

pathVars == <<path, home, astray>>

vars == <<copyVars, fileVars, pathVars>>

Ops == {"none", "open", "create", "truncate", "write", "flush", "rename"}

Stages == {"none", "open", "install", "shrink", "mark", "swap", "capture",
           "land", "sync", "restore", "ok", "err"}

\* The copy and inode the running handler is about: those of the handle it
\* serves, which the kernel keeps open meanwhile, or those it acquired.
InodeOf(w) == IF fh[w] # NoFh THEN open_files[fh[w]].ino ELSE ino[w]
CopyOf(w)  == IF fh[w] # NoFh THEN open_files[fh[w]].copy ELSE held[w]

WorkingOn(i, stages) == {w \in Workers : stage[w] \in stages /\ InodeOf(w) = i}

\* Writes to i the kernel has seen acknowledged.
Acked(i) ==
  written[i] \ {arg[w] : w \in {v \in WorkingOn(i, {"mark"}) : op[v] = "write"}}

Free(w) == pc[w] = "idle" /\ op[w] = "none"

\* `write` keeps its entry of open_files locked until it has replied; others
\* on the same handle wait for it.
Locked(h) == \E w \in Workers : op[w] = "write" /\ fh[w] = h

Goto(w, s) == stage' = [stage EXCEPT ![w] = s]

\* The handler is over: nothing of it is left.
Reply(w) ==
  /\ op' = [op EXCEPT ![w] = "none"]
  /\ stage' = [stage EXCEPT ![w] = "none"]
  /\ fh' = [fh EXCEPT ![w] = NoFh]
  /\ arg' = [arg EXCEPT ![w] = 0]
  /\ snap' = [snap EXCEPT ![w] = {}]
  /\ remote' = [remote EXCEPT ![w] = <<>>]
  /\ due' = [due EXCEPT ![w] = {}]

Init ==
  /\ CopyInitState
  /\ local = [i \in Inodes |-> {}]
  /\ device \in [Paths -> {Absent, {OnDevice}}]
  /\ path \in {f \in [Inodes -> Paths] : \A i, j \in Inodes : f[i] = f[j] => i = j}
  /\ home = path
  /\ astray = {}
  /\ dirty = [c \in Copies |-> FALSE]
  /\ op = [w \in Workers |-> "none"]
  /\ stage = [w \in Workers |-> "none"]
  /\ fh = [w \in Workers |-> NoFh]
  /\ arg = [w \in Workers |-> 0]
  /\ snap = [w \in Workers |-> {}]
  /\ remote = [w \in Workers |-> <<>>]
  /\ written = [i \in Inodes |-> {}]
  /\ unflushed = {}
  /\ delivered = [i \in Inodes |-> {}]
  /\ failed = [i \in Inodes |-> {}]
  /\ due = [w \in Workers |-> {}]

------------------------------------------------------------------------------
(***************************************************************************)
(* Requests that take a reference, and acquire_copy.                       *)
(***************************************************************************)

\* get_path gives a path, or the request is refused.
Begin(w, i, o, n) ==
  /\ Free(w)
  /\ path[i] # Nowhere
  /\ op' = [op EXCEPT ![w] = o]
  /\ arg' = [arg EXCEPT ![w] = n]
  /\ remote' = [remote EXCEPT ![w] = <<path[i]>>]
  /\ UNCHANGED <<local, device, dirty, stage, fh, snap, written, unflushed,
                 delivered, failed, due>>

\* Bound: next_fh never runs out, so no open starts that might find the model's
\* handle numbers used up.
HandleLeft ==
  Cardinality(Opened) + Cardinality({w \in Workers : op[w] \in {"open", "create"}})
    < Cardinality(Handles)

Open(w, i) == HandleLeft /\ Acquire(w, i, "Pull") /\ Begin(w, i, "open", 0)

\* The kernel has the directory locked.
Create(w, i) ==
  /\ HandleLeft
  /\ \A v \in Workers : op[v] # "rename"
  /\ Acquire(w, i, "Empty")
  /\ Begin(w, i, "create", 0)

\* setattr with a size: to zero needs no pull.
Truncate(w, i, n) ==
  /\ Acquire(w, i, IF n = 0 THEN "Empty" ELSE "Pull")
  /\ Begin(w, i, "truncate", n)

\* LocalCopy::new starts with a clear flag.
NewCopy(w, c) ==
  /\ LookupNew(w, c)
  /\ dirty' = [dirty EXCEPT ![c] = FALSE]
  /\ UNCHANGED <<local, device, op, stage, fh, arg, snap, remote, written, unflushed,
                 delivered, failed, due>>

WaitForCopy(w) ==
  /\ LookupMapped(w) \/ Lock(w) \/ Retry(w)
  /\ UNCHANGED fileVars

CreateLocal(w) ==
  /\ Populate(w)
  /\ init[w] = "Empty"
  /\ local' = [local EXCEPT ![ino[w]] = {}]
  /\ UNCHANGED <<device, dirty, op, stage, fh, arg, snap, remote, written, unflushed,
                 delivered, failed, due>>

\* Bug: every open pulls, the first one or not.
PullAgain(w) ==
  /\ Populate(w)
  /\ init[w] = "Pull"
  /\ device[remote[w][1]] # Absent
  /\ local' = [local EXCEPT ![ino[w]] = device[remote[w][1]]]
  /\ delivered' = [delivered EXCEPT ![ino[w]] = @ \cup (device[remote[w][1]] \cap Writes)]
  /\ UNCHANGED <<device, dirty, op, stage, fh, arg, snap, remote, written, unflushed,
                 failed, due>>

Pull(w) ==
  /\ Populate(w)
  /\ init[w] = "Pull" /\ ~pulled[held[w]]
  /\ device[remote[w][1]] # Absent
  /\ local' = [local EXCEPT ![ino[w]] = device[remote[w][1]]]
  /\ delivered' = [delivered EXCEPT ![ino[w]] = @ \cup (device[remote[w][1]] \cap Writes)]
  /\ UNCHANGED <<device, dirty, op, stage, fh, arg, snap, remote, written, unflushed,
                 failed, due>>

TakeAsIs(w) ==
  /\ Populate(w)
  /\ init[w] = "Pull" /\ pulled[held[w]]
  /\ UNCHANGED fileVars

\* An interrupted pull may leave an empty file behind.
PopulateError(w) ==
  /\ PopulateFail(w)
  /\ local' = IF init[w] = "Pull" THEN [local EXCEPT ![ino[w]] = {}] ELSE local
  /\ UNCHANGED <<device, dirty, op, stage, fh, arg, snap, remote, written, unflushed,
                 delivered, failed, due>>

\* acquire_copy returns Ok.  The dirty store that goes with File::create was
\* made under the mutex still held.
Acquired(w) ==
  /\ Count(w)
  /\ dirty' = [dirty EXCEPT ![held[w]] = @ \/ init[w] = "Empty"]
  /\ Goto(w, IF op[w] = "truncate" THEN "shrink" ELSE "open")
  /\ UNCHANGED <<local, device, op, fh, arg, snap, remote, written, unflushed,
                 delivered, failed, due>>

------------------------------------------------------------------------------
(***************************************************************************)
(* open, create and setattr, once they have their copy.                    *)
(***************************************************************************)

\* OpenOptions::open of the local file.  create pushes before it goes on.
LocalOpen(w) ==
  /\ stage[w] = "open"
  /\ ino[w] \in files
  /\ Goto(w, IF op[w] = "create" THEN "swap" ELSE "install")
  /\ UNCHANGED copyVars
  /\ UNCHANGED <<local, device, dirty, op, fh, arg, snap, remote, written, unflushed,
                 delivered, failed, due>>

\* Opening the local file, or truncating it, failed: release_copy.
LocalFail(w) ==
  /\ stage[w] \in {"open", "shrink"}
  /\ Drop(w)
  /\ Goto(w, "none")
  /\ UNCHANGED <<local, device, dirty, op, fh, arg, snap, remote, written, unflushed,
                 delivered, failed, due>>

\* set_len(new_size).
Shrink(w) ==
  /\ stage[w] = "shrink"
  /\ ino[w] \in files
  /\ local' = [local EXCEPT ![ino[w]] = {x \in @ : x < arg[w]}]
  /\ Goto(w, "mark")
  /\ UNCHANGED copyVars
  /\ UNCHANGED <<device, dirty, op, fh, arg, snap, remote, written, unflushed,
                 delivered, failed, due>>

\* next_fh, open_files.insert, and the reply with the new handle.
InstallHandle(w, h) ==
  /\ stage[w] = "install"
  /\ Install(w, h)
  /\ Reply(w)
  /\ UNCHANGED <<local, device, dirty, written, unflushed, delivered, failed>>

------------------------------------------------------------------------------
(***************************************************************************)
(* write and flush.                                                        *)
(***************************************************************************)

\* file.write(data), under the handle's entry of open_files.
WriteLocal(w, h, x) ==
  /\ Free(w)
  /\ h \in Opened /\ ~Locked(h)
  /\ LET i == open_files[h].ino IN
       /\ x \notin written[i]
       /\ local' = [local EXCEPT ![i] = @ \cup {x}]
       /\ written' = [written EXCEPT ![i] = @ \cup {x}]
  /\ unflushed' = unflushed \cup {h}
  /\ op' = [op EXCEPT ![w] = "write"]
  /\ fh' = [fh EXCEPT ![w] = h]
  /\ arg' = [arg EXCEPT ![w] = x]
  /\ Goto(w, "mark")
  /\ UNCHANGED copyVars
  /\ UNCHANGED <<device, dirty, snap, remote, delivered, failed, due>>

\* Bug: the flag is not set.
MarkNothing(w) ==
  /\ stage[w] = "mark"
  /\ IF op[w] = "write" THEN Reply(w)
     ELSE Goto(w, "swap") /\ UNCHANGED <<op, fh, arg, snap, remote, due>>
  /\ UNCHANGED copyVars
  /\ UNCHANGED <<local, device, dirty, written, unflushed, delivered, failed>>

\* dirty.store(true), after a write or after set_len.
Mark(w) ==
  /\ stage[w] = "mark"
  /\ dirty' = [dirty EXCEPT ![CopyOf(w)] = TRUE]
  /\ IF op[w] = "write" THEN Reply(w)
     ELSE Goto(w, "swap") /\ UNCHANGED <<op, fh, arg, snap, remote, due>>
  /\ UNCHANGED copyVars
  /\ UNCHANGED <<local, device, written, unflushed, delivered, failed>>

\* A close in some process: the entry is cloned out of open_files.
Flush(w, h) ==
  /\ Free(w)
  /\ h \in Opened /\ ~Locked(h)
  /\ unflushed' = unflushed \ {h}
  /\ op' = [op EXCEPT ![w] = "flush"]
  /\ fh' = [fh EXCEPT ![w] = h]
  /\ due' = [due EXCEPT ![w] = Acked(open_files[h].ino)]
  /\ Goto(w, "swap")
  /\ UNCHANGED copyVars
  /\ UNCHANGED <<local, device, dirty, arg, snap, remote, written, delivered, failed>>

------------------------------------------------------------------------------
(***************************************************************************)
(* push_if_dirty.  No lock is held: other workers write, flush and open    *)
(* the same copy between any two of these steps.                           *)
(***************************************************************************)

\* dirty.swap(false): nothing to do, or go on.
Swap(w) ==
  /\ stage[w] = "swap"
  /\ dirty' = [dirty EXCEPT ![CopyOf(w)] = FALSE]
  /\ Goto(w, IF dirty[CopyOf(w)] THEN "capture" ELSE "ok")
  /\ UNCHANGED copyVars
  /\ UNCHANGED <<local, device, op, fh, arg, snap, remote, written, unflushed,
                 delivered, failed, due>>

\* get_path finds none: a rename has replaced the file, and with that its inode
\* is gone.  The flag goes up again; nothing is pushed.
NoPath(w) ==
  /\ stage[w] = "capture"
  /\ path[InodeOf(w)] = Nowhere
  /\ snap' = [snap EXCEPT ![w] = local[InodeOf(w)]]
  /\ Goto(w, "restore")
  /\ UNCHANGED copyVars
  /\ UNCHANGED <<local, device, dirty, op, fh, arg, remote, written, unflushed,
                 delivered, failed, due>>

\* get_path, and adb push reads the local file ...
Capture(w) ==
  /\ stage[w] = "capture"
  /\ path[InodeOf(w)] # Nowhere
  /\ InodeOf(w) \in files
  /\ remote' = [remote EXCEPT ![w] = <<path[InodeOf(w)]>>]
  /\ snap' = [snap EXCEPT ![w] = local[InodeOf(w)]]
  /\ Goto(w, "land")
  /\ UNCHANGED copyVars
  /\ UNCHANGED <<local, device, dirty, op, fh, arg, written, unflushed,
                 delivered, failed, due>>

\* ... and replaces the file on the device.
Land(w) ==
  /\ stage[w] = "land"
  /\ device' = [device EXCEPT ![remote[w][1]] = snap[w]]
  /\ Goto(w, "sync")
  /\ UNCHANGED copyVars
  /\ UNCHANGED <<local, dirty, op, fh, arg, snap, remote, written, unflushed,
                 delivered, failed, due>>

\* Bug: the error of the push is dropped.
PushFailIgnored(w) ==
  /\ stage[w] = "land"
  /\ \E d \in {device[remote[w][1]], snap[w], {}} :
       device' = [device EXCEPT ![remote[w][1]] = d]
  /\ Goto(w, "ok")
  /\ UNCHANGED copyVars
  /\ UNCHANGED <<local, dirty, op, fh, arg, snap, remote, written, unflushed,
                 delivered, failed, due>>

\* The push fails: the device has the old file, the new one, or a stub.
PushFail(w) ==
  /\ stage[w] = "land"
  /\ \E d \in {device[remote[w][1]], snap[w], {}} :
       device' = [device EXCEPT ![remote[w][1]] = d]
  /\ Goto(w, "restore")
  /\ UNCHANGED copyVars
  /\ UNCHANGED <<local, dirty, op, fh, arg, snap, remote, written, unflushed,
                 delivered, failed, due>>

\* Bug: the flag is cleared once the push is through.
SyncClears(w) ==
  /\ stage[w] = "sync"
  /\ delivered' = [delivered EXCEPT ![InodeOf(w)] = @ \cup (snap[w] \cap Writes)]
  /\ dirty' = [dirty EXCEPT ![CopyOf(w)] = FALSE]
  /\ Goto(w, "ok")
  /\ UNCHANGED copyVars
  /\ UNCHANGED <<local, device, op, fh, arg, snap, remote, written, unflushed,
                 failed, due>>

\* `adb shell sync` answers.
Sync(w) ==
  /\ stage[w] = "sync"
  /\ delivered' = [delivered EXCEPT ![InodeOf(w)] = @ \cup (snap[w] \cap Writes)]
  /\ Goto(w, "ok")
  /\ UNCHANGED copyVars
  /\ UNCHANGED <<local, device, dirty, op, fh, arg, snap, remote, written, unflushed,
                 failed, due>>

SyncFail(w) ==
  /\ stage[w] = "sync"
  /\ Goto(w, "restore")
  /\ UNCHANGED copyVars
  /\ UNCHANGED <<local, device, dirty, op, fh, arg, snap, remote, written, unflushed,
                 delivered, failed, due>>

\* Bug: the flag stays clear after a failed push.
RestoreForgotten(w) ==
  /\ stage[w] = "restore"
  /\ failed' = [failed EXCEPT ![InodeOf(w)] = @ \cup (snap[w] \cap Writes)]
  /\ Goto(w, "err")
  /\ UNCHANGED copyVars
  /\ UNCHANGED <<local, device, dirty, op, fh, arg, snap, remote, written, unflushed,
                 delivered, due>>

\* dirty.store(true), return the error.
Restore(w) ==
  /\ stage[w] = "restore"
  /\ dirty' = [dirty EXCEPT ![CopyOf(w)] = TRUE]
  /\ failed' = [failed EXCEPT ![InodeOf(w)] = @ \cup (snap[w] \cap Writes)]
  /\ Goto(w, "err")
  /\ UNCHANGED copyVars
  /\ UNCHANGED <<local, device, op, fh, arg, snap, remote, written, unflushed,
                 delivered, due>>

\* push_if_dirty has returned: flush replies ...
FlushReply(w) ==
  /\ op[w] = "flush" /\ stage[w] \in {"ok", "err"}
  /\ Reply(w)
  /\ UNCHANGED copyVars
  /\ UNCHANGED <<local, device, dirty, written, unflushed, delivered, failed>>

\* ... create asks for the metadata of what it pushed and goes on ...
CreateStat(w) ==
  /\ op[w] = "create" /\ stage[w] = "ok"
  /\ device[remote[w][1]] # Absent
  /\ Goto(w, "install")
  /\ UNCHANGED copyVars
  /\ UNCHANGED <<local, device, dirty, op, fh, arg, snap, remote, written, unflushed,
                 delivered, failed, due>>

\* ... create fails, at the push or at get_metadata, and setattr, either way,
\* is done with the copy: release_copy.
DropReference(w) ==
  /\ op[w] \in {"create", "truncate"} /\ stage[w] \in {"ok", "err"}
  /\ Drop(w)
  /\ Goto(w, "none")
  /\ UNCHANGED <<local, device, dirty, op, fh, arg, snap, remote, written, unflushed,
                 delivered, failed, due>>

------------------------------------------------------------------------------
(***************************************************************************)
(* release, and release_copy.  The kernel sends RELEASE when nothing on    *)
(* the handle is in flight; every write came before some close, and every  *)
(* close sent a FLUSH.                                                     *)
(***************************************************************************)

Release(w, h) ==
  /\ Free(w)
  /\ h \notin unflushed
  /\ \A v \in Workers : fh[v] # h
  /\ ReleaseHandle(w, h)
  /\ UNCHANGED fileVars

LastRelease(w) ==
  /\ ReleaseLast(w) \/ RemoveFile(w) \/ Unmap(w)
  /\ UNCHANGED fileVars

ReleaseDone(w) ==
  /\ ReleaseShared(w) \/ Unlock(w)
  /\ Reply(w)
  /\ UNCHANGED <<local, device, dirty, written, unflushed, delivered, failed>>

------------------------------------------------------------------------------
(***************************************************************************)
(* rename, of a file that may be open, onto one that may be open.          *)
(***************************************************************************)
Moved(from, to) == [device EXCEPT ![to] = device[from], ![from] = Absent]

Renamed(paths, from, to) ==
  [i \in Inodes |-> CASE paths[i] = from -> to
                      [] paths[i] = to -> Nowhere
                      [] OTHER -> paths[i]]

\* The kernel locks the directory for renames and creates.
CanMove(w, from, to) ==
  /\ Free(w)
  /\ \A v \in Workers : op[v] \notin {"create", "rename"}
  /\ from # to /\ device[from] # Absent

\* mv, on the device.  What is astray stays so under its new path.
Move(w, from, to) ==
  /\ CanMove(w, from, to)
  /\ device' = Moved(from, to)
  /\ home' = Renamed(home, from, to)
  /\ op' = [op EXCEPT ![w] = "rename"]
  /\ remote' = [remote EXCEPT ![w] = <<from, to>>]
  /\ astray' = IF from \in astray THEN astray \cup {to} ELSE astray
  /\ UNCHANGED <<copyVars, local, dirty, stage, fh, arg, snap, written, unflushed,
                 delivered, failed, due, path>>

\* mv goes through, and what comes after it fails: rename returns the error.
MoveAstray(w, from, to) ==
  /\ CanMove(w, from, to)
  /\ device' = Moved(from, to)
  /\ home' = Renamed(home, from, to)
  /\ astray' = astray \cup {from, to}
  /\ UNCHANGED <<copyVars, local, dirty, op, stage, fh, arg, snap, remote, written,
                 unflushed, delivered, failed, due, path>>

\* Bug: the replaced inode keeps its path.
RekeyKeeps(w) ==
  /\ op[w] = "rename"
  /\ path' = [i \in Inodes |-> IF path[i] = remote[w][1] THEN remote[w][2] ELSE path[i]]
  /\ Reply(w)
  /\ UNCHANGED <<copyVars, local, device, dirty, written, unflushed, delivered, failed,
                 home, astray>>

\* rekey_paths.
Rekey(w) ==
  /\ op[w] = "rename"
  /\ path' = Renamed(path, remote[w][1], remote[w][2])
  /\ Reply(w)
  /\ UNCHANGED <<copyVars, local, device, dirty, written, unflushed, delivered, failed,
                 home, astray>>

------------------------------------------------------------------------------
FileRequest(w) ==
  \/ \E i \in Inodes : Open(w, i)
  \/ \E i \in Inodes : Create(w, i)
  \/ \E i \in Inodes, n \in Sizes : Truncate(w, i, n)
  \/ \E h \in Handles, x \in Writes : WriteLocal(w, h, x)
  \/ \E h \in Handles : Flush(w, h)
  \/ \E h \in Handles : Release(w, h)

FileStep(w) ==
  \/ (\E c \in Copies : NewCopy(w, c)) \/ WaitForCopy(w)
  \/ CreateLocal(w) \/ Pull(w) \/ TakeAsIs(w) \/ PopulateError(w) \/ Acquired(w)
  \/ LocalOpen(w) \/ LocalFail(w) \/ Shrink(w) \/ Mark(w)
  \/ (\E h \in Handles : InstallHandle(w, h))
  \/ Swap(w) \/ NoPath(w) \/ Capture(w)
  \/ Land(w) \/ PushFail(w) \/ Sync(w) \/ SyncFail(w)
  \/ Restore(w) \/ FlushReply(w) \/ CreateStat(w) \/ DropReference(w)
  \/ LastRelease(w) \/ ReleaseDone(w)

KernelRequest(w) ==
  \/ FileRequest(w) /\ UNCHANGED pathVars
  \/ \E from, to \in Paths : Move(w, from, to) \/ MoveAstray(w, from, to)

HandlerStep(w) ==
  \/ FileStep(w) /\ UNCHANGED pathVars
  \/ Rekey(w)

Next == \E w \in Workers : KernelRequest(w) \/ HandlerStep(w)

Spec == Init /\ [][Next]_vars

\* Every worker thread is scheduled, and adb and the local disk answer.
FairSpec == Spec /\ \A w \in Workers : WF_vars(HandlerStep(w))

------------------------------------------------------------------------------
(***************************************************************************)
(* Properties.                                                             *)
(***************************************************************************)

\* Every variable keeps its type.
TypeOK ==
  /\ CopyTypeOK
  /\ local \in [Inodes -> Contents]
  /\ device \in [Paths -> {Absent} \cup Contents]
  /\ path \in [Inodes -> Paths \cup {Nowhere}]
  /\ home \in [Inodes -> Paths \cup {Nowhere}]
  /\ astray \subseteq Paths
  /\ dirty \in [Copies -> BOOLEAN]
  /\ op \in [Workers -> Ops]
  /\ stage \in [Workers -> Stages]
  /\ fh \in [Workers -> Handles \cup {NoFh}]
  /\ arg \in [Workers -> Writes \cup Sizes \cup {0}]
  /\ snap \in [Workers -> Contents]
  /\ remote \in [Workers -> {<<>>} \cup {<<p>> : p \in Paths} \cup (Paths \X Paths)]
  /\ written \in [Inodes -> SUBSET Writes]
  /\ unflushed \subseteq Handles
  /\ delivered \in [Inodes -> SUBSET Writes]
  /\ failed \in [Inodes -> SUBSET Writes]
  /\ due \in [Workers -> SUBSET Writes]

Pushing == {"capture", "land", "sync", "restore"}

\* "A write that races with the push re-marks the copy dirty rather than
\* having its data dropped" (fs.rs:285): an acknowledged write in the local
\* file has been delivered, or the flag is up, or a push under way has it.
NoWriteForgotten ==
  \A i \in Inodes :
    LET c == open_copies[i] IN
    c # NoCopy /\ pulled[c] /\ ~dirty[c] =>
      \A x \in local[i] \cap Acked(i) :
        \/ x \in delivered[i]
        \/ \E w \in WorkingOn(i, Pushing) : stage[w] = "capture" \/ x \in snap[w]

\* release_copy deletes the local file without looking at the dirty flag.
\* No acknowledged write is lost with it unless a push of that write failed
\* and somebody was told.
NoSilentLoss ==
  \A w \in Workers : pc[w] = "remove" =>
    local[ino[w]] \cap Acked(ino[w]) \subseteq delivered[ino[w]] \cup failed[ino[w]]

\* A pull reads a device file that no push is writing, although a close is
\* answered before the handle is released and a new open may come in between.
NoPullDuringPush ==
  \A w \in Workers :
    pc[w] = "populate" /\ init[w] = "Pull" /\ ~pulled[held[w]]
      => WorkingOn(ino[w], {"swap", "mark"} \cup Pushing) = {}

\* Concurrent opens of one inode behave like descriptors on one file.  A user
\* is a handle, or a worker that has a reference and has not passed it on.
UsersOf(i) == {h \in Opened : open_files[h].ino = i}
                \cup {w \in Workers : pc[w] \in {"using", "release"} /\ ino[w] = i}

Shared == INSTANCE OneFile WITH
  Users <- Handles \cup Workers,
  Data <- Writes \cup Sizes \cup {OnDevice},
  Gone <- Absent,
  users <- [i \in Inodes |-> UsersOf(i)],
  content <- [i \in Inodes |-> IF UsersOf(i) = {} THEN Absent ELSE local[i]]

SharedFile == Shared!Spec

\* The device has the file under a path, and no rename that brought it there has
\* been answered with an error.
Placed(i) == home[i] \notin astray \cup {Nowhere}

\* A clean copy that nobody is changing or pushing holds what the device has:
\* "neither pushes a stale copy" (fs.rs:1051-1052), wherever the file has been
\* renamed to: "a handle open across a rename pushes to the new path" (fs.rs:1124).
CleanMeansSynced ==
  \A i \in Inodes :
    LET c == open_copies[i] IN
    /\ Placed(i)
    /\ c # NoCopy /\ refs[c] > 0 /\ ~dirty[c] /\ owner[c] = NoWorker
    /\ WorkingOn(i, {"mark"} \cup Pushing) = {}
    => local[i] = device[home[i]]

\* push_if_dirty "pushes the local copy back to the device if it has unpushed
\* writes" (fs.rs:283): when a flush is answered Ok, the writes acknowledged
\* before it began and still in the file are on the device.
FlushOkMeansPushed ==
  \A w \in Workers : op[w] = "flush" /\ stage[w] = "ok" /\ Placed(InodeOf(w)) =>
    due[w] \cap local[InodeOf(w)] \subseteq device[home[InodeOf(w)]]

\* A push goes to the path the file has been renamed to, and never to a path that
\* another file has taken: "renaming onto an existing file leaves that file's inode
\* unreachable" (fs.rs:162), for its open handles, too.
PushesHitTheFile ==
  \A w \in Workers : stage[w] = "land" /\ remote[w][1] \notin astray =>
    remote[w][1] = home[InodeOf(w)]

\* Once the kernel stops asking, every request is answered.
RequestsAnswered ==
  <>[][\A w \in Workers : ~KernelRequest(w)]_vars
    => <>[](\A w \in Workers : Free(w))
=============================================================================
