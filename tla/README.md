# A TLA+ specification of adbfs

adbfs mounts an Android device through `adb`. It is a FUSE file system without
storage of its own: every request of the kernel becomes `adb` commands, and what
it keeps between requests is bookkeeping. This directory models that bookkeeping,
checks it with TLC on small instances and proves the core of it with TLAPS.

Source lines are those of `src/src/*.rs`; `PROJECT.json` maps each definition to
the lines it models.

## 1. The system

| part | code | state | operations |
| --- | --- | --- | --- |
| local copies | `fs.rs` 36-78, 223-281 | `open_copies`, `LocalCopy`, `CopyState` | `acquire_copy`, `release_copy` |
| file handlers | `fs.rs` 283-300, 495-642, 756-813, 867-933 | `open_files`, `dirty`, the local file, the device's file | `open`, `create`, `read`, `write`, `flush`, `release`, `setattr`, `push_if_dirty` |
| inode map | `fs.rs` 129-170 | `path_to_ino`, `ino_to_path`, `next_ino` | `get_or_assign_ino`, `get_path`, `rekey_paths` |
| metadata cache | `cache.rs`, `fs.rs` 302-327 | `entries` with their age | `get`, `insert`, `invalidate`, `invalidate_prefix`, `fetch_meta` |
| directory streams | `fs.rs` 409-493 | `open_dirs` | `opendir`, `readdir`, `releasedir` |
| device commands | `ops.rs`, `adb/cli.rs` | `touch_gnu_mode` | `get_metadata`, `list_dir`, `touch`, `mkdir`, `rm`, `rmdir`, `mv`, `pull`, `push`, rescan |
| `ls` parser | `parse.rs` | none | pure functions |
| shell escaping | `escape.rs` | none | `shell_escape_path`; two more that nothing calls |
| mount options | `mount_opts.rs` | none | pure functions |
| mount, daemon | `main.rs`, `fs.rs` 1005-1038 | process, threads | `mount`, `daemonize` |
| adb client | `adb/` | none | runs `adb` |

How they interact. The kernel sends requests to a session with one worker thread
per processor, or one with `-s` (`fs.rs` 1020-1031). Handlers are plain calls; all
workers run them on one `AdbFs` at the same time. What they share are `DashMap`s
(each call takes one shard lock), atomics, and one mutex per local copy. There is
no lock that spans two maps, and none around a push. The kernel adds locks of its
own: one per directory for changes and first lookups in it. It holds inode numbers
and handle numbers, and sends RELEASE for a handle only when nothing else on it is
under way.

What is hard here, by part (the list with lines is `hazards` in `PROJECT.json`):

- *Local copies.* A copy may be evicted while others wait for its mutex. The local
  file is named after the inode, so an old copy's removal could hit a new copy's
  file. A pull may fail when others wait for its result.
- *File handlers.* `push_if_dirty` clears a flag, then reads the path, then pushes,
  with no lock: writes, flushes and opens of other workers come in between. Data is
  deleted at the last release without a look at the flag.
- *Inode map.* Look-up and insertion are two calls, the maps are filled one after
  the other, and a rename moves one entry at a time. The kernel keeps its numbers.
- *Metadata cache.* An answer of the device may be inserted after the change that
  invalidates it. A command may succeed and be reported as failed (sync, rescan).
- *Device commands.* Success is read off the output, and where it is printed depends on
  the device: without shell protocol v2 all is on stdout and the exit code says
  nothing. `touch` falls back through a shared flag.
- *Directory streams.* A listing is taken once and handed out in pieces, by offset, while
  the directory changes.
- *`ls` parser, escaping.* Columns that may be missing, names that look like the marks the
  parser searches for, link targets that must stay inside the mount.
- *Mount.* The fork must come between the mount and the first thread. An option sent to
  the wrong side gets the mount refused, or is lost.

What makes each part correct: one live copy per inode, counted exactly, with its
file on disk while in use; no acknowledged write dropped without a word; the
kernel's numbers lead to the kernel's paths; the cache is right but for changes it
could not know of; what a command is said to have done is what the device did; a reader
of a directory gets its files, each once; the launcher says that all is well when the
mount is there; every request is answered.

## 2. The modules

    OneFile  <--refines--  FileHandles  --extends, implements-->  CopyTable
    InodeMap                                                      MetaCache
    Mount  --extends-->  DirStream  --extends-->  DeviceOps  --extends-->  LsLine

    SingleThreadProofs -> FileDataProofs -> CopyTableProofs
    MountProofs -> DeviceOpsProofs -> LsLineProofs
    InodeMapProofs   MetaCacheProofs

- **CopyTable** - `acquire_copy` and `release_copy`, with `open_files` as the place
  where references rest. One action per step another thread can see: the `entry()`
  call (`LookupMapped`, `LookupNew`), locking the mutex and looking at `evicted`
  (`Lock`, `Retry`), populating (`Populate`, `PopulateFail`), counting (`Count`);
  and back: `ReleaseShared`, `ReleaseLast`, `RemoveFile`, `Unmap`, `Unlock`. `pc[w]`
  is the place of worker `w` in the two functions. A copy is the identity of an
  `Arc`; it is fresh again when nothing points to it.
- **FileHandles** - the handlers on top: each action conjoins a CopyTable action, or
  leaves the table alone, with what happens to the data. The contents of a file are
  the set of writes it holds; each write is made once and has a place, so that a
  truncation to `n` keeps the writes below `n`. A push is `Capture` (adb reads the
  local file) and `Land` (the device's file is replaced), and a failed push leaves
  the old file, the new one or an empty one. The device is a set of paths. A rename moves
  the file there (`Move`), then the path of the open inode (`Rekey`); `MoveAstray` is the
  rename that moved the file and was answered with an error. `path` is what the handlers
  know, `home` where the file is. The history variables `written`, `unflushed`,
  `delivered`, `failed`, `due`, `home` and `astray` are for the kernel's side and the
  properties; no handler reads them.
- **OneFile** - the abstract specification. An inode somebody uses has one file; its
  contents change only by writes and truncations until the last user leaves. This is
  the comment on `LocalCopy` (36-40).
- **InodeMap** - both maps and the counter, each map call a step, with the handlers
  that use them and with the kernel's dentries, which is what the maps are for. The
  kernel side (directory locks, dentries moved by a rename, one dentry per directory)
  is external, modelled from how the handlers use it.
- **MetaCache** - a handler is the list of its steps: questions to the device and calls
  of the cache, in the code's order. Any answer may be an error, which ends the
  handler, also when the command did succeed and only the sync or the rescan failed.
  `tainted` records the paths the mount cannot be right about: changed from outside,
  or by a command that was reported as failed.
- **LsLine** - `parse.rs` and `shell_escape_path` as functions. A text is a sequence of
  pieces: words, numbers, dates, mode strings, and the marks that the parser or the shell
  gives a meaning. `LsLine` is what the device prints, in each of its layouts;
  `parse_ls_line`, `extract_filename` and `parse_symlink_target` are what the code makes
  of it; `ShellWord` is the device's shell, by which a path that was quoted wrongly names
  another file or none.
- **DeviceOps** - a request becomes a command, the device's directory changes or does not,
  the output comes back on the streams of this kind of device, and `run_mutation`,
  `get_metadata`, `touch` or `shell` turn it into an answer. A command and its output are
  one step, as no worker can act on the directory within it but through the device; the
  steps of `touch` around it are separate, since workers share `touch_gnu_mode`.
  `Lost` is adb without a device, or dying with or without the command done.
- **DirStream** - `opendir`, `readdir`, `releasedir` beside the operations of DeviceOps;
  `there` and `seen` record which files have been in the directory all the time since
  `opendir`, and at some time.
- **Mount** - `main`, the options, `fs::mount` and `daemonize` as the sequence `Startup`,
  every step of which may fail, and then the worker threads running all of the above.
- **MC...** modules hold the symmetry sets and the path sets of the instances. MCMount
  also has TLC evaluate what the theorems about answers suppose (`HypothesesHold`).

Names follow the code; a definition whose comment says "Bug:" is not part of any
specification. It is a plausible mistake in the definition below it, kept to show
that a property notices it.

## 3. What TLC checks

| run | instance | shows |
| --- | --- | --- |
| `CopyTable` | 3 workers, 1 inode, 2 handles, 4 copies | `OneCopyPerInode`, `RefsAreExact`, `FilePresent`, `NoClobber`, `NoOrphan`: a copy in use is the one in the map, its count is the number of its users, its file exists and is neither pulled over nor removed, and failed pulls leave no entry |
| `FileHandles` | 2 workers, 2 handles, 1 write | `NoWriteForgotten`, `NoSilentLoss`, `NoPullDuringPush`: the flag loses no write, a local file dies only with writes that are delivered or whose failure was reported, and pulls and pushes of a file never overlap; `SharedFile`: the handlers implement `OneFile` |
| `SingleThread` | 1 worker, 2 handles, 3 paths, 1 write | with `-s`: `CleanMeansSynced`, `FlushOkMeansPushed`, `PushesHitTheFile`, across renames of the open file, onto an existing one and back, and files replaced while open; `SharedFile` with those renames, and with truncations to zero |
| `RequestsAnswered` | 2 workers, 1 handle, truncations to zero and one | every file request is answered, whoever waits for whom |
| `StaleClean` | 2 workers | fails: see section 4 |
| `InodeMap` | 1 worker, 2 names, 2 levels, 4 numbers to give | `DentriesResolve`, `OneNumberPerPath`, `NumbersAreDistinct`: through makes, removals, replacing renames and renames of directories the kernel's numbers lead to its paths; `NumbersAreNew`: a number about to be entered for a path is in neither map and in no dentry (that no second handler has it either is the theorem `EachNumberIsNew`) |
| `StaleDentry` | 2 workers | fails: see section 4 |
| `MetaCache` | 1 worker, 2 directories with a file each | `CacheIsCurrent`: each entry true between requests, positive or negative, tainted paths apart |
| `Mount` | 2 workers, 1 directory handle, 2 names, 3 kinds of device, the scenes below | answers: `OkMeansDone`, `DoneMeansOk`, `ErrnoIsTheDevices`, `TouchFallsBack`, `StatTellsTruth`, `LinksResolve`; streams: `ReadsTellTheDirectory`; startup: `OptionsAreKept`, `ExitTellsTheMount`, `ServedInFull` |
| `EpochPanic` | as `Mount`, a host two hours ahead of UTC | fails: see section 4 |
| `ErrnoByName` | as `Mount`, a name with the words of an error in it | fails: see section 4 |
| `MetaCacheTTL` | 2 workers, 1 path | `TruthReturns`: whatever races a fill, a wrong entry is gone a TTL later |

Bounds, and why they are enough.

- *Copies.* A worker holds at most one copy, and of the copies of one inode only one
  is live, so `w` workers and one inode never need more than `w + 1`; two are
  enough for two workers: one that found no fresh copy would be stuck for ever, and
  `RequestsAnswered` shows that none is.
- *Inodes.* Copies of different inodes share nothing (`MapOK` in the proofs), so one
  inode shows what happens on one.
- `HandleLeft` (FileHandles): an `open` starts only if the model has a handle number
  left, since `next_fh` never runs out.
- `Sizes` (FileHandles): what setattr truncates to. Zero is the way past the pull, others
  are the way through it. The run `FileHandles` leaves zero out, since `create` empties
  the file in the same way; the other runs take zero and one.
- *Writes.* A write is made once per run. One write and two pushes are enough for the
  races of the flag.
- `Paths` (FileHandles): three in the single-thread run, one in the others, which so have no
  renames. With two workers a rename may come between the path that `push_if_dirty` reads
  and its push; the code does nothing against it (section 6).
- `Depth` and `MaxIno` (InodeMap): names two levels deep, so a directory with a child
  can be renamed; a request that may assign numbers starts only if enough are left for
  all requests under way (`Reserved`). With the numbers used up the traffic ends, so
  these two configurations set `CHECK_DEADLOCK FALSE`. No directory is the target of
  a rename (`Rename`), and a leftover entry of a removed file that a rename would make
  too long for the model stays where it is (`Affected`).
- *MetaCache.* `mv` finds no target (`Possible`). Metadata are tokens; one for
  "exists", next to `Absent`, is enough to tell a true entry from a false one. The two
  directories are symmetric.
- `Scenes` (Mount): each run of the model is one scene - a command line, a kind of device,
  a directory, and `asks`, the operations the kernel asks for. The scenes are questions
  about files of every kind, with and without `uid` and `umask`; mkdir, rm, rmdir and mv;
  touch by two threads while files go; a directory read in pieces while files move; and
  seven ways to write the options, in the foreground and not, with `-s` and not. Operations
  of different scenes share no state but the directory, so all together would show no
  more. One name is a word, the other has a leading blank, a quote and a colon.
- `Rooms` (DirStream): entries a `readdir` may return at once; with four entries in the
  listing there are short reads, whole reads and every offset between.
- `Hour` (LsLine): the minutes of an hour and the hours of a day in the model, 3, so that
  each part of a time matters. `Zone` is the host's distance from UTC in minutes.
- Mount ends: with the process over nothing happens any more, so the configurations of
  MCMount set `CHECK_DEADLOCK FALSE`.

Fairness. `FairSpec` of FileHandles and MetaCache has weak fairness for each worker's own
steps: the operating system schedules threads, and a call of `adb` or of the local
disk returns. Nothing makes the kernel send requests, and none is assumed to. Locks
need no more than weak fairness as long as others stop coming, which is the premise
of `RequestsAnswered`. MetaCache also lets entries get older.

## 4. Where the code falls short of its comments

The first two need two worker threads, and do not happen with `-s`: section 5 proves it.

- `StaleClean`. "neither pushes a stale copy" (1051-1052). Two flushes with a write
  between them both push: the first has read the local file without the write, the
  second with it. If the first reaches the device last, the device keeps the older
  contents, and the flag is clear, so no later flush or release repairs it. For the
  same reason - the flag is cleared first and no lock is held - a second flush may find
  the flag clear and answer Ok while the push of its writes is still under way and may
  fail. `FlushOkMeansPushed` therefore is checked with one worker only.
- `StaleDentry`. "The inode it holds has to resolve to the new path" (145-146).
  `opendir` is in `get_or_assign_ino`, between its two inserts. Another worker finds
  the number, the kernel gets it, and renames the file. `rekey_paths` runs; then the
  late `ino_to_path.insert` puts the old path back. In the same window two workers
  that both miss give one path two numbers, which is why `OneNumberPerPath` is checked
  with one worker only.
- `EpochPanic`. A comment of the parser (174) gives a line of `1970-01-01 01:00` as one of
  the formats it handles. On a host two hours ahead of UTC that is before the epoch;
  `mktime` returns a negative number, `as u64` makes it huge, and the addition to
  `UNIX_EPOCH` (166) overflows and panics. fuser runs the handler on a worker thread,
  which is then gone; with all of them gone nobody serves the mount. `WorkersSurvive`
  says that no file makes a thread panic.
- `ErrnoByName`. "all end the message with the `strerror` text, so the match is on that
  tail" (`ops.rs` 308-309). The match is on the whole message, and the message has the path
  in it: `mkdir` of a directory that exists and is called "permission denied" is answered
  with EACCES, not EEXIST. `RefusalsAreTold` proves the answer right for paths without such
  words.

## 5. What TLAPS proves

For every value of the constants: any number of workers, inodes, handles, copies, names and
paths, trees and directories of any depth, texts, listings and command lines of any length.
Every safety invariant that a run checks is proved. Assumed are finite sets where something is
counted, special values that differ from the others, and the types of what the constants stand
for: times and `Rooms` are numbers, names and the directory texts, files have the fields of a
file, a scene's files are files. Each `ASSUME` stands in the module of its constants, and TLC
evaluates it.

Some theorems have hypotheses, each a definition next to the theorem. Without them the code
does something else; `HypothesesHold` in MCMount says that the instance of `Mount` meets those
about texts, so the runs and the theorems speak of the same properties.

| hypothesis | says | without it |
| --- | --- | --- |
| `OneThread` | one worker: `-s`, or a host with one processor (`fs.rs` 1020-1026) | section 4: `StaleClean`, `StaleDentry` |
| `NoErrorInPaths`, `NoErrorInTargets` | no path and no link target has the words of an error in it | section 4: `ErrnoByName`; a line that ends in ": Permission denied", be it a name or a target, is a refusal to `get_metadata` (`ops.rs` 99-103) |
| `OwnersAreTold` | a device whose `ls` prints no link counts has no owner that is a number | the owner is read as a link count (`parse.rs` 190) |
| `OwnersAreWords` | no colon in an owner or a group | `ls` complains in lines told by their colons |
| `LinksArePlain`, `DirIsPlain`, `NoArrowInPaths` | a link has a target, one from the top does not go up again, and no ` -> ` comes before that of the link; the directory has no double slash | the parser cuts at the first arrow, and counts slashes for ups |
| `NamesArePlain` | a name is not blank, not a dot entry, and has no slash, arrow, or quote before a blank | `extract_filename` looks for these |

| module | theorems |
| --- | --- |
| `CopyTableProofs` | `TypeCorrect`, `CopiesAreShared`, `RefsCount`, `LocalFileStays`, `LocalFileIsSafe`, `NothingIsLeft`: all invariants of the run `CopyTable` |
| `FileDataProofs` | `HandlersUseTheTable`: the handlers implement CopyTable, so all of this holds of them; `HandlersTypeCorrect`, `PullsReadWholeFiles`, `NoWriteIsForgotten`, `NothingIsLostSilently`; `OpensShareOneFile`: the handlers implement OneFile |
| `SingleThreadProofs` | with one thread: `CleanCopiesAreSynced`, `FlushedIsPushed`, `PushesFindTheFile` |
| `InodeMapProofs` | `MapsTypeCorrect`, `TheRootStays`, `EachNumberIsNew`; with one thread: `RenamesResolve`, `PathsHaveOneNumber`, `NumbersTellFilesApart` |
| `MetaCacheProofs` | `CacheTypeCorrect`; with one thread: `OneThreadHasTheTruth` |
| `LsLineProofs` | `ArgumentIsThePath`: a quoted path is one word to the shell, and is the path; `LinesAreReadBack`: what `ls` prints of a file is what the parser reads |
| `DeviceOpsProofs` | `OkIsDone`, `DoneIsOk`, `TouchGetsThrough`; without error words in paths: `RefusalsAreTold` |
| `MountProofs` | `TheMountIsServedInFull`, `TheExitTellsTheMount`, `OptionsAreTaken`, `MountTypeOK`; of plain names, links and owners: `StatIsTrue`, `LinksLead`, `ReadersSeeTheDirectory` |

The arguments. No property is inductive alone; each proof has its invariant, and lemmas that
say who keeps it.

*The table of copies.* The invariant is `IInv`:
`HeldOK` (what a worker holds at which point), `MutexOK` (the owner of a mutex is the
one worker in that copy's critical section), `MapOK` (a copy is mapped at its own
inode only), `LiveOK` (a copy somebody works on is mapped or evicted; an evicted one
that is still mapped has its evictor on the way to `remove_if`), `FilesOK` (pulled
copies that are not evicted have their file), next to the two properties
`OneCopyPerInode` and `RefsAreExact` themselves. The count is what carries it: the
lemma `Counted` says that whoever brings `refs` to zero is the copy's only user, so an
eviction takes nothing from anybody; that needs the cardinalities of `Holders`, whose
changes are the lemma `MoveOne`. `LookupNew` is the delicate step: an identity is used
again, and nothing may still refer to it. `NoOrphan` adds `EntriesAreKept`: an entry has a
reference, or a worker that holds the copy and has yet to count or unmap it.

`PullsReadWholeFiles` joins `NoClobber` with `HInv`: a worker past `acquire_copy`, or
serving a handle, has a reference of its own or an open handle. A pull that reads the
device runs only when the inode has neither, and a push always has one of them. This
is why it is safe that `push_if_dirty` takes no lock against pulls.

*The data.* `TInv` types it, `SInv` says which stages a handler has, and `DInv` accounts for
each acknowledged write: it is on the device, or the flag is up, or a push has it in hand or
will read it (`UnderWay`), or its handle has a flush to come (`Unflushed`), or somebody was
told (`Accounted`). The two properties read off two ends of this chain: the flag while the
copy lives, and the reports once it goes. That the kernel flushes a handle before it releases
it is the premise that makes `release_copy` safe, and the proof shows that nothing else is
needed. `OpensShareOneFile` maps every step to one of OneFile or a stutter; the one case that
is not step by step obvious is a pull, which fills the file of an inode nobody uses yet
(`FilledForNobody`).

*One thread.* `PInv`, which holds for any number of workers, relates the paths handlers know
to where the files are, up to a rename in progress or one that failed half-way. `OneInv`
adds that a copy nobody is pushing, clean and not cut off by a failure, equals its file
(`Synced`), and what the thread has in hand in each stage of a push.

*The inode map, one thread.* `MapInv` has the two maps inverse but for the number that is on its way
(`Loose`), the counter above every number, and, in the midst of a rename, each dentry below
the old path in one of three states: still to be moved, being moved, or moved. That no step
of `rekey_paths` overwrites what another entry needs rests on lemmas about paths: of two paths
above a third one is above the other (`AboveInOrder`), so nothing is below both the old and
the new path, and a moved path can be moved back (`MovesBack`), so no two entries get one
new path. That names do not run out (`NumbersLast`) is about the model's bound.

*The inode map, any number of threads.* The maps are not inverse then, and dentries may lead
astray. `CounterInv` has what is left. No number in a map, in a dentry or in a handler's hands
is above the counter (`Below`), and every step but `Take` only passes on numbers that somebody
had (`WorkerSteps`): so what `fetch_add` returns is new, and stays in one handler's hands until
it is entered. `JobsAre` says what a handler has in its stages whatever the maps have become
meanwhile: no entry it makes is for `/` or for inode 1, so the root stays. `NumbersSuffice` is
about the model's bound: the counter, and one number for each name a handler may yet serve
(`Pending`), stay within it.

*The cache.* A wrong entry is one that the thread's remaining steps clear: `WrongIsCovered`,
which holds since every handler has its invalidation right behind its command (`Good`, proved
of each list of steps in `HandlersInOrder`); and what a handler inserts is what the device
said since the last change (`AnswerIsTrue`, `ListIsTrue`).

*Answers of the device.* `errno_for_message` of each line a device may print is computed in
lemmas (`Complaints`, `LostCommands`, `SilentCommands`), for each of the streams it may come
on; then every way a command may end is answered truthfully (`Honest`, the part of `OpsInv`
the four theorems read off). `touch` gets through because it goes by the format it used
itself (`gnu`), not by what the shared flag says when the answer is there.

*Texts.* The parser and the quoting are folds over the pieces of a text, of any length. A fold
is a run of states `a[0], a[1], ...`, one per piece (`FoldsExist`, `Removed`), and a set of
positions that has 0 and with each also the next has all of them (`UpTo`): this is induction
for one given set, which the provers can do where they cannot instantiate a theorem with an
operator. `ArgumentIsThePath` is the run of the shell over the quoted path. `LinesAreReadBack`
splits a line after each column: a column without blanks and the blanks behind it are one field
(`SpacesAreFields`, `FieldsGoOn`), so the fields of a line begin with those of the layout
(`BeginsLike`); then each field is read. `StatIsTrue` and `LinksLead` go on to the answers: the
line is found in the output, its arrow is the first one (`ArrowsAreFound`), and as many ups as
the directory is deep lead from the link to the top.

*Directory streams.* `list_dir` filters the lines and drops the dot entries. A listing as the
device prints it has a line for each name, in an order, and each once; what is left is an entry
for each name in that order (`ListingsAreTold`), so `IsListing` holds of what `opendir` keeps.
From there on it is a statement about a handle and its reader: what was got is the listing up
to the offset (`StreamInv`), whatever the room of each `readdir`, while `there` and `seen`
follow the directory.

*The options.* `split` is a fold as well, over the options: each state has the settings of the
options so far, the last of a key, and hands on the others in order (`OptionsSplit`).

*The mount.* `MadeSoFar`: what the stages of `Startup` have made is there until main returns.

What stays with TLC, and why:

- `RequestsAnswered` and `TruthReturns`: liveness under fairness.
- What more than one thread keeps of `OneNumberPerPath`, `CleanMeansSynced` and the others
  with `OneThread`: they do not hold.
- The four disagreements of section 4: each is a counterexample.

## 6. Not modelled

- A rename that comes between the path a handler has read and its push or pull, with two
  workers. FileHandles has the steps; no run has two workers and two paths, since
  `PushesHitTheFile` does not hold there: nothing in the code orders the two.
- `read` changes only its handle's seek position, under the lock of its entry. Shard
  locks of `DashMap` are taken per entry; two entries of a shard may wait for each
  other's calls, which removes interleavings and adds none.
- A write through a shared mapping that the kernel sends after the last close. There
  is no `fsync` handler. The kernel's page cache, and with it the size `getattr` reports
  while the local copy has grown (`fs.rs` 375).
- A directory's own times and link count (`fs.rs` 671). `access`, which always says yes.
- That `touch` ends: its retry loop is the flag going down once, and `TouchFallsBack` shows
  that nobody gives up; termination itself is not checked. That a silent `touch` did
  something: the code looks at no exit code there, so `OkMeansDone` leaves it out. `touch`
  with both times runs two commands joined by `&&`; the model has one time.
- Answers of `ls` that are errors other than "Permission denied" read as "no such file"
  (`ops.rs` 105); `StatTellsTruth` excepts them. A name with ` -> ` in it, and an owner
  that is a number in a listing without link counts: the code misreads both, and the
  instances have neither. Notation of dates and numbers.
- `shell_escape_command` and `adb_shell_escape_command`: nothing calls them. `adb/mod.rs`
  declares types. Starting `adb` and splitting its output into lines (`cli.rs`).
  `adb/mock.rs` is test code.

## 7. Plan

Done: all modules of section 2, and the proofs of section 5. What could come next:

1. A rename between the path a handler has read and its push, with two workers (section 6).
2. A directory's own times, and the parent's cache entry that mkdir and the like leave
   (`fs.rs` 671).
