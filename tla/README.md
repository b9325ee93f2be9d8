# A TLA+ model of releveldb

releveldb (`src/db`) is the lower half of a LevelDB: the memory table's skip list
and arena, the block reader, key formats and comparators, and the environment
`PosixEnv` through which everything touches files and threads. There is no `DB`
yet; the interfaces `Cache`, `Table`, `FilterPolicy`, `DB` and the log writer
have no implementation. This directory holds specifications of the implemented
parts, the configurations under which TLC checks them, and proofs of their
main properties for all values of their parameters.

`PROJECT.json` lists components, runs, mutants, the definition-to-source map,
hazards and theorems. Paths below are relative to the repository's `src/`.

## 1. Inventory

| Component | State | Operations | What is hard about it | What makes it correct |
|---|---|---|---|---|
| SkipList (`db/SkipList.h`) | `head_`, `next_` slots of the nodes, `max_height_` | `Insert` (one thread), `Contains` (any threads) | readers take no lock while a node is linked level by level; `max_height_` is read once; `prev[]` is used after the search | every level is one sorted chain, levels are nested, no raw slot is read, Insert and Contains are linearizable, searches end |
| AtomicPointer (`db/atomic_pointer.h`) | one word | loads and stores, with and without barrier | a machine that reorders the accesses without one | a reader never sees a node before its contents; what was found is found again |
| Arena (`db/Arena.h`, `.cpp`) | `alloc_ptr_`, `alloc_bytes_remaining_`, `blocks_`, `memory_usage_` | `Allocate`, `AllocateAligned`, `MemoryUsage` | slop and tail arithmetic at the boundary; blocks of their own for large pieces | pieces are disjoint, inside blocks and aligned; the usage is exact |
| Background thread (`db/Env_posix.cpp` 540-590) | `mu_`, `bgsignal_`, `started_bgthread_`, `queue_` | `Schedule`, `BGThread` | signal before push, signal only when empty, lazy start, functions that schedule | no lost wakeup, one item at a time in order, every item runs |
| File lock (`db/Env_posix.cpp` 259-291, 431-463) | the table of locked names; the kernel's record lock | `LockFile`, `UnlockFile` | fcntl locks belong to processes and vanish on any close; failures half way; crashes | mutual exclusion, nothing left behind |
| Random access files (`db/Env_posix.cpp` 63-176, 314-340) | the `MmapLimiter`'s count, descriptors, mappings | `NewRandomAccessFile`, destructors, `Read` | double-checked count, failing `stat`/`mmap`, the name renamed meanwhile | permits are conserved, nothing leaks, a mapping fits its file |
| Writable files (`db/Env_posix.cpp` 178-257, 342-366, 387-393, 423-429) | `file_`, `filename_`; stdio's buffer, the kernel, the disk | `Append`, `Flush`, `Sync`, `Close`, `DeleteFile`, `RenameFile` | what survives a failing call, a crash of the process, a power failure | what OK promised stays true |
| `WriteStringToFile`, `WriteStringToFileSync` (`db/Env.cpp` 40-70) | locals of the routine | one routine of five calls | any call fails | all or nothing |
| Sequential files, `ReadFileToString` (`db/Env_posix.cpp` 34-73, `db/Env.cpp` 72-95) | the position in the file | `Read`, `Skip` | short reads, errors, a file that changes meanwhile | what was written is read back |
| Block and its iterator (`db/Block.cpp`) | `current_`, `restart_index_`, `key_`, `value_`, `status_` | the constructor, `Seek`; the other movements are pure virtual still, and `NewIterator` is not defined | prefix compression, bisection of the restart points, what an earlier `Seek` left behind, damaged entries | `Seek` ends on the first entry not before its target, with its whole key, having read one interval |
| Comparator, Slice (`db/Comparator.*`, `db/Slice.cpp`) | none | `Compare`, `FindShortestSeparator`, `FindShortSuccessor` | off-by-one and byte 0xff | an order; separators lie where they should |
| Internal keys (`db/DBFormat.*`) | none | packing, parsing, ordering, separators, successors | the tag that is tacked on to a shortened key | order-preserving |
| Coding (`db/Coding.*`) | none | fixed and variable length integers | widths, the byte where a limit falls | decode inverts encode, nothing behind the limit is read |
| Random (`db/random.h`) | the seed | `Next`, `Uniform`, `Skewed` | a modulus without division | multiplication modulo 2^31 - 1 |
| Iterator cleanup (`db/Iterator.cpp`) | list of functions | `RegisterCleanup`, destructor | first one in place, others in a list | each runs once |
| Status, logger, mutex wrappers, other `Env` calls | little or none | | | |

How they interact. The memory table would put nodes of a `SkipList` into an
`Arena`. A block's bytes are read by `Coding` and its keys compared by a `Comparator`.
`Env` is called by everything: `WriteStringToFile` composes
`NewWritableFile`, `Append`, `Sync`, `Close`, `DeleteFile`, and `ReadFileToString` may run
on the same name meanwhile. The mapping limiter
is shared state of all random access files of the process; the name table of
`LockFile` is shared state of all its threads; the kernel's directory, files and
record locks are shared by processes. Scheduled functions are callbacks that run
on the background thread and may call `Schedule`.

## 2. Modules

| Module | Kind | Models |
|---|---|---|
| `SkipList` | component | `db/SkipList.h`, memory sequentially consistent |
| `KeySet` | abstract specification | an atomic set of keys: what `SkipList` promises |
| `SkipListProofs` | proofs | about `SkipList`, and that it implements `KeySet` |
| `WeakSkipList` | component | `db/SkipList.h` over memory that reorders what `AtomicPointer` lets it |
| `LaggingSet` | abstract specification | a set that each reader sees with a delay of its own: what `WeakSkipList` promises |
| `WeakSkipListProofs` | proofs | about `WeakSkipList`, and that it implements `LaggingSet` |
| `Arena` | component | `db/Arena.h`, `db/Arena.cpp` |
| `ArenaProofs` | proofs | about `Arena` |
| `Block` | component | `Block::Iter` of `db/Block.cpp` |
| `Comparators` | algorithms | `db/Comparator.cpp`, `Slice::Compare` |
| `InternalKeys` | algorithms | `db/DBFormat.cpp` |
| `Coding` | algorithms | `db/Coding.cpp`; the bytes of `db/Block.cpp` |
| `RandomNumbers` | algorithms | `db/random.h` |
| `Cleanups` | algorithms | `db/Iterator.cpp` |
| `Numerals` | algorithms | shifts, masks and words, which the three above it use |
| `Algorithms` | composition | these functions called with any input, and what is to come out |
| `BlockProofs` | proofs | about `Block`, and about `Algorithms` |
| `BackgroundThread` | component | `PosixEnv::Schedule`, `BGThread` |
| `Executor` | abstract specification | serial first-in first-out execution |
| `BackgroundThreadProofs` | proofs | about `BackgroundThread`, and that it implements `Executor` |
| `FileLock` | component | `PosixEnv::LockFile`, `UnlockFile`, `PosixLockTable` |
| `FileLockProofs` | proofs | about `FileLock` |
| `RandomAccess` | component | `NewRandomAccessFile`, `MmapLimiter`, the destructors |
| `Permits` | abstract specification | an atomic count of permits |
| `RandomAccessProofs` | proofs | about `RandomAccess`, and that it implements `Permits` |
| `WritableFile` | component | `PosixWritableFile`, `DeleteFile`, `RenameFile` over stdio, kernel and disk |
| `WriteString` | composition | `DoWriteStringToFile`, whose steps are steps of `WritableFile` |
| `ReadString` | composition | `ReadFileToString` and `PosixSequentialFile`, beside `WriteString` |
| `WritableFileProofs` | proofs | about `WritableFile`, `WriteString` and `ReadString` |
| `MC*` | instances | the values TLC uses; `MCAlgorithms` gives `Algorithms` every input up to a length |

### How state and actions correspond to the code

**SkipList.** One action is one load of a search or one store of an insert.
`StartSearch` is the head of `FindGreaterOrEqual` (it loads `max_height_` once);
each turn of its loop is `MoveRight`, `MoveDown` or `Arrive`, according to what
`x->Next(level)` holds. `InsertCall`, the search, `RaiseHeight`, `NewNode`, and
then `SetOwnNext` and `Publish` for each level are `Insert`. A slot that has never
been stored to holds `Uninit`, and so does `prev[]` at the start of `Insert`: the code
reads raw memory there if it ever gets to it. A node is named by its key: `Insert`
requires that no equal key is in the list, and nothing is ever unlinked.

**WeakSkipList.** The same code, where a load need not return the last store. The one
writer's stores have a time; `slot` keeps all stores to each `next_[l]`. A load returns any
store the reader has not been told is out of date (`Readable`): not one older than what
it has loaded from this slot before (`last`), nor one that was overwritten by time
`seen`. A load with acquire of a store with release raises `seen` to the store's time; the plain
accesses (`NoBarrier_SetNext`, the key, `max_height_`) do not. `max_height_` is one store,
loaded without barrier (`Heights`, `tall`). Threads may also synchronize by other means,
a mutex of the caller, say (`WriterTells`, `ReaderTells`). `owed` records how many inserts a
reader has learned of. The writer sees its own stores, so its search is not modelled load by
load here: where it ends is `Prev`.

**LaggingSet.** What is left of `KeySet` there. The keys form a log in the order of the calls of
`Insert`, and a reader answers from a prefix of it. The prefix may lag behind Inserts that have returned, but it
never shrinks, and a reader that synchronizes with another thread gets at least what that thread knew. In
`WeakSkipList` the log is `inserted`, the prefix is `View`: what the reader is `owed`, or up to the key it is
about to say that it has found; `Phase` is how far its call has got.

**Arena.** An address is a block and an offset. `Allocate` and `AllocateAligned`
are whole calls (one thread uses an arena). The pieces handed out are recorded
in `pieces`; the code does not keep them.

**Block.** An offset into `data_` is the number of the entry that begins there; the
entry count stands for `restarts_`, where the restart array begins. One turn of
a loop of `Seek` is an action: `Bisect` of the binary search, `ParseNextKey` of the scan;
`BisectFails` and `ParseFails` are the two ways into `CorruptionError`. A block (`IsBlock`) has
sorted entries, each of them intact, or refused by `DecodeEntry`, or claiming to
share more than there is. The constructor of the iterator leaves
`current_` and `restart_index_` as it finds them: `Init` lets them be anything. The
comparator is a constant operator; `MCBlock` gives it `Comparators`' `Compare`. The bytes of an entry and of
the restart array are read in `Coding`: `DecodeEntry`, `Size` (the `Block` constructor's test) and `GetRestartPoint`.

**Comparators, InternalKeys, Coding, RandomNumbers, Cleanups.** Functions without
state of their own become operators, written without the code's loops where these only
scan, and beside each what it is to compute. Characters of keys are less than `Base`, bytes of a block less than
`Radix`, 32-bit numbers less than `Modulus`, and so on: the code's values of these constants are named at their
declarations. A loop that computes is a recursive function of its turns (`GetVarintLoop`, `Destroyed`). `Digits`
and `Number` of `Numerals` stand for shifts and masks: what they make of a number does not depend on the machine's byte
order. A behaviour of `Algorithms` is one step, in which a caller picks a function and an input from the
sets that are its constants (`InputsAssumption`: keys, internal keys that are not too short, contents shorter than 2^32).

**BackgroundThread.** Every pthread call and every access to the queue is an
action. `Signal` moves one waiter to competing for the mutex, `SpuriousWakeup` does
it unasked. `Workers` is the supply of threads `pthread_create` could return, so
that a code that starts two threads could be seen to. The doc of `Schedule`
(`db/Env.h` 51-56) allows several functions to run concurrently; `Executor` states
the stronger thing `PosixEnv` gives: one at a time, in the order of the pushes.

**FileLock.** One file name, any processes and threads. Each system call and each
access to the name table is an action; each may fail where it can. `DropLock` is
the kernel's rule that a process loses its record lock when it closes any descriptor
of the file. `Crash(p)` ends a process anywhere.

**RandomAccess.** One file name, which `Replace` lets stand for another file at
any time (`RenameFile`, `DeleteFile`). The load and the store of `allowed_` in a
critical section are separate actions, and so is the first look without the mutex.
`Read` changes no state and is not an action.

**WritableFile.** A file is an inode; what it holds is a number of records and a
generation, which a truncation begins. A writer has some records in stdio's
buffer; the kernel has some in `cache`, the disk in `disk`; the directory is `entry` in the
kernel and `durable` on disk. `Append` may write out any part of the buffer; a call that fails
writes some, keeps some and drops some. `WriteBackFile` and `WriteBackEntry` are
the kernel's own. `given`, `failed`, `flushed`, `synced`, `listed`, `kept` record what the
returned OKs have promised: the code has no such variables. Two `WritableFile`s
of one file at a time are left out.

**WriteString.** `stage` is the call the routine makes next; every action is one
action of `WritableFile` and the routine's reaction to its status. One routine
at a time works on a name.

**ReadString.** A `Read` of a fragment is one `fread`, which gets record by record from the kernel
(`ReadRecord`) until the fragment is full, the file ends (`ReadEnd`) or an error stops it
(`ReadError`); `WriteString` goes on meanwhile, in other threads. A reader keeps a deleted file
open. `whole` records that the file had the whole string when the routine began and
nobody has opened it for writing since.

## 3. What the runs check

| Run | Module, cfg | Bounds | Shows |
|---|---|---|---|
| `skiplist` | `MCSkipList`, `SkipList.cfg` | 3 keys, writer and 2 readers, `kMaxHeight` 4, `Height` 3 | `NoUninitializedLoad`, `LevelsOrdered`, `LevelsNested`, `NeverUnlinked`, refinement of `KeySet`, `CallsReturn` |
| `skiplist_weak` | `MCWeakSkipList`, `WeakSkipList.cfg` | 2 keys, 2 readers, heights 3 | `ReadsInitialized`, `FoundStaysFound`, refinement of `LaggingSet` |
| `arena_safety` | `MCArena`, `ArenaSafety.cfg` | blocks of 16, alignment 4, 6 pieces of 1, 3, 4, 5 or 17 bytes | `PiecesDisjoint`, `AlignedPieces`, `UsageExact`, `LittleWaste` |
| `block_seek` | `MCBlock`, `Block.cfg` | every block of up to 4 keys of 4, with at most one damaged entry; 7 targets | `FindsFirst`, `ShortScan`, `SeekReturns` |
| `algorithms` | `MCAlgorithms`, `Algorithms.cfg` | every input up to: user keys of 2 bytes (3 without a tag), bytes 0 to 3, tags of 2 bytes; blocks of 6 bytes 0 to 7, 32-bit numbers below 8 in 2 bytes, 64-bit ones below 32 in 3; all seeds for M = 127, A = 3; 6 cleanups | `ShortKeysSeparate`, `InternalKeysOrdered`, `EntriesDecode`, `RestartsDecoded`, `RandomIsModular`, `CleanupsRunOnce` |
| `background` | `MCBackgroundThread`, `Background.cfg` | 3 items, 2 callers, 2 possible threads | `NoLostWakeup`, refinement of `Executor`, `EveryItemRuns` |
| `file_lock` | `MCFileLock`, `FileLock.cfg` | 3 processes, 4 threads, two of them in one process | `OneHolder`, `HolderIsBacked`, `OneHolderPerProcess`, `TableExact`, `NothingLeftBehind` |
| `file_lock_already_held` | `MCFileLock`, `FileLockAlreadyHeld.cfg` | the same | a refused second `LockFile` drops the record lock |
| `random_access` | `MCRandomAccess`, `RandomAccess.cfg` | 3 clients, 1 permit, an empty file and another | `PermitsConserved`, `NothingLeaks`, refinement of `Permits`, `CallsReturn` |
| `random_access_replaced` | `MCRandomAccess`, `RandomAccessReplaced.cfg` | 2 clients | a mapping may have another file's length |
| `writable_file` | `MCWritableFile`, `WritableFile.cfg` | 1 writer, a manifest and another name, 2 files, 1 record, 1 truncation | `FlushedInKernel`, `SyncedOnDisk`, `ManifestKeepsFiles` |
| `write_read` | `MCReadString`, `WriteRead.cfg` | 2 writers, 1 reader, a manifest and a table, 1 file, 3 records, fragments of 2, 1 truncation | `AllOrNothing`, `SyncedStringSurvives`, `ReadsBack` |

Each property of a passing run has a mutant of the modelled code that breaks it. The type
invariants are conjuncts of the proved invariants (section 4) and not checked again by a run. That of
`WritableFile` says more than types: `file_` is NULL exactly when nothing is open.

Why the bounds are enough. *SkipList*: an insert between two others needs three
keys; a node taller than the list and one as tall need two inserts; a reader above,
at and below the levels being linked needs height 3; a second reader lets answers
of readers be compared, as linearizability demands. The proofs have no bounds. *SkipList over
weak memory*: a reader misled by an old value needs one node before and one behind a stale
slot; a second reader hands knowledge on; three levels are the highest, one between and
the lowest. The three properties are proved without bounds. *Arena*: sizes below, at
and above the alignment, the quarter block and the block; six pieces give a tail that is
given up, one that survives a block of its own, and two that are used to the last byte.
*Block*: keys that are prefixes of each other and keys that share nothing; every
choice of restart points; four entries give a bisection of two turns and scans of several; an iterator
is sought in again and again. *Algorithms*: the constants are scaled down so that every
boundary of the code has inputs on both sides: a byte that is the largest, a number
that takes one byte, two, or one too many, that overflows, a product that needs the
correction and one that does not, a block shorter than its restart array, with no restart
point and with two. *Background*: two callers race to start the thread, a third item is scheduled by
a function. *File lock*: a process of two threads against two of one. *Random
access*: more clients than permits, so that one is refused. *Writable files*: a record is in
the buffer, in the kernel or on disk when a call fails or something crashes; a second name is what the
manifest refers to. *Reading and writing*: a string of a full fragment and a short one; two writers, on
two names, share the inode, one after the other. `MaxPieces`, `MaxRecords` and `MaxGen` are the
only bounds in guards; the theorems about these modules hold for all values of them.

Symmetry is used where nothing is to happen eventually: for readers in `skiplist_weak` (also in `LaggingSet` one
is like the other), for writers, readers and inodes in `writable_file` and `write_read`. Deadlock is checked
everywhere but in `arena_safety`, where the model stops after `MaxPieces` calls, and
in `algorithms`, whose behaviours are one step long.

**Fairness.** `SkipList`: weak fairness of the steps inside a call; nobody has to
call. `CallsReturn` then holds because a key is inserted only once. With
unboundedly many inserts ahead of it a reader could be kept busy; the finite `Keys` hide that.
`BackgroundThread`: weak fairness of the threads' steps, and strong fairness of taking the
mutex, which a pthread mutex that is free again and again gives to each thread
in practice; scheduled functions return; no fairness of spurious wakeups.
`Block`: weak fairness of `Seek` once it is called. `RandomAccess`: the same as for the
background thread for the limiter's mutex; nobody has to open or delete a
file. The other modules have no liveness property: each call is a fixed
sequence of system calls.

## 4. What is proved

For every value of the constants that satisfies the modules' assumptions.

*SkipList* (`SkipListProofs`, from `SkipListAssumption`). The inductive invariant `IInv`
strengthens `LevelsOrdered` with: where a search stands (`SearchInv`: on
`head_` or a node linked at its level, before its key; without it a search could stand on a node whose slot
is raw), how much of the new node is linked (`WriterInv`: exactly the levels below
`rung`), that `prev[]` brackets the key on every level still to be linked (`PrevInv`, which
needs that there is one writer), that slots are raw unless linked or about to be
(`RawInv`), and that all levels below `Height` agree but for the node being linked
(`TowerInv`). From it: `TypeCorrect`, `LoadsInitialized`, `ListsOrdered`, `ListsNested`,
`KeysStayLinked`, and `Linearizable`: the initial states map to `KeySet`'s, the last load
of a search and the store to `prev[0]` map to its atomic steps, everything else stutters.
`SearchesAdvance` is the safe half of `CallsReturn`: the nodes of level 0 between a search and its key and the levels below
it (`TurnsLeft`; finitely many, by `CountInv`) are fewer after each load, and more only by a store that brings
a new node in between. No load sends a search back.

*SkipList over weak memory* (`WeakSkipListProofs`, from `WeakSkipListAssumption`).
`ReadsAreInitialized`. What a store promises travels with it (`MessageInv`): by the time of a store of node
`k` into a slot of level `l`, `k`'s key and its own slots on all levels up to `l` have been stored, and only a
node's own first stores are not releases. A reader that loads the store with acquire has then seen
those (`Ready`), and since `l` only goes down while it stands on `k` it stays so.

`FoundIsFoundAgain`, by `FoundInv`, which adds the history of level 0, on which every search ends, and how much of it a
reader has seen. A key is `Named` by time `t` if some slot of level 0 has held it by then: from there on it is in the list. Of the list
(`ListInv`): a slot of level 0 leads behind its node, and with each store to a nearer one (`SlotsNarrow`); no other level
leads to a node before level 0 does (`MessagesNamed`); as soon as two nodes are named the slot of the first does not lead past the
second (`NothingSkipped`), and that remains so (`NodesStay`); keys are named in the order of the calls
(`CallOrder`, `NamedUnlessPending`). Of a reader (`Finds`): by time `seen` all that it is `owed` and the node it stands on
were named; and on level 0, if its key was named by then, what it has loaded is not behind the key. A load cannot return a store
overwritten by `seen`, so none that passes over the key; the levels above are hints, which may be as old as they like.

`AnswersFromPrefix`: the list refines `LaggingSet`. `AnswerInv` adds to `FoundInv` that the inserted keys are
distinct (`Once`), so that each has one place in the log, and keeps it (`PlaceStays`). The load with which a search arrives
is `Decide`: if it has found its key, the reader answers from the prefix up to that key, if that is longer
(`AnswerProperties`: the key was inserted); if not, from the prefix it is `owed`, in which by `FoundStaysFound` the key
is not. `InsertCall` is `CallInsert`, the last `Publish` is `ReturnInsert`, what threads tell each other is `CatchUp` and
`Learn`; all other steps stutter. So two readers cannot see two Inserts in opposite orders, and none goes back in time.

`SearchesAdvance`: old loads cost a search no more than that, by `WalkInv`: every store a slot has ever had leads
behind its node, on all levels (`SlotsAscend`), so that a step to the right leaves an inserted key behind for good.

*Arena* (`ArenaProofs`, from `ArenaAssumption`). `PiecesDisjoint` speaks of the free tail as it
does of the pieces: it is inside its block and apart from every piece, so that whatever is cut
from it is (`PartApart`). `IInv` adds that no piece is in a block that is still to come
(`KnownBlocks`). Theorems `Disjoint`, `TypeCorrect`, `Waste`; `Aligned`, where the slop takes any offset
to the next multiple of the alignment (`SlopAligns`); and `UsageCorrect`: the recursive sum over the
blocks is the only function with its recurrence (`SumsUnique`, by the least place where another one would
differ), so that a block more adds what `AllocateNewBlock` adds.

*Block* (`BlockProofs`, from `BlockAssumption`: the comparator is a strict weak order, the entries
are sorted, damage is of the kinds above). `IInv` says what the bisection has established
(`BisectInv`: the entry of the restart point `left` is before the target unless `left` is 0, the one after
`right` is not) and what the scan has (`ScanInv`: it stands in the interval of `left`, all
before it is before the target, and `key_` is the key of the entry before it). `Rebuild`, that a key is what it
shares with another and the rest of it, then gives that a scanned entry is put together
right; a damaged one is never accepted. That an entry at the next restart point ends the scan, since it is not before
the target (`High`), gives `ShortScan`, during the scan and at its end; what it leaves in `restart_index_` is `IndexInv`.
Theorems `Invariance`, `SeekFindsFirst`, `SeekIsShort`, `RestartIndexLagsBehind`; and
`SeekAdvances`: rounding `mid` up, the bisection still leaves at most half of the interval each turn, so that it ends,
and the scan then goes on entry by entry to the end at the latest.

*Comparator and internal keys* (`BlockProofs`, from `BaseAssumption`, `TagBytesAssumption`).
`BytewiseIsOrder`: for any number of byte values and keys of any length the sign of `Compare` is a strict total order, so
that it meets the assumption of `Block`. `ShortKeys` and `InternalShortKeys`: separators and
successors are where `db/Comparator.h` 31 and 38 and the assertions of `db/DBFormat.cpp` 92, 93 and 107 have
them. All rest on the first place where two keys differ, which is the least of those there are.

*Algorithms* (`BlockProofs`, from `CodingAssumption`, `RandomAssumption`, `InputsAssumption` too). Each property of
the run `algorithms` holds in every state of `InputSpec`, for any sets of inputs, of any length, and any widths:
`ShortKeysAlways`, `InternalKeysAlwaysOrdered`, `EntriesAlwaysDecode`, `RestartsAlwaysDecoded`, `RandomAlwaysModular`,
`CleanupsAlwaysRunOnce`. Loops are recursive functions over an interval. `Recursion` shows that such a function exists
and has its recurrence, interval after interval; `UpTo`
is the induction, over a set of numbers where the library has an operator. From these come the digits of a number: they
are read off it (`DigitsOfNumber`) and make it up (`NumberOfDigits`). So a packed tag falls apart into its
sequence number and type, and orders by the one and then the other (`PackedOrder`); a word is
the only one with its value (`WordValue`, `WordRead`), which finds the restart array. A varint's loop has the
invariant `Turned`: after `n` turns the payloads of the bytes so far make up the value, modulo
2^32, and all of these bytes say that more follow, or it has stopped at the first that does not; `LoopIsVarint` reads off
the end. For `Random`, 2^31 is 1 modulo M, so that the high half of the product may be added to
the low one (`NextSeedModular`). `RandomAssumption` asks that M divide no product of `A` and a smaller
number: it does not for the code's values, as M is prime. The list an iterator keeps is known after each registration (`Runs`).

*BackgroundThread* (`BackgroundThreadProofs`). `IInv` adds to mutual exclusion and
`NoLostWakeup`: one worker at most (`OneWorker`), a thread about to push leaves no
waiter (`SignalInv`: the reason why signalling before the push is right, as
the mutex is held between), and that items being brought are new (`ItemsInv`). Theorems
`WakeupsKept`, `MutexCorrect`, `RunsInOrder`. `NobodyStuck`, from `ProgressInv`: every item Schedule was called with is being
brought, queued, run or finished (`NothingForgotten`), and the thread is there once one is queued (`StartedInv`). So while
one is unfinished not everyone waits: the holder of the mutex never does, and if there is none, whoever wants it may
have it, a function may return, or, the queue not being empty, the thread is not asleep.

*FileLock* (`FileLockProofs`). `IInv` is `TableExact` with `OneOwner`: at most one thread
of a process is between `Insert` and `Remove`. Theorems `ProcessExclusion`,
`TableIsExact`; by an invariant of its own, `Backed` and `Exclusion` for threads alone
in their processes (the restriction is needed: see the findings); and `NothingStays`, from
`LockInv`: a process that has the record lock has a thread that has yet to close or to give it back.

*RandomAccess* (`RandomAccessProofs`, which needs that there are finitely many clients). `IInv` adds to
`PermitsConserved`: the mutex is held in the critical sections, what was loaded there is
still what is stored, and which places have a descriptor or a mapping. Theorems
`TypeCorrect`, `Conservation`, `NoLeak`, `AcquireAtomic`; and `CallsAdvance`: on every path the steps left are fewer after each
of the client's own (`StepsLeft`, ten at most) and no more after those of others, and never do all of them wait for the
mutex (`SomebodyGoesOn`).

*WritableFile* (`WritableFileProofs`, from `WritableFileAssumption`). `IInv` says where the records are: a file
is open once (`OneWriter`); if no call on it has failed, what the kernel has and what the buffer
has add up to what was given (`Sums`); between the `fflush` and the `fsync` of `Sync` the buffer is empty (`FlushedFirst`,
without which `fsync` could promise what it never saw); and, besides the two properties, the kernel too
holds what was synced, since it may write that back over the disk (`PromisesKept`). Theorems `TypeCorrect`,
`FlushOutlivesProcess`, `SyncOutlivesPower`: both promise nothing more of a file once a call on it has failed, since
that call may have lost records, and hold what was promised before. A second invariant, `DirectoryInv`, says that what a
`Sync` under way has listed and what one has promised is so in the kernel's directory
and on disk: `ManifestFilesStay`.

*WriteString* (`WritableFileProofs`, from `WriteStringAssumption` too). Every step is one of `WritableFile` or
changes none of its variables (`RoutineStep`), so `IInv` holds here as well. `StringInv` adds what each routine has
achieved by its stage (`RoutineOK`: no call has failed before `Close`; after `Append` the file has been
given the whole string; after `Sync` the disk has it, and a manifest's name), that routines work on
different names (`OneRoutine`), and that a file has one name, in the kernel and on disk (`OneName`, without
which another routine could change a file behind the back of one that has returned). One lemma, `OthersKeep`,
shows for all steps that what is known of other routines and names stays so. Theorems
`StringAllOrNothing`, `SyncedStringStays`.

*ReadString* (`WritableFileProofs`, from `ReadStringAssumption` too). `ReadInv` adds to these what a reader
has, as long as the string stands: while it reads, records of the generation its name's entry has,
and no more than the string; once it has returned OK, all of the string, of one generation.
`StandsStill` is the reason: a routine at work on another name changes neither the entry nor the generation of a
file whose name's last routine returned OK. Theorem `ReadBack`.

Only model-checked: liveness (`CallsReturn` of `SkipList` and `RandomAccess`, `EveryItemRuns`, `SeekReturns`), which
rests on fairness and `ENABLED`, beyond the prover used. It adds to `SearchesAdvance`, `SeekAdvances`, `CallsAdvance`
and `NobodyStuck` that a thread takes the steps it can take, and gets a mutex that is free again and again. Every invariant, action property and refinement of a
passing run is proved.

## 5. Findings

* `file_lock_already_held`: when a thread asks for a lock its process already
  has, `LockFile` opens the file, finds the name in the table and closes the
  descriptor (`db/Env_posix.cpp` 437-439). By the rules of fcntl locks this
  drops the record lock of the first caller, who goes on believing that it has it. The
  same happens between the `Remove` and the `close` of `UnlockFile` (459-460).
* `random_access_replaced`: `NewRandomAccessFile` takes the size of the mapping from
  the name after it has opened the file (323); if the name is renamed over in between, the
  mapping is longer or shorter than the file, against the comment at 153.

Remarks that no run refutes, met while reading:

* `db/SkipList.h` 132 asks why `NoBarrier_SetNext` is enough: `ReadsAreInitialized` is the answer. The
  release store of `max_height_` (126-127) is not needed for it: a reader that sees the new height early
  finds NULL in `head_`, one that sees it late starts lower.
* `AllocateAligned(0)` returns a piece, possibly at the address
  of the next one; `tests/ArenaTest/ArenaTests.cpp` 31 says that size 0 is disallowed. The model's sizes are positive.
* `restart_index_` is called the "index of restart block in which
  current_ falls" (`db/Block.cpp` 227), but it is advanced only past restart points strictly
  before `current_` (190). When `Seek` ends on the first entry of the interval behind the one it
  scanned it is still the index of the other: the code is not what line 227 says. `RestartIndexLags` states
  what it is, and theorem `RestartIndexLagsBehind` shows that it is so in every block; nothing reads
  `restart_index_` but `ParseNextKey` itself.
* `Valid()` reads `current_` (`db/Block.cpp` 226), which the constructor does not set, so it means nothing before the
  first `Seek`. `Init` of `Block` lets it be anything.
* The sum of the two lengths that `DecodeEntry` compares with the room that is left (`db/Block.cpp` 45) is a
  32-bit sum. If it wraps around, an entry that reaches past the limit is accepted when what is left of the sum fits,
  where line 20 says "If any errors are detected, returns NULL". `EntriesDecode` says exactly which entries are
  accepted, those among them: the run has blocks with such entries, and `EntriesAlwaysDecode` holds for them
  too. It does not say that an accepted entry is in the block.
* `ParseInternalKey` never checks the type it finds; any last byte passes.
* `Skip` past the end of a file moves the position there (`fseek`, `db/Env_posix.cpp` 65-71), where `db/Env.h`
  151-152 says that skipping stops at the end. A `Read` returns nothing in both cases.
* The mapped `Read` refuses a range that goes beyond the end of the file (`db/Env_posix.cpp` 168), the one by
  `pread` returns the part that is there.
* `WriteStringToFile` truncates an existing file before it writes (`db/Env.cpp` 44): a failure or a crash leaves
  neither the old string nor the new one, and a `ReadFileToString` that runs meanwhile may return a part of
  either. `AllOrNothing` and `ReadsBack` are about what OK was returned for.

## 6. Not modelled

* The interfaces without an implementation (`Cache`, `Table`, `FilterPolicy`, `DB`, the log writer) and
  the constants in `Options` and `Format`.
* `Status`, and `Slice` but for its comparison, which are values; `DebugString` and the logger, which format.
* The mutex and once wrappers, modelled by their effect where they are used; `Env` calls that are one system
  call each, without state of their own (directories, clock, `StartThread`); `EnvWrapper`, which forwards.
* `Skip` of a sequential file, which nothing in the repository calls.
* The sample `main.cpp`, the tests, the build files and the vendored googletest and googlemock.

The last of these are nearly all of the repository: of some 54,700 lines of implementation, `src/db` has
3,594 with its comments and includes, and what is left of it is mainly the interfaces above. A share of the whole
counted in lines is small for that reason.
