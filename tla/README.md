# A TLA+ model of react-native-leveldb

react-native-leveldb gives JavaScript code in a React Native application a
synchronous key-value store: a TypeScript package (`src/src/index.ts`) over JSI
host functions (`src/cpp/react-native-leveldb.cpp`) over a copy of LevelDB
(`src/cpp/leveldb`), plus an in-memory double for tests (`src/src/fake.ts`).
This directory holds TLA+ modules of its parts, TLC configurations, and proofs
checked by TLAPS. `PROJECT.json` lists components, runs, mutants, the map from
definitions to source lines, findings, hazards and theorems.

## 1. Inventory

| Component | State | Operations | What is hard | What makes it correct |
|---|---|---|---|---|
| JavaScript wrappers (`index.ts`) | `ref` of each object; `openRefs` on `globalThis`: name to ref; `nativeModuleInitError` | constructor, close, closed, put, delete, write, merge, newIterator, destroyDB | several objects share a ref; a module reload keeps `globalThis` and loses module state | `closed()` agrees with the native side, for ever; writes go to the right database |
| Native registries (`react-native-leveldb.cpp`) | the vectors `dbs`, `iterators`, `batches` | one host function per operation, `installLeveldb`, `cleanupLeveldb` | lifetimes of three kinds of objects that point at each other, slots that are or are not reused | no use of a freed object; a ref denotes what its wrapper was made for |
| Install and teardown (Java, Objective-C) | the runtime's life | `install`, `onCatalystInstanceDestroy`, `invalidate` | order and threads relative to the next runtime | no database stays locked |
| Public interfaces | an ordered map, iterators over snapshots | get, put, delete, batch write, iterate | | the promise that the double and the engine must keep |
| Double (`fake.ts`) | a sorted array of tuples; each iterator a copy of it and a position | the same interface | binary search; copies that share tuples | it behaves as the interface says |
| Engine: write path (`db_impl.cc`) | writer queue, memtables, log, sequence number, `bg_error_`, background call | Write, MakeRoomForWrite, BuildBatchGroup, CompactMemTable, BackgroundCompaction, RemoveObsoleteFiles, destructor | the mutex is released in the middle of most of them; failures at each file operation; signals | acknowledged writes survive and are seen; batches are atomic; nobody waits for ever |
| Engine: versions and compactions (`version_set.cc`, `db_impl.cc`) | the files of each level, compact pointers, seek charges, pending outputs, the running compaction | LogAndApply, PickCompaction, SetupOtherInputs, DoCompactionWork, PickLevelForMemTableOutput, RemoveObsoleteFiles | choices made from one version and applied to a later one; entries dropped under snapshots | reads stay exact; levels stay disjoint; no file in use is deleted |
| Engine: recovery, manifest and repair | CURRENT, manifests, logs, tables | NewDB, Recover, RecoverLogFile, SetCurrentFile, RepairDB | crashes between any two file operations, in the recovery or the repair too | acknowledged writes survive; no healthy database is refused |
| Engine: log format | blocks of physical records | AddRecord, ReadRecord | torn writes, failed flushes, offsets inside a record | what was written is read back, and nothing else |
| Engine: tables and iterators | blocks, index, filters; position and direction of each layer | TableBuilder, InternalGet, DBIter, MergingIterator, TwoLevelIterator | shortened keys, filters by file range, changes of direction | they behave as a sorted map |
| Engine: skip list | linked nodes | Insert, search | readers without a lock | no key is passed over |
| Engine: table cache | handles with reference counts, the lru and in-use lists, permits of two limiters | FindTable, Lookup, Insert, Release, Erase | two readers open one table; failures on every path | counts are exact, nothing leaks |
| POSIX environment (`env_posix.cc`) | lock table, record lock, background queue | LockFile, UnlockFile, Schedule | two opens of one directory; lost wakeups | one process, one DBImpl per directory; work is done |

Calls go down: a wrapper calls host functions synchronously on the JavaScript
thread; a host function calls the engine; the engine schedules work on one
background thread. Nothing calls back up. React Native calls install and
teardown, the latter possibly on another thread. State shared between layers is
a number (`ref`) in the wrapper, an index into a vector in C++, and the LOCK
file of the database directory.

Not modelled, with the reasons, in `PROJECT.json` under `components`.

## 2. Modules

### Handles: wrappers, registries, runtime

`Handles.tla` models all three layers that know whether a database is open.
`dbs`, `iterators` and `batches` are the native vectors (a slot holds the name
of the open database, the slot of the iterator's database, the set of wrappers
that added updates to the batch). `openRefs`, `dbRef`, `itRef`, `batchRef` are
the JavaScript side. `exists` and `content` are the directories; `content[n]`
records for which names the writes in directory `n` were meant, which is all the
properties need of the data. Refs are 1-based; 0 stands for `undefined` and -1.

An action is a call as the application makes it: the wrapper's method together
with the host functions it calls. `NewLevelDB` takes the shared ref of
`openRefs` or calls `leveldbOpen`, and leaves an empty slot when the open fails;
`destroyDB` closes, forgets and destroys, in that order, and keeps the first two
when the third fails. A call that throws without a change is a stuttering step.
The runtime's life is `StartRuntime`, `StopRuntime` (with or without the
teardown call), `ReloadModule` (Metro evaluates `index.ts` again under a live
runtime), `LateInvalidate` (the old runtime's teardown after the new runtime's
install) and `RestartProcess`.

Undefined behaviour is a state: `fault`. Moving or deleting an iterator whose
DBImpl was deleted uses the freed caches and mutex; `valid`, `key` and `value`
touch only what the iterator keeps alive and are not faults. `compareKey` on a
closed iterator dereferences null. After a fault only a restart is possible.

Four specifications differ only in the environment: `Spec` (any client,
runtimes in order), `ContractSpec` (iterators are closed before their database,
as `LevelDBI.newIterator` demands), `ModuleReloadSpec`, `ReloadSpec` (module
reloads and late teardowns too).

### KVStore and FakeStore: the promise and the double

`KVStore.tla` is the abstract store of the interfaces: contents, a snapshot per
iterator, the key each iterator is at. `FakeStore.tla` is `fake.ts`: `kv` and the
iterators' arrays are sequences of references into `heap`, because the copy that
an iterator makes is shallow. `getIdx` is the code's binary search, written as a
recursive function. The refinement mapping (`KV`) turns an array of tuples into
the map it stands for. `CarefulSpec` restricts the client to what the double can
serve: no overwrite of a key that a live iterator can reach, and no move of an iterator
after its close.

### WritePath: the engine between Write and the level-0 table

`WritePath.tla` is `DBImpl`'s locking discipline. A critical section of `mutex_`
is one action. Only the loop of `MakeRoomForWrite` is split into its branches, by
a variable `mutex` that keeps everyone else out. The places where the mutex is
released are the states between actions:

| State | Code |
|---|---|
| writer `waiting` | `w.cv.Wait()` in Write |
| writer `sleeping`, `bgwait` | the delay and the two waits in MakeRoomForWrite |
| writer `logging`, `inserting`, `finishing` | AddRecord, Sync, InsertInto without the mutex |
| background `building` | BuildTable in WriteLevel0Table |
| background `installing`, `moving`, `committing` | the manifest write in LogAndApply |
| background `removing` | the deletions in RemoveObsoleteFiles |
| background `compacting`, `peeked` | the merge loop of DoCompactionWork, before and after it has seen `has_imm_` |
| destructor `waiting` | the wait in ~DBImpl |

An update is its sequence number and a batch has two, so that it can be seen
half inserted. Condition variables wake only threads that were signalled, so no
liveness rests on spurious wakeups. Every file operation can fail: log creation,
append (the record may be there all the same), sync, table build, manifest
write, merge, file removal. A failed append leaves the log `torn`: later records of
that log may or may not be found by its reader (finding 7), and the calls logged
there are `exposed` until the end. A failed manifest write leaves the manifest in use,
and a later edit, such as that of the compaction that goes on around a failed flush,
may be unreadable behind it: `fallback` has what the manifest says up to each such
point. `Durable` and `SyncDurable` are about all these manifests, and about the
acknowledged calls that are not exposed. `bgError` remembers the first call that was
not yet served when the error was recorded, so that `ErrorSticky` covers the calls
waiting in the queue. `inputs` counts the level-0 files of the running
compaction, fixed when it was picked, so that memtables flushed during the
compaction are not swallowed by it.

`mem`, `tables` and the memtable in `imm` are sets of sequence numbers; `imm` is
empty while `imm_` is null, and otherwise holds the one memtable.

Abstractions: keys are not told apart, so a compaction that drops a hidden entry
is not visible (LsmStore has that); levels below 0 are a count of compactions
they want (`debt`); file numbers only order logs. A record appended without an
error to a log in which no append failed is readable later: that is
`ReadsAcknowledged` of LogFormat. Left out: writes without a batch and manual compactions, which nothing in
the binding calls. The destructor is called only when no Write is running, which
is so when both are called on the JavaScript thread.

### LogFormat: the log's blocks

`LogFormat.tla` is `log_writer.cc` and `log_reader.cc`. A file is a sequence of
cells, one per byte, each marked with the physical record it belongs to; blocks
and headers are short (6 and 3 for 32768 and 7), so that a record is empty, one
fragment or several, and trailers of every length occur. An action is one turn of
AddRecord's loop with its flush, which may fail after any number of bytes; then
the process stops (the file stays) or the machine does (the file keeps any prefix
beyond what was synced), and a reader reads from the start or from an offset,
one physical record per action. A checksum passes if all cells of the physical
record are its own: collisions are left out.

### Recovery: opening and repairing after a crash

`Recovery.tla` keeps CURRENT, manifests, logs and tables as files with a synced
prefix, and the volatile state of the process in `db`. Opening is one action per
file operation (`Open`, `NewDB`, `NameFirstManifest`, `ReadCurrent`,
`ReplayTable`, `ReplayNext`, `NewLog`, `WriteManifest`, `SyncManifest`,
`SetCurrentFile`, `Opened`); a running database writes, switches memtables,
flushes and compacts, with the manifest record appended, synced and applied in
separate steps. A compaction is picked first, and memtables may be flushed before its
tables are merged, as in the loop of DoCompactionWork; an error of such a flush does
not stop the compaction, nor further tries of the flush. Every one of these operations
may fail. After a failed append to the log (`db.torn`) a write that is answered OK may
or may not be in what its reader delivers (`AddRecord`), and it is in `acked` only
once a table of the manifest has it. After a failed append to the manifest
(`db.tail`) a later edit may be read, or end the manifest for its reader, or make
Recover report Corruption (`damaged`, finding 11): `NeverCorrupt` excepts that last
case, and nothing else. That a reader silently passes over some edits and then reads later
ones takes a coincidence of block offsets and checksum bytes, and is left out. Logs are replayed oldest first; the order in which a repair converts
them is left open, as the order of a directory is. RepairDB (`RepairDB`, `ConvertLog`, `ArchiveLog`,
`WriteDescriptor`, `ArchiveManifests`, `InstallDescriptor`, `Repaired`) may be
called on a database that is not open; it archives each log before a manifest
names the log's table, so the client is taken to repeat a repair that was cut off
rather than to open the database. `ProcessStops` and `MachineStops` may come
between any two of these steps. It takes from LogFormat that a torn record is skipped, and from the file
system that creating, renaming and deleting are durable in order.

### LsmStore: where entries lie

`LsmStore.tla` tells keys, sequence numbers and deletions apart. A version maps
levels to files with their real bounds. `Get` searches as `Version::Get` does
(newest file first in level 0, one file per deeper level, stop at the first hit),
`IteratorGet` merges everything; both are compared with the history of writes
(`ReadsExact`). Since that fails where a compaction divides a user key between its
inputs and the rest of its output level (finding 10), `UnsplitReadsExact` claims it
of the behaviours in which none does (`InputsWhole`), and `SnapshotFreeReadsExact` of
a database that holds no snapshot, such as one behind the binding.
Compactions are split where the mutex is released: picked, one action per output
table, installed; a memtable may be flushed in between. Versions stay alive as long as a reader or a
compaction holds them. `ManualSpec` adds CompactRange.

### Tables and Iterators: one read, all the way down

`Tables.tla` is pure: operators for cutting entries into blocks with restart
points, the shortened keys of the index, the filters by file range, and the
lookup through them. `Iterators.tla` stacks the iterators over them: blocks,
`TwoLevelIterator`, `MergingIterator`, `DBIter`, each as a record with its
position and direction. The initial states are all placements of a few writes;
`want` follows what an iterator over a sorted map would do.

### SkipList, TableCache, PosixEnv, and Shared

The structures that threads share outside `mutex_`. In `SkipList.tla` a step is a
load or store of a link. In `TableCache.tla` the cache's operations hold its mutex:
each is one action, but for the loop at the end of Insert, whose rounds (`Shrink`)
are steps that keep everyone else out (`MutexFree`). FindTable as a whole is not
atomic. In `PosixEnv.tla` LockFile and
UnlockFile are split at the system calls, with the system's record locks as an
external part, and the background thread waits on its condition variable with
spurious wakeups. The three have no state in common; `Shared.tla` puts them side
by side and lets a behaviour exercise one.

How the engine's modules fit: LogFormat justifies whole records in WritePath and
Recovery; WritePath justifies the atomic sections of LsmStore, and its `Durable`
is the disk that Recovery starts from; LsmStore's NoTableDeletedInUse is what
TableCache assumes of deleted files, and its UnsplitReadsExact and Iterators'
IteratorExact together are what KVStore promises; PosixEnv's WorkNotForgotten is
what WritePath's background call rests on.

## 3. Runs

| Run | Checks | Bounds | Distinct states |
|---|---|---|---|
| Handles | ClosedAgrees, NoCrossWrite, IteratorRouting, NotLockedOut, ClosedForever | 2 names, 2 LevelDB objects, 1 iterator object, 3 slots | 333,000 |
| HandlesContract | NoUseAfterFree (contract client), BatchIsolation | 2 names, 2 objects, 2 iterators, 2 batches, slots 3, 2, 2 | 874,000 |
| Fake | SearchExact, ImplementsKVStore | 3 keys, 2 values, 1 iterator, 4 tuples | 64,000 |
| WritePath | TypeOK, Durable, SyncDurable, WholeBatches, ReadYourWrites, ErrorSticky, Level0Bounded, WorkScheduled, NoWorkAfterDelete, SnapshotsFrozen, no deadlock | 2 writers, sync and not, 4 calls, 1 failure, triggers 1/1/2 | 1,781,000 |
| WritePathLive | WriteReturns, CloseReturns | 2 writers, 3 calls, 1 failure, fair threads | 64,000 |
| LogFormat | ReadsGenuine, ReadsAcknowledged, TornTailSilent | 3 records of 0, 1 or 7 bytes in blocks of 6, 1 failed flush, offsets 0 and 5 | 1,692,000 |
| Recovery | AckedSurvive, NeverCorrupt, SequencesFresh, EventuallyOpen | 1 or 2 writes, 1 or 2 crashes, at most 1 failure, 1 compaction and 1 repair (`MCBudgets`) | 435,000 |
| LsmStore | TypeOK, NoTableDeletedInUse, LevelsDisjoint, UnsplitReadsExact, SnapshotFreeReadsExact | 2 keys, 3 levels, tables of up to 2 entries, 3 or 4 writes (`MCBudgets`) | 220,000 |
| Iterators | IteratorExact, LookupExact | 2 keys, 5 targets, 4 writes over memtable, level 0 and level 1 | 55,000 |
| Shared | SearchesExact, ReferencesExact, NothingLeaked, HeldOncePerProcess, WorkNotForgotten, no deadlock | 4 keys of height up to 3; 3 files, 2 readers, capacity 0 or 1, 1 permit of each kind; 2 processes of 2 threads; 3 databases | 1,225,000 |

and two runs that end in a violation, one for each of two findings:
HandlesIterAfterClose and LsmSplit. The other findings have a configuration each
that reproduces them with `tlc -config X.cfg M`: HandlesCompareClosed and
HandlesModuleReload (module MCHandles), FakeSnapshot and FakeCompare
(MCFakeStore), LogFailedAppend (LogFormat), LsmManual (MCLsmStore), RecoveryTornManifest
(MCRecovery), PosixLock (Shared). WritePathInv (WritePathProofs),
RecoveryInv (MCRecovery), LsmInv (MCLsmStore), LogInv (LogFormatProofs) and FakeInv
(FakeStoreProofs) check the inductive invariants of five proofs, LsmReads and LsmWhole (MCLsmStore) those of LsmReadsProofs, up to the
first state in which their condition fails.

**Why the bounds suffice.** In Handles the dangerous patterns need two wrappers
of one name, two names, a failed open before a successful one and a reopen after
a close: three slots hold them all, and the theorems below remove the bounds
anyway. In FakeStore arrays of up to three tuples give the search an empty range,
a range of one and both halves of longer ones, and targets lie in, between and
around the keys (which are even); theorems cover longer ones. In WritePath a memtable holds one batch,
so four calls fill it several times: a group of two, a wait for `imm_`, a wait
for level 0, a flush inside a compaction and a flush after one all happen; the
level-0 triggers keep the order of the code's 4, 8, 12 at 1, 1, 2; compactions
of deeper levels, which matter to scheduling only, are in WritePathLive. One failure
reaches every error branch, the retry of a failed memtable compaction included.

In LogFormat a record of 7 bytes takes three fragments and a block is left with
0 to 3 bytes, so that every kind of fragment meets every kind of block end; the
theorems hold for the code's 32768 and 7 as well. In Recovery two crashes put one inside the recovery from the other, and two writes
give a compaction with a full memtable beside it; a failure then reaches a write behind a
failed append as well as an edit behind a torn one. In LsmStore a compaction cuts its
output after two entries or at the grandparents, so that under a snapshot a key
straddles two files, which both may share a key with a third; a deletion, a snapshot
or reader, a seek charge and a reopen all meet. In Iterators four writes of two keys
give a key hidden, deleted or too new in each layer, blocks of one and of several
entries, filters that stand for none and for several blocks, and turns at both
ends. In Shared capacity 0 makes every handle leave the cache at once, capacity 1
makes three files compete; one permit makes the second table fall back to a
descriptor and the third to one opened per read.

Runs of FakeStore, LogFormat, Recovery, LsmStore and Iterators do not check for
deadlock: a closed double without iterators, a log read to its end and a behaviour
that used up its budget really stop. In WritePath only a deleted database stops.

**Fairness.** In WritePathLive a writer, the background thread or
the destructor that can take its next step eventually takes it. That is the
operating system's scheduling of runnable threads. No fairness is put on calls,
reads or failures. Weak fairness is enough because the number of calls is
bounded, so no thread can lose the race for the mutex for ever. Recovery has weak
fairness of the steps of an Open and of those of a repair that was begun: they run
on the caller's thread, and a client whose call failed or was cut off makes it
again, as an application does at its next start. Crashes and failures need no
fairness and are bounded by the budget. No other run assumes any.

**Symmetry.** Names and objects of a kind are interchangeable model values in
Handles, values and iterators in FakeStore, writers in the run WritePath; the
properties there are safety properties that do not single one out.
WritePathLive uses none.

Every property of every passing run has a mutant: a definition of the model,
changed as a plausible bug would change it, under which the run fails. Mutants
stand before the definition they replace, and are marked `Mutant:`.

## 4. Findings

1. *Iterators outlive their database.* `leveldbClose` deletes the DBImpl and
   leaves its iterators; the next move or close of one uses freed memory. The
   smoke test expects an exception.
2. *compareKey on a closed iterator* dereferences a null pointer: the test for
   null comes one line after the use.
3. *Module reload.* `installLeveldb` clears the registries, `openRefs` survives
   on `globalThis`: `closed()` says open for a dead ref, `new LevelDB(name)`
   returns the dead ref, and after another open the ref denotes a different
   database.
4. *The double's iterators are not snapshots*: an overwrite shows through.
5. *The double's compareKey* never answers -1 for a string target.
6. *The LOCK file.* A refused second open closes a descriptor of the file, and
   with it the process's record lock: another process may then open a database
   that is in use, where the manual promises a lock against that.
7. *A failed append to the log* leaves the writer's block offset and the file out
   of step, and later writes are acknowledged all the same; some of them cannot
   be read back after the process restarts, where the manual says that nothing is
   lost. Durable, SyncDurable and AckedSurvive claim nothing of such writes while only
   the log has them.
8. *Manual compactions* may produce overlapping files in a level, when a memtable
   that falls into a gap between their inputs is flushed into their output level.
   The binding calls no manual compaction.
9. *Repair reads logs without checksums*, where the comment above says that it
   means to check them; the mutant IntactHeader of LogFormat shows what a reader
   without the checksum may deliver after a failed flush.
10. *A deleted key may come back.* SetupOtherInputs adds boundary files to the inputs
   of the upper level, not to those of the output level. Under a snapshot a compaction
   may divide a key's deletion marker and its older value between two files of a
   level; once the snapshot is released, a compaction that takes in the first file
   alone drops the marker, and the value in the second is read again (LsmSplit).
   The binding takes no snapshots, and without them no key is divided (theorem
   ReadsExactWithoutSnapshots).
11. *A torn manifest is written on.* If the flush inside a compaction cannot append its
   edit, `bg_error_` is set, but the compaction goes on, tries the flush again before its
   next key, and appends further edits behind the torn record, because LogAndApply
   keeps `descriptor_log_`. Recover may then report Corruption for a database that was open,
   where a test says of a failed MANIFEST write that recovery should not lose data
   (RecoveryTornManifest). The tables and logs are all there: RepairDB brings
   everything back.

## 5. Proofs

`HandlesProofs.tla` proves, for every set of names and objects and any number of
slots, the properties of `Handles.tla`, from `HandlesAssumption` alone (the
bounds are naturals and `Null` is no name and no batch). None of the properties
is inductive. The invariants are built up in three layers:

- `RInv` = TypeOK and `OpenIsListed`: while a runtime is bound, a slot of `dbs`
  that holds a database is listed in `openRefs` under that name. It is preserved
  by every step, reloads and late teardowns included, because `cleanupLeveldb`
  only empties the registry. It gives **TypeInvariant** and **NeverLockedOut**
  for `ReloadSpec`. (TypeOK of Handles is proved only; no run repeats it.)
- `IInv` adds, for runtimes replaced in order: `Quiescent` (without a runtime
  the JavaScript side is empty), `ListedIsOpen` (the converse of OpenIsListed,
  which is what a module reload breaks), `DbRouting` and `ItRouting` (a ref
  within the registry denotes the database of the wrapper's own name, or an
  empty slot), `BatchOwnership` (live wrappers hold different slots) and
  NoCrossWrite. It gives **ClosedIsTruthful**, **ClosedIsForever**,
  **WritesStayHome**, **IteratorsStayHome** and **BatchesAreIsolated**.
  The key step is that slots of `dbs` and `iterators` are never reused, so an
  index, once handed out, means one database for ever; batches, whose slots are
  reused, need ownership instead.
- `CInv` adds `IteratorsOwned`: under the client contract every live native
  iterator belongs to a wrapper, so that closing the wrappers closes them all.
  It gives **ContractIsEnough** for `ContractSpec`.

Each invariant has a lemma per group of actions, and under it a step per
conjunct that the action can disturb.

`SharedProofs.tla` is about the three structures of section 2 that threads share; its
parts are independent of each other.

Of SkipList it proves **SearchesAreExact** for any number of keys and any
kMaxHeight. In `ListInv` a node is on a level once it was published there; every
stored link, that of the node being inserted too, leads to the first node of its
level behind it (`LinkInv`), and a node on a level is on those below (`TowerInv`).
So a search that is before its bound on one level (`ReadInv`) may go ahead or down,
and at level 0 its next node is the answer. Insert only adds to what is on a level,
whatever stale max_height_ the reader started from. The largest node before a key
exists by well-foundedness of the naturals (`BoundedMax`).

Of TableCache it proves **CacheReferences** and **CacheLeaksNothing**, its two
properties, for any files, readers, capacities and limits
(`TableCacheAssumption`). `ShardInv` speaks of the shard as a record and of a set E of
handles that left the hash table and whose FinishErase is still to come, so that it
holds between the two halves of Erase and of Insert too; Ref, Unref, FinishErase and
Cached each have a lemma that says what they do to it. The other parts of `CacheInv`
say which reader has which handle (`ReaderInv`), that the loop of an Insert goes on
while the cache is too full and has an unused entry (`CapacityInv`), that each permit
is in one place (`PermitInv`) and that open handles are of files that exist
(`FilesInv`). A free slot for a new handle exists by counting: an allocated handle is
some file's in the hash table or some other reader's.

Of PosixEnv it proves **LockHeldOnce**, HeldOncePerProcess for any number of
processes and threads. The inductive invariant `LockInv` adds to it that a thread
between its InsertLock and the removal of its entry has its process in the table
of locks and is the only thread of its process there; every step of LockFile and
UnlockFile is an instance of one lemma about moving one thread. The record lock of
the system plays no part: that it does not keep other processes out is finding 6.
**WorkIsKept** is WorkNotForgotten for any databases; its invariant adds types only,
among them that the thread runs something exactly while it says so.

`WritePathProofs.tla` proves every safety property that the run WritePath checks,
for any set of writers, any triggers in the code's order, any memtable size and any
number of calls and failures (`WritePathAssumption`). None of them but WorkScheduled
and NoWorkAfterDelete is inductive. The invariant `IInv`, which `WritePathInv.cfg`
checks on a small instance, has one part per relation that the code relies on while
the mutex is released:

- `QueueInv`, `CallInv`, `GroupInv`: a queued call is in the queue once; whoever
  leads is at its front, so there is one leader; a group exists while it writes;
- `SeqInv`, `InsertInv`: the group's batches have the numbers after LastSequence in
  queue order, and what is in the memtable above LastSequence is what InsertInto
  has inserted so far. From them and `BatchInv` follow **BatchesWhole**,
  **AnsweredVisible** and **Snapshots**;
- `RecordInv`, `LogInv`: unless it is exposed, a group's record is in the log, and on
  the device if one of its calls asked for it, before the first insertion; an answered
  call is in a table, or in `imm` and, unless exposed, a log not older than the manifest's
  log number, or in `mem` and, unless exposed, the current log. The edit being written
  names a log not newer than the current one, and its table holds all of `imm`: hence
  **Durability** and **SyncDurability** for the manifest before and after it;
- `FallbackInv`: once the write of an edit has failed nothing is deleted any more, so what
  the manifest said before it stays enough: the same two theorems for a manifest that
  its reader cannot follow to the end;
- `FlushInv`: a memtable waits only if it was switched when level 0 had room, and
  nothing else adds to level 0: **Level0Limit**;
- `OrderInv`, `ErrorInv`: the calls in the queue are numbered in its order, so those of
  the group being written come before those that the first error meets: **ErrorsStick**.

Each group of actions has a lemma, and actions that end alike (the three ends of
Write, the two outcomes of AddRecord) are instances of one.

`RecoveryProofs.tla` proves **AckedSurviveHolds**, **NeverCorruptHolds** and
**SequencesFreshHolds**, the safety properties of Recovery, for any number of writes,
crashes, failures, compactions and repairs, from `RecoveryAssumption` (the budgets are naturals and
`NoFile` is no number). Only what must survive matters, so the invariant `RecInv` is
about `Sound`: a manifest is sound if its tables exist, their numbers and sequence
numbers are below those it gives out next, and its tables together with the logs that
it does not count as obsolete hold what was acknowledged, on the device where that was
promised. The parts:

- `CurrentInv`: every prefix that a stop of the machine may leave of the manifest
  under CURRENT is sound, if it gives numbers at all; `OpenedInv`: once the database
  was open, all of them do. Together they make a crash a step like any other, at
  whatever point it comes;
- `NumbersInv`, `ReplayInv`, `RecoveredInv`: how far an Open has come: no number it
  gives out is taken, a log that was read to its end is in tables, and the manifest
  it writes is sound before CURRENT names it;
- `OpenInv`, `BaseInv`, `JobInv`: the running database has what was acknowledged in
  `mem`, `imm` and its version, what was acknowledged of each memtable is in a log not
  older than the manifest's log number, and the edit being appended is sound before and
  after it is synced: a flush adds the table of all of `imm`, a compaction keeps what
  its inputs held. Before the first error the manifest gives exactly the version's tables;
  after it, while a compaction goes on (`Active`), those at least, because the edit
  of a flush may be in the manifest although its sync failed. Where no further edit can be
  read, nothing is claimed of the ones that follow: the manifest that Recover reads stays
  as it is, and since RemoveObsoleteFiles does nothing after an error, so does what it names;
- `Kept`, `RepairInv`: tables and logs together hold everything even where no
  manifest can be read, and a repair archives a log only when its table is written;
- `Bounded`: there is a largest file number and a largest sequence number. It
  quantifies over the naturals, so TLC does not evaluate it; it checks the others.

That a recovered manifest is sound rests on lemmas about sequences of edits
(what is applied and what is last after an append, and for a prefix).

`LsmStoreProofs.tla` proves **LsmTypes**, **TablesInUseKept** and **LevelsStayDisjoint**
for any finite set of keys, any number of levels (at least two), any limits and
budgets (`LsmAssumption`; `NoneAssumption` says that None is nothing else), for `Spec`,
that is without manual compactions, for which the third one is false (finding 8). The
invariant `LsmInv`:

- `EntriesInv`, `VersionInv`: sequence numbers are used once, the bounds of a file are
  its first and last entry, and a file number denotes one file of one level;
- `DiskInv`: the pending outputs are exactly the outputs of the running compaction;
- `InputsInv`: the inputs of the running compaction are still in the current version
  and leave no gap (`NoGap`: a key between two of them is in the range of one), and the
  other files of the output level are before or after all of them. The flush of a
  memtable in the middle keeps this: PickLevelForMemTableOutput takes a level below 0
  only if nothing overlaps there or on the way, and what overlaps no file of a set
  without gaps is on one side of it. A manual compaction cuts its inputs off, which
  leaves a gap;
- `OutputsInv`: the tables written and still to be written are in order and hold
  entries of the inputs.

The lemmas say what the loops of the code compute: the binary search `FindFile` finds
the first file that ends at or after a key; GetOverlappingInputs with its restarts in
level 0 and AddBoundaryInputs return files without gaps; PickCompaction chooses inputs
that can be compacted; the loop of DoCompactionWork cuts exactly the entries that are
not dropped, in order (`OutputsBuilt`). They rest on `LoopInduction` and `LoopKeeps`,
which do induction over the rounds of a loop with a set of states in the place of a
predicate: the model writes these loops with `Loop`, whose body is a function.

`LsmReadsProofs.tla` goes on from `LsmInv`, under the same assumptions, to what reads
return: **ReadsExactIfUnsplit** (UnsplitReadsExact) and **ReadsExactWithoutSnapshots**
(SnapshotFreeReadsExact). ReadsExact is not inductive: a Get stops at the first entry
it meets, and whether a merge may drop an entry depends on files that it does not
merge. The invariant `ReadInv`:

- `OrderInv`: newer entries of a key are above older ones, in the memtables, then by
  levels and, in level 0, by file numbers. With LevelsDisjoint it makes the first
  answer of a Get the newest one (`VersionGetNewest`, `GetIsIteratorGet`), so that only
  iterators have to be compared with the history: `CompleteInv`;
- `MergeInv`: the files beside a running compaction have newer entries than its inputs
  (those left in the upper level), or none of their keys (those of the output level,
  and those that a flush added), or are deeper files that IsBaseLevelForKey looks at;
  and what is written and still to be written is exactly what is not dropped, for an
  `oldest` that no read is older than. Then what is dropped was hidden from every
  read, or was a deletion of a key of which nothing older is anywhere
  (`DroppedUnseen`). That PickCompaction leaves newer entries behind in the upper level
  is where AddBoundaryInputs is needed (`PickedNewer`: its loop ends only when no file
  goes on with the last user key). That nothing of the output level shares a key with the
  inputs is not true in general (finding 10): it is the condition InputsWhole, used
  in one step only, StartCompaction;
- `SnapshotsInv`: the list of snapshots is ascending, so its head is the oldest.

Without snapshots the condition is an invariant itself: `WholeInv` says that every user
key of a level below 0 is in one file of it, because rule (A) then keeps one entry of
a key, and flushes and moves go where nothing overlaps.

`LogFormatProofs.tla` proves **ReadsAreGenuine**, **AcknowledgedAreRead** and
**TornTailsAreSilent**, all that the run LogFormat checks, for any block and header size,
any sizes of records, any offsets and any number of records and failed flushes
(`LogFormatAssumption`: a header has at least two bytes and is shorter than a block).
`LogInv` has three parts. `WaitInv`: nothing was read while the log is written.
`WriterInv` is about the file:

- `HistoryInv`, `AddingInv`: the fragments of a record follow each other and cover it,
  from its start to what the AddRecord under way has left;
- `FileInv`, whatever failed: of a physical record the file has the first bytes, side
  by side and in order, and a fragment that goes on with a record has the end of
  the one before it in front of it, since AddRecord stops at a failed flush. This is
  what makes reads genuine even where the blocks are out of step;
- `AlignInv`, `PlaceInv`, `AckInv`, if nothing failed: a physical record is in one
  block, after the one before it with at most a trailer of zeros between them; the writer is
  where block_offset_ says; an acknowledged record is there to its end, and on the
  device if it was synced. They hold of every prefix that a stop of the machine leaves.

`ReaderInv` is about the reader at its place in the file: its buffer is what the file
has there (`BufferOf`); `scratch` is the record in assembly up to the last fragment that
was read, of which at most a trailer separates the reader (`AssemblyOf`); what was
delivered is whole, in order and behind it (`GenuineOf`, `DeliveredOf`); and if nothing
failed, it is in step with the blocks (`StepOf`), has not met a fragment whose beginning
it skipped (`SilentOf`), and every acknowledged record was delivered, is in assembly or
lies ahead (`ProgressOf`). The last three are what gives the properties at the end of the
file. The proof has a lemma for each outcome of ReadPhysicalRecord and of the switch in
ReadRecord.

`FakeStoreProofs.tla` proves **LookupsAreExact** (SearchExact under `Spec`, that is for any
client) and **DoubleImplements** (ImplementsKVStore under `CarefulSpec`) for any keys,
values and iterators, from `FakeAssumption`: keys are integers, null is no key, value,
array or map, and undefined is no number. `FakeInv`: live tuples have a key and a
value (`HeapInv`); each array, the store's and the iterators', refers to live tuples
whose keys increase strictly (`ArraysInv`); an iterator that was not constructed has no
position (`ItersInv`). What the recursive getIdx computes is shown without an
induction theorem: the exact answer satisfies getIdx's own recursion (`Turn`), so a range
in which the two differ has a shorter one in which they differ, and there is no shortest
one (`Least`). For the refinement each call has a lemma: a put of a new key, an
overwrite and a delete change the map that the array stands for as KVStore's Write
does (`PutNewStep`, `PutOverStep`, `DeleteStep`), and leave the maps of the
iterators alone; a move lands on the key that KVStore names (`Landings`). That the client
is careful is used twice: an overwrite changes a tuple that iterators may share, and an
iterator that was closed has no key in KVStore.

Only model-checked: Iterators' IteratorExact and LookupExact, because iterators, blocks
and filters are built from folds and recursive operators over data of any length, which
the provers cannot do induction over; and liveness (WriteReturns, CloseReturns,
EventuallyOpen), which is outside their reach.

## 6. Not modelled

- Byte encodings (varints, WriteBatch and VersionEdit records, checksums,
  compression, damaged blocks): functions of bytes without state.
- `options.reuse_logs`, which nothing in the repository turns on; what RepairTable
  saves of a damaged table; the C API, the Windows and in-memory environments, dump tools and benchmarks, which
  the package does not reach on its platforms.
- The weak memory model beneath the skip list: release and acquire are taken as an
  interleaving, and only the relaxed `max_height_` may be read stale. The arena,
  the block cache (it uses the shard that TableCache models) and sharding by hash.
- In the binding: the data race between `cleanupLeveldb` on React Native's module
  thread and a running host function (no lock orders them, so that any overlap is
  undefined behaviour, and React Native decides whether it can happen); the
  statuses that `leveldbMerge` drops; the arithmetic of `leveldbReadFileBuf`;
  parsing of arguments. They are listed as hazards with the reason.

## 7. Plan

1. *Done*: Handles; KVStore; FakeStore refining KVStore; WritePath; LogFormat;
   Recovery; LsmStore; Tables and Iterators; SkipList, TableCache and PosixEnv; proofs
   of all of them but Tables and Iterators.
2. What a reader sees of LsmStore as a refinement of KVStore, with the entries that
   ReadInv keeps as the mapping.
3. Tables and Iterators with loops as functions, like those of LsmStore, so that
   IteratorExact can be proved by induction over their rounds.
