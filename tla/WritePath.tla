------------------------------ MODULE WritePath ------------------------------
(***************************************************************************)
(* The write path of one open database: the storage engine's DBImpl        *)
(* (cpp/leveldb/db/db_impl.cc) from Write to the level-0 table, with every *)
(* point where mutex_ is released.                                         *)
(*                                                                         *)
(* Writers queue up; the one at the front makes room in the memtable,      *)
(* takes a group of waiting batches, releases the mutex to append them to  *)
(* the log and insert them into the memtable, and answers for the group.   *)
(* One background thread turns a full memtable into a table, compacts      *)
(* levels, and deletes logs that are no longer needed.  The destructor     *)
(* waits for it.                                                           *)
(*                                                                         *)
(* A critical section is one action, but for the loop of MakeRoomForWrite, *)
(* whose rounds are actions of the writer that holds the mutex.  A batch   *)
(* has two updates, so that its insertion can be seen half done, and an    *)
(* update is its sequence number: keys, and the entries a compaction drops *)
(* because a newer one hides them, are not told apart.  A condition        *)
(* variable wakes only the threads that were signalled: no progress rests  *)
(* on a spurious wakeup.  Left out, because nothing in this repository's   *)
(* binding calls them: writes without a batch (TEST_CompactMemTable) and   *)
(* manual compactions.                                                     *)
(***************************************************************************)
EXTENDS Integers, Sequences, FiniteSets, FiniteSetsExt

CONSTANTS
  Writers,      \* threads that call Write
  SyncOptions,  \* values of WriteOptions.sync the callers use
  Free,         \* mutex_ is not held
  MemCap,       \* updates that fit in options_.write_buffer_size
  L0Compact,    \* kL0_CompactionTrigger
  L0Slowdown,   \* kL0_SlowdownWritesTrigger
  L0Stop,       \* kL0_StopWritesTrigger
  MaxDebt,      \* bound on the compactions that the deeper levels want
  MaxWrites,    \* bound on the calls
  MaxFailures   \* bound on the file operations that fail

ASSUME WritePathAssumption ==
  /\ Free \notin Writers
  /\ SyncOptions \subseteq BOOLEAN
  /\ MemCap \in Nat /\ MaxDebt \in Nat /\ MaxWrites \in Nat /\ MaxFailures \in Nat
  /\ L0Compact \in Nat /\ L0Slowdown \in Nat /\ L0Stop \in Nat
  /\ 1 <= L0Compact /\ L0Compact <= L0Slowdown /\ L0Slowdown <= L0Stop

VARIABLES
  mutex,      \* mutex_: the writer inside MakeRoomForWrite, or Free
  writers,    \* writers_: the queue
  pc,         \* where each writer is
  call,       \* each writer's call: its number and its WriteOptions.sync
  done,       \* Writer.done
  delayable,  \* allow_delay of the writer in MakeRoomForWrite
  group,      \* how many writers the leader answers for
  pending,    \* updates of the leader's group not yet in the memtable
  failure,    \* the leader's status: "none", "log" or "sync"
  signalled,  \* threads woken from a condition variable and not yet running
  calls,      \* calls made so far
  asked,      \* calls made with WriteOptions.sync (history)
  firstSeq,   \* sequence number of the first update of a call's batch, or 0
  lastSeq,    \* versions_->LastSequence()
  acked,      \* calls that were answered OK (history)
  mem,        \* updates in the memtable
  imm,        \* the set with the memtable that imm_ points to, if any
  tables,     \* updates in the tables of the current version
  curLog,     \* logfile_number_
  logs,       \* calls whose batch each log file on disk holds
  torn,       \* an append to the current log has failed
  exposed,    \* calls logged behind a failed append to their log (history)
  synced,     \* calls whose batch is known to be on the device
  logNumber,  \* versions_->LogNumber(), what the manifest says
  editLog,    \* the log number of the edit being written to the manifest
  fallback,   \* what the manifest says up to an edit whose write failed
  doomed,     \* logs that RemoveObsoleteFiles found and is deleting
  l0,         \* versions_->NumLevelFiles(0)
  debt,       \* compactions wanted by the size of the deeper levels
  seek,       \* the current version has a file_to_compact_
  bg,         \* the background thread, "off" if none is scheduled
  inputs,     \* level-0 files in the running compaction
  inner,      \* CompactMemTable was called from DoCompactionWork
  bgError,    \* bg_error_: 0, or the first call that was not yet served when it
              \* was set
  closing,    \* the destructor: "open", "waiting" or "deleted"
  failures    \* failed file operations so far

queueVars == <<mutex, writers, pc, call, done, delayable, calls, asked>>
groupVars == <<group, pending, failure, firstSeq, lastSeq, acked>>
logVars   == <<curLog, logs, torn, exposed, synced, logNumber, editLog, fallback, doomed>>
dataVars  == <<mem, imm, tables>>
levelVars == <<l0, debt, seek, inputs>>
bgVars    == <<bg, inner>>
vars == <<queueVars, groupVars, logVars, dataVars, levelVars, bgVars, signalled,
          bgError, closing, failures>>

shutting_down == closing # "open"
Unlocked == mutex = Free
NoMem == {}
Stored == mem \cup tables \cup UNION imm

QueueTypes ==
  /\ mutex \in Writers \cup {Free}
  /\ writers \in Seq(Writers)
  /\ pc \in [Writers -> {"idle", "waiting", "room", "sleeping", "bgwait",
                         "logging", "inserting", "finishing"}]
  /\ call \in [Writers -> [id : 0..MaxWrites, sync : BOOLEAN]]
  /\ done \in [Writers -> BOOLEAN]
  /\ calls \in 0..MaxWrites /\ asked \subseteq 1..calls

GroupTypes ==
  /\ group \in 0..Len(writers)
  /\ pending \subseteq Nat
  /\ failure \in {"none", "log", "sync"}
  /\ firstSeq \in [1..MaxWrites -> Nat] /\ lastSeq \in Nat
  /\ acked \subseteq 1..calls

LogTypes ==
  /\ curLog \in Nat /\ logNumber \in Nat /\ editLog \in Nat
  /\ DOMAIN logs \subseteq Nat /\ logs \in [DOMAIN logs -> SUBSET (1..MaxWrites)]
  /\ doomed \subseteq DOMAIN logs
  /\ synced \subseteq 1..MaxWrites /\ exposed \subseteq 1..MaxWrites
  /\ fallback \subseteq [log : Nat, tables : SUBSET Nat]

DataTypes ==
  /\ mem \subseteq Nat /\ tables \subseteq Nat
  /\ UNION imm \subseteq Nat /\ \A m, n \in imm : m = n

LevelTypes ==
  /\ l0 \in Nat /\ inputs \in 0..l0
  /\ debt \in 0..MaxDebt

ThreadTypes ==
  /\ bg \in {"off", "queued", "building", "installing", "removing", "compacting",
             "peeked", "moving", "committing"}
  /\ signalled \subseteq Writers \cup {"destructor"}
  /\ bgError \in Nat
  /\ closing \in {"open", "waiting", "deleted"}
  /\ failures \in 0..MaxFailures

FlagTypes ==
  delayable \in BOOLEAN /\ torn \in BOOLEAN /\ seek \in BOOLEAN /\ inner \in BOOLEAN

TypeOK ==
  /\ QueueTypes /\ GroupTypes /\ LogTypes /\ DataTypes /\ LevelTypes /\ ThreadTypes
  /\ FlagTypes

Init ==
  /\ mutex = Free
  /\ writers = <<>>
  /\ pc = [w \in Writers |-> "idle"]
  /\ call = [w \in Writers |-> [id |-> 0, sync |-> FALSE]]
  /\ done = [w \in Writers |-> FALSE]
  /\ delayable = FALSE /\ group = 0 /\ pending = {} /\ failure = "none"
  /\ signalled = {}
  /\ calls = 0 /\ asked = {} /\ firstSeq = [c \in 1..MaxWrites |-> 0]
  /\ lastSeq = 0 /\ acked = {}
  /\ mem = {} /\ imm = NoMem /\ tables = {}
  /\ curLog = 1 /\ logs = [f \in {1} |-> {}] /\ synced = {} /\ torn = FALSE /\ exposed = {}
  /\ logNumber = 1 /\ editLog = 1 /\ fallback = {} /\ doomed = {}
  /\ l0 = 0 /\ debt = 0 /\ seek = FALSE /\ inputs = 0
  /\ bg = "off" /\ inner = FALSE
  /\ bgError = 0
  /\ closing = "open"
  /\ failures = 0

-----------------------------------------------------------------------------
(***************************************************************************)
(* Helpers.                                                                *)
(***************************************************************************)

\* A file operation succeeds, or fails.
Succeeds == UNCHANGED failures
Fails == failures < MaxFailures /\ failures' = failures + 1

\* background_work_finished_signal_.SignalAll(): whoever waits on it.
BgWaiters ==
  {w \in Writers : pc[w] = "bgwait"}
    \cup {t \in {"destructor"} : closing = "waiting"}

\* The first call that is not one of the first n in the queue.
FirstBehind(n) == IF n < Len(writers) THEN call[writers[n + 1]].id ELSE calls + 1

\* RecordBackgroundError, while the first n of the queue are past the test of
\* bg_error_: the first error sticks.  (It also wakes the waiters, as the
\* sections of the background thread that call it do anyway.)
RecordBackgroundError(n) == bgError' = IF bgError = 0 THEN FirstBehind(n) ELSE bgError

SizeCompaction(files, wanted) == files >= L0Compact \/ wanted > 0

\* Mutant: a closing database schedules more work.
ScheduleWhileClosing ==
  bg' = IF /\ bgError' = 0
           /\ imm' # NoMem \/ SizeCompaction(l0', debt') \/ seek'
        THEN "queued" ELSE "off"

\* MaybeScheduleCompaction once background_compaction_scheduled_ is false, in
\* the state that the section leaves behind.
Schedule ==
  bg' = IF /\ ~shutting_down
           /\ bgError' = 0
           /\ imm' # NoMem \/ SizeCompaction(l0', debt') \/ seek'
        THEN "queued" ELSE "off"

MaybeScheduleCompaction == IF bg = "off" THEN Schedule ELSE bg' = bg

\* Mutant: the end of BackgroundCall forgets to look for more work.
BackgroundCallEndsForGood ==
  /\ inner' = FALSE
  /\ bg' = "off"
  /\ signalled' = signalled \cup BgWaiters

\* The end of BackgroundCall.
BackgroundCallEnds ==
  /\ inner' = FALSE
  /\ Schedule
  /\ signalled' = signalled \cup BgWaiters

\* The updates of a call's batch, and the calls of the first n in the queue.
SeqsOf(c) == IF firstSeq[c] = 0 THEN {} ELSE {firstSeq[c], firstSeq[c] + 1}
CallsOf(n) == {call[writers[p]].id : p \in 1..n}

-----------------------------------------------------------------------------
(***************************************************************************)
(* DBImpl::Write, up to the front of the queue.                            *)
(***************************************************************************)

FirstInQueue == writers = <<>>

Write(w, sync) ==
  /\ Unlocked /\ closing = "open"
  /\ pc[w] = "idle"
  /\ calls < MaxWrites
  /\ calls' = calls + 1
  /\ asked' = IF sync THEN asked \cup {calls + 1} ELSE asked
  /\ call' = [call EXCEPT ![w] = [id |-> calls + 1, sync |-> sync]]
  /\ done' = [done EXCEPT ![w] = FALSE]
  /\ writers' = Append(writers, w)
  /\ IF FirstInQueue
     THEN /\ pc' = [pc EXCEPT ![w] = "room"]
          /\ mutex' = w
          /\ delayable' = TRUE
     ELSE /\ pc' = [pc EXCEPT ![w] = "waiting"]
          /\ UNCHANGED <<mutex, delayable>>
  /\ UNCHANGED <<groupVars, logVars, dataVars, levelVars, bgVars, signalled,
                 bgError, closing, failures>>

\* w.cv.Wait() returns: the writer was answered for, or is now at the front.
WakeWriter(w) ==
  /\ Unlocked
  /\ pc[w] = "waiting"
  /\ w \in signalled
  /\ signalled' = signalled \ {w}
  /\ \/ /\ done[w]
        /\ pc' = [pc EXCEPT ![w] = "idle"]
        /\ UNCHANGED <<mutex, delayable>>
     \/ /\ ~done[w]
        /\ Head(writers) = w
        /\ pc' = [pc EXCEPT ![w] = "room"]
        /\ mutex' = w
        /\ delayable' = TRUE
  /\ UNCHANGED <<writers, call, done, calls, asked, groupVars, logVars, dataVars,
                 levelVars, bgVars, bgError, closing, failures>>

\* Mutant: the group is not reset.
AnswerKeepingGroup(w, n, ok) ==
  /\ writers' = SubSeq(writers, n + 1, Len(writers))
  /\ done' = [v \in Writers |-> done[v] \/ v \in {writers[p] : p \in 1..n}]
  /\ acked' = IF ok THEN acked \cup CallsOf(n) ELSE acked
  /\ signalled' = signalled \cup {writers[p] : p \in (2..(n + 1)) \cap DOMAIN writers}
  /\ pc' = [pc EXCEPT ![w] = "idle"]
  /\ mutex' = Free
  /\ failure' = "none"
  /\ UNCHANGED <<call, delayable, calls, asked, group>>

\* The end of Write: the leader pops the n writers it answers for, tells each,
\* and wakes the new front of the queue.
Answer(w, n, ok) ==
  /\ writers' = SubSeq(writers, n + 1, Len(writers))
  /\ done' = [v \in Writers |-> done[v] \/ v \in {writers[p] : p \in 1..n}]
  /\ acked' = IF ok THEN acked \cup CallsOf(n) ELSE acked
  /\ signalled' = signalled \cup {writers[p] : p \in (2..(n + 1)) \cap DOMAIN writers}
  /\ pc' = [pc EXCEPT ![w] = "idle"]
  /\ mutex' = Free
  /\ group' = 0 /\ failure' = "none"
  /\ UNCHANGED <<call, delayable, calls, asked>>

-----------------------------------------------------------------------------
(***************************************************************************)
(* MakeRoomForWrite: one action per branch of its loop, in the loop's      *)
(* order: an error, the delay, room, a wait, a new memtable.               *)
(***************************************************************************)
InRoom(w) == mutex = w /\ pc[w] = "room"
MustDelay == delayable /\ l0 >= L0Slowdown
MemFull == Cardinality(mem) > MemCap

\* Mutant: the earlier error is not looked at.
HasRoomDespiteError(w) == InRoom(w) /\ ~MustDelay /\ ~MemFull

HasRoom(w) == InRoom(w) /\ bgError = 0 /\ ~MustDelay /\ ~MemFull
NeedsMemTable(w) == InRoom(w) /\ bgError = 0 /\ ~MustDelay /\ MemFull

\* Mutants: only one of the two reasons to wait is looked at.
MustWaitForMemTable == imm # NoMem
MustWaitForLevel0 == l0 >= L0Stop

\* The previous memtable is still being compacted, or there are too many
\* level-0 files.
MustWait == imm # NoMem \/ l0 >= L0Stop

\* The earlier background error is this write's status.
RoomError(w) ==
  /\ InRoom(w)
  /\ bgError # 0
  /\ Answer(w, 1, FALSE)
  /\ UNCHANGED <<pending, firstSeq, lastSeq, logVars, dataVars, levelVars, bgVars,
                 bgError, closing, failures>>

\* Many level-0 files: sleep for a millisecond, once.
RoomDelay(w) ==
  /\ InRoom(w)
  /\ bgError = 0
  /\ MustDelay
  /\ pc' = [pc EXCEPT ![w] = "sleeping"]
  /\ mutex' = Free
  /\ delayable' = FALSE
  /\ UNCHANGED <<writers, call, done, calls, asked, groupVars, logVars, dataVars,
                 levelVars, bgVars, signalled, bgError, closing, failures>>

\* The leader takes the mutex again, after its sleep or after a signal of the
\* background thread.
BackInRoom(w) ==
  /\ Unlocked
  /\ \/ pc[w] = "sleeping" /\ UNCHANGED signalled
     \/ pc[w] = "bgwait" /\ w \in signalled /\ signalled' = signalled \ {w}
  /\ pc' = [pc EXCEPT ![w] = "room"]
  /\ mutex' = w
  /\ UNCHANGED <<writers, call, done, delayable, calls, asked, groupVars, logVars,
                 dataVars, levelVars, bgVars, bgError, closing, failures>>

\* Mutant: the wait for the background thread keeps the mutex.
RoomWaitLocked(w) == NeedsMemTable(w) /\ MustWait /\ UNCHANGED vars

\* Wait for background_work_finished_signal_.
RoomWait(w) ==
  /\ NeedsMemTable(w)
  /\ MustWait
  /\ pc' = [pc EXCEPT ![w] = "bgwait"]
  /\ mutex' = Free
  /\ UNCHANGED <<writers, call, done, delayable, calls, asked, groupVars, logVars,
                 dataVars, levelVars, bgVars, signalled, bgError, closing, failures>>

\* A new log and a new memtable; the old one becomes imm_.
RoomSwitch(w) ==
  /\ NeedsMemTable(w)
  /\ ~MustWait
  /\ Succeeds
  /\ curLog' = curLog + 1
  /\ logs' = [f \in DOMAIN logs \cup {curLog + 1} |->
                IF f = curLog + 1 THEN {} ELSE logs[f]]
  /\ torn' = FALSE
  /\ imm' = {mem}
  /\ mem' = {}
  /\ UNCHANGED <<levelVars, bgError>>
  /\ MaybeScheduleCompaction
  /\ UNCHANGED <<queueVars, groupVars, exposed, synced, logNumber, editLog, fallback,
                 doomed, tables, inner, signalled, closing>>

\* The new log could not be created.
RoomSwitchFails(w) ==
  /\ NeedsMemTable(w)
  /\ ~MustWait
  /\ Fails
  /\ Answer(w, 1, FALSE)
  /\ UNCHANGED <<pending, firstSeq, lastSeq, logVars, dataVars, levelVars, bgVars,
                 bgError, closing>>

\* Mutant: a sync write joins any group.
MayJoinAny(w, n) == n <= Len(writers)

\* "Do not include a sync write into a batch handled by a non-sync write."
MayJoin(w, n) == \A p \in 2..n : call[writers[p]].sync => call[w].sync

\* There is room: BuildBatchGroup takes a prefix of the queue, which may end
\* anywhere (the bytes of the batches decide) and holds no sync write unless
\* the leader's is one.  The group gets the next sequence numbers and the
\* mutex is released.
BuildBatchGroup(w, n) ==
  /\ HasRoom(w)
  /\ MayJoin(w, n)
  /\ group' = n
  /\ pending' = (lastSeq + 1)..(lastSeq + 2 * n)
  /\ firstSeq' = [c \in 1..MaxWrites |->
       IF c \in CallsOf(n)
       THEN lastSeq + 2 * (CHOOSE p \in 1..n : call[writers[p]].id = c) - 1
       ELSE firstSeq[c]]
  /\ pc' = [pc EXCEPT ![w] = "logging"]
  /\ mutex' = Free
  /\ UNCHANGED <<writers, call, done, delayable, calls, asked, failure, lastSeq, acked,
                 logVars, dataVars, levelVars, bgVars, signalled, bgError, closing,
                 failures>>

-----------------------------------------------------------------------------
(***************************************************************************)
(* The part of Write that runs without the mutex, and its end.             *)
(***************************************************************************)
Logged(c) == [logs EXCEPT ![curLog] = @ \cup c]

\* What the reader of a log finds there after AddRecord.  Behind a failed append
\* block_offset_ and the file disagree: the reader may or may not find the record.
Appended == {Logged(CallsOf(group))} \cup {l \in {logs} : torn}

\* log_->AddRecord and, if the leader's write is a sync write, Sync: both
\* succeed.
AddRecord(w) ==
  /\ pc[w] = "logging"
  /\ Succeeds
  /\ logs' \in Appended
  /\ exposed' = IF torn THEN exposed \cup CallsOf(group) ELSE exposed
  /\ synced' = IF call[w].sync THEN synced \cup logs'[curLog] ELSE synced
  /\ pc' = [pc EXCEPT ![w] = "inserting"]
  /\ UNCHANGED <<mutex, writers, call, done, delayable, calls, asked, groupVars, curLog,
                 torn, logNumber, editLog, fallback, doomed, dataVars, levelVars,
                 bgVars, signalled, bgError, closing>>

\* One of the two fails.  A failed append leaves nothing, a part or all of the
\* record and a log that later records may be lost in; writes go on.
AddRecordFails(w) ==
  /\ pc[w] = "logging"
  /\ Fails
  /\ \/ failure' = "log" /\ logs' \in {logs, Logged(CallsOf(group))} /\ torn' = TRUE
     \/ call[w].sync /\ failure' = "sync" /\ logs' \in Appended /\ UNCHANGED torn
  /\ pending' = {}
  /\ pc' = [pc EXCEPT ![w] = "finishing"]
  /\ UNCHANGED <<mutex, writers, call, done, delayable, calls, asked, group, firstSeq,
                 lastSeq, acked, curLog, exposed, synced, logNumber, editLog, fallback,
                 doomed, dataVars, levelVars, bgVars, signalled, bgError, closing>>

\* Mutant: the iteration over the batch stops too early.
InsertIntoFirst(w) ==
  /\ pc[w] = "inserting"
  /\ mem' = mem \cup {Min(pending)}
  /\ pending' = {}
  /\ pc' = [pc EXCEPT ![w] = "finishing"]
  /\ UNCHANGED <<mutex, writers, call, done, delayable, calls, asked, group, failure,
                 firstSeq, lastSeq, acked, logVars, imm, tables, levelVars, bgVars,
                 signalled, bgError, closing, failures>>

\* WriteBatchInternal::InsertInto, one update at a time.
InsertInto(w) ==
  /\ pc[w] = "inserting"
  /\ mem' = mem \cup {Min(pending)}
  /\ pending' = pending \ {Min(pending)}
  /\ pc' = IF pending' = {} THEN [pc EXCEPT ![w] = "finishing"] ELSE pc
  /\ UNCHANGED <<mutex, writers, call, done, delayable, calls, asked, group, failure,
                 firstSeq, lastSeq, acked, logVars, imm, tables, levelVars, bgVars,
                 signalled, bgError, closing, failures>>

\* Mutant: batches are counted, not updates.
CountBatches == group

\* WriteBatchInternal::Count of the group's batch.
Count == 2 * group

\* The leader takes the mutex again.  The group's sequence numbers are used up
\* whether or not the write failed; a failed sync stops all later writes (no
\* thread can be waiting for the background thread now: only a leader does).
FinishWrite(w) ==
  /\ Unlocked
  /\ pc[w] = "finishing"
  /\ lastSeq' = lastSeq + Count
  /\ IF failure = "sync" THEN RecordBackgroundError(0) ELSE UNCHANGED bgError
  /\ Answer(w, group, failure = "none")
  /\ UNCHANGED <<pending, firstSeq, logVars, dataVars, levelVars, bgVars, closing,
                 failures>>

-----------------------------------------------------------------------------
(***************************************************************************)
(* The background thread.                                                  *)
(***************************************************************************)

\* BackgroundCall finds the database closing or failed.
BgRefuse ==
  /\ Unlocked
  /\ bg = "queued"
  /\ shutting_down \/ bgError # 0
  /\ UNCHANGED <<queueVars, groupVars, logVars, dataVars, levelVars, bgError,
                 closing, failures>>
  /\ BackgroundCallEnds

\* DoCompactionWork looks at shutting_down_ and has_imm_ before every key,
\* without the mutex.
BgPeek ==
  /\ bg = "compacting"
  /\ ~shutting_down
  /\ imm # NoMem
  /\ bg' = "peeked"
  /\ UNCHANGED <<queueVars, groupVars, logVars, dataVars, levelVars, inner, signalled,
                 bgError, closing, failures>>

\* CompactMemTable starts, from BackgroundCompaction or from DoCompactionWork:
\* WriteLevel0Table releases the mutex for BuildTable.
BgBuild ==
  /\ Unlocked
  /\ \/ /\ bg = "queued"
        /\ ~shutting_down /\ bgError = 0
        /\ imm # NoMem
        /\ inner' = FALSE
     \/ bg = "peeked" /\ inner' = TRUE
  /\ bg' = "building"
  /\ UNCHANGED <<queueVars, groupVars, logVars, dataVars, levelVars, signalled,
                 bgError, closing, failures>>

\* What follows CompactMemTable: the end of the background call, or a signal
\* and the next key of the compaction that called it.
AfterCompactMemTable ==
  IF inner
  THEN /\ bg' = "compacting"
       /\ inner' = FALSE
       /\ signalled' = signalled \cup BgWaiters
  ELSE BackgroundCallEnds

\* The table is built: the edit says that the logs before the current one are
\* no longer needed, and LogAndApply releases the mutex to write it.
BgBuilt ==
  /\ Unlocked
  /\ bg = "building"
  /\ ~shutting_down
  /\ Succeeds
  /\ editLog' = curLog
  /\ bg' = "installing"
  /\ UNCHANGED <<queueVars, groupVars, curLog, logs, torn, exposed, synced, logNumber,
                 fallback, doomed, dataVars, levelVars, inner, signalled, bgError,
                 closing>>

\* What the manifest says without the edit that is being written.  After a
\* failed write of an edit descriptor_log_ stays in use, and a reader that stops at
\* the torn record sees nothing of what follows it.
Installed == [log |-> logNumber, tables |-> tables]
ManifestTorn == fallback' = fallback \cup {Installed}

\* BuildTable or the manifest write failed, or the database is closing.
BgMemTableFails ==
  /\ Unlocked
  /\ \/ bg = "building" /\ Fails /\ UNCHANGED fallback
     \/ bg = "installing" /\ Fails /\ ManifestTorn
     \/ bg = "building" /\ shutting_down /\ Succeeds /\ UNCHANGED fallback
  /\ RecordBackgroundError(group)
  /\ UNCHANGED <<queueVars, groupVars, curLog, logs, torn, exposed, synced, logNumber,
                 editLog, doomed, dataVars, levelVars, closing>>
  /\ AfterCompactMemTable

\* Mutant: every log but the one in use is deleted.
ObsoleteLogsButCurrent == {f \in DOMAIN logs : f < curLog}

\* RemoveObsoleteFiles under the mutex: nothing after an error; otherwise the
\* logs that the manifest no longer needs.
ObsoleteLogs == {f \in DOMAIN logs : f < logNumber'}

\* The manifest names the new table, at level 0 or deeper (which may fill that
\* level), and the new log number; imm_ is dropped.
BgInstalled ==
  /\ Unlocked
  /\ bg = "installing"
  /\ Succeeds
  /\ \/ l0' = l0 + 1 /\ debt' = debt
     \/ l0' = l0 /\ debt' \in {d \in {debt, debt + 1} : d <= MaxDebt}
  /\ seek' = FALSE
  /\ tables' = tables \cup UNION imm
  /\ imm' = NoMem
  /\ logNumber' = editLog
  /\ UNCHANGED <<queueVars, groupVars, curLog, logs, torn, exposed, synced, editLog,
                 fallback, mem, inputs, bgError, closing>>
  /\ IF bgError = 0
     THEN /\ doomed' = ObsoleteLogs
          /\ bg' = "removing"
          /\ UNCHANGED <<inner, signalled>>
     ELSE doomed' = {} /\ AfterCompactMemTable

\* RemoveObsoleteFiles deletes, without the mutex, and ignores failures.
BgRemoved ==
  /\ Unlocked
  /\ bg = "removing"
  /\ \/ Succeeds /\ logs' = [f \in DOMAIN logs \ doomed |-> logs[f]]
     \/ Fails /\ doomed # {} /\ logs' = logs
  /\ doomed' = {}
  /\ UNCHANGED <<queueVars, groupVars, curLog, torn, exposed, synced, logNumber, editLog,
                 fallback, dataVars, levelVars, bgError, closing>>
  /\ AfterCompactMemTable

\* PickCompaction: some level-0 files, or a deeper level, or the file that
\* seeks point at if no level is too big.  A single file without an overlap is
\* moved; everything else is merged without the mutex.  (A deeper level's debt
\* is paid here already: until the compaction ends nobody looks at it, and if it
\* fails nobody will.)
BgPick ==
  /\ Unlocked
  /\ bg = "queued"
  /\ ~shutting_down /\ bgError = 0
  /\ imm = NoMem
  /\ \/ l0 >= L0Compact /\ inputs' \in 1..l0 /\ debt' = debt
     \/ debt > 0 /\ inputs' = 0 /\ debt' = debt - 1
     \/ /\ ~SizeCompaction(l0, debt) /\ seek
        /\ inputs' \in 0..l0 /\ debt' = debt
  /\ bg' \in {"compacting"} \cup {b \in {"moving"} : inputs' <= 1}
  /\ UNCHANGED <<queueVars, groupVars, logVars, dataVars, l0, seek, inner, signalled,
                 bgError, closing, failures>>

\* DoCompactionWork has merged its inputs and releases the mutex again to
\* write the manifest.
BgMerged ==
  /\ Unlocked
  /\ bg = "compacting"
  /\ ~shutting_down
  /\ Succeeds
  /\ bg' = "committing"
  /\ UNCHANGED <<queueVars, groupVars, logVars, dataVars, levelVars, inner, signalled,
                 bgError, closing>>

\* The new version is installed; a merge also removes obsolete files.
BgCommitted ==
  /\ Unlocked
  /\ bg \in {"moving", "committing"}
  /\ Succeeds
  /\ l0' = l0 - inputs /\ inputs' = 0
  /\ debt' \in {d \in {debt, debt + 1} : d <= MaxDebt /\ (d = debt \/ inputs > 0)}
  /\ seek' = FALSE
  /\ UNCHANGED <<queueVars, groupVars, curLog, logs, torn, exposed, synced, logNumber,
                 editLog, fallback, dataVars, bgError, closing>>
  /\ IF bg = "committing" /\ bgError = 0
     THEN /\ doomed' = ObsoleteLogs
          /\ bg' = "removing"
          /\ UNCHANGED <<inner, signalled>>
     ELSE doomed' = {} /\ BackgroundCallEnds

\* The merge or its manifest write failed, or the database is closing.
BgCompactionFails ==
  /\ Unlocked
  /\ \/ bg = "compacting" /\ Fails /\ UNCHANGED fallback
     \/ bg \in {"moving", "committing"} /\ Fails /\ ManifestTorn
     \/ bg = "compacting" /\ shutting_down /\ Succeeds /\ UNCHANGED fallback
  /\ RecordBackgroundError(group)
  /\ inputs' = 0
  /\ UNCHANGED <<queueVars, groupVars, curLog, logs, torn, exposed, synced, logNumber,
                 editLog, doomed, dataVars, l0, debt, seek, closing>>
  /\ BackgroundCallEnds

-----------------------------------------------------------------------------
(***************************************************************************)
(* Readers and the destructor.                                             *)
(***************************************************************************)

\* Get and RecordReadSample: enough reads missed in one file, so that it is to
\* be compacted.
SeekCompaction ==
  /\ Unlocked /\ closing = "open"
  /\ tables # {}
  /\ ~seek
  /\ seek' = TRUE
  /\ UNCHANGED <<l0, debt, inputs, imm, bgError>>
  /\ MaybeScheduleCompaction
  /\ UNCHANGED <<queueVars, groupVars, logVars, mem, tables, inner, signalled,
                 closing, failures>>

\* ~DBImpl, once no call is running.
Close ==
  /\ Unlocked /\ closing = "open"
  /\ \A w \in Writers : pc[w] = "idle"
  /\ closing' = IF bg = "off" THEN "deleted" ELSE "waiting"
  /\ UNCHANGED <<queueVars, groupVars, logVars, dataVars, levelVars, bgVars,
                 signalled, bgError, failures>>

\* Mutant: the destructor trusts the signal.
WakeDestructorOnce ==
  /\ Unlocked
  /\ "destructor" \in signalled
  /\ signalled' = signalled \ {"destructor"}
  /\ closing' = "deleted"
  /\ UNCHANGED <<queueVars, groupVars, logVars, dataVars, levelVars, bgVars,
                 bgError, failures>>

\* The destructor's wait returns, and it looks again.
WakeDestructor ==
  /\ Unlocked
  /\ "destructor" \in signalled
  /\ signalled' = signalled \ {"destructor"}
  /\ closing' = IF bg = "off" THEN "deleted" ELSE "waiting"
  /\ UNCHANGED <<queueVars, groupVars, logVars, dataVars, levelVars, bgVars,
                 bgError, failures>>

\* The end: everything else that stops is a deadlock.
Deleted == closing = "deleted" /\ UNCHANGED vars

-----------------------------------------------------------------------------
WriterStep(w) ==
  \/ WakeWriter(w) \/ RoomError(w) \/ RoomDelay(w) \/ BackInRoom(w) \/ RoomWait(w)
  \/ RoomSwitch(w) \/ RoomSwitchFails(w)
  \/ \E n \in 1..Len(writers) : BuildBatchGroup(w, n)
  \/ AddRecord(w) \/ AddRecordFails(w) \/ InsertInto(w) \/ FinishWrite(w)

Background ==
  \/ BgRefuse \/ BgPeek \/ BgBuild \/ BgBuilt \/ BgMemTableFails \/ BgInstalled \/ BgRemoved
  \/ BgPick \/ BgMerged \/ BgCommitted \/ BgCompactionFails

Next ==
  \/ \E w \in Writers : (\E sync \in SyncOptions : Write(w, sync)) \/ WriterStep(w)
  \/ Background
  \/ SeekCompaction \/ Close \/ WakeDestructor
  \/ Deleted

Spec == Init /\ [][Next]_vars

\* A thread that can run does run; nobody is obliged to call anything.
FairSpec ==
  /\ Spec
  /\ \A w \in Writers : WF_vars(WriterStep(w))
  /\ WF_vars(Background)
  /\ WF_vars(WakeDestructor)

-----------------------------------------------------------------------------
(***************************************************************************)
(* Properties.                                                             *)
(***************************************************************************)

\* What a process that dies now finds on disk, if the manifest can be read at
\* all (NeverCorrupt of Recovery says when it cannot): the manifest as it was last
\* installed, or with the edit that was being written, or whose write failed,
\* in it, or only what comes before an edit whose write failed.
Manifests ==
  {Installed} \cup fallback
    \cup {[log |-> editLog, tables |-> tables \cup m] :
            m \in {x \in imm : editLog > logNumber}}

FoundIn(m, c, records) ==
  \/ \E f \in DOMAIN logs : f >= m.log /\ c \in logs[f] \cap records
  \/ SeqsOf(c) # {} /\ SeqsOf(c) \subseteq m.tables

\* A write that was answered OK survives the death of the process at any
\* moment, unless an append to its log had failed before it: some log that
\* Recover will read, or a table of the manifest, holds it, also while a memtable
\* is being turned into a table, while the manifest is being written, after that
\* write failed and others followed it, and while old logs are deleted.
Durable ==
  \A m \in Manifests : \A c \in acked \ exposed : FoundIn(m, c, 1..MaxWrites)

\* The same for a loss of power and a write with WriteOptions.sync, whichever
\* writer's group it was logged in.
SyncDurable ==
  \A m \in Manifests : \A c \in (acked \cap asked) \ exposed : FoundIn(m, c, synced)

\* Get and NewIterator read at LastSequence: they see each batch whole or not
\* at all, also while InsertInto runs without the mutex or a write failed.
WholeBatches ==
  \A c \in 1..MaxWrites :
    SeqsOf(c) \cap Stored \cap 1..lastSeq \in {{}, SeqsOf(c)}

\* A write that was answered OK is seen by every read that starts later.
ReadYourWrites ==
  \A c \in acked : SeqsOf(c) # {} /\ SeqsOf(c) \subseteq Stored \cap 1..lastSeq

\* What a snapshot sees never changes: no step of a writer or of the background
\* thread adds or drops an update at or below LastSequence.
SnapshotsFrozen == [][Stored' \cap 1..lastSeq = Stored \cap 1..lastSeq]_vars

\* "we force the DB into a mode where all future writes fail": once there is a
\* background error no call is answered OK but those whose group was being
\* written then.  The others in the queue, the calls made later, and the group whose
\* failed sync is the error are all refused.
ErrorSticky == bgError # 0 => \A c \in acked : c < bgError

\* kL0_StopWritesTrigger really is the "maximum number of level-0 files" of a
\* database that starts with none.  (DB::Open may leave more than that behind; a
\* memtable is then switched only once compactions have brought them down.)
Level0Bounded == l0 <= L0Stop

\* While there is work to do, and neither an error nor the destructor forbids
\* it, a background call is scheduled.
WorkScheduled ==
  /\ bgError = 0 /\ closing = "open"
  /\ imm # NoMem \/ SizeCompaction(l0, debt) \/ seek
  => bg # "off"

\* No background call runs on a deleted database.
NoWorkAfterDelete == closing = "deleted" => bg = "off"

\* Every Write returns: no lost signal, no wait that nobody ends.
WriteReturns == \A w \in Writers : pc[w] # "idle" ~> pc[w] = "idle"

\* The destructor, and with it leveldbClose on the JavaScript thread, returns.
CloseReturns == closing = "waiting" ~> closing = "deleted"
=============================================================================
