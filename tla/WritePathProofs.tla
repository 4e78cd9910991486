--------------------------- MODULE WritePathProofs ---------------------------
(***************************************************************************)
(* Proofs about WritePath, for any number of writers and any limits: the   *)
(* safety properties of the write path are invariants of Spec.             *)
(*                                                                         *)
(* IInv says what the queue, the group being written, its sequence         *)
(* numbers, the log, the memtables and the background thread know of each  *)
(* other while mutex_ is released.  Each part is kept by every step; the   *)
(* lemmas are grouped by who takes the step.                               *)
(***************************************************************************)
EXTENDS WritePath, FiniteSetTheorems, SequenceTheorems, WellFoundedInduction, TLAPS

\* A writer that MakeRoomForWrite, the log or the memtable is busy with, and
\* one whose group has its sequence numbers.
Leading(w) == pc[w] \in {"room", "sleeping", "bgwait", "logging", "inserting", "finishing"}
Writing(w) == pc[w] \in {"logging", "inserting", "finishing"}

\* The queue holds the calls that nobody answered for, each once; whoever
\* leads is at its front, and holds the mutex in MakeRoomForWrite only.
QueueInv ==
  /\ \A p, q \in 1..Len(writers) : writers[p] = writers[q] => p = q
  /\ \A p \in 1..Len(writers) : pc[writers[p]] # "idle" /\ ~done[writers[p]]
  /\ \A w \in Writers : pc[w] = "waiting" /\ ~done[w] => \E p \in 1..Len(writers) : writers[p] = w
  /\ \A w \in Writers : Leading(w) => Len(writers) > 0 /\ writers[1] = w
  /\ \A w \in Writers : mutex = w <=> pc[w] = "room"

\* Calls have different numbers, and asked says which wanted a sync.
CallInv ==
  /\ \A w \in Writers : call[w].id <= calls
  /\ \A w \in Writers : pc[w] # "idle" => call[w].id > 0
  /\ \A w \in Writers : pc[w] # "idle" => (call[w].sync <=> call[w].id \in asked)
  /\ \A v, w \in Writers : call[v].id = call[w].id /\ call[v].id > 0 => v = w

\* Calls are queued, and so answered, in the order of their numbers.
OrderInv ==
  /\ \A p, q \in 1..Len(writers) : p < q => call[writers[p]].id < call[writers[q]].id
  /\ \A c \in acked : \A p \in 1..Len(writers) : c < call[writers[p]].id

\* There is a group exactly while its leader is writing.
GroupInv ==
  /\ \A w \in Writers : Writing(w) => group > 0
  /\ group > 0 => \E w \in Writers : Writing(w)
  /\ failure # "none" => \E w \in Writers : pc[w] = "finishing"

\* Sequence numbers: the batches of the group get the next ones in the order of
\* the queue, those behind it have none, and all others were used up.
Numbered(c) ==
  \/ firstSeq[c] = 0
  \/ firstSeq[c] + 1 <= lastSeq
  \/ \E p \in 1..group : call[writers[p]].id = c
SeqInv ==
  /\ \A c \in 1..MaxWrites : c > calls => firstSeq[c] = 0
  /\ \A p \in 1..Len(writers) :
       firstSeq[call[writers[p]].id] = IF p <= group THEN lastSeq + 2 * p - 1 ELSE 0
  /\ \A c \in 1..MaxWrites : Numbered(c)

\* The updates above LastSequence: the group's, as far as InsertInto has come.
GroupSeqs == (lastSeq + 1)..(lastSeq + 2 * group)
InsertInv ==
  /\ pending \subseteq GroupSeqs
  /\ \A w \in Writers : pc[w] = "logging" => pending = GroupSeqs
  /\ \A w \in Writers : pc[w] = "inserting" => pending # {}
  /\ \A w \in Writers : pc[w] = "finishing" => pending = {}
  /\ {s \in mem : s > lastSeq} =
       IF failure # "none" \/ \E w \in Writers : pc[w] = "logging"
       THEN {} ELSE GroupSeqs \ pending
  /\ \A s \in UNION imm : s <= lastSeq
  /\ \A s \in tables : s <= lastSeq

\* The record of a group is in the log, and on the device if anyone in the
\* group asked for it, before the first insertion, unless it lies behind a failed
\* append.
RecordInv ==
  /\ \A w \in Writers, p \in 1..group :
       pc[w] = "logging" /\ call[writers[p]].sync => call[w].sync
  /\ \A w \in Writers, p \in 1..group :
       /\ pc[w] = "inserting" \/ (pc[w] = "finishing" /\ failure = "none")
       /\ call[writers[p]].id \notin exposed
       =>/\ call[writers[p]].id \in logs[curLog]
         /\ call[writers[p]].id \in asked => call[writers[p]].id \in synced

\* An answered call is in a table, or in a memtable and, unless it lies behind a
\* failed append, in a log that the manifest still needs.
LogInv ==
  /\ curLog \in DOMAIN logs
  /\ logNumber <= curLog /\ editLog <= curLog
  /\ \A f \in doomed : f < logNumber
  /\ \A c \in acked :
       /\ firstSeq[c] > 0 /\ firstSeq[c] + 1 <= lastSeq
       /\ c \in asked \ exposed => c \in synced
       /\ \/ {firstSeq[c], firstSeq[c] + 1} \subseteq tables
          \/ /\ {firstSeq[c], firstSeq[c] + 1} \subseteq UNION imm
             /\ c \in exposed \/ \E f \in DOMAIN logs : f >= logNumber /\ c \in logs[f]
          \/ /\ {firstSeq[c], firstSeq[c] + 1} \subseteq mem
             /\ c \in exposed \/ c \in logs[curLog]

\* After a failed write of an edit nothing is deleted any more, so what the
\* manifest said before that edit stays enough to find every answered call.
Kept(m, c) ==
  \/ \E f \in DOMAIN logs : f >= m.log /\ c \in logs[f]
  \/ {firstSeq[c], firstSeq[c] + 1} \subseteq m.tables
FallbackInv ==
  /\ fallback # {} => bgError # 0 /\ bg # "removing"
  /\ \A m \in fallback : m.log <= curLog /\ \A c \in acked \ exposed : Kept(m, c)

\* Only a memtable that waits can add to level 0, and it was switched when
\* there was room.
FlushInv ==
  /\ bg \in {"peeked", "building", "installing"} => imm # NoMem
  /\ imm # NoMem => l0 < L0Stop
  /\ Level0Bounded

\* The calls of a group that may still be answered OK were made before the
\* first error.
ErrorInv ==
  /\ ErrorSticky
  /\ bgError # 0 => \A p \in 1..group : call[writers[p]].id < bgError

\* A batch whose sequence numbers are used up is stored whole or not at all.
BatchInv ==
  \A c \in 1..MaxWrites :
    firstSeq[c] > 0 /\ firstSeq[c] + 1 <= lastSeq =>
      (firstSeq[c] \in Stored <=> firstSeq[c] + 1 \in Stored)

IInv ==
  /\ TypeOK
  /\ QueueInv /\ CallInv /\ OrderInv /\ GroupInv
  /\ SeqInv /\ InsertInv /\ RecordInv /\ LogInv /\ FallbackInv
  /\ FlushInv /\ ErrorInv
  /\ BatchInv /\ WorkScheduled /\ NoWorkAfterDelete

\* A database that was just opened satisfies the invariant.
LEMMA InitIInv == Init => IInv
<1> SUFFICES ASSUME Init PROVE IInv
  OBVIOUS
<1>1. QueueTypes /\ GroupTypes
  BY WritePathAssumption DEF Init, QueueTypes, GroupTypes
<1>2. LogTypes /\ DataTypes
  BY WritePathAssumption DEF Init, LogTypes, DataTypes, NoMem
<1>3. LevelTypes /\ ThreadTypes
  BY WritePathAssumption DEF Init, LevelTypes, ThreadTypes
<1>10. FlagTypes
  BY DEF Init, FlagTypes
<1>4. QueueInv /\ CallInv /\ OrderInv /\ GroupInv
  BY WritePathAssumption DEF Init, QueueInv, CallInv, OrderInv, GroupInv, Leading, Writing
<1>5. SeqInv
  BY WritePathAssumption DEF Init, SeqInv, Numbered
<1>6. InsertInv
  BY WritePathAssumption DEF Init, InsertInv, GroupSeqs, NoMem
<1>7. RecordInv /\ LogInv /\ FallbackInv
  BY DEF Init, RecordInv, LogInv, FallbackInv
<1>8. FlushInv /\ ErrorInv
  BY WritePathAssumption DEF Init, FlushInv, Level0Bounded, ErrorInv, ErrorSticky, NoMem
<1>9. BatchInv /\ WorkScheduled /\ NoWorkAfterDelete
  BY WritePathAssumption DEF Init, BatchInv, WorkScheduled, NoWorkAfterDelete, NoMem, SizeCompaction
<1> QED
  BY <1>1, <1>2, <1>3, <1>4, <1>5, <1>6, <1>7, <1>8, <1>9, <1>10 DEF IInv, TypeOK

\* The number of the first call that is not served is above those of the calls
\* before it.
LEMMA Behind ==
  ASSUME IInv, NEW n \in 0..Len(writers)
  PROVE  /\ FirstBehind(n) \in Nat /\ FirstBehind(n) > 0
         /\ \A c \in acked : c < FirstBehind(n)
         /\ \A p \in 1..n : call[writers[p]].id < FirstBehind(n)
<1>0. QueueTypes /\ GroupTypes /\ QueueInv /\ CallInv /\ OrderInv /\ Len(writers) \in Nat
  BY DEF IInv, TypeOK, QueueTypes
<1>1. \A p \in 1..Len(writers) : writers[p] \in Writers /\ pc[writers[p]] # "idle"
  BY <1>0 DEF QueueTypes, QueueInv
<1>2. \A p \in 1..Len(writers) : call[writers[p]].id \in Nat /\ call[writers[p]].id > 0
                                /\ call[writers[p]].id <= calls
  BY <1>0, <1>1, WritePathAssumption DEF CallInv, QueueTypes
<1>3. calls \in Nat /\ \A c \in acked : c <= calls
  BY <1>0, WritePathAssumption DEF QueueTypes, GroupTypes
<1>4. CASE n < Len(writers)
  <2>1. n + 1 \in 1..Len(writers) /\ \A p \in 1..n : p \in 1..Len(writers) /\ p < n + 1
    BY <1>0, <1>4
  <2>2. FirstBehind(n) = call[writers[n + 1]].id
    BY <1>4 DEF FirstBehind
  <2> QED
    BY <1>0, <1>2, <2>1, <2>2 DEF OrderInv
<1>5. CASE ~(n < Len(writers))
  <2>1. FirstBehind(n) = calls + 1
    BY <1>5 DEF FirstBehind
  <2>2. \A p \in 1..n : p \in 1..Len(writers)
    BY <1>0
  <2>3. \A c \in acked : c \in Nat
    BY <1>0, <1>3 DEF GroupTypes
  <2> QED
    BY <1>2, <1>3, <2>1, <2>2, <2>3
<1> QED
  BY <1>4, <1>5

-----------------------------------------------------------------------------
(***************************************************************************)
(* The background thread.                                                  *)
(***************************************************************************)
USE DEF queueVars, groupVars, logVars, dataVars, levelVars, bgVars

\* The background thread's state and its signals keep their types.
LEMMA BgThreads ==
  ASSUME IInv, Background
  PROVE  ThreadTypes'
<1>0. ThreadTypes /\ calls \in Nat
  BY WritePathAssumption DEF IInv, TypeOK, QueueTypes
<1> USE <1>0 DEF ThreadTypes, Succeeds, Fails
<1>1. BgWaiters \subseteq Writers \cup {"destructor"}
  BY DEF BgWaiters
<1>2. BackgroundCallEnds => bg' \in {"queued", "off"} /\ signalled' \subseteq Writers \cup {"destructor"}
  BY <1>1 DEF BackgroundCallEnds, Schedule
<1>3. AfterCompactMemTable => bg' \in {"queued", "off", "compacting"} /\ signalled' \subseteq Writers \cup {"destructor"}
  BY <1>1, <1>2 DEF AfterCompactMemTable
<1>4. RecordBackgroundError(group) => bgError' \in Nat
  BY Behind DEF RecordBackgroundError, IInv, TypeOK, GroupTypes
<1>5. CASE BgRefuse \/ BgPeek \/ BgBuild \/ BgBuilt \/ BgPick \/ BgMerged
  BY <1>2, <1>5 DEF BgRefuse, BgPeek, BgBuild, BgBuilt, BgPick, BgMerged
<1>6. CASE BgMemTableFails \/ BgCompactionFails
  BY <1>2, <1>3, <1>4, <1>6, WritePathAssumption DEF BgMemTableFails, BgCompactionFails
<1>7. CASE BgInstalled \/ BgRemoved \/ BgCommitted
  BY <1>2, <1>3, <1>7, WritePathAssumption DEF BgInstalled, BgRemoved, BgCommitted
<1> QED
  BY <1>5, <1>6, <1>7 DEF Background

\* What the background thread never touches.
LEMMA BgFrame ==
  Background => UNCHANGED <<queueVars, groupVars, curLog, torn, exposed, synced, mem, closing>>
<1> USE DEF AfterCompactMemTable
<1>1. BgRefuse \/ BgPeek \/ BgBuild \/ BgBuilt \/ BgMemTableFails \/ BgInstalled
        => UNCHANGED <<queueVars, groupVars, curLog, torn, exposed, synced, mem, closing>>
  BY DEF BgRefuse, BgPeek, BgBuild, BgBuilt, BgMemTableFails, BgInstalled
<1>2. BgRemoved \/ BgPick \/ BgMerged \/ BgCommitted \/ BgCompactionFails
        => UNCHANGED <<queueVars, groupVars, curLog, torn, exposed, synced, mem, closing>>
  BY DEF BgRemoved, BgPick, BgMerged, BgCommitted, BgCompactionFails
<1> QED
  BY <1>1, <1>2 DEF Background

\* The flags of the background thread keep their types.
LEMMA BgFlags ==
  ASSUME FlagTypes, Background
  PROVE  FlagTypes'
<1> USE DEF FlagTypes, AfterCompactMemTable, BackgroundCallEnds
<1>0. UNCHANGED <<delayable, torn>>
  BY BgFrame
<1>1. CASE BgRefuse \/ BgPeek \/ BgBuild \/ BgBuilt
  BY <1>0, <1>1 DEF BgRefuse, BgPeek, BgBuild, BgBuilt
<1>2. CASE BgMemTableFails
  BY <1>0, <1>2 DEF BgMemTableFails
<1>3. CASE BgInstalled
  BY <1>0, <1>3 DEF BgInstalled
<1>4. CASE BgRemoved
  BY <1>0, <1>4 DEF BgRemoved
<1>5. CASE BgPick \/ BgMerged \/ BgCompactionFails
  BY <1>0, <1>5 DEF BgPick, BgMerged, BgCompactionFails
<1>6. CASE BgCommitted
  BY <1>0, <1>6 DEF BgCommitted
<1> QED
  BY <1>1, <1>2, <1>3, <1>4, <1>5, <1>6 DEF Background

\* What is stored, and which logs exist, stay as they are.
BgQuiet == UNCHANGED <<logs, logNumber, editLog, doomed, imm, tables>>

\* The background steps that change what is stored or which logs exist.
LEMMA BgData ==
  ASSUME IInv, Background
  PROVE  \/ BgQuiet
         \/ BgBuilt
         \/ BgInstalled
         \/ BgRemoved
         \/ BgCommitted
  BY DEF Background, BgQuiet, BgRefuse, BgPeek, BgBuild, BgMemTableFails, BgPick, BgMerged,
         BgCompactionFails

\* Logs that are created and deleted, and what the tables hold, keep their types.
LEMMA BgLogTypes ==
  ASSUME IInv, Background
  PROVE  LogTypes' /\ DataTypes'
<1>0. LogTypes /\ DataTypes
  BY DEF IInv, TypeOK
<1>1. UNCHANGED <<curLog, exposed, synced, mem>>
  BY BgFrame
<1>7. fallback' \subseteq fallback \cup {[log |-> logNumber, tables |-> tables]}
  BY DEF Background, BgRefuse, BgPeek, BgBuild, BgBuilt, BgMemTableFails, BgInstalled, BgRemoved,
         BgPick, BgMerged, BgCommitted, BgCompactionFails, ManifestTorn, Installed
<1>8. fallback' \subseteq [log : Nat, tables : SUBSET Nat]
  BY <1>0, <1>7 DEF LogTypes, DataTypes
<1> USE <1>0, <1>1, <1>8 DEF LogTypes, DataTypes
<1>2. CASE BgQuiet
  BY <1>2 DEF BgQuiet
<1>3. CASE BgBuilt
  BY <1>3 DEF BgBuilt
<1>4. CASE BgInstalled
  BY <1>4 DEF BgInstalled, ObsoleteLogs, NoMem
<1>5. CASE BgRemoved
  BY <1>5 DEF BgRemoved
<1>6. CASE BgCommitted
  BY <1>6 DEF BgCommitted, ObsoleteLogs
<1> QED
  BY <1>2, <1>3, <1>4, <1>5, <1>6, BgData

\* The same for the counts of the levels: no compaction takes more than there is.
LEMMA BgLevelTypes ==
  ASSUME LevelTypes, Background
  PROVE  LevelTypes'
<1> USE WritePathAssumption DEF LevelTypes
<1>1. CASE BgRefuse \/ BgPeek \/ BgBuild \/ BgBuilt \/ BgMemTableFails \/ BgRemoved \/ BgMerged
  BY <1>1 DEF BgRefuse, BgPeek, BgBuild, BgBuilt, BgMemTableFails, BgRemoved, BgMerged
<1>2. CASE BgInstalled
  BY <1>2 DEF BgInstalled
<1>3. CASE BgPick
  BY <1>3 DEF BgPick
<1>4. CASE BgCommitted
  BY <1>4 DEF BgCommitted
<1>5. CASE BgCompactionFails
  BY <1>5 DEF BgCompactionFails
<1> QED
  BY <1>1, <1>2, <1>3, <1>4, <1>5 DEF Background

\* A step of the background thread keeps the type invariant.
LEMMA BgTypes ==
  ASSUME IInv, Background
  PROVE  TypeOK'
<1>1. QueueTypes' /\ GroupTypes'
  BY BgFrame DEF IInv, TypeOK, QueueTypes, GroupTypes
<1> QED
  BY <1>1, BgThreads, BgFlags, BgLogTypes, BgLevelTypes DEF IInv, TypeOK

\* Moving imm_ into a table leaves what is stored as it is.
LEMMA BgStored ==
  ASSUME IInv, Background
  PROVE  Stored' = Stored
<1>1. UNCHANGED mem
  BY BgFrame
<1>2. CASE BgQuiet \/ BgBuilt \/ BgRemoved \/ BgCommitted
  BY <1>1, <1>2 DEF Stored, BgQuiet, BgBuilt, BgRemoved, BgCommitted
<1>3. CASE BgInstalled
  BY <1>1, <1>3 DEF Stored, BgInstalled, NoMem
<1> QED
  BY <1>2, <1>3, BgData

\* It disturbs neither the queue nor the group that is being written.
LEMMA BgGroups ==
  ASSUME IInv, Background
  PROVE  /\ QueueInv' /\ CallInv' /\ OrderInv' /\ GroupInv'
         /\ SeqInv' /\ InsertInv' /\ BatchInv'
<1>1. QueueInv' /\ CallInv' /\ OrderInv' /\ GroupInv'
  BY BgFrame DEF IInv, QueueInv, CallInv, OrderInv, GroupInv, Leading, Writing
<1>2. SeqInv'
  BY BgFrame DEF IInv, SeqInv, Numbered
<1>3. BatchInv'
  BY BgFrame, BgStored DEF IInv, BatchInv
<1>4. \A s \in tables' \cup UNION imm' : s <= lastSeq'
  <2>1. \A s \in tables \cup UNION imm : s <= lastSeq
    BY DEF IInv, InsertInv
  <2>2. tables' \cup UNION imm' \subseteq tables \cup UNION imm
    <3>1. CASE BgQuiet \/ BgBuilt \/ BgRemoved \/ BgCommitted
      BY <3>1 DEF BgQuiet, BgBuilt, BgRemoved, BgCommitted
    <3>2. CASE BgInstalled
      BY <3>2 DEF BgInstalled, NoMem
    <3> QED
      BY <3>1, <3>2, BgData
  <2> QED
    BY <2>1, <2>2, BgFrame
<1>5. InsertInv'
  BY <1>4, BgFrame DEF IInv, InsertInv, GroupSeqs
<1> QED
  BY <1>1, <1>2, <1>3, <1>5

\* It deletes a log only when its updates are in a table of the manifest.
LEMMA BgLogs ==
  ASSUME IInv, Background
  PROVE  RecordInv' /\ LogInv'
<1>0. /\ LogTypes /\ DataTypes /\ GroupTypes /\ LogInv /\ RecordInv
      /\ bg = "installing" => imm # NoMem
  BY DEF IInv, TypeOK, FlushInv
<1>1. UNCHANGED <<queueVars, groupVars, curLog, exposed, synced, mem>>
  BY BgFrame
<1> USE <1>0, <1>1 DEF RecordInv, LogInv
<1>2. CASE BgQuiet
  BY <1>2 DEF BgQuiet
<1>3. CASE BgBuilt
  BY <1>3 DEF BgBuilt, LogTypes
<1>4. CASE BgInstalled
  BY <1>4 DEF BgInstalled, LogTypes, ObsoleteLogs
<1>5. CASE BgRemoved
  BY <1>5 DEF BgRemoved, LogTypes
<1>6. CASE BgCommitted
  BY <1>6 DEF BgCommitted, LogTypes, ObsoleteLogs
<1> QED
  BY <1>2, <1>3, <1>4, <1>5, <1>6, BgData

\* What the manifest says without the edit being written is enough now, and
\* nothing is deleted once the write of that edit has failed.
LEMMA BgFallback ==
  ASSUME IInv, Background
  PROVE  FallbackInv'
<1>0. /\ LogTypes /\ LogInv /\ FallbackInv /\ group \in 0..Len(writers)
  BY DEF IInv, TypeOK, GroupTypes
<1>1. UNCHANGED <<queueVars, groupVars, curLog, exposed>>
  BY BgFrame
<1>2. BackgroundCallEnds => bg' \in {"queued", "off"}
  BY DEF BackgroundCallEnds, Schedule
<1>3. AfterCompactMemTable => bg' \in {"queued", "off", "compacting"}
  BY <1>2 DEF AfterCompactMemTable
<1>4. ASSUME UNCHANGED <<logs, bgError>>, fallback' = fallback,
             bg' = "removing" => bg = "removing" \/ bgError = 0
      PROVE  FallbackInv'
  BY <1>0, <1>1, <1>4 DEF FallbackInv, Kept
<1>5. CASE BgRefuse \/ BgPeek \/ BgBuild \/ BgBuilt \/ BgPick \/ BgMerged
  BY <1>2, <1>4, <1>5 DEF BgRefuse, BgPeek, BgBuild, BgBuilt, BgPick, BgMerged
<1>6. CASE BgInstalled \/ BgCommitted
  BY <1>2, <1>3, <1>4, <1>6 DEF BgInstalled, BgCommitted
<1>7. CASE BgRemoved
  <2>1. fallback' = {}
    BY <1>0, <1>7 DEF BgRemoved, FallbackInv
  <2> QED
    BY <2>1 DEF FallbackInv
<1>8. CASE BgMemTableFails \/ BgCompactionFails
  <2>1. bgError' # 0
    <3>1. RecordBackgroundError(group)
      BY <1>8 DEF BgMemTableFails, BgCompactionFails
    <3> QED
      BY <1>0, <3>1, Behind DEF RecordBackgroundError
  <2>2. bg' # "removing"
    BY <1>2, <1>3, <1>8 DEF BgMemTableFails, BgCompactionFails
  <2>3. UNCHANGED logs /\ fallback' \subseteq fallback \cup {Installed}
    BY <1>8 DEF BgMemTableFails, BgCompactionFails, ManifestTorn
  <2>4. logNumber <= curLog /\ \A c \in acked \ exposed : Kept(Installed, c)
    BY <1>0 DEF LogInv, LogTypes, Kept, Installed
  <2>5. \A m \in fallback' : m.log <= curLog /\ \A c \in acked \ exposed : Kept(m, c)
    BY <1>0, <2>3, <2>4 DEF FallbackInv, Installed
  <2> QED
    BY <1>1, <2>1, <2>2, <2>3, <2>5 DEF FallbackInv, Kept
<1> QED
  BY <1>5, <1>6, <1>7, <1>8 DEF Background

\* Only the memtable that was switched when there was room adds to level 0.
LEMMA BgLevels ==
  ASSUME IInv, Background
  PROVE  FlushInv'
<1>0. FlushInv /\ LevelTypes
  BY DEF IInv, TypeOK
<1> USE <1>0, WritePathAssumption DEF FlushInv, Level0Bounded, LevelTypes
<1>1. BackgroundCallEnds => bg' \in {"queued", "off"}
  BY DEF BackgroundCallEnds, Schedule
<1>2. AfterCompactMemTable => bg' \in {"queued", "off", "compacting"}
  BY <1>1 DEF AfterCompactMemTable
<1>3. CASE BgRefuse \/ BgPeek \/ BgBuild \/ BgBuilt
  BY <1>1, <1>3 DEF BgRefuse, BgPeek, BgBuild, BgBuilt
<1>4. CASE BgMemTableFails \/ BgCompactionFails
  BY <1>1, <1>2, <1>4 DEF BgMemTableFails, BgCompactionFails
<1>5. CASE BgInstalled
  BY <1>2, <1>5 DEF BgInstalled
<1>6. CASE BgRemoved \/ BgPick \/ BgMerged
  BY <1>2, <1>6 DEF BgRemoved, BgPick, BgMerged
<1>7. CASE BgCommitted
  BY <1>1, <1>7 DEF BgCommitted
<1> QED
  BY <1>3, <1>4, <1>5, <1>6, <1>7 DEF Background

\* The first background error refuses no call of the group, and none that was
\* answered OK.
LEMMA BgErrors ==
  ASSUME IInv, Background
  PROVE  ErrorInv'
<1>0. ErrorInv /\ GroupTypes /\ QueueTypes /\ CallInv
  BY DEF IInv, TypeOK
<1>1. UNCHANGED <<queueVars, groupVars>>
  BY BgFrame
<1>2. CASE UNCHANGED bgError
  BY <1>0, <1>1, <1>2 DEF ErrorInv, ErrorSticky
<1>3. CASE RecordBackgroundError(group)
  <2>1. CASE bgError # 0
    BY <1>2, <1>3, <2>1 DEF RecordBackgroundError
  <2>2. CASE bgError = 0
    <3>1. /\ \A c \in acked : c < FirstBehind(group)
          /\ \A p \in 1..group : call[writers[p]].id < FirstBehind(group)
      BY <1>0, Behind DEF GroupTypes
    <3> QED
      BY <1>1, <1>3, <2>2, <3>1 DEF RecordBackgroundError, ErrorInv, ErrorSticky
  <2> QED
    BY <2>1, <2>2
<1>4. UNCHANGED bgError \/ RecordBackgroundError(group)
  BY DEF Background, BgRefuse, BgPeek, BgBuild, BgBuilt, BgMemTableFails, BgInstalled,
         BgRemoved, BgPick, BgMerged, BgCommitted, BgCompactionFails
<1> QED
  BY <1>2, <1>3, <1>4

\* Every end of a background call looks for more work.
LEMMA BgWork ==
  ASSUME IInv, Background
  PROVE  WorkScheduled' /\ NoWorkAfterDelete'
<1>0. WorkScheduled /\ NoWorkAfterDelete
  BY DEF IInv
<1>1. UNCHANGED closing
  BY BgFrame
<1>2. bg # "off"
  BY DEF Background, BgRefuse, BgPeek, BgBuild, BgBuilt, BgMemTableFails, BgInstalled,
         BgRemoved, BgPick, BgMerged, BgCommitted, BgCompactionFails
<1>3. bg' # "off" \/ Schedule
  BY DEF Background, BgRefuse, BgPeek, BgBuild, BgBuilt, BgMemTableFails, BgInstalled,
         BgRemoved, BgPick, BgMerged, BgCommitted, BgCompactionFails, AfterCompactMemTable,
         BackgroundCallEnds
<1>4. WorkScheduled'
  BY <1>0, <1>1, <1>3 DEF WorkScheduled, Schedule, shutting_down, SizeCompaction
<1>5. NoWorkAfterDelete'
  BY <1>0, <1>1, <1>2 DEF NoWorkAfterDelete
<1> QED
  BY <1>4, <1>5

\* Every step of the background thread keeps the invariant.
LEMMA BgKeeps ==
  ASSUME IInv, Background
  PROVE  IInv'
  BY BgTypes, BgGroups, BgLogs, BgFallback, BgLevels, BgErrors, BgWork DEF IInv

-----------------------------------------------------------------------------
(***************************************************************************)
(* Writers.                                                                *)
(***************************************************************************)

\* Only the writer at the front of the queue leads.
LEMMA OneLeader ==
  ASSUME IInv, NEW w \in Writers, Leading(w)
  PROVE  /\ Len(writers) \in Nat /\ Len(writers) > 0 /\ writers[1] = w
         /\ \A v \in Writers : v # w => ~Leading(v) /\ ~Writing(v)
  BY DEF IInv, TypeOK, QueueTypes, QueueInv, Leading, Writing

\* The calls in the queue have numbers of their own.
LEMMA QueuedCalls ==
  ASSUME IInv
  PROVE  /\ Len(writers) \in Nat /\ group \in 0..Len(writers)
         /\ \A p \in 1..Len(writers) : writers[p] \in Writers /\ call[writers[p]].id \in 1..calls
         /\ \A p, q \in 1..Len(writers) : call[writers[p]].id = call[writers[q]].id => p = q
<1>1. /\ QueueTypes /\ QueueInv /\ CallInv /\ Len(writers) \in Nat /\ group \in 0..Len(writers)
  BY DEF IInv, TypeOK, QueueTypes, GroupTypes
<1>2. \A p \in 1..Len(writers) : writers[p] \in Writers /\ pc[writers[p]] # "idle"
  BY <1>1 DEF QueueTypes, QueueInv
<1>3. \A v \in Writers : pc[v] # "idle" => call[v].id > 0 /\ call[v].id <= calls
  BY <1>1 DEF CallInv
<1>4. calls \in Nat /\ \A v \in Writers : call[v].id \in Nat
  BY <1>1, WritePathAssumption DEF QueueTypes
<1>5. \A p \in 1..Len(writers) : call[writers[p]].id > 0 /\ call[writers[p]].id \in 1..calls
  BY <1>2, <1>3, <1>4
<1>6. \A p, q \in 1..Len(writers) : call[writers[p]].id = call[writers[q]].id => writers[p] = writers[q]
  BY <1>1, <1>2, <1>5 DEF CallInv
<1> QED
  BY <1>1, <1>2, <1>5, <1>6 DEF QueueInv

\* An empty group has no sequence numbers.
LEMMA EmptyGroup == \A a, b \in Nat : b = 0 => (a + 1)..(a + 2 * b) = {}
  OBVIOUS

\* Before its group is built, a leader finds no group, no pending update and
\* nothing above LastSequence.
LEMMA NoGroup ==
  ASSUME IInv, NEW w \in Writers, Leading(w), ~Writing(w)
  PROVE  /\ group = 0 /\ pending = {} /\ failure = "none"
         /\ \A v \in Writers : ~Writing(v)
         /\ \A s \in mem : s <= lastSeq
<1>1. \A v \in Writers : ~Writing(v)
  BY OneLeader
<1>2. group = 0
  BY <1>1 DEF IInv, TypeOK, QueueTypes, GroupTypes, GroupInv
<1>3. failure = "none"
  BY <1>1 DEF IInv, GroupInv, Writing
<1>4. GroupSeqs = {}
  BY <1>2 DEF GroupSeqs, IInv, TypeOK, GroupTypes
<1>5. {s \in mem : s > lastSeq} = {}
  BY <1>1, <1>3, <1>4 DEF IInv, InsertInv, Writing
<1>6. \A s \in mem : s <= lastSeq
  BY <1>5 DEF IInv, TypeOK, DataTypes, GroupTypes
<1> QED
  BY <1>1, <1>2, <1>3, <1>4, <1>6 DEF IInv, InsertInv

\* The variables that a step of the queue leaves alone.
DiskFrame == UNCHANGED <<logVars, dataVars, levelVars, bg, bgError, closing>>

\* Steps that change neither disk nor memtables nor the background thread.
LEMMA DiskFrameKeeps ==
  ASSUME IInv, DiskFrame
  PROVE  LogTypes' /\ DataTypes' /\ LevelTypes' /\ FlushInv' /\ WorkScheduled' /\ NoWorkAfterDelete'
<1>1. LogTypes' /\ DataTypes' /\ LevelTypes'
  BY DEF DiskFrame, IInv, TypeOK, LogTypes, DataTypes, LevelTypes
<1>2. FlushInv'
  BY DEF DiskFrame, IInv, FlushInv, Level0Bounded, NoMem
<1>3. WorkScheduled' /\ NoWorkAfterDelete'
  BY DEF DiskFrame, IInv, WorkScheduled, NoWorkAfterDelete, NoMem, SizeCompaction
<1> QED
  BY <1>1, <1>2, <1>3

\* A new call joins the queue; at its front it enters MakeRoomForWrite.
LEMMA WriteKeeps ==
  ASSUME IInv, NEW w \in Writers, NEW sync \in SyncOptions, Write(w, sync)
  PROVE  IInv'
<1>0. /\ QueueTypes /\ GroupTypes /\ ThreadTypes /\ QueueInv /\ CallInv /\ GroupInv
      /\ Len(writers) \in Nat /\ sync \in BOOLEAN
  BY WritePathAssumption DEF IInv, TypeOK, QueueTypes
<1>1. /\ Unlocked /\ pc[w] = "idle" /\ calls < MaxWrites /\ calls' = calls + 1
      /\ asked' = IF sync THEN asked \cup {calls + 1} ELSE asked
      /\ call' = [call EXCEPT ![w] = [id |-> calls + 1, sync |-> sync]]
      /\ done' = [done EXCEPT ![w] = FALSE]
      /\ writers' = Append(writers, w)
      /\ UNCHANGED <<groupVars, logVars, dataVars, levelVars, bgVars, signalled,
                     bgError, closing, failures>>
  BY DEF Write
<1>2. \/ /\ Len(writers) = 0
         /\ pc' = [pc EXCEPT ![w] = "room"] /\ mutex' = w
      \/ /\ Len(writers) > 0
         /\ pc' = [pc EXCEPT ![w] = "waiting"] /\ mutex' = mutex
  BY <1>0 DEF Write, FirstInQueue, QueueTypes
<1>3. /\ Len(writers') = Len(writers) + 1 /\ writers'[Len(writers) + 1] = w
      /\ \A p \in 1..Len(writers) : writers'[p] = writers[p]
      /\ writers' \in Seq(Writers)
  BY <1>0, <1>1, AppendProperties DEF QueueTypes
<1>4. \A p \in 1..Len(writers) : writers[p] \in Writers /\ writers[p] # w
  BY <1>0, <1>1 DEF QueueInv, QueueTypes
<1>5. \A v \in Writers : v # w => call'[v] = call[v] /\ pc'[v] = pc[v] /\ done'[v] = done[v]
  BY <1>0, <1>1, <1>2 DEF QueueTypes
<1>6. /\ call'[w].id = calls + 1 /\ call'[w].sync = sync /\ ~done'[w]
      /\ pc'[w] \in {"room", "waiting"}
  BY <1>0, <1>1, <1>2 DEF QueueTypes
<1>7. QueueTypes'
  BY <1>0, <1>1, <1>2, <1>3, WritePathAssumption DEF QueueTypes
<1>8. GroupTypes'
  BY <1>0, <1>1, <1>3, WritePathAssumption DEF GroupTypes, QueueTypes
<1>9. ThreadTypes'
  BY <1>0, <1>1 DEF ThreadTypes
<1>10. FlagTypes'
  BY DEF IInv, TypeOK, FlagTypes, Write
<1>11. QueueInv'
  <2>1. \A p, q \in 1..Len(writers') : writers'[p] = writers'[q] => p = q
    BY <1>0, <1>3, <1>4 DEF QueueInv
  <2>2. \A p \in 1..Len(writers') : pc'[writers'[p]] # "idle" /\ ~done'[writers'[p]]
    BY <1>0, <1>3, <1>4, <1>5, <1>6 DEF QueueInv
  <2>3. \A v \in Writers : pc'[v] = "waiting" /\ ~done'[v] => \E p \in 1..Len(writers') : writers'[p] = v
    <3> TAKE v \in Writers
    <3>1. CASE v = w
      BY <1>0, <1>3, <3>1
    <3>2. CASE v # w
      BY <1>0, <1>3, <1>5, <3>2 DEF QueueInv
    <3> QED
      BY <3>1, <3>2
  <2>4. \A v \in Writers : Leading(v)' => Len(writers') > 0 /\ writers'[1] = v
    <3> TAKE v \in Writers
    <3>1. CASE v = w
      BY <1>0, <1>1, <1>2, <1>3, <3>1 DEF Leading, QueueTypes
    <3>2. CASE v # w
      BY <1>0, <1>3, <1>5, <3>2 DEF QueueInv, Leading
    <3> QED
      BY <3>1, <3>2
  <2>5. \A v \in Writers : mutex' = v <=> pc'[v] = "room"
    BY <1>0, <1>1, <1>2, <1>5, WritePathAssumption DEF QueueInv, Unlocked, QueueTypes
  <2> QED
    BY <2>1, <2>2, <2>3, <2>4, <2>5 DEF QueueInv
<1>12. CallInv'
  <2>1. \A v \in Writers : call'[v].id <= calls'
    BY <1>0, <1>1, <1>5, <1>6, WritePathAssumption DEF QueueTypes, CallInv
  <2>2. \A v \in Writers : pc'[v] # "idle" => call'[v].id > 0
    BY <1>0, <1>1, <1>5, <1>6, WritePathAssumption DEF QueueTypes, CallInv
  <2>3. \A v \in Writers : pc'[v] # "idle" => (call'[v].sync <=> call'[v].id \in asked')
    <3> TAKE v \in Writers
    <3>1. CASE v = w
      BY <1>0, <1>1, <1>6, <3>1, WritePathAssumption DEF QueueTypes
    <3>2. CASE v # w
      <4>1. pc[v] # "idle" => call[v].id # calls + 1
        BY <1>0, WritePathAssumption DEF QueueTypes, CallInv
      <4>2. pc[v] # "idle" => (call[v].id \in asked <=> call[v].id \in asked')
        BY <1>1, <4>1
      <4> QED
        BY <1>0, <1>5, <3>2, <4>2 DEF CallInv
    <3> QED
      BY <3>1, <3>2
  <2>4. \A u, v \in Writers : call'[u].id = call'[v].id /\ call'[u].id > 0 => u = v
    BY <1>0, <1>1, <1>5, <1>6, WritePathAssumption DEF QueueTypes, CallInv
  <2> QED
    BY <2>1, <2>2, <2>3, <2>4 DEF CallInv
<1>13. GroupInv'
  BY <1>0, <1>1, <1>5, <1>6 DEF GroupInv, Writing
<1>14. group \in 0..Len(writers) /\ \A p \in 1..group : call'[writers'[p]] = call[writers[p]]
  BY <1>0, <1>3, <1>4, <1>5 DEF GroupTypes
<1>15. SeqInv'
  <2>0. SeqInv
    BY DEF IInv
  <2>1. \A c \in 1..MaxWrites : c > calls' => firstSeq'[c] = 0
    BY <1>0, <1>1, <2>0 DEF QueueTypes, SeqInv
  <2>2. \A p \in 1..Len(writers') :
          firstSeq'[call'[writers'[p]].id] = IF p <= group' THEN lastSeq' + 2 * p - 1 ELSE 0
    <3> TAKE p \in 1..Len(writers')
    <3>1. CASE p <= Len(writers)
      BY <1>0, <1>1, <1>3, <1>4, <1>5, <2>0, <3>1 DEF SeqInv
    <3>2. CASE p = Len(writers) + 1
      BY <1>0, <1>1, <1>3, <1>6, <1>14, <2>0, <3>2, WritePathAssumption DEF SeqInv, QueueTypes
    <3> QED
      BY <1>0, <1>3, <3>1, <3>2
  <2>3. \A c \in 1..MaxWrites : Numbered(c)'
    BY <1>1, <1>14, <2>0 DEF SeqInv, Numbered
  <2> QED
    BY <2>1, <2>2, <2>3 DEF SeqInv
<1>16. InsertInv'
  BY <1>1, <1>5, <1>6 DEF IInv, InsertInv, GroupSeqs
<1>17. \A c \in 1..calls : c \in asked' <=> c \in asked
  BY <1>0, <1>1, WritePathAssumption DEF QueueTypes
<1>18. RecordInv'
  <2>1. \A p \in 1..group : call[writers[p]].id \in 1..calls
    <3>1. \A p \in 1..group : p \in 1..Len(writers)
      BY <1>0, <1>14
    <3> QED
      BY <3>1, QueuedCalls
  <2>2. RecordInv /\ UNCHANGED <<group, failure, logs, curLog, synced, exposed>>
    BY <1>1 DEF IInv
  <2>3. \A v \in Writers : pc'[v] \in {"logging", "inserting", "finishing"} => v # w /\ pc[v] = pc'[v]
    BY <1>5, <1>6
  <2>4. \A p \in 1..group : call[writers[p]].id \in asked' <=> call[writers[p]].id \in asked
    BY <1>17, <2>1
  <2>5. \A v \in Writers, p \in 1..group :
          pc'[v] = "logging" /\ call'[writers'[p]].sync => call'[v].sync
    BY <1>5, <1>14, <2>2, <2>3 DEF RecordInv
  <2> QED
    BY <1>14, <2>2, <2>3, <2>4, <2>5 DEF RecordInv
<1>19. LogInv' /\ FallbackInv'
  BY <1>0, <1>1, <1>17 DEF IInv, LogInv, GroupTypes, FallbackInv, Kept
<1>22. OrderInv'
  <2>1. OrderInv /\ calls \in Nat /\ \A c \in acked : c \in Nat /\ c <= calls
    BY <1>0, WritePathAssumption DEF IInv, GroupTypes, QueueTypes
  <2>2. \A p \in 1..Len(writers) : call'[writers'[p]].id = call[writers[p]].id
                                  /\ call[writers[p]].id \in Nat /\ call[writers[p]].id <= calls
    BY <1>0, <1>3, <1>4, <1>5, WritePathAssumption DEF CallInv, QueueTypes
  <2>3. call'[writers'[Len(writers) + 1]].id = calls + 1
    BY <1>3, <1>6
  <2>4. \A p \in 1..Len(writers') : p \in 1..Len(writers) \/ p = Len(writers) + 1
    BY <1>0, <1>3
  <2>5. \A p, q \in 1..Len(writers') : p < q => call'[writers'[p]].id < call'[writers'[q]].id
    <3> SUFFICES ASSUME NEW p \in 1..Len(writers'), NEW q \in 1..Len(writers'), p < q
                 PROVE  call'[writers'[p]].id < call'[writers'[q]].id
      OBVIOUS
    <3>1. p \in 1..Len(writers)
      BY <1>0, <1>3
    <3>2. CASE q \in 1..Len(writers)
      BY <2>1, <2>2, <3>1, <3>2 DEF OrderInv
    <3>3. CASE q = Len(writers) + 1
      BY <2>1, <2>2, <2>3, <3>1, <3>3
    <3> QED
      BY <2>4, <3>2, <3>3
  <2>6. \A c \in acked : \A p \in 1..Len(writers') : c < call'[writers'[p]].id
    <3> SUFFICES ASSUME NEW c \in acked, NEW p \in 1..Len(writers')
                 PROVE  c < call'[writers'[p]].id
      OBVIOUS
    <3>1. CASE p \in 1..Len(writers)
      BY <2>1, <2>2, <3>1 DEF OrderInv
    <3>2. CASE p = Len(writers) + 1
      BY <2>1, <2>3, <3>2
    <3> QED
      BY <2>4, <3>1, <3>2
  <2> QED
    BY <1>1, <2>5, <2>6 DEF OrderInv
<1>20. ErrorInv'
  BY <1>1, <1>14 DEF IInv, ErrorInv, ErrorSticky
<1>21. BatchInv'
  BY <1>1 DEF IInv, BatchInv, Stored
<1> QED
  BY <1>1, <1>7, <1>8, <1>9, <1>10, <1>11, <1>12, <1>13, <1>15, <1>16, <1>18, <1>19, <1>20, <1>21, <1>22,
     DiskFrameKeeps DEF DiskFrame, IInv, TypeOK

\* A writer that is not writing moves on: it returns, having been answered
\* for, or it is the front of the queue and enters or leaves MakeRoomForWrite.
LEMMA MoveKeeps ==
  ASSUME IInv, NEW w \in Writers, ~Writing(w),
         NEW to \in {"idle", "room", "sleeping", "bgwait"},
         pc' = [pc EXCEPT ![w] = to],
         \/ to = "idle" /\ done[w] /\ ~Leading(w) /\ mutex' = mutex
         \/ /\ to # "idle" /\ pc[w] # "idle" /\ Len(writers) > 0 /\ writers[1] = w
            /\ mutex \in {Free, w} /\ mutex' = IF to = "room" THEN w ELSE Free,
         UNCHANGED <<writers, call, done, calls, asked, groupVars, failures>>,
         DiskFrame, signalled' \subseteq signalled, FlagTypes'
  PROVE  IInv'
<1>0. /\ QueueTypes /\ GroupTypes /\ ThreadTypes /\ QueueInv /\ CallInv /\ GroupInv
      /\ Len(writers) \in Nat
  BY DEF IInv, TypeOK, QueueTypes
<1>1. pc'[w] = to /\ \A v \in Writers : v # w => pc'[v] = pc[v]
  BY <1>0 DEF QueueTypes
<1>2. QueueTypes'
  BY <1>0 DEF QueueTypes
<1>3. GroupTypes' /\ ThreadTypes'
  BY <1>0 DEF GroupTypes, ThreadTypes, DiskFrame
<1>4. QueueInv'
  <2>1. CASE to = "idle"
    <3>1. \A p \in 1..Len(writers) : writers[p] \in Writers /\ writers[p] # w
      BY <1>0, <2>1 DEF QueueTypes, QueueInv
    <3>2. \A v \in Writers : Leading(v)' => Leading(v)
      BY <1>1, <2>1 DEF Leading
    <3>3. mutex # w
      BY <1>0, <2>1 DEF QueueInv, Leading
    <3> QED
      BY <1>0, <1>1, <2>1, <3>1, <3>2, <3>3 DEF QueueInv
  <2>2. CASE to # "idle"
    <3>1. \A v \in Writers : v # w => ~Leading(v) /\ pc[v] # "room" /\ ~(Leading(v)')
      BY <1>0, <1>1, <2>2 DEF QueueInv, Leading
    <3>2. \A p \in 1..Len(writers) : writers[p] \in Writers /\ pc'[writers[p]] # "idle" /\ ~done[writers[p]]
      BY <1>0, <1>1, <2>2 DEF QueueTypes, QueueInv
    <3>3. \A v \in Writers : mutex' = v <=> pc'[v] = "room"
      BY <1>1, <2>2, <3>1, WritePathAssumption DEF Leading
    <3> QED
      BY <1>0, <1>1, <2>2, <3>1, <3>2, <3>3 DEF QueueInv
  <2> QED
    BY <2>1, <2>2
<1>5. CallInv' /\ OrderInv'
  <2>1. \A v \in Writers : pc'[v] # "idle" => pc[v] # "idle"
    BY <1>1
  <2> QED
    BY <1>0, <2>1 DEF IInv, CallInv, OrderInv
<1>6. GroupInv'
  BY <1>0, <1>1 DEF GroupInv, Writing
<1>7. SeqInv'
  BY DEF IInv, SeqInv, Numbered
<1>8. InsertInv'
  BY <1>1 DEF IInv, InsertInv, GroupSeqs, Writing, DiskFrame
<1>9. RecordInv' /\ LogInv' /\ FallbackInv'
  BY <1>1 DEF IInv, RecordInv, LogInv, FallbackInv, Kept, Writing, DiskFrame
<1>10. ErrorInv' /\ BatchInv'
  BY DEF IInv, ErrorInv, ErrorSticky, BatchInv, Stored, DiskFrame
<1> QED
  BY <1>2, <1>3, <1>4, <1>5, <1>6, <1>7, <1>8, <1>9, <1>10, DiskFrameKeeps DEF IInv, TypeOK

\* Waiting and waking, in the queue and in MakeRoomForWrite, keep the invariant.
LEMMA QueueSteps ==
  ASSUME IInv, NEW w \in Writers,
         WakeWriter(w) \/ RoomDelay(w) \/ BackInRoom(w) \/ RoomWait(w)
  PROVE  IInv'
<1>0. QueueTypes /\ QueueInv
  BY DEF IInv, TypeOK
<1>f. FlagTypes
  BY DEF IInv, TypeOK
<1>1. CASE WakeWriter(w)
  <2>f. FlagTypes'
    BY <1>f, <1>1 DEF WakeWriter, FlagTypes
  <2>1. CASE done[w] /\ pc' = [pc EXCEPT ![w] = "idle"] /\ mutex' = mutex
    BY <1>1, <2>f, <2>1, MoveKeeps DEF WakeWriter, Writing, Leading, DiskFrame
  <2>2. CASE ~done[w] /\ Head(writers) = w /\ pc' = [pc EXCEPT ![w] = "room"] /\ mutex' = w
    <3>1. Len(writers) > 0 /\ writers[1] = w
      BY <1>0, <1>1, <2>2 DEF WakeWriter, QueueInv, QueueTypes
    <3> QED
      BY <1>1, <2>f, <2>2, <3>1, MoveKeeps DEF WakeWriter, Writing, Leading, DiskFrame, Unlocked
  <2> QED
    BY <1>1, <2>1, <2>2 DEF WakeWriter
<1>2. CASE RoomDelay(w) \/ RoomWait(w)
  <2>f. FlagTypes'
    BY <1>f, <1>2 DEF RoomDelay, RoomWait, FlagTypes
  <2>1. Len(writers) > 0 /\ writers[1] = w /\ pc[w] = "room" /\ mutex = w
    BY <1>0, <1>2 DEF RoomDelay, RoomWait, InRoom, NeedsMemTable, QueueInv, Leading
  <2> QED
    BY <1>2, <2>f, <2>1, MoveKeeps DEF RoomDelay, RoomWait, Writing, Leading, DiskFrame
<1>3. CASE BackInRoom(w)
  <2>f. FlagTypes'
    BY <1>f, <1>3 DEF BackInRoom, FlagTypes
  <2>1. Len(writers) > 0 /\ writers[1] = w /\ pc[w] \in {"sleeping", "bgwait"} /\ mutex = Free
    BY <1>0, <1>3 DEF BackInRoom, Unlocked, QueueInv, Leading
  <2> QED
    BY <1>3, <2>f, <2>1, MoveKeeps DEF BackInRoom, Writing, Leading, DiskFrame
<1> QED
  BY <1>1, <1>2, <1>3

\* The answer of a leader: OK if it wrote its group.
Succeeded == group > 0 /\ failure = "none"

\* The end of Write.  The leader answers for its group, or, if it built none,
\* for itself alone and with an error.
LeaderAnswers(w, n) ==
  /\ Leading(w) /\ n \in 1..Len(writers)
  /\ Answer(w, n, Succeeded)
  /\ group = n \/ group = 0
  /\ pending = {}
  /\ Succeeded => pc[w] = "finishing"
  /\ lastSeq' = lastSeq + 2 * group
  /\ UNCHANGED <<pending, firstSeq, logVars, dataVars, levelVars, bgVars, closing>>
  /\ \/ bgError' = bgError
     \/ ~Succeeded /\ bgError = 0 /\ bgError' = FirstBehind(0)
  /\ failures' \in 0..MaxFailures

\* The group that was answered for has used up its sequence numbers, and what
\* was answered OK is in the memtable and in the log.
LEMMA AnswerKeeps ==
  ASSUME IInv, NEW w \in Writers, NEW n, LeaderAnswers(w, n)
  PROVE  IInv'
<1>0. /\ QueueTypes /\ GroupTypes /\ ThreadTypes /\ QueueInv /\ CallInv /\ GroupInv
      /\ SeqInv /\ Len(writers) \in Nat /\ n \in Nat /\ n > 0 /\ n <= Len(writers)
      /\ group = n \/ group = 0
  BY DEF IInv, TypeOK, QueueTypes, LeaderAnswers
<1>1. /\ writers' = SubSeq(writers, n + 1, Len(writers))
      /\ done' = [v \in Writers |-> done[v] \/ v \in {writers[p] : p \in 1..n}]
      /\ acked' = IF Succeeded THEN acked \cup CallsOf(n) ELSE acked
      /\ signalled' = signalled \cup {writers[p] : p \in (2..(n + 1)) \cap DOMAIN writers}
      /\ pc' = [pc EXCEPT ![w] = "idle"]
      /\ mutex' = Free /\ group' = 0 /\ failure' = "none"
      /\ UNCHANGED <<call, delayable, calls, asked>>
  BY DEF LeaderAnswers, Answer
<1>u. UNCHANGED <<pending, firstSeq, logVars, dataVars, levelVars, bgVars, closing>>
  BY DEF LeaderAnswers
<1>l. lastSeq' = lastSeq + 2 * group /\ pending = {}
  BY DEF LeaderAnswers
<1>e. \/ bgError' = bgError
      \/ ~Succeeded /\ bgError = 0 /\ bgError' = FirstBehind(0)
  BY DEF LeaderAnswers
<1>f. FirstBehind(0) \in Nat /\ FirstBehind(0) > 0 /\ \A c \in acked : c < FirstBehind(0)
  BY <1>0, Behind
<1>2. /\ writers' \in Seq(Writers) /\ Len(writers') = Len(writers) - n
      /\ \A p \in 1..Len(writers') : writers'[p] = writers[n + p]
  <2>1. \A p \in (n + 1)..Len(writers) : writers[p] \in Writers
    BY <1>0 DEF QueueTypes
  <2> QED
    BY <1>0, <1>1, <2>1, SubSeqProperties
<1>3. writers[1] = w /\ \A v \in Writers : v # w => ~Leading(v) /\ pc'[v] = pc[v]
  BY <1>0, <1>1, OneLeader DEF QueueTypes, LeaderAnswers
<1>4. pc'[w] = "idle" /\ \A v \in Writers : pc'[v] \in {"idle", "waiting"}
  BY <1>0, <1>1, <1>3 DEF QueueTypes, Leading
<1>5. \A p \in 1..Len(writers) : writers[p] \in Writers
  BY <1>0 DEF QueueTypes
<1>6. QueueTypes'
  <2>1. done' \in [Writers -> BOOLEAN]
    BY <1>1
  <2> QED
    BY <1>0, <1>1, <1>2, <2>1 DEF QueueTypes
<1>7. \A c \in CallsOf(n) : c \in 1..calls
  <2>1. \A p \in 1..n : call[writers[p]].id \in 1..calls
    BY <1>0, QueuedCalls
  <2> QED
    BY <2>1 DEF CallsOf
<1>15. lastSeq \in Nat /\ lastSeq' \in Nat /\ lastSeq <= lastSeq'
  BY <1>0, <1>l DEF GroupTypes
<1>8. GroupTypes'
  <2>1. acked' \subseteq 1..calls'
    BY <1>0, <1>1, <1>7 DEF GroupTypes
  <2> QED
    BY <1>0, <1>1, <1>2, <1>15, <1>u, <2>1 DEF GroupTypes
<1>9. ThreadTypes'
  <2>1. signalled' \subseteq Writers \cup {"destructor"}
    BY <1>0, <1>1, <1>5 DEF ThreadTypes, QueueTypes
  <2> QED
    BY <1>0, <1>1, <1>e, <1>f, <1>u, <2>1 DEF ThreadTypes, LeaderAnswers
<1>10. FlagTypes'
  BY <1>1, <1>u DEF IInv, TypeOK, FlagTypes
<1>11. QueueInv'
  <2>1. \A p, q \in 1..Len(writers') : writers'[p] = writers'[q] => p = q
    <3> TAKE p, q \in 1..Len(writers')
    <3>1. n + p \in 1..Len(writers) /\ n + q \in 1..Len(writers)
      BY <1>0, <1>2
    <3>2. writers[n + p] = writers[n + q] => n + p = n + q
      BY <1>0, <3>1 DEF QueueInv
    <3> QED
      BY <1>0, <1>2, <3>2
  <2>2. \A p \in 1..Len(writers') : pc'[writers'[p]] # "idle"
    <3> TAKE p \in 1..Len(writers')
    <3>1. n + p \in 1..Len(writers) /\ n + p # 1
      BY <1>0, <1>2
    <3>2. writers[n + p] # w
      BY <1>0, <1>3, <3>1 DEF QueueInv
    <3> QED
      BY <1>0, <1>2, <1>3, <1>5, <3>1, <3>2 DEF QueueInv
  <2>3. \A p \in 1..Len(writers') : ~done'[writers'[p]]
    <3> TAKE p \in 1..Len(writers')
    <3>1. n + p \in 1..Len(writers) /\ \A q \in 1..n : q \in 1..Len(writers) /\ q # n + p
      BY <1>0, <1>2
    <3>2. \A q \in 1..n : writers[q] # writers[n + p]
      BY <1>0, <3>1 DEF QueueInv
    <3>3. ~done[writers[n + p]]
      BY <1>0, <3>1 DEF QueueInv
    <3>4. writers[n + p] \notin {writers[q] : q \in 1..n}
      BY <3>2
    <3>5. writers[n + p] \in Writers /\ writers'[p] = writers[n + p]
      BY <1>2, <1>5, <3>1
    <3> QED
      BY <1>1, <3>3, <3>4, <3>5
  <2>4. \A v \in Writers : pc'[v] = "waiting" /\ ~done'[v] => \E p \in 1..Len(writers') : writers'[p] = v
    <3> SUFFICES ASSUME NEW v \in Writers, pc'[v] = "waiting", ~done'[v]
                 PROVE  \E p \in 1..Len(writers') : writers'[p] = v
      OBVIOUS
    <3>1. v # w /\ pc[v] = "waiting"
      BY <1>3, <1>4
    <3>2. ~done[v] /\ v \notin {writers[p] : p \in 1..n}
      BY <1>1
    <3>3. PICK p \in 1..Len(writers) : writers[p] = v
      BY <1>0, <3>1, <3>2 DEF QueueInv
    <3>4. p - n \in 1..Len(writers')
      BY <1>0, <1>2, <3>2, <3>3
    <3>5. writers'[p - n] = v
      BY <1>0, <1>2, <3>3, <3>4
    <3> QED
      BY <3>4, <3>5
  <2>5. \A v \in Writers : ~(Leading(v)') /\ mutex' # v /\ pc'[v] # "room"
    BY <1>1, <1>4, WritePathAssumption DEF Leading
  <2> QED
    BY <2>1, <2>2, <2>3, <2>4, <2>5 DEF QueueInv
<1>12. CallInv'
  <2>1. \A v \in Writers : pc'[v] # "idle" => pc[v] # "idle"
    BY <1>3, <1>4
  <2> QED
    BY <1>0, <1>1, <2>1 DEF CallInv
<1>13. GroupInv'
  BY <1>1, <1>4 DEF GroupInv, Writing
<1>14. SeqInv'
  <2>1. \A p \in 1..Len(writers') : firstSeq[call[writers'[p]].id] = 0
    <3> TAKE p \in 1..Len(writers')
    <3>1. n + p \in 1..Len(writers) /\ ~(n + p <= group)
      BY <1>0, <1>2 DEF GroupTypes
    <3> QED
      BY <1>0, <1>2, <3>1 DEF SeqInv
  <2>2. \A c \in 1..MaxWrites : Numbered(c)'
    <3> TAKE c \in 1..MaxWrites
    <3>1. CASE firstSeq[c] = 0 \/ firstSeq[c] + 1 <= lastSeq
      BY <1>15, <1>u, <1>0, <3>1 DEF Numbered, GroupTypes
    <3>2. CASE \E p \in 1..group : call[writers[p]].id = c
      <4>1. PICK p \in 1..group : call[writers[p]].id = c
        BY <3>2
      <4>2. firstSeq[c] = lastSeq + 2 * p - 1
        <5>1. p \in 1..Len(writers) /\ p <= group
          BY <1>0 DEF GroupTypes
        <5> QED
          BY <1>0, <4>1, <5>1 DEF SeqInv
      <4> QED
        BY <1>0, <1>l, <1>u, <4>2 DEF Numbered, GroupTypes
    <3> QED
      BY <1>0, <3>1, <3>2 DEF SeqInv, Numbered
  <2>3. \A p \in 1..Len(writers') : ~(p <= group')
    BY <1>0, <1>1, <1>2
  <2> QED
    BY <1>0, <1>1, <1>u, <2>1, <2>2, <2>3 DEF SeqInv
<1>16. \A s \in mem : s <= lastSeq'
  <2>1. {s \in mem : s > lastSeq} \subseteq GroupSeqs
    BY DEF IInv, InsertInv
  <2> QED
    BY <1>0, <1>l, <2>1 DEF GroupSeqs, GroupTypes, IInv, TypeOK, DataTypes
<1>17. InsertInv'
  <2>1. GroupSeqs' = {}
    <3>1. group' = 0
      BY <1>1
    <3>2. lastSeq' \in Nat
      BY <1>15
    <3> QED
      BY <3>1, <3>2, EmptyGroup DEF GroupSeqs
  <2>2. mem \subseteq Nat /\ tables \subseteq Nat /\ UNION imm \subseteq Nat
    BY DEF IInv, TypeOK, DataTypes
  <2>3. {s \in mem' : s > lastSeq'} = {}
    <3>1. \A s \in mem : ~(s > lastSeq')
      BY <1>15, <1>16, <2>2
    <3> QED
      BY <1>u, <3>1
  <2>4. (\A s \in UNION imm : s <= lastSeq) /\ (\A s \in tables : s <= lastSeq)
    BY DEF IInv, InsertInv
  <2>5. (\A s \in UNION imm : s <= lastSeq') /\ (\A s \in tables : s <= lastSeq')
    BY <1>15, <2>2, <2>4
  <2> QED
    BY <1>1, <1>4, <1>l, <1>u, <2>1, <2>3, <2>5 DEF InsertInv
<1>18. RecordInv'
  BY <1>1 DEF RecordInv
<1>19. \A p \in 1..group : /\ firstSeq[call[writers[p]].id] = lastSeq + 2 * p - 1
                           /\ call[writers[p]].id \in 1..MaxWrites
                           /\ {lastSeq + 2 * p - 1, lastSeq + 2 * p} \subseteq GroupSeqs
                           /\ lastSeq + 2 * p <= lastSeq'
  <2> TAKE p \in 1..group
  <2>1. p \in 1..Len(writers) /\ p <= group /\ p \in Nat /\ p > 0
    BY <1>0 DEF GroupTypes
  <2>2. call[writers[p]].id \in 1..MaxWrites
    BY <1>0, <2>1, QueuedCalls, WritePathAssumption DEF QueueTypes
  <2> QED
    BY <1>0, <1>15, <1>l, <2>1, <2>2 DEF SeqInv, GroupSeqs, GroupTypes
<1>20. Succeeded => GroupSeqs \subseteq mem
  BY <1>0, <1>l DEF IInv, InsertInv, Succeeded
<1>21. LogInv' /\ FallbackInv'
  <2>1. \A c \in acked : firstSeq[c] > 0 /\ firstSeq[c] + 1 <= lastSeq'
    <3>1. \A c \in acked : firstSeq[c] > 0 /\ firstSeq[c] + 1 <= lastSeq
      BY DEF IInv, LogInv
    <3>2. \A c \in acked : firstSeq[c] \in Nat
      BY <1>0, WritePathAssumption DEF GroupTypes, QueueTypes
    <3> QED
      BY <1>15, <3>1, <3>2
  <2>2. ASSUME Succeeded, NEW p \in 1..group
        PROVE  LET c == call[writers[p]].id
               IN  /\ firstSeq[c] > 0 /\ firstSeq[c] + 1 <= lastSeq'
                   /\ {firstSeq[c], firstSeq[c] + 1} \subseteq mem
                   /\ c \in exposed \/ c \in logs[curLog]
                   /\ c \in asked \ exposed => c \in synced
    <3>1. call[writers[p]].id \notin exposed =>
            /\ call[writers[p]].id \in logs[curLog]
            /\ call[writers[p]].id \in asked => call[writers[p]].id \in synced
      BY <2>2 DEF IInv, RecordInv, LeaderAnswers, Succeeded
    <3> QED
      BY <1>15, <1>19, <1>20, <2>2, <3>1
  <2>3. \A c \in acked' : c \in acked \/ (Succeeded /\ \E p \in 1..group : c = call[writers[p]].id)
    BY <1>0, <1>1 DEF CallsOf, Succeeded, GroupTypes
  <2>4. LogInv'
    BY <1>1, <1>u, <2>1, <2>2, <2>3 DEF IInv, LogInv
  <2>5. \A m \in fallback : m.log <= curLog /\ \A c \in acked' \ exposed : Kept(m, c)
    <3>1. \A m \in fallback : m.log <= curLog /\ \A c \in acked \ exposed : Kept(m, c)
      BY DEF IInv, FallbackInv
    <3>2. curLog \in DOMAIN logs
      BY DEF IInv, LogInv
    <3>3. fallback \subseteq [log : Nat, tables : SUBSET Nat] /\ curLog \in Nat
      BY DEF IInv, TypeOK, LogTypes
    <3>4. \A m \in fallback : \A c \in logs[curLog] : Kept(m, c)
      BY <3>1, <3>2, <3>3 DEF Kept
    <3> QED
      BY <2>2, <2>3, <3>1, <3>4
  <2>6. FallbackInv'
    <3>1. \A m, c : Kept(m, c)' <=> Kept(m, c)
      BY <1>u DEF Kept
    <3>2. fallback # {} => bgError' # 0 /\ bg # "removing"
      BY <1>e, <1>f DEF IInv, FallbackInv
    <3> QED
      BY <1>u, <2>5, <3>1, <3>2 DEF FallbackInv
  <2> QED
    BY <2>4, <2>6
<1>22. ErrorInv'
  <2>1. CASE bgError' = bgError
    <3>1. bgError # 0 => \A c \in acked' : c < bgError
      <4>1. bgError # 0 => \A c \in acked : c < bgError
        BY DEF IInv, ErrorInv, ErrorSticky
      <4>2. bgError # 0 /\ Succeeded => \A c \in CallsOf(n) : c < bgError
        BY <1>0 DEF IInv, ErrorInv, CallsOf, Succeeded
      <4> QED
        BY <1>1, <4>1, <4>2
    <3> QED
      BY <1>1, <2>1, <3>1 DEF ErrorInv, ErrorSticky
  <2>2. CASE ~Succeeded /\ bgError = 0 /\ bgError' = FirstBehind(0)
    BY <1>1, <1>f, <2>2 DEF ErrorInv, ErrorSticky
  <2> QED
    BY <1>e, <2>1, <2>2
<1>23. BatchInv'
  <2> SUFFICES ASSUME NEW c \in 1..MaxWrites, firstSeq[c] > 0, firstSeq[c] + 1 <= lastSeq'
               PROVE  firstSeq[c] \in Stored <=> firstSeq[c] + 1 \in Stored
    BY <1>u DEF BatchInv, Stored
  <2>1. CASE firstSeq[c] + 1 <= lastSeq
    BY <2>1 DEF IInv, BatchInv
  <2>2. CASE ~(firstSeq[c] + 1 <= lastSeq)
    <3>1. PICK p \in 1..group : call[writers[p]].id = c
      BY <1>0, <2>2 DEF SeqInv, Numbered, GroupTypes
    <3>2. {firstSeq[c], firstSeq[c] + 1} \subseteq GroupSeqs /\ firstSeq[c] > lastSeq /\ firstSeq[c] + 1 > lastSeq
      BY <1>15, <1>19, <3>1
    <3>3. CASE Succeeded
      BY <1>20, <3>2, <3>3 DEF Stored
    <3>4. CASE ~Succeeded
      <4>1. failure # "none"
        BY <1>0, <3>1, <3>4 DEF GroupTypes, Succeeded
      <4>2. {s \in mem : s > lastSeq} = {}
        BY <4>1 DEF IInv, InsertInv
      <4>3. \A s \in tables \cup UNION imm : s <= lastSeq
        BY DEF IInv, InsertInv
      <4>4. firstSeq[c] \in Nat
        BY <1>0 DEF GroupTypes
      <4> QED
        BY <1>15, <3>2, <4>2, <4>3, <4>4 DEF Stored
    <3> QED
      BY <3>3, <3>4
  <2> QED
    BY <2>1, <2>2
<1>24. LogTypes' /\ DataTypes' /\ LevelTypes' /\ FlushInv' /\ NoWorkAfterDelete'
  BY <1>u DEF IInv, TypeOK, LogTypes, DataTypes, LevelTypes, FlushInv, Level0Bounded, NoMem, NoWorkAfterDelete
<1>25. WorkScheduled'
  BY <1>e, <1>f, <1>u DEF IInv, WorkScheduled, NoMem, SizeCompaction
<1>26. OrderInv'
  <2>0. OrderInv
    BY DEF IInv
  <2>1. \A p \in 1..Len(writers') : n + p \in 1..Len(writers) /\ writers'[p] = writers[n + p]
    BY <1>0, <1>2
  <2>2. \A p, q \in 1..Len(writers') : p < q => call[writers'[p]].id < call[writers'[q]].id
    <3> SUFFICES ASSUME NEW p \in 1..Len(writers'), NEW q \in 1..Len(writers'), p < q
                 PROVE  call[writers'[p]].id < call[writers'[q]].id
      OBVIOUS
    <3>1. n + p < n + q
      BY <1>0, <1>2
    <3> QED
      BY <2>0, <2>1, <3>1 DEF OrderInv
  <2>3. \A c \in CallsOf(n) : \A p \in 1..Len(writers') : c < call[writers'[p]].id
    <3> SUFFICES ASSUME NEW q \in 1..n, NEW p \in 1..Len(writers')
                 PROVE  call[writers[q]].id < call[writers'[p]].id
      BY DEF CallsOf
    <3>1. q \in 1..Len(writers) /\ q < n + p
      BY <1>0, <1>2
    <3> QED
      BY <2>0, <2>1, <3>1 DEF OrderInv
  <2>4. \A c \in acked : \A p \in 1..Len(writers') : c < call[writers'[p]].id
    BY <2>0, <2>1 DEF OrderInv
  <2> QED
    BY <1>1, <2>2, <2>3, <2>4 DEF OrderInv
<1> QED
  BY <1>6, <1>8, <1>9, <1>10, <1>11, <1>12, <1>13, <1>14, <1>17, <1>18, <1>21, <1>22, <1>23, <1>24, <1>25,
     <1>26
     DEF IInv, TypeOK

\* Each of the three ends of Write is such an answer.
LEMMA AnswerSteps ==
  ASSUME IInv, NEW w \in Writers,
         RoomError(w) \/ RoomSwitchFails(w) \/ FinishWrite(w)
  PROVE  IInv'
<1>0. ThreadTypes /\ QueueTypes
  BY DEF IInv, TypeOK
<1>1. CASE RoomError(w) \/ RoomSwitchFails(w)
  <2>1. Leading(w) /\ ~Writing(w)
    BY <1>1 DEF RoomError, RoomSwitchFails, NeedsMemTable, InRoom, Leading, Writing
  <2>2. group = 0 /\ pending = {} /\ 1 \in 1..Len(writers)
    BY <2>1, NoGroup, OneLeader
  <2>3. ~Succeeded
    BY <2>2 DEF Succeeded
  <2>4. Answer(w, 1, Succeeded)
    BY <1>1, <2>3 DEF RoomError, RoomSwitchFails, Answer
  <2>5. lastSeq' = lastSeq + 2 * group
    <3>1. lastSeq' = lastSeq
      BY <1>1 DEF RoomError, RoomSwitchFails
    <3>2. lastSeq = lastSeq + 2 * group
      BY <2>2 DEF IInv, TypeOK, GroupTypes
    <3> QED
      BY <3>1, <3>2
  <2>6. failures' \in 0..MaxFailures
    <3>1. failures' = failures \/ (failures < MaxFailures /\ failures' = failures + 1)
      BY <1>1 DEF RoomError, RoomSwitchFails, Fails
    <3> QED
      BY <1>0, <3>1, WritePathAssumption DEF ThreadTypes
  <2>7. UNCHANGED <<pending, firstSeq, logVars, dataVars, levelVars, bgVars, bgError, closing>>
    BY <1>1 DEF RoomError, RoomSwitchFails
  <2> QED
    BY <2>1, <2>2, <2>3, <2>4, <2>5, <2>6, <2>7, AnswerKeeps DEF LeaderAnswers
<1>2. CASE FinishWrite(w)
  <2>1. Leading(w) /\ Writing(w) /\ pc[w] = "finishing"
    BY <1>2 DEF FinishWrite, Leading, Writing
  <2>2. group \in 1..Len(writers) /\ pending = {}
    BY <2>1, QueuedCalls DEF IInv, GroupInv, InsertInv
  <2>3. Succeeded <=> failure = "none"
    BY <2>2, QueuedCalls DEF Succeeded
  <2>4. Answer(w, group, Succeeded)
    BY <1>2, <2>3 DEF FinishWrite, Answer
  <2>5. lastSeq' = lastSeq + 2 * group
    BY <1>2 DEF FinishWrite, Count
  <2>6. failures' \in 0..MaxFailures
    <3>1. failures' = failures
      BY <1>2 DEF FinishWrite
    <3> QED
      BY <1>0, <3>1 DEF ThreadTypes
  <2>7. UNCHANGED <<pending, firstSeq, logVars, dataVars, levelVars, bgVars, closing>>
    BY <1>2 DEF FinishWrite
  <2>8. \/ bgError' = bgError
        \/ ~Succeeded /\ bgError = 0 /\ bgError' = FirstBehind(0)
    BY <1>2, <2>3 DEF FinishWrite, RecordBackgroundError
  <2> QED
    BY <2>1, <2>2, <2>4, <2>5, <2>6, <2>7, <2>8, AnswerKeeps DEF LeaderAnswers
<1> QED
  BY <1>1, <1>2

\* A new memtable and log: the old memtable's calls stay in a log that the
\* manifest needs.
LEMMA SwitchKeeps ==
  ASSUME IInv, NEW w \in Writers, RoomSwitch(w)
  PROVE  IInv'
<1>0. /\ QueueTypes /\ GroupTypes /\ ThreadTypes /\ LogTypes /\ DataTypes /\ LevelTypes
      /\ LogInv /\ FlushInv
  BY DEF IInv, TypeOK
<1>1. /\ curLog' = curLog + 1
      /\ logs' = [f \in DOMAIN logs \cup {curLog + 1} |-> IF f = curLog + 1 THEN {} ELSE logs[f]]
      /\ imm = {} /\ l0 < L0Stop /\ imm' = {mem} /\ mem' = {} /\ torn' = FALSE
      /\ bg' = bg \/ Schedule
      /\ UNCHANGED <<queueVars, groupVars, exposed, synced, logNumber, editLog, fallback, doomed,
                     tables, inner, signalled, closing, levelVars, bgError, failures>>
  BY <1>0, WritePathAssumption
     DEF RoomSwitch, MustWait, NoMem, MaybeScheduleCompaction, Succeeds, LevelTypes
<1>2. Leading(w) /\ ~Writing(w)
  BY DEF RoomSwitch, NeedsMemTable, InRoom, Leading, Writing
<1>3. /\ group = 0 /\ pending = {} /\ failure = "none" /\ \A s \in mem : s <= lastSeq
  BY <1>2, NoGroup
<1>4. QueueTypes' /\ GroupTypes'
  BY <1>0, <1>1 DEF QueueTypes, GroupTypes
<1>5. LogTypes'
  BY <1>0, <1>1 DEF LogTypes
<1>6. DataTypes'
  BY <1>0, <1>1 DEF DataTypes
<1>7. LevelTypes'
  BY <1>0, <1>1 DEF LevelTypes
<1>8. ThreadTypes'
  BY <1>0, <1>1 DEF ThreadTypes, Schedule
<1>9. FlagTypes'
  BY <1>1 DEF IInv, TypeOK, FlagTypes
<1>10. QueueInv' /\ CallInv' /\ OrderInv' /\ GroupInv' /\ SeqInv' /\ ErrorInv'
  BY <1>1 DEF IInv, QueueInv, CallInv, OrderInv, GroupInv, SeqInv, ErrorInv, ErrorSticky, Leading, Writing, Numbered
<1>11. InsertInv'
  <2>1. GroupSeqs = {}
    BY <1>0, <1>3 DEF GroupSeqs, GroupTypes
  <2>2. UNION imm' = mem
    BY <1>1
  <2> QED
    BY <1>1, <1>3, <2>1, <2>2 DEF IInv, InsertInv, GroupSeqs
<1>12. RecordInv'
  BY <1>1, <1>3 DEF RecordInv
<1>13. LogInv'
  <2>1. /\ curLog' \in DOMAIN logs' /\ logNumber' <= curLog' /\ editLog' <= curLog'
        /\ \A f \in doomed' : f < logNumber'
    BY <1>0, <1>1 DEF LogInv, LogTypes
  <2>2. \A f \in DOMAIN logs : f \in DOMAIN logs' /\ (f # curLog + 1 => logs'[f] = logs[f])
    BY <1>1
  <2>3. curLog # curLog + 1 /\ curLog >= logNumber /\ curLog \in DOMAIN logs
    BY <1>0 DEF LogInv, LogTypes
  <2>4. UNION imm = {} /\ UNION imm' = mem
    BY <1>1
  <2>5. ASSUME NEW c \in acked
        PROVE  \/ {firstSeq[c], firstSeq[c] + 1} \subseteq tables
               \/ /\ {firstSeq[c], firstSeq[c] + 1} \subseteq UNION imm'
                  /\ c \in exposed \/ \E f \in DOMAIN logs' : f >= logNumber /\ c \in logs'[f]
    BY <1>0, <2>2, <2>3, <2>4 DEF LogInv
  <2>6. UNCHANGED <<acked, firstSeq, lastSeq, asked, exposed, synced, tables, logNumber>>
    BY <1>1
  <2>7. \A c \in acked : /\ firstSeq[c] > 0 /\ firstSeq[c] + 1 <= lastSeq
                         /\ c \in asked \ exposed => c \in synced
    BY <1>0 DEF LogInv
  <2> QED
    BY <2>1, <2>5, <2>6, <2>7 DEF LogInv
<1>17. FallbackInv'
  BY <1>1 DEF IInv, FallbackInv, RoomSwitch, NeedsMemTable
<1>14. FlushInv'
  BY <1>0, <1>1 DEF FlushInv, Level0Bounded, NoMem, Schedule
<1>15. BatchInv'
  <2>1. Stored' = Stored
    BY <1>1 DEF Stored
  <2> QED
    BY <1>1, <2>1 DEF IInv, BatchInv
<1>16. WorkScheduled' /\ NoWorkAfterDelete'
  <2>1. IF bg = "off" THEN Schedule ELSE bg' = bg
    BY DEF RoomSwitch, MaybeScheduleCompaction
  <2> QED
    BY <1>1, <2>1 DEF IInv, WorkScheduled, NoWorkAfterDelete, Schedule, SizeCompaction, shutting_down
<1> QED
  BY <1>4, <1>5, <1>6, <1>7, <1>8, <1>9, <1>10, <1>11, <1>12, <1>13, <1>14, <1>15, <1>16, <1>17
     DEF IInv, TypeOK

\* BuildBatchGroup gives the batches of its group the next sequence numbers.
LEMMA BuildKeeps ==
  ASSUME IInv, NEW w \in Writers, NEW n \in 1..Len(writers), BuildBatchGroup(w, n)
  PROVE  IInv'
<1>0. /\ QueueTypes /\ GroupTypes /\ ThreadTypes /\ QueueInv /\ CallInv /\ SeqInv
      /\ Len(writers) \in Nat /\ n \in Nat /\ n > 0 /\ n <= Len(writers)
  BY DEF IInv, TypeOK, QueueTypes
<1>1. /\ group' = n
      /\ pending' = (lastSeq + 1)..(lastSeq + 2 * n)
      /\ pc' = [pc EXCEPT ![w] = "logging"]
      /\ mutex' = Free
      /\ UNCHANGED <<writers, call, done, delayable, calls, asked, failure, lastSeq, acked,
                     logVars, dataVars, levelVars, bgVars, signalled, bgError, closing, failures>>
  BY DEF BuildBatchGroup
<1>2. firstSeq' = [c \in 1..MaxWrites |->
        IF c \in CallsOf(n)
        THEN lastSeq + 2 * (CHOOSE p \in 1..n : call[writers[p]].id = c) - 1
        ELSE firstSeq[c]]
  BY DEF BuildBatchGroup
<1>3. pc[w] = "room" /\ mutex = w /\ bgError = 0 /\ MayJoin(w, n)
  BY DEF BuildBatchGroup, HasRoom, InRoom
<1>4. Leading(w) /\ ~Writing(w)
  BY <1>3 DEF Leading, Writing
<1>5. /\ writers[1] = w
      /\ \A v \in Writers : v # w => ~Leading(v) /\ pc'[v] = pc[v]
      /\ pc'[w] = "logging"
  BY <1>0, <1>1, <1>4, OneLeader DEF QueueTypes
<1>6. /\ group = 0 /\ pending = {} /\ failure = "none"
      /\ \A s \in mem : s <= lastSeq
  BY <1>4, NoGroup
<1>7. \A p \in 1..n : call[writers[p]].id \in 1..MaxWrites
  <2> TAKE p \in 1..n
  <2>1. p \in 1..Len(writers)
    BY <1>0
  <2>2. call[writers[p]].id \in 1..calls
    BY <2>1, QueuedCalls
  <2> QED
    BY <1>0, <2>2, WritePathAssumption DEF QueueTypes
<1>8. \A p \in 1..n : firstSeq'[call[writers[p]].id] = lastSeq + 2 * p - 1
  <2> TAKE p \in 1..n
  <2> DEFINE c == call[writers[p]].id
  <2>1. \A q \in 1..n : call[writers[q]].id = c => q = p
    BY <1>0, QueuedCalls
  <2>2. (CHOOSE q \in 1..n : call[writers[q]].id = c) = p
    BY <2>1
  <2>3. c \in CallsOf(n)
    BY DEF CallsOf
  <2> QED
    BY <1>2, <1>7, <2>2, <2>3
<1>9. \A c \in 1..MaxWrites : c \notin CallsOf(n) => firstSeq'[c] = firstSeq[c]
  BY <1>2
<1>10. \A p \in (n + 1)..Len(writers) : firstSeq'[call[writers[p]].id] = 0
  <2> TAKE p \in (n + 1)..Len(writers)
  <2>1. p \in 1..Len(writers) /\ \A q \in 1..n : q \in 1..Len(writers) /\ q # p
    BY <1>0
  <2>2. call[writers[p]].id \in 1..MaxWrites /\ call[writers[p]].id \notin CallsOf(n)
    <3>1. call[writers[p]].id \in 1..calls
      BY <2>1, QueuedCalls
    <3>2. \A q \in 1..n : call[writers[q]].id # call[writers[p]].id
      BY <2>1, QueuedCalls
    <3> QED
      BY <1>0, <3>1, <3>2, WritePathAssumption DEF QueueTypes, CallsOf
  <2>3. firstSeq[call[writers[p]].id] = 0
    BY <1>0, <1>6, <2>1 DEF SeqInv
  <2> QED
    BY <1>9, <2>2, <2>3
<1>11. QueueTypes'
  BY <1>0, <1>1 DEF QueueTypes
<1>12. GroupTypes'
  <2>1. \A c \in 1..MaxWrites : firstSeq'[c] \in Nat
    <3> TAKE c \in 1..MaxWrites
    <3>1. CASE c \in CallsOf(n)
      <4>1. PICK p \in 1..n : call[writers[p]].id = c
        BY <3>1 DEF CallsOf
      <4>2. lastSeq + 2 * p - 1 \in Nat
        BY <1>0 DEF GroupTypes
      <4> QED
        BY <1>8, <4>1, <4>2
    <3>2. CASE c \notin CallsOf(n)
      BY <1>0, <1>9, <3>2 DEF GroupTypes
    <3> QED
      BY <3>1, <3>2
  <2>2. firstSeq' \in [1..MaxWrites -> Nat]
    BY <1>2, <2>1
  <2>3. pending' \subseteq Nat
    BY <1>0, <1>1 DEF GroupTypes
  <2> QED
    BY <1>0, <1>1, <2>2, <2>3 DEF GroupTypes
<1>13. ThreadTypes' /\ LogTypes' /\ DataTypes' /\ LevelTypes' /\ FlushInv' /\ WorkScheduled' /\ NoWorkAfterDelete'
  BY <1>0, <1>1, DiskFrameKeeps DEF DiskFrame, ThreadTypes
<1>14. FlagTypes'
  BY <1>1 DEF IInv, TypeOK, FlagTypes
<1>15. QueueInv'
  <2>1. \A v \in Writers : mutex' # v /\ pc'[v] # "room"
    BY <1>1, <1>5, WritePathAssumption DEF Leading
  <2>2. \A p \in 1..Len(writers) : pc'[writers[p]] # "idle"
    <3> TAKE p \in 1..Len(writers)
    <3>1. writers[p] \in Writers /\ pc[writers[p]] # "idle"
      BY <1>0 DEF QueueInv, QueueTypes
    <3> QED
      BY <1>5, <3>1
  <2>3. \A v \in Writers : Leading(v)' => v = w
    BY <1>5 DEF Leading
  <2>4. \A v \in Writers : pc'[v] = "waiting" => pc[v] = "waiting"
    BY <1>5
  <2> QED
    BY <1>0, <1>1, <1>5, <2>1, <2>2, <2>3, <2>4 DEF QueueInv
<1>16. CallInv' /\ OrderInv'
  <2>1. \A v \in Writers : pc'[v] # "idle" => pc[v] # "idle"
    BY <1>3, <1>5
  <2> QED
    BY <1>0, <1>1, <2>1 DEF IInv, CallInv, OrderInv
<1>17. GroupInv'
  BY <1>0, <1>1, <1>5, <1>6 DEF GroupInv, Writing
<1>18. SeqInv'
  <2>1. \A c \in 1..MaxWrites : c > calls => firstSeq'[c] = 0
    <3> SUFFICES ASSUME NEW c \in 1..MaxWrites, c > calls PROVE firstSeq'[c] = 0
      OBVIOUS
    <3>1. \A p \in 1..n : call[writers[p]].id # c
      <4> TAKE p \in 1..n
      <4>1. p \in 1..Len(writers)
        BY <1>0
      <4>2. call[writers[p]].id \in 1..calls
        BY <4>1, QueuedCalls
      <4> QED
        BY <1>0, <4>2 DEF QueueTypes
    <3>2. c \notin CallsOf(n)
      BY <3>1 DEF CallsOf
    <3> QED
      BY <1>0, <1>9, <3>2 DEF SeqInv
  <2>2. \A p \in 1..Len(writers) :
          firstSeq'[call[writers[p]].id] = IF p <= n THEN lastSeq + 2 * p - 1 ELSE 0
    BY <1>0, <1>8, <1>10
  <2>3. \A c \in 1..MaxWrites : Numbered(c)'
    <3> TAKE c \in 1..MaxWrites
    <3>1. CASE c \in CallsOf(n)
      BY <1>1, <3>1 DEF Numbered, CallsOf
    <3>2. CASE c \notin CallsOf(n)
      <4>1. firstSeq[c] = 0 \/ firstSeq[c] + 1 <= lastSeq
        BY <1>0, <1>6 DEF SeqInv, Numbered
      <4> QED
        BY <1>1, <1>9, <3>2, <4>1 DEF Numbered
    <3> QED
      BY <3>1, <3>2
  <2> QED
    BY <1>1, <2>1, <2>2, <2>3 DEF SeqInv
<1>19. InsertInv'
  <2>1. GroupSeqs' = pending'
    BY <1>1 DEF GroupSeqs
  <2>2. {s \in mem' : s > lastSeq'} = {}
    <3>1. mem \subseteq Nat /\ lastSeq \in Nat
      BY DEF IInv, TypeOK, DataTypes, GroupTypes
    <3>2. \A s \in mem : ~(s > lastSeq)
      BY <1>6, <3>1
    <3> QED
      BY <1>1, <3>2
  <2>3. \A v \in Writers : pc'[v] \notin {"inserting", "finishing"}
    BY <1>5 DEF Leading
  <2>4. (\A s \in UNION imm : s <= lastSeq) /\ (\A s \in tables : s <= lastSeq)
    BY DEF IInv, InsertInv
  <2> QED
    BY <1>1, <1>5, <2>1, <2>2, <2>3, <2>4 DEF InsertInv
<1>20. RecordInv'
  <2>1. \A v \in Writers : pc'[v] \notin {"inserting", "finishing"} /\ (pc'[v] = "logging" => v = w)
    BY <1>5 DEF Leading
  <2>2. \A p \in 1..n : call[writers[p]].sync => call[w].sync
    <3> TAKE p \in 1..n
    <3>1. CASE p = 1
      BY <1>5, <3>1
    <3>2. CASE p # 1
      <4>1. p \in 2..n
        BY <1>0, <3>2
      <4> QED
        BY <1>3, <4>1 DEF MayJoin
    <3> QED
      BY <3>1, <3>2
  <2> QED
    BY <1>1, <2>1, <2>2 DEF RecordInv
<1>21. \A c \in acked : c \in 1..MaxWrites /\ firstSeq'[c] = firstSeq[c]
  <2> TAKE c \in acked
  <2>1. c \in 1..MaxWrites /\ firstSeq[c] > 0
    BY <1>0, WritePathAssumption DEF GroupTypes, QueueTypes, IInv, LogInv
  <2>2. \A p \in 1..n : firstSeq[call[writers[p]].id] = 0
    BY <1>0, <1>6 DEF SeqInv
  <2>3. c \notin CallsOf(n)
    BY <1>0, <2>1, <2>2 DEF CallsOf
  <2> QED
    BY <1>9, <2>1, <2>3
<1>22. LogInv' /\ FallbackInv'
  BY <1>1, <1>21 DEF IInv, LogInv, FallbackInv, Kept
<1>23. ErrorInv'
  BY <1>1, <1>3 DEF ErrorInv, ErrorSticky
<1>24. BatchInv'
  <2> SUFFICES ASSUME NEW c \in 1..MaxWrites, firstSeq'[c] > 0, firstSeq'[c] + 1 <= lastSeq
               PROVE  firstSeq'[c] \in Stored <=> firstSeq'[c] + 1 \in Stored
    BY <1>1 DEF BatchInv, Stored
  <2>1. c \notin CallsOf(n)
    <3>1. ASSUME NEW p \in 1..n, call[writers[p]].id = c PROVE FALSE
      <4>1. firstSeq'[c] = lastSeq + 2 * p - 1
        BY <1>8, <3>1
      <4> QED
        BY <1>0, <4>1 DEF GroupTypes
    <3> QED
      BY <3>1 DEF CallsOf
  <2>2. firstSeq'[c] = firstSeq[c]
    BY <1>9, <2>1
  <2> QED
    BY <2>2 DEF IInv, BatchInv
<1> QED
  BY <1>11, <1>12, <1>13, <1>14, <1>15, <1>16, <1>17, <1>18, <1>19, <1>20, <1>22, <1>23, <1>24 DEF IInv, TypeOK

\* A leader that writes without the mutex: what its steps leave alone.
LeaderWrites(w, to) ==
  /\ pc[w] \in {"logging", "inserting"} /\ to \in {"inserting", "finishing"}
  /\ pc' = [pc EXCEPT ![w] = to]
  /\ torn' \in BOOLEAN
  /\ UNCHANGED <<mutex, writers, call, done, delayable, calls, asked, group, firstSeq, lastSeq,
                 acked, curLog, logNumber, editLog, fallback, doomed, imm, tables, levelVars,
                 bgVars, signalled, bgError, closing>>

\* The other threads' business is not disturbed by a leader that writes, which
\* is the only one.
LEMMA LeaderWritesKeeps ==
  ASSUME IInv, NEW w \in Writers, NEW to, LeaderWrites(w, to)
  PROVE  /\ QueueTypes' /\ LevelTypes' /\ FlagTypes'
         /\ QueueInv' /\ CallInv' /\ OrderInv' /\ SeqInv' /\ ErrorInv'
         /\ FlushInv' /\ WorkScheduled' /\ NoWorkAfterDelete'
         /\ group \in Nat /\ group > 0 /\ failure = "none"
         /\ pc'[w] = to
         /\ \A v \in Writers : v # w => ~Leading(v) /\ pc'[v] = pc[v]
<1>0. QueueTypes /\ QueueInv /\ CallInv /\ GroupInv
  BY DEF IInv, TypeOK
<1>1. /\ pc[w] \in {"logging", "inserting"} /\ to \in {"inserting", "finishing"}
      /\ pc' = [pc EXCEPT ![w] = to]
  BY DEF LeaderWrites
<1>2. UNCHANGED <<mutex, writers, call, done, delayable, calls, asked, group, firstSeq, lastSeq,
                 acked, curLog, logNumber, editLog, fallback, doomed, imm, tables, levelVars,
                 bgVars, signalled, bgError, closing>>
  BY DEF LeaderWrites
<1>3. Leading(w) /\ Writing(w)
  BY <1>1 DEF Leading, Writing
<1>4. \A v \in Writers : v # w => ~Leading(v) /\ ~Writing(v)
  BY <1>3, OneLeader
<1>5. pc'[w] = to /\ \A v \in Writers : v # w => pc'[v] = pc[v]
  BY <1>0, <1>1 DEF QueueTypes
<1>6. group \in Nat /\ group > 0
  BY <1>3, QueuedCalls DEF IInv, GroupInv
<1>7. failure = "none"
  BY <1>0, <1>1, <1>4 DEF GroupInv, Writing
<1>8. QueueTypes'
  BY <1>0, <1>1, <1>2 DEF QueueTypes
<1>9. LevelTypes'
  BY <1>2 DEF IInv, TypeOK, LevelTypes
<1>10. FlagTypes'
  BY <1>2 DEF IInv, TypeOK, FlagTypes, LeaderWrites
<1>11. QueueInv'
  <2>1. \A p \in 1..Len(writers) : pc'[writers[p]] # "idle" /\ ~done[writers[p]]
    <3> TAKE p \in 1..Len(writers)
    <3>1. writers[p] \in Writers /\ pc[writers[p]] # "idle" /\ ~done[writers[p]]
      BY <1>0 DEF QueueInv, QueueTypes
    <3> QED
      BY <1>1, <1>5, <3>1
  <2>2. \A v \in Writers : (Leading(v)' <=> Leading(v)) /\ (pc'[v] = "room" <=> pc[v] = "room")
    BY <1>1, <1>5 DEF Leading
  <2>3. \A v \in Writers : pc'[v] = "waiting" => pc[v] = "waiting"
    BY <1>1, <1>5
  <2> QED
    BY <1>0, <1>2, <2>1, <2>2, <2>3 DEF QueueInv
<1>12. CallInv' /\ OrderInv'
  <2>1. \A v \in Writers : pc'[v] # "idle" => pc[v] # "idle"
    BY <1>1, <1>5
  <2> QED
    BY <1>0, <1>2, <2>1 DEF IInv, CallInv, OrderInv
<1>13. SeqInv'
  BY <1>2 DEF IInv, SeqInv, Numbered
<1>14. ErrorInv'
  BY <1>2 DEF IInv, ErrorInv, ErrorSticky
<1>15. FlushInv'
  BY <1>2 DEF IInv, FlushInv, Level0Bounded, NoMem
<1>16. WorkScheduled' /\ NoWorkAfterDelete'
  BY <1>2 DEF IInv, WorkScheduled, NoWorkAfterDelete, NoMem, SizeCompaction
<1> QED
  BY <1>4, <1>5, <1>6, <1>7, <1>8, <1>9, <1>10, <1>11, <1>12, <1>13, <1>14, <1>15, <1>16

\* A log that grows loses nothing.
LEMMA LogGrows ==
  ASSUME IInv, NEW c, c \subseteq 1..MaxWrites
  PROVE  /\ DOMAIN Logged(c) = DOMAIN logs
         /\ Logged(c) \in [DOMAIN logs -> SUBSET (1..MaxWrites)]
         /\ \A f \in DOMAIN logs : logs[f] \subseteq Logged(c)[f]
         /\ Logged(c)[curLog] = logs[curLog] \cup c
<1>1. curLog \in DOMAIN logs /\ logs \in [DOMAIN logs -> SUBSET (1..MaxWrites)]
  BY DEF IInv, TypeOK, LogTypes, LogInv
<1> QED
  BY <1>1 DEF Logged

\* The group's calls have numbers, and their writers are in the queue.
LEMMA GroupCalls ==
  ASSUME IInv
  PROVE  /\ CallsOf(group) \subseteq 1..MaxWrites
         /\ \A p \in 1..group : p \in 1..Len(writers) /\ writers[p] \in Writers
                                /\ call[writers[p]].id \in CallsOf(group)
<1>1. Len(writers) \in Nat /\ group \in 0..Len(writers) /\ calls \in 0..MaxWrites
  BY QueuedCalls DEF IInv, TypeOK, QueueTypes
<1>2. \A p \in 1..group : p \in 1..Len(writers)
  BY <1>1
<1>3. \A p \in 1..group : writers[p] \in Writers /\ call[writers[p]].id \in 1..calls
  BY <1>2, QueuedCalls
<1>4. \A p \in 1..group : call[writers[p]].id \in 1..MaxWrites
  BY <1>1, <1>3, WritePathAssumption
<1> QED
  BY <1>2, <1>3, <1>4 DEF CallsOf

\* AddRecord, whether or not it succeeds, changes the log and nothing that is
\* stored.
LogWritten(w, to) ==
  /\ pc[w] = "logging"
  /\ LeaderWrites(w, to)
  /\ logs' = logs \/ logs' = Logged(CallsOf(group))
  /\ exposed \subseteq exposed' /\ exposed' \subseteq 1..MaxWrites
  /\ synced \subseteq synced' /\ synced' \subseteq 1..MaxWrites
  /\ failures' \in 0..MaxFailures
  /\ UNCHANGED mem
  /\ failure' \in {"none", "log", "sync"}
  /\ to = "finishing" <=> failure' # "none"
  /\ to = "finishing" => pending' = {}
  /\ to = "inserting" =>
       /\ UNCHANGED pending
       /\ CallsOf(group) \subseteq exposed' \/ logs' = Logged(CallsOf(group))
       /\ synced' = IF call[w].sync THEN synced \cup logs'[curLog] ELSE synced

\* A record that is in the log, and on the device if one of its calls asked for
\* that, lets the insertion start; a failure ends the write with nothing inserted.
LEMMA LogWrittenKeeps ==
  ASSUME IInv, NEW w \in Writers, NEW to, LogWritten(w, to)
  PROVE  IInv'
<1>w. LeaderWrites(w, to)
  BY DEF LogWritten
<1>1. /\ pc[w] = "logging" /\ to \in {"inserting", "finishing"}
      /\ UNCHANGED <<writers, call, calls, asked, group, firstSeq, lastSeq, acked, curLog,
                     logNumber, editLog, fallback, doomed, imm, tables, bg, signalled, bgError,
                     closing>>
  BY DEF LogWritten, LeaderWrites
<1>2. /\ logs' = logs \/ logs' = Logged(CallsOf(group))
      /\ exposed \subseteq exposed' /\ exposed' \subseteq 1..MaxWrites
      /\ synced \subseteq synced' /\ synced' \subseteq 1..MaxWrites
      /\ failures' \in 0..MaxFailures
      /\ UNCHANGED mem
      /\ failure' \in {"none", "log", "sync"}
      /\ to = "finishing" <=> failure' # "none"
  BY DEF LogWritten
<1>3. to = "finishing" => pending' = {}
  BY DEF LogWritten
<1>4. to = "inserting" =>
       /\ pending' = pending
       /\ CallsOf(group) \subseteq exposed' \/ logs' = Logged(CallsOf(group))
       /\ synced' = IF call[w].sync THEN synced \cup logs'[curLog] ELSE synced
  BY DEF LogWritten
<1>5. /\ group \in Nat /\ group > 0 /\ failure = "none"
      /\ pc'[w] = to
      /\ \A v \in Writers : v # w => ~Leading(v) /\ pc'[v] = pc[v]
  BY <1>w, LeaderWritesKeeps
<1>6. /\ CallsOf(group) \subseteq 1..MaxWrites
      /\ \A p \in 1..group : call[writers[p]].id \in CallsOf(group)
  BY GroupCalls
<1>7. pending = GroupSeqs
  BY <1>1 DEF IInv, InsertInv
<1>8. /\ DOMAIN logs' = DOMAIN logs
      /\ logs' \in [DOMAIN logs -> SUBSET (1..MaxWrites)]
      /\ \A f \in DOMAIN logs : logs[f] \subseteq logs'[f]
  <2>1. logs \in [DOMAIN logs -> SUBSET (1..MaxWrites)]
    BY DEF IInv, TypeOK, LogTypes
  <2> QED
    BY <1>2, <1>6, <2>1, LogGrows
<1>9. GroupTypes'
  <2>1. pending' \subseteq Nat
    BY <1>1, <1>3, <1>4 DEF IInv, TypeOK, GroupTypes
  <2> QED
    BY <1>1, <1>2, <2>1 DEF IInv, TypeOK, GroupTypes
<1>10. LogTypes' /\ DataTypes'
  BY <1>1, <1>2, <1>8 DEF IInv, TypeOK, LogTypes, DataTypes
<1>11. ThreadTypes'
  BY <1>1, <1>2 DEF IInv, TypeOK, ThreadTypes
<1>12. GroupInv'
  BY <1>1, <1>2, <1>5 DEF GroupInv, Writing
<1>13. InsertInv'
  <2>1. {s \in mem : s > lastSeq} = {}
    BY <1>1 DEF IInv, InsertInv
  <2>2. GroupSeqs' = GroupSeqs
    BY <1>1 DEF GroupSeqs
  <2>3. GroupSeqs # {}
    <3>1. lastSeq + 1 \in GroupSeqs
      BY <1>5 DEF GroupSeqs, IInv, TypeOK, GroupTypes
    <3> QED
      BY <3>1
  <2>4. \A v \in Writers : pc'[v] # "logging" /\ (pc'[v] \in {"inserting", "finishing"} => v = w)
    BY <1>1, <1>5 DEF Leading
  <2>5. (\A s \in UNION imm : s <= lastSeq) /\ (\A s \in tables : s <= lastSeq)
    BY DEF IInv, InsertInv
  <2>6. {s \in mem' : s > lastSeq'} = {}
    BY <1>1, <1>2, <2>1
  <2>7. CASE to = "finishing"
    BY <1>1, <1>2, <1>3, <1>5, <2>2, <2>4, <2>5, <2>6, <2>7 DEF InsertInv
  <2>8. CASE to = "inserting"
    BY <1>1, <1>2, <1>4, <1>5, <1>7, <2>2, <2>3, <2>4, <2>5, <2>6, <2>8 DEF InsertInv
  <2> QED
    BY <1>1, <2>7, <2>8
<1>14. RecordInv'
  <2>1. \A v \in Writers : pc'[v] # "logging" /\ (pc'[v] \in {"inserting", "finishing"} => v = w)
    BY <1>1, <1>5 DEF Leading
  <2>2. ASSUME to = "inserting", NEW p \in 1..group, call[writers[p]].id \notin exposed'
        PROVE  /\ call[writers[p]].id \in logs'[curLog]
               /\ call[writers[p]].id \in asked => call[writers[p]].id \in synced'
    <3>1. call[writers[p]].id \in logs'[curLog]
      BY <1>4, <1>6, <2>2, LogGrows
    <3>2. call[writers[p]].id \in asked => call[w].sync
      <4>1. writers[p] \in Writers /\ p \in 1..Len(writers)
        BY GroupCalls
      <4>2. pc[writers[p]] # "idle"
        BY <4>1 DEF IInv, QueueInv
      <4>3. call[writers[p]].id \in asked => call[writers[p]].sync
        BY <4>1, <4>2 DEF IInv, CallInv
      <4> QED
        BY <1>1, <4>3 DEF IInv, RecordInv
    <3> QED
      BY <1>4, <2>2, <3>1, <3>2
  <2> QED
    BY <1>1, <1>2, <1>5, <2>1, <2>2 DEF RecordInv
<1>15. LogInv' /\ FallbackInv'
  <2>1. LogInv'
    BY <1>1, <1>2, <1>8 DEF IInv, LogInv
  <2>2. \A m, c : Kept(m, c) => Kept(m, c)'
    BY <1>1, <1>8 DEF Kept
  <2> QED
    BY <1>1, <1>2, <2>1, <2>2 DEF IInv, FallbackInv
<1>16. BatchInv'
  BY <1>1, <1>2 DEF IInv, BatchInv, Stored
<1> QED
  BY <1>w, <1>9, <1>10, <1>11, <1>12, <1>13, <1>14, <1>15, <1>16, LeaderWritesKeeps DEF IInv, TypeOK

\* Both outcomes of AddRecord and Sync are such steps.
LEMMA LogSteps ==
  ASSUME IInv, NEW w \in Writers, AddRecord(w) \/ AddRecordFails(w)
  PROVE  IInv'
<1>1. /\ CallsOf(group) \subseteq 1..MaxWrites /\ torn \in BOOLEAN
      /\ synced \subseteq 1..MaxWrites /\ exposed \subseteq 1..MaxWrites
      /\ curLog \in DOMAIN logs /\ logs \in [DOMAIN logs -> SUBSET (1..MaxWrites)]
      /\ failures \in 0..MaxFailures
  BY GroupCalls DEF IInv, TypeOK, LogTypes, LogInv, ThreadTypes, FlagTypes
<1>4. \A l \in Appended : l = Logged(CallsOf(group)) \/ (l = logs /\ torn)
  BY DEF Appended
<1>2. CASE AddRecord(w)
  <2>1. failure = "none"
    <3>1. LeaderWrites(w, "inserting")
      BY <1>1, <1>2 DEF AddRecord, LeaderWrites
    <3> QED
      BY <3>1, LeaderWritesKeeps
  <2>2. logs'[curLog] \subseteq 1..MaxWrites
    BY <1>1, <1>2, <1>4, LogGrows DEF AddRecord
  <2>3. logs' = Logged(CallsOf(group)) \/ (logs' = logs /\ torn)
    BY <1>2, <1>4 DEF AddRecord
  <2> QED
    BY <1>1, <1>2, <2>1, <2>2, <2>3, LogWrittenKeeps DEF AddRecord, Succeeds, LeaderWrites, LogWritten
<1>3. CASE AddRecordFails(w)
  <2>1. failures' \in 0..MaxFailures
    BY <1>1, <1>3, WritePathAssumption DEF AddRecordFails, Fails
  <2>2. logs' = logs \/ logs' = Logged(CallsOf(group))
    BY <1>3, <1>4 DEF AddRecordFails
  <2> QED
    BY <1>1, <1>3, <2>1, <2>2, LogWrittenKeeps DEF AddRecordFails, LeaderWrites, LogWritten
<1> QED
  BY <1>2, <1>3

\* The update that InsertInto takes next is one of the group's.
LEMMA MinPending ==
  ASSUME NEW S \in SUBSET Nat, S # {}
  PROVE  Min(S) \in S
<1>1. IsWellFoundedOn(OpToRel(<, Nat), Nat)
  BY NatLessThanWellFounded
<1>2. PICK x \in S : \A y \in S : ~(<<y, x>> \in OpToRel(<, Nat))
  BY <1>1, WFMin
<1>3. \A y \in S : x =< y
  <2> TAKE y \in S
  <2>1. x \in Nat /\ y \in Nat /\ <<y, x>> \in Nat \X Nat
    OBVIOUS
  <2>2. y < x => <<y, x>> \in OpToRel(<, Nat)
    BY <2>1 DEF OpToRel
  <2>3. ~(y < x)
    BY <1>2, <2>2, Zenon
  <2> QED
    BY <2>1, <2>3
<1> QED
  BY <1>3 DEF Min

\* InsertInto moves the next update of the group to the memtable.
LEMMA InsertKeeps ==
  ASSUME IInv, NEW w \in Writers, InsertInto(w)
  PROVE  IInv'
<1> DEFINE s0 == Min(pending)
           to == IF pending \ {s0} = {} THEN "finishing" ELSE "inserting"
<1>1. /\ pc[w] = "inserting"
      /\ mem' = mem \cup {s0} /\ pending' = pending \ {s0}
      /\ UNCHANGED <<writers, call, calls, asked, group, failure, firstSeq, lastSeq, acked, logVars,
                     imm, tables, bg, signalled, bgError, closing, failures>>
  BY DEF InsertInto
<1>w. LeaderWrites(w, to)
  <2>1. pc' = [pc EXCEPT ![w] = to]
    <3>1. pc \in [Writers -> {"idle", "waiting", "room", "sleeping", "bgwait",
                              "logging", "inserting", "finishing"}]
      BY DEF IInv, TypeOK, QueueTypes
    <3>2. CASE pending' = {}
      BY <1>1, <3>2 DEF InsertInto
    <3>3. CASE pending' # {}
      <4>1. pc' = pc
        BY <3>3 DEF InsertInto
      <4>2. to = "inserting"
        BY <1>1, <3>3
      <4> QED
        BY <1>1, <3>1, <4>1, <4>2
    <3> QED
      BY <3>2, <3>3
  <2>2. to \in {"inserting", "finishing"}
    OBVIOUS
  <2>3. torn' \in BOOLEAN
    BY <1>1 DEF IInv, TypeOK, FlagTypes
  <2> QED
    BY <1>1, <2>1, <2>2, <2>3 DEF InsertInto, LeaderWrites
<1>2. /\ group \in Nat /\ group > 0 /\ failure = "none"
      /\ pc'[w] = to
      /\ \A v \in Writers : v # w => ~Leading(v) /\ pc'[v] = pc[v]
  BY <1>w, LeaderWritesKeeps
<1>3. /\ pending \subseteq GroupSeqs /\ pending # {} /\ lastSeq \in Nat
      /\ GroupSeqs \subseteq Nat /\ mem \subseteq Nat /\ pending \subseteq Nat
  <2>1. pending \subseteq GroupSeqs /\ pending # {}
    BY <1>1 DEF IInv, InsertInv
  <2>2. lastSeq \in Nat /\ mem \subseteq Nat /\ pending \subseteq Nat
    BY DEF IInv, TypeOK, GroupTypes, DataTypes
  <2>3. GroupSeqs \subseteq Nat
    BY <1>2, <2>2 DEF GroupSeqs
  <2> QED
    BY <2>1, <2>2, <2>3
<1>4. s0 \in pending
  BY <1>3, MinPending
<1> HIDE DEF s0
<1>5. s0 \in Nat /\ s0 > lastSeq /\ s0 \in GroupSeqs
  <2>1. s0 \in GroupSeqs /\ s0 \in Nat
    BY <1>3, <1>4
  <2> QED
    BY <1>2, <1>3, <2>1 DEF GroupSeqs
<1>6. GroupTypes' /\ LogTypes' /\ ThreadTypes'
  <2>1. GroupTypes'
    BY <1>1 DEF IInv, TypeOK, GroupTypes
  <2> QED
    BY <1>1, <2>1 DEF IInv, TypeOK, LogTypes, ThreadTypes
<1>7. DataTypes'
  BY <1>1, <1>5 DEF IInv, TypeOK, DataTypes
<1>8. \A v \in Writers : /\ pc'[v] # "logging" /\ pc[v] # "logging"
                         /\ pc'[v] \in {"inserting", "finishing"} => v = w
  BY <1>1, <1>2 DEF Leading
<1>9. GroupInv'
  BY <1>1, <1>2, <1>8 DEF GroupInv, Writing
<1>10. InsertInv'
  <2>1. {s \in mem : s > lastSeq} = GroupSeqs \ pending
    BY <1>2, <1>8 DEF IInv, InsertInv
  <2>2. {s \in mem' : s > lastSeq} = GroupSeqs \ pending'
    BY <1>1, <1>4, <1>5, <2>1
  <2>3. GroupSeqs' = GroupSeqs
    BY <1>1 DEF GroupSeqs
  <2>4. (\A s \in UNION imm : s <= lastSeq) /\ (\A s \in tables : s <= lastSeq)
    BY DEF IInv, InsertInv
  <2>5. pending' = {} <=> to = "finishing"
    BY <1>1
  <2> QED
    BY <1>1, <1>2, <1>3, <1>8, <2>2, <2>3, <2>4, <2>5 DEF InsertInv
<1>11. RecordInv'
  BY <1>1, <1>2, <1>8 DEF IInv, RecordInv
<1>12. LogInv' /\ FallbackInv'
  BY <1>1 DEF IInv, LogInv, FallbackInv, Kept
<1>13. BatchInv'
  <2> SUFFICES ASSUME NEW c \in 1..MaxWrites, firstSeq[c] > 0, firstSeq[c] + 1 <= lastSeq
               PROVE  firstSeq[c] \in Stored' <=> firstSeq[c] + 1 \in Stored'
    BY <1>1 DEF BatchInv
  <2>1. firstSeq[c] \in Nat
    BY DEF IInv, TypeOK, GroupTypes
  <2>2. firstSeq[c] # s0 /\ firstSeq[c] + 1 # s0
    BY <1>3, <1>5, <2>1
  <2>3. \A s : s # s0 => (s \in Stored' <=> s \in Stored)
    BY <1>1 DEF Stored
  <2> QED
    BY <2>2, <2>3 DEF IInv, BatchInv
<1> QED
  BY <1>w, <1>6, <1>7, <1>9, <1>10, <1>11, <1>12, <1>13, LeaderWritesKeeps DEF IInv, TypeOK

-----------------------------------------------------------------------------
(***************************************************************************)
(* Readers and the destructor, and the whole.                              *)
(***************************************************************************)

\* A seek may schedule work; the destructor waits until there is none.
LEMMA OutsideSteps ==
  ASSUME IInv, SeekCompaction \/ Close \/ WakeDestructor
  PROVE  IInv'
<1>1. UNCHANGED <<queueVars, groupVars, logVars, dataVars, l0, debt, inputs, inner, bgError, failures>>
  BY DEF SeekCompaction, Close, WakeDestructor
<1>2. QueueTypes' /\ GroupTypes' /\ LogTypes' /\ DataTypes' /\ LevelTypes'
  BY <1>1 DEF IInv, TypeOK, QueueTypes, GroupTypes, LogTypes, DataTypes, LevelTypes
<1>3. QueueInv' /\ CallInv' /\ OrderInv' /\ GroupInv' /\ SeqInv' /\ InsertInv'
  BY <1>1 DEF IInv, QueueInv, CallInv, OrderInv, GroupInv, SeqInv, InsertInv, Leading, Writing, Numbered, GroupSeqs
<1>4. RecordInv' /\ LogInv' /\ ErrorInv' /\ BatchInv'
  BY <1>1 DEF IInv, RecordInv, LogInv, ErrorInv, ErrorSticky, BatchInv, Stored
<1>5. /\ bg' = bg \/ Schedule
      /\ bg' # bg => closing = "open" /\ bg = "off" /\ UNCHANGED closing
  BY DEF SeekCompaction, Close, WakeDestructor, MaybeScheduleCompaction
<1>6. bg' = bg \/ bg' = "queued"
  BY <1>5 DEF Schedule
<1>7. ThreadTypes'
  <2>1. signalled' \subseteq signalled /\ closing' \in {"open", "waiting", "deleted"}
    BY DEF SeekCompaction, Close, WakeDestructor, IInv, TypeOK, ThreadTypes
  <2> QED
    BY <1>1, <1>6, <2>1 DEF IInv, TypeOK, ThreadTypes
<1>8. FlagTypes'
  BY <1>1 DEF IInv, TypeOK, FlagTypes, SeekCompaction, Close, WakeDestructor
<1>9. FlushInv'
  BY <1>1, <1>6 DEF IInv, FlushInv, Level0Bounded, NoMem
<1>10. NoWorkAfterDelete'
  BY <1>5 DEF IInv, NoWorkAfterDelete, SeekCompaction, Close, WakeDestructor
<1>12. FallbackInv'
  BY <1>1, <1>6 DEF IInv, FallbackInv, Kept
<1>11. WorkScheduled'
  BY <1>1, <1>5 DEF IInv, WorkScheduled, SeekCompaction, Close, WakeDestructor, Schedule,
                    MaybeScheduleCompaction, SizeCompaction, NoMem, shutting_down
<1> QED
  BY <1>2, <1>3, <1>4, <1>7, <1>8, <1>9, <1>10, <1>11, <1>12 DEF IInv, TypeOK

\* A step that changes nothing keeps the invariant.
LEMMA StutterKeeps ==
  ASSUME IInv, UNCHANGED vars
  PROVE  IInv'
<1>1. UNCHANGED <<queueVars, groupVars, logVars, dataVars, levelVars, bgVars, signalled,
                  bgError, closing, failures>>
  BY DEF vars
<1>2. TypeOK'
  <2>1. TypeOK
    BY DEF IInv
  <2>2. QueueTypes' /\ GroupTypes'
    BY <1>1, <2>1 DEF TypeOK, QueueTypes, GroupTypes
  <2>3. LogTypes' /\ DataTypes'
    BY <1>1, <2>1 DEF TypeOK, LogTypes, DataTypes
  <2>4. LevelTypes' /\ ThreadTypes' /\ FlagTypes'
    BY <1>1, <2>1 DEF TypeOK, LevelTypes, ThreadTypes, FlagTypes
  <2> QED
    BY <2>2, <2>3, <2>4 DEF TypeOK
<1>3. QueueInv' /\ CallInv' /\ OrderInv' /\ GroupInv' /\ SeqInv' /\ InsertInv'
  BY <1>1 DEF IInv, QueueInv, CallInv, OrderInv, GroupInv, SeqInv, InsertInv, Leading, Writing, Numbered, GroupSeqs
<1>4. RecordInv' /\ LogInv' /\ ErrorInv' /\ BatchInv'
  BY <1>1 DEF IInv, RecordInv, LogInv, ErrorInv, ErrorSticky, BatchInv, Stored
<1>5. FallbackInv' /\ FlushInv' /\ WorkScheduled' /\ NoWorkAfterDelete'
  BY <1>1 DEF IInv, FallbackInv, Kept, FlushInv, Level0Bounded, NoMem, WorkScheduled, NoWorkAfterDelete, SizeCompaction
<1> QED
  BY <1>2, <1>3, <1>4, <1>5 DEF IInv

\* The invariant is inductive.
LEMMA NextKeeps == IInv /\ [Next]_vars => IInv'
<1> SUFFICES ASSUME IInv, [Next]_vars PROVE IInv'
  OBVIOUS
<1>1. ASSUME NEW w \in Writers, NEW sync \in SyncOptions, Write(w, sync) PROVE IInv'
  BY <1>1, WriteKeeps
<1>2. ASSUME NEW w \in Writers, WriterStep(w) PROVE IInv'
  <2>1. CASE WakeWriter(w) \/ RoomDelay(w) \/ BackInRoom(w) \/ RoomWait(w)
    BY <2>1, QueueSteps
  <2>2. CASE RoomError(w) \/ RoomSwitchFails(w) \/ FinishWrite(w)
    BY <2>2, AnswerSteps
  <2>3. CASE RoomSwitch(w)
    BY <2>3, SwitchKeeps
  <2>4. CASE \E n \in 1..Len(writers) : BuildBatchGroup(w, n)
    BY <2>4, BuildKeeps
  <2>5. CASE AddRecord(w) \/ AddRecordFails(w)
    BY <2>5, LogSteps
  <2>6. CASE InsertInto(w)
    BY <2>6, InsertKeeps
  <2> QED
    BY <1>2, <2>1, <2>2, <2>3, <2>4, <2>5, <2>6 DEF WriterStep
<1>3. CASE Background
  BY <1>3, BgKeeps
<1>4. CASE SeekCompaction \/ Close \/ WakeDestructor
  BY <1>4, OutsideSteps
<1>5. CASE Deleted \/ UNCHANGED vars
  BY <1>5, StutterKeeps DEF Deleted
<1> QED
  BY <1>1, <1>2, <1>3, <1>4, <1>5 DEF Next

\* The inductive invariant holds in every reachable state.
THEOREM Invariance == Spec => []IInv
<1>1. Init => IInv
  BY InitIInv
<1>2. IInv /\ [Next]_vars => IInv'
  BY NextKeeps
<1> QED
  BY <1>1, <1>2, PTL DEF Spec

\* Where an answered write is found: in the tables of each manifest that may be
\* on disk, or in a log that its recovery reads.
LEMMA Found ==
  ASSUME IInv, NEW m \in Manifests, NEW c \in acked \ exposed, NEW R, c \in R
  PROVE  FoundIn(m, c, R)
<1>1. LogInv /\ FallbackInv /\ LogTypes /\ GroupTypes /\ DataTypes
  BY DEF IInv, TypeOK
<1> DEFINE S == {firstSeq[c], firstSeq[c] + 1}
<1>2. /\ \/ S \subseteq tables
         \/ S \subseteq UNION imm /\ \E f \in DOMAIN logs : f >= logNumber /\ c \in logs[f]
         \/ S \subseteq mem /\ c \in logs[curLog]
      /\ curLog \in DOMAIN logs /\ logNumber <= curLog /\ editLog <= curLog
      /\ curLog \in Nat /\ logNumber \in Nat /\ editLog \in Nat
  BY <1>1 DEF LogInv, LogTypes
<1>3. firstSeq[c] > 0
  BY <1>1 DEF LogInv
<1>4. SeqsOf(c) = S /\ S # {}
  BY <1>3 DEF SeqsOf
<1> HIDE DEF S
<1>5. CASE m = [log |-> logNumber, tables |-> tables]
  BY <1>2, <1>4, <1>5 DEF FoundIn
<1>6. ASSUME NEW x \in imm, m = [log |-> editLog, tables |-> tables \cup x]
      PROVE  FoundIn(m, c, R)
  <2>1. UNION imm = x
    BY <1>1, <1>6 DEF DataTypes
  <2> QED
    BY <1>2, <1>4, <1>6, <2>1 DEF FoundIn
<1>7. CASE m \in fallback
  <2>1. Kept(m, c)
    BY <1>1, <1>7 DEF FallbackInv
  <2> QED
    BY <1>4, <2>1 DEF FoundIn, Kept, S
<1> QED
  BY <1>5, <1>6, <1>7 DEF Manifests, Installed

\* A write answered OK, behind no failed append to its log, survives the death of
\* the process at any moment: some log that Recover reads, or a table of whichever
\* reading of the manifest is found, holds it.
THEOREM Durability == Spec => []Durable
<1>1. IInv => Durable
  <2> SUFFICES ASSUME IInv, NEW m \in Manifests, NEW c \in acked \ exposed
               PROVE  FoundIn(m, c, 1..MaxWrites)
    BY DEF Durable
  <2>1. c \in 1..MaxWrites
    BY WritePathAssumption DEF IInv, TypeOK, QueueTypes, GroupTypes
  <2> QED
    BY <2>1, Found
<1> QED
  BY <1>1, Invariance, PTL

\* A write with WriteOptions.sync that was answered OK, behind no failed append to
\* its log, also survives a loss of power, whichever leader logged it.
THEOREM SyncDurability == Spec => []SyncDurable
<1>1. IInv => SyncDurable
  <2> SUFFICES ASSUME IInv, NEW m \in Manifests, NEW c \in (acked \cap asked) \ exposed
               PROVE  FoundIn(m, c, synced)
    BY DEF SyncDurable
  <2>1. c \in synced
    BY DEF IInv, LogInv
  <2> QED
    BY <2>1, Found
<1> QED
  BY <1>1, Invariance, PTL

\* A read at LastSequence sees each batch whole or not at all, while InsertInto
\* runs without the mutex and after a failed write.
THEOREM BatchesWhole == Spec => []WholeBatches
<1>1. IInv => WholeBatches
  <2> SUFFICES ASSUME IInv, NEW c \in 1..MaxWrites
               PROVE  SeqsOf(c) \cap Stored \cap 1..lastSeq \in {{}, SeqsOf(c)}
    BY DEF WholeBatches
  <2>1. firstSeq[c] \in Nat /\ lastSeq \in Nat
    BY DEF IInv, TypeOK, GroupTypes
  <2>2. CASE firstSeq[c] = 0
    BY <2>2 DEF SeqsOf
  <2>3. CASE firstSeq[c] > 0 /\ firstSeq[c] + 1 <= lastSeq
    <3>1. firstSeq[c] \in Stored <=> firstSeq[c] + 1 \in Stored
      BY <2>3 DEF IInv, BatchInv
    <3>2. SeqsOf(c) = {firstSeq[c], firstSeq[c] + 1}
      BY <2>3 DEF SeqsOf
    <3>3. firstSeq[c] \in 1..lastSeq /\ firstSeq[c] + 1 \in 1..lastSeq
      BY <2>1, <2>3
    <3> QED
      BY <3>1, <3>2, <3>3
  <2>4. ASSUME firstSeq[c] > 0, NEW p \in 1..group, call[writers[p]].id = c
        PROVE  SeqsOf(c) \cap 1..lastSeq = {}
    <3>1. p \in 1..Len(writers) /\ p <= group
      BY GroupCalls, QueuedCalls
    <3>2. firstSeq[c] = lastSeq + 2 * p - 1
      BY <2>4, <3>1 DEF IInv, SeqInv
    <3>3. firstSeq[c] > lastSeq /\ firstSeq[c] + 1 > lastSeq
      BY <2>1, <3>1, <3>2, QueuedCalls
    <3>4. SeqsOf(c) = {firstSeq[c], firstSeq[c] + 1}
      BY <2>4 DEF SeqsOf
    <3> QED
      BY <2>1, <3>3, <3>4
  <2>5. Numbered(c)
    BY DEF IInv, SeqInv
  <2> QED
    BY <2>1, <2>2, <2>3, <2>4, <2>5 DEF Numbered
<1> QED
  BY <1>1, Invariance, PTL

\* A write answered OK is seen by every read that starts later.
THEOREM AnsweredVisible == Spec => []ReadYourWrites
<1>1. IInv => ReadYourWrites
  <2> SUFFICES ASSUME IInv, NEW c \in acked
               PROVE  SeqsOf(c) # {} /\ SeqsOf(c) \subseteq Stored \cap 1..lastSeq
    BY DEF ReadYourWrites
  <2>1. firstSeq[c] > 0 /\ firstSeq[c] + 1 <= lastSeq
    BY DEF IInv, LogInv
  <2>2. SeqsOf(c) = {firstSeq[c], firstSeq[c] + 1}
    BY <2>1 DEF SeqsOf
  <2>3. {firstSeq[c], firstSeq[c] + 1} \subseteq Stored
    BY DEF IInv, LogInv, Stored
  <2>4. firstSeq[c] \in Nat /\ lastSeq \in Nat
    BY WritePathAssumption DEF IInv, TypeOK, QueueTypes, GroupTypes
  <2> QED
    BY <2>1, <2>2, <2>3, <2>4
<1> QED
  BY <1>1, Invariance, PTL

\* The write path's variables keep their types.
THEOREM TypesCorrect == Spec => []TypeOK
  BY Invariance, PTL DEF IInv

\* Once there is a background error no call is answered OK but those whose group
\* was being written then.
THEOREM ErrorsStick == Spec => []ErrorSticky
  BY Invariance, PTL DEF IInv, ErrorInv

\* kL0_StopWritesTrigger really bounds the level-0 files: the switch that adds
\* one waits, and no second memtable can be behind it.
THEOREM Level0Limit == Spec => []Level0Bounded
  BY Invariance, PTL DEF IInv, FlushInv

\* While there is work that neither an error nor the destructor forbids, a
\* background call is scheduled.
THEOREM WorkIsScheduled == Spec => []WorkScheduled
  BY Invariance, PTL DEF IInv

\* No background call runs on a deleted database.
THEOREM DestructorLast == Spec => []NoWorkAfterDelete
  BY Invariance, PTL DEF IInv

\* What a snapshot sees never changes: no step adds or drops an update at or
\* below LastSequence.
THEOREM Snapshots == Spec => SnapshotsFrozen
<1>1. IInv /\ [Next]_vars => [Stored' \cap 1..lastSeq = Stored \cap 1..lastSeq]_vars
  <2> SUFFICES ASSUME IInv, Next PROVE Stored' \cap 1..lastSeq = Stored \cap 1..lastSeq
    OBVIOUS
  <2>1. ASSUME NEW w \in Writers, InsertInto(w)
        PROVE  Stored' \cap 1..lastSeq = Stored \cap 1..lastSeq
    <3>1. /\ pending \subseteq GroupSeqs /\ pending # {} /\ pending \subseteq Nat
      BY <2>1 DEF InsertInto, IInv, InsertInv, TypeOK, GroupTypes
    <3>2. Min(pending) \in GroupSeqs
      BY <3>1, MinPending
    <3>3. Min(pending) \notin 1..lastSeq
      BY <3>2 DEF GroupSeqs, IInv, TypeOK, GroupTypes
    <3> QED
      BY <2>1, <3>3 DEF InsertInto, Stored
  <2>2. ASSUME NEW w \in Writers, RoomSwitch(w) PROVE Stored' = Stored
    BY <2>2 DEF RoomSwitch, MustWait, Stored, NoMem
  <2>3. ASSUME NEW w \in Writers,
               \/ WakeWriter(w) \/ RoomError(w) \/ RoomDelay(w) \/ BackInRoom(w) \/ RoomWait(w)
               \/ RoomSwitchFails(w) \/ AddRecord(w) \/ AddRecordFails(w) \/ FinishWrite(w)
        PROVE  Stored' = Stored
    BY <2>3 DEF WakeWriter, RoomError, RoomDelay, BackInRoom, RoomWait, RoomSwitchFails, AddRecord,
                AddRecordFails, FinishWrite, Stored
  <2>4. ASSUME NEW w \in Writers, NEW n, BuildBatchGroup(w, n) PROVE Stored' = Stored
    BY <2>4 DEF BuildBatchGroup, Stored
  <2>5. ASSUME NEW w \in Writers, NEW sync, Write(w, sync) PROVE Stored' = Stored
    BY <2>5 DEF Write, Stored
  <2>6. Background => Stored' = Stored
    BY BgStored
  <2>7. SeekCompaction \/ Close \/ WakeDestructor \/ Deleted => Stored' = Stored
    BY DEF SeekCompaction, Close, WakeDestructor, Deleted, vars, Stored
  <2> QED
    BY <2>1, <2>2, <2>3, <2>4, <2>5, <2>6, <2>7 DEF Next, WriterStep
<1> QED
  BY <1>1, Invariance, PTL DEF Spec, SnapshotsFrozen
==============================================================================
