------------------------------- MODULE LsmStore -------------------------------
(***************************************************************************)
(* Where the entries of one open database are: two memtables and the       *)
(* sorted tables of NumLevels levels (cpp/leveldb/db/version_set.cc and    *)
(* the compactions of db_impl.cc).  A read looks at them in an order that  *)
(* stops at the first entry it meets, so every compaction, every choice of *)
(* its inputs, and every dropped entry must keep newer entries of a key    *)
(* above older ones, for the newest sequence number, for every snapshot    *)
(* and for every reader that still holds an old version.                   *)
(*                                                                         *)
(* An entry is a user key, its sequence number, which also stands for the  *)
(* value, and its type; the size of a table is the number of its entries.  *)
(* A critical section of mutex_ is one action.  The background thread has  *)
(* one compaction at a time, but flushes a full memtable in the middle of  *)
(* it.  Failures of files are the business of WritePath and Recovery.      *)
(***************************************************************************)
EXTENDS Integers, Sequences, FiniteSets, FiniteSetsExt, SequencesExt

CONSTANTS
  Keys,               \* user keys: integers
  Readers,            \* threads that read, each with at most one read going on
  None,               \* no entry, no version, no compaction
  kNumLevels,
  kMaxMemCompactLevel,
  kL0_CompactionTrigger,
  max_file_size,      \* options.max_file_size, in entries
  GrandParentLimit,   \* MaxGrandParentOverlapBytes
  ExpandedLimit,      \* ExpandedCompactionByteSizeLimit
  LevelBase,          \* MaxBytesForLevel of level 1; each level has twice that
                      \* of the one above (10 times in the code)
  MaxWrites,          \* bound on the sequence numbers
  MaxFiles,           \* bound on the file numbers
  Budgets,            \* bounds, one of which a behaviour keeps to: on the writes,
                      \* the deletions among them, the snapshots and reads, the
                      \* charges for seeks and the times the database is reopened
  ManualRanges        \* key ranges <<begin, end>> that CompactRange is called with

ASSUME LsmAssumption ==
  /\ Keys \subseteq Int /\ IsFiniteSet(Keys) /\ Keys # {}
  /\ kNumLevels \in Nat /\ kNumLevels >= 2
  /\ kMaxMemCompactLevel \in 0..(kNumLevels - 1)
  /\ kL0_CompactionTrigger \in Nat \ {0} /\ max_file_size \in Nat \ {0}
  /\ GrandParentLimit \in Nat /\ ExpandedLimit \in Nat /\ LevelBase \in Nat \ {0}
  /\ MaxFiles \in Nat /\ MaxWrites \in Nat
  /\ Budgets \subseteq [writes : 0..MaxWrites, deletes : Nat, holds : Nat, charges : Nat, reopens : Nat]
  /\ \A r \in ManualRanges : r[1] \in Keys /\ r[2] \in Keys

VARIABLES
  written,            \* every entry ever written (history)
  last_sequence,      \* versions_->LastSequence()
  mem, imm,           \* the entries of the memtables; imm is empty for a null imm_
  current,            \* versions_->current(): the files of each level
  file_to_compact,    \* [level, file] that seeks of current charged, or None
  compact_pointer,    \* the internal key where each level's next compaction
                      \* starts, or None
  next_file,          \* next_file_number_
  pending_outputs,    \* numbers of tables that are being written
  disk,               \* numbers of the tables in the directory
  compaction,         \* the running compaction, or None
  manual,             \* manual_compaction_: [level, begin, end], or None
  snapshots,          \* sequence numbers of the snapshots held, oldest first
  held,               \* the version each reader has a reference to, or None
  left                \* what is left of the budget

vars == <<written, last_sequence, mem, imm, current, file_to_compact, compact_pointer,
          next_file, pending_outputs, disk, compaction, manual, snapshots, held, left>>

Levels == 0..(kNumLevels - 1)
Types == {"value", "deletion"}
Entries == [k : Keys, s : 1..MaxWrites, t : Types]
Files == [number : 1..MaxFiles, entries : SUBSET Entries, smallest : Entries, largest : Entries]
Versions == [Levels -> SUBSET Files]
SeekCharges == [level : 0..(kNumLevels - 2), file : Files]
Compactions ==
  [level : 0..(kNumLevels - 2), inputs0 : SUBSET Files, inputs1 : SUBSET Files, version : Versions,
   todo : Seq(SUBSET Entries), outputs : SUBSET Files]

ASSUME NoneAssumption ==
  None \notin Entries /\ None \notin Versions /\ None \notin SeekCharges /\ None \notin Compactions

TypeOK ==
  /\ written \subseteq Entries
  /\ last_sequence \in 0..MaxWrites
  /\ mem \subseteq Entries /\ imm \subseteq Entries
  /\ current \in Versions
  /\ file_to_compact = None \/ /\ file_to_compact \in SeekCharges
                               /\ file_to_compact.file \in current[file_to_compact.level]
  /\ compact_pointer \in [Levels -> Entries \cup {None}]
  /\ next_file \in 1..(MaxFiles + 1)
  /\ pending_outputs \subseteq 1..MaxFiles /\ disk \subseteq 1..MaxFiles
  /\ compaction = None \/ compaction \in Compactions
  /\ snapshots \in Seq(0..last_sequence)
  /\ held \in [Readers -> Versions \cup {None}]
  /\ left \in [writes : 0..MaxWrites, deletes : Nat, holds : Nat, charges : Nat, reopens : Nat]

Init ==
  /\ written = {} /\ last_sequence = 0
  /\ mem = {} /\ imm = {}
  /\ current = [l \in Levels |-> {}]
  /\ file_to_compact = None
  /\ compact_pointer = [l \in Levels |-> None]
  /\ next_file = 1 /\ pending_outputs = {} /\ disk = {}
  /\ compaction = None /\ manual = None
  /\ snapshots = <<>>
  /\ held = [r \in Readers |-> None]
  /\ left \in Budgets

-----------------------------------------------------------------------------
(***************************************************************************)
(* Internal keys and files.                                                *)
(***************************************************************************)

\* InternalKeyComparator::Compare(a, b) < 0: by user key, newest first.
Before(a, b) == a.k < b.k \/ (a.k = b.k /\ a.s > b.s)

\* The members of S in the order of a relation on S.
SortedBy(S, less) ==
  [i \in 1..Cardinality(S) |->
     CHOOSE e \in S : Cardinality({d \in S : <<d, e>> \in less}) = i - 1]

\* A loop of n rounds from x on, where body[i] is what round i does.
Loop(body, x, n) ==
  LET after[i \in 0..n] == IF i = 0 THEN x ELSE body[i][after[i - 1]]
  IN after[n]

\* The FileMetaData of a new table, with its entries.
NewFile(n, entries) ==
  [number |-> n, entries |-> entries,
   smallest |-> CHOOSE e \in entries : \A d \in entries : d = e \/ Before(e, d),
   largest  |-> CHOOSE e \in entries : \A d \in entries : d = e \/ Before(d, e)]

\* BySmallestKey: the order in which a version keeps the files of a level.
BySmallestKey(f, g) ==
  \/ Before(f.smallest, g.smallest)
  \/ f.smallest = g.smallest /\ f.number < g.number
InOrder(files) == SortedBy(files, {p \in files \X files : BySmallestKey(p[1], p[2])})

TotalFileSize(files) == Cardinality(UNION {{f} \X f.entries : f \in files})

\* What a memtable or a table answers to a LookupKey: its first entry at or
\* after the internal key <<k, s>>, if that is an entry of user key k.
Lookup(S, k, s) ==
  LET found == {e \in S : e.k = k /\ e.s <= s}
  IN IF found = {} THEN None ELSE CHOOSE e \in found : \A d \in found : d.s <= e.s

\* FindFile: the index, from 0, of the first file whose largest key is at or
\* after ikey, by binary search.
FindFile(files, ikey) ==
  LET n == Len(files)
      halve == [p \in (0..n) \X (0..n) |->
        LET mid == (p[1] + p[2]) \div 2
        IN IF p[1] >= p[2] THEN p
           ELSE IF Before(files[mid + 1].largest, ikey) THEN <<mid + 1, p[2]>> ELSE <<p[1], mid>>]
  IN Loop([i \in 1..n |-> halve], <<0, n>>, n)[2]

\* Neither AfterFile(lo) nor BeforeFile(hi).
Overlaps(f, lo, hi) == lo <= f.largest.k /\ f.smallest.k <= hi

\* The sequence number of a seek to the newest entry of a key.
kMaxSequenceNumber == MaxWrites + 1

\* Version::OverlapInLevel, SomeFileOverlapsRange.
OverlapInLevel(v, level, lo, hi) ==
  IF level = 0 THEN \E f \in v[0] : Overlaps(f, lo, hi)
  ELSE LET files == InOrder(v[level])
           index == FindFile(files, [k |-> lo, s |-> kMaxSequenceNumber])
       IN index < Len(files) /\ files[index + 1].smallest.k <= hi

Touching(files, lo, hi) == {f \in files : Overlaps(f, lo, hi)}

\* The first and the last user key of a set of files (GetRange, GetRange2).
LowKey(files)  == Min({f.smallest.k : f \in files})
HighKey(files) == Max({f.largest.k : f \in files})

\* Version::GetOverlappingInputs.  The files of level 0 may overlap each other:
\* a file that was found and reaches beyond the range widens it.
GetOverlappingInputs(v, level, lo, hi) ==
  LET rounds == IF level = 0 THEN Cardinality(v[level]) ELSE 0
      widen == [S \in SUBSET v[level] |->
        IF S = {} THEN {}
        ELSE Touching(v[level], Min({lo, LowKey(S)}), Max({hi, HighKey(S)}))]
  IN Loop([i \in 1..rounds |-> widen], Touching(v[level], lo, hi), rounds)

-----------------------------------------------------------------------------
(***************************************************************************)
(* Reads.                                                                  *)
(***************************************************************************)

\* The files of one level that may hold an entry of k visible at s.
FilesFor(v, level, k, s) ==
  IF level = 0 THEN Touching(v[0], k, k)
  ELSE LET files == InOrder(v[level])
           index == FindFile(files, [k |-> k, s |-> s])
       IN {f \in v[level] : index < Len(files) /\ f = files[index + 1] /\ f.smallest.k <= k}

NewestFirst(a, b) == a.level < b.level \/ (a.level = b.level /\ a.file.number > b.file.number)

\* Version::ForEachOverlapping: the files of a search, in its order.
ForEachOverlapping(v, k, s) ==
  LET all == UNION {{[level |-> l, file |-> f] : f \in FilesFor(v, l, k, s)} : l \in Levels}
  IN SortedBy(all, {p \in all \X all : NewestFirst(p[1], p[2])})

\* The positions of a search whose file has an answer.
Hits(order, k, s) == {i \in DOMAIN order : Lookup(order[i].file.entries, k, s) # None}

\* Version::Get: the first file with an answer ends the search.
VersionGet(v, k, s) ==
  LET order == ForEachOverlapping(v, k, s)
      hits == Hits(order, k, s)
  IN IF hits = {} THEN None ELSE Lookup(order[Min(hits)].file.entries, k, s)

\* The file that Version::Get charges: the first, if it had to read another.
SeekFile(v, k, s) ==
  LET order == ForEachOverlapping(v, k, s)
      hits == Hits(order, k, s)
      reads == IF hits = {} THEN Len(order) ELSE Min(hits)
  IN IF reads >= 2 THEN order[1] ELSE None

\* Version::RecordReadSample: the first of at least two files that overlap.
SampledFile(v, k, s) ==
  LET order == ForEachOverlapping(v, k, s) IN IF Len(order) >= 2 THEN order[1] ELSE None

Value(e) == IF e = None \/ e.t = "deletion" THEN None ELSE e.s

\* DBImpl::Get: the memtable, the immutable memtable, then the version.
Get(m, i, v, k, s) ==
  IF Lookup(m, k, s) # None THEN Value(Lookup(m, k, s))
  ELSE IF Lookup(i, k, s) # None THEN Value(Lookup(i, k, s))
  ELSE Value(VersionGet(v, k, s))

\* What an iterator merges (NewInternalIterator, Version::AddIterators), and
\* what it shows of a key.
Merged(m, i, v) ==
  m \cup i \cup UNION {f.entries : f \in UNION {v[l] : l \in Levels}}
IteratorGet(m, i, v, k, s) == Value(Lookup(Merged(m, i, v), k, s))

-----------------------------------------------------------------------------
(***************************************************************************)
(* Versions.                                                               *)
(***************************************************************************)

NumbersOf(v) == {f.number : f \in UNION {v[l] : l \in Levels}}

\* The versions somebody holds a reference to, after a step that leaves
\* version v current and inputs, a version or None, for the compaction.
LiveVersions(v, inputs) ==
  {v} \cup ({inputs} \ {None}) \cup ({held[r] : r \in Readers} \ {None})

\* Mutant: pending outputs are not kept.
RemoveUnnamed(v, inputs, pending, onDisk) ==
  disk' = {n \in onDisk : \E w \in LiveVersions(v, inputs) : n \in NumbersOf(w)}

\* DBImpl::RemoveObsoleteFiles, its tables: those of a live version
\* (VersionSet::AddLiveFiles) and the pending outputs are kept.
RemoveObsoleteFiles(v, inputs, pending, onDisk) ==
  disk' = {n \in onDisk : n \in pending \/ \E w \in LiveVersions(v, inputs) : n \in NumbersOf(w)}

\* Mutant: the file charged for seeks is carried over to the new version.
LogAndApplyKeepingSeeks(deleted, added) ==
  /\ current' = [l \in Levels |->
       {f \in current[l] \cup added[l] :
          f.number \notin ({g.number : g \in deleted[l]} \ {g.number : g \in added[l]})}]
  /\ UNCHANGED file_to_compact

\* Builder::Apply and SaveTo, Finalize and AppendVersion: the edit that deletes
\* and adds the given files of a level becomes a version of its own, and no
\* file of it has been charged for seeks yet.
LogAndApply(deleted, added) ==
  /\ current' = [l \in Levels |->
       {f \in current[l] \cup added[l] :
          f.number \notin ({g.number : g \in deleted[l]} \ {g.number : g \in added[l]})}]
  /\ file_to_compact' = None

NoFiles == [l \in Levels |-> {}]

-----------------------------------------------------------------------------
(***************************************************************************)
(* Writes and the memtables.                                               *)
(***************************************************************************)

Write(k, t) ==
  LET e == [k |-> k, s |-> last_sequence + 1, t |-> t]
  IN /\ left' = [left EXCEPT !.writes = @ - 1, !.deletes = IF t = "deletion" THEN @ - 1 ELSE @]
     /\ left'.writes >= 0 /\ left'.deletes >= 0
     /\ last_sequence' = last_sequence + 1
     /\ mem' = mem \cup {e}
     /\ written' = written \cup {e}
     /\ UNCHANGED <<imm, current, file_to_compact, compact_pointer, next_file,
                    pending_outputs, disk, compaction, manual, snapshots, held>>

\* MakeRoomForWrite, when the memtable is full.
SwitchMemTable ==
  /\ mem # {} /\ imm = {}
  /\ imm' = mem
  /\ mem' = {}
  /\ UNCHANGED <<written, last_sequence, current, file_to_compact, compact_pointer, next_file,
                 pending_outputs, disk, compaction, manual, snapshots, held, left>>

\* Mutant: the level is chosen without looking at the level itself.
CanPushBlindly(v, level, lo, hi) ==
  level + 2 < kNumLevels =>
    TotalFileSize(GetOverlappingInputs(v, level + 2, lo, hi)) <= GrandParentLimit

\* A table with keys lo..hi may go one level further down than level.
CanPush(v, level, lo, hi) ==
  /\ ~OverlapInLevel(v, level + 1, lo, hi)
  /\ level + 2 < kNumLevels =>
       TotalFileSize(GetOverlappingInputs(v, level + 2, lo, hi)) <= GrandParentLimit

PickLevelForMemTableOutput(v, lo, hi) ==
  IF OverlapInLevel(v, 0, lo, hi) THEN 0
  ELSE Max({l \in 0..kMaxMemCompactLevel : \A up \in 0..(l - 1) : CanPush(v, up, lo, hi)})

\* CompactMemTable and WriteLevel0Table, by the background thread when it has
\* no compaction or from the loop of DoCompactionWork.
CompactMemTable ==
  LET f == NewFile(next_file, imm)
      level == PickLevelForMemTableOutput(current, f.smallest.k, f.largest.k)
  IN /\ imm # {}
     /\ compaction # None => compaction.todo # <<>>
     /\ next_file <= MaxFiles
     /\ next_file' = next_file + 1
     /\ LogAndApply(NoFiles, [NoFiles EXCEPT ![level] = {f}])
     /\ imm' = {}
     /\ RemoveObsoleteFiles(current', IF compaction = None THEN None ELSE compaction.version,
                            pending_outputs, disk \cup {next_file})
     /\ UNCHANGED <<written, last_sequence, mem, compact_pointer, pending_outputs,
                    compaction, manual, snapshots, held, left>>

\* The database is closed and opened again.  Recovery writes the entries of
\* the log to a table of level 0, without looking for a level (RecoverLogFile
\* passes no base version), and what was in flight is forgotten.  (It writes several
\* tables if the log is long, each as CompactMemTable may add one to level 0.)
Reopen ==
  /\ left.reopens > 0
  /\ left' = [left EXCEPT !.reopens = @ - 1]
  /\ mem # {} /\ imm = {} /\ compaction = None /\ snapshots = <<>>
  /\ \A r \in Readers : held[r] = None
  /\ next_file <= MaxFiles
  /\ next_file' = next_file + 1
  /\ LogAndApply(NoFiles, [NoFiles EXCEPT ![0] = {NewFile(next_file, mem)}])
  /\ mem' = {}
  /\ RemoveObsoleteFiles(current', None, {}, disk \cup {next_file})
  /\ UNCHANGED <<written, last_sequence, imm, compact_pointer, pending_outputs, compaction,
                 manual, snapshots, held>>

-----------------------------------------------------------------------------
(***************************************************************************)
(* Compactions.                                                            *)
(***************************************************************************)

MaxBytesForLevel(level) ==
  Loop([i \in 1..(level - 1) |-> [result \in Nat |-> 2 * result]], LevelBase, level - 1)

\* The score of a level in Finalize, as a fraction <<n, d>>.
Score(v, level) ==
  IF level = 0 THEN <<Cardinality(v[0]), kL0_CompactionTrigger>>
  ELSE <<TotalFileSize(v[level]), MaxBytesForLevel(level)>>
Higher(a, b) == a[1] * b[2] > b[1] * a[2]

\* VersionSet::Finalize: the first level with the highest score.
compaction_level(v) ==
  LET best_level == [level \in 1..(kNumLevels - 2) |-> [best \in 0..(kNumLevels - 2) |->
        IF Higher(Score(v, level), Score(v, best)) THEN level ELSE best]]
  IN Loop(best_level, 0, kNumLevels - 2)

size_compaction == LET s == Score(current, compaction_level(current)) IN s[1] >= s[2]

\* The first file after compact_pointer_, or the first of all.
NextFileOf(level) ==
  LET files == InOrder(current[level])
      after == {i \in DOMAIN files : \/ compact_pointer[level] = None
                                     \/ Before(compact_pointer[level], files[i].largest)}
  IN files[IF after = {} THEN 1 ELSE Min(after)]

\* Mutant: a file may be compacted without the rest of its last user key.
NoBoundaryInputs(files, inputs) == inputs

\* AddBoundaryInputs: as long as the user key that ends the inputs goes on in
\* another file of the level, the first such file is added (FindLargestKey,
\* FindSmallestBoundaryFile).
AddBoundaryInputs(files, inputs) ==
  LET end(S) == (CHOOSE f \in S : \A g \in S : ~Before(f.largest, g.largest)).largest
      boundary(S) == {f \in files : f.smallest.k = end(S).k /\ Before(end(S), f.smallest)}
      add == [S \in SUBSET files |->
        S \cup {f \in boundary(S) : \A g \in boundary(S) : ~Before(g.smallest, f.smallest)}]
  IN IF inputs = {} THEN {}
     ELSE Loop([i \in 1..Cardinality(files) |-> add], inputs, Cardinality(files))

\* SetupOtherInputs: the files of the next level in the range of the inputs,
\* more inputs if that adds no file of the next level, and the grandparents.
SetupOtherInputs(level, picked) ==
  LET below(S) == GetOverlappingInputs(current, level + 1, LowKey(S), HighKey(S))
      in0 == AddBoundaryInputs(current[level], picked)
      in1 == below(in0)
      wide0 == AddBoundaryInputs(current[level],
                 GetOverlappingInputs(current, level, LowKey(in0 \cup in1), HighKey(in0 \cup in1)))
      expand == /\ in1 # {}
                /\ Cardinality(wide0) > Cardinality(in0)
                /\ TotalFileSize(in1) + TotalFileSize(wide0) < ExpandedLimit
                /\ Cardinality(below(wide0)) = Cardinality(in1)
      inputs0 == IF expand THEN wide0 ELSE in0
      inputs1 == IF expand THEN below(wide0) ELSE in1
  IN [level |-> level, inputs0 |-> inputs0, inputs1 |-> inputs1, version |-> current,
      grandparents |->
        IF level + 2 < kNumLevels
        THEN GetOverlappingInputs(current, level + 2, LowKey(inputs0 \cup inputs1),
                                  HighKey(inputs0 \cup inputs1))
        ELSE {},
      largest |-> (CHOOSE f \in inputs0 : \A g \in inputs0 : ~Before(f.largest, g.largest)).largest]

\* VersionSet::PickCompaction, when a level is too large or a file was charged
\* with too many seeks.
NeedsCompaction == size_compaction \/ file_to_compact # None
PickCompaction ==
  LET level == IF size_compaction THEN compaction_level(current) ELSE file_to_compact.level
      f == IF size_compaction THEN NextFileOf(level) ELSE file_to_compact.file
  IN SetupOtherInputs(level,
       IF level = 0 THEN GetOverlappingInputs(current, 0, f.smallest.k, f.largest.k) ELSE {f})

IsTrivialMove(c) ==
  /\ Cardinality(c.inputs0) = 1 /\ c.inputs1 = {}
  /\ TotalFileSize(c.grandparents) <= GrandParentLimit

\* BackgroundCompaction: a file that nothing in the next level overlaps moves.
MoveFile ==
  LET c == PickCompaction
  IN /\ imm = {} /\ compaction = None /\ manual = None /\ NeedsCompaction
     /\ IsTrivialMove(c)
     /\ LogAndApply([NoFiles EXCEPT ![c.level] = c.inputs0],
                    [NoFiles EXCEPT ![c.level + 1] = c.inputs0])
     /\ compact_pointer' = [compact_pointer EXCEPT ![c.level] = c.largest]
     /\ UNCHANGED <<written, last_sequence, mem, imm, next_file, pending_outputs, disk,
                    compaction, manual, snapshots, held, left>>

\* Compaction::IsBaseLevelForKey: no deeper level has the key in its range.
IsBaseLevelForKey(c, k) ==
  \A l \in (c.level + 2)..(kNumLevels - 1) : Touching(c.version[l], k, k) = {}

InputEntries(c) == UNION {f.entries : f \in c.inputs0 \cup c.inputs1}

\* Mutant: a deletion is dropped although deeper levels have the key.
DropAnyDeletion(c, oldest, e) ==
  \/ \E d \in InputEntries(c) : d.k = e.k /\ d.s > e.s /\ d.s <= oldest
  \/ e.t = "deletion" /\ e.s <= oldest

\* DoCompactionWork: rule (A), a newer entry of the key hides this one from
\* every snapshot; or a deletion has nothing left to delete.
Dropped(c, oldest, e) ==
  \/ \E d \in InputEntries(c) : d.k = e.k /\ d.s > e.s /\ d.s <= oldest
  \/ e.t = "deletion" /\ e.s <= oldest /\ IsBaseLevelForKey(c, e.k)

\* The state of the loop of DoCompactionWork: the tables finished so far, the
\* one being built, and where ShouldStopBefore is in the grandparents.
Outputs ==
  [tables : Seq(SUBSET Entries), open : SUBSET Entries, grand : Nat, seen : BOOLEAN,
   bytes : Nat, dropped : BOOLEAN]

\* The tables that DoCompactionWork writes, as sets of entries: one ends when
\* it is large enough or, before an entry, when ShouldStopBefore finds that it
\* overlaps too much of the grandparents.  If the last entries are dropped, an
\* empty set stands for the end of the loop.
OutputTables(c, oldest) ==
  LET order == SortedBy(InputEntries(c), {p \in InputEntries(c) \X InputEntries(c) : Before(p[1], p[2])})
      grand == InOrder(c.grandparents)
      passed(acc, e) == {i \in (acc.grand + 1)..Len(grand) : Before(grand[i].largest, e)}
      overlap(acc, e) == acc.bytes + (IF acc.seen THEN TotalFileSize({grand[i] : i \in passed(acc, e)})
                                                  ELSE 0)
      closed(acc) == IF acc.open = {} THEN acc.tables ELSE Append(acc.tables, acc.open)
      step(acc, e) ==
        LET stop == overlap(acc, e) > GrandParentLimit
            tables == IF stop THEN closed(acc) ELSE acc.tables
            open == (IF stop THEN {} ELSE acc.open)
                      \cup (IF Dropped(c, oldest, e) THEN {} ELSE {e})
            full == Cardinality(open) >= max_file_size
        IN [tables |-> IF full THEN Append(tables, open) ELSE tables,
            open |-> IF full THEN {} ELSE open,
            grand |-> acc.grand + Cardinality(passed(acc, e)),
            seen |-> TRUE,
            bytes |-> IF stop THEN 0 ELSE overlap(acc, e),
            dropped |-> Dropped(c, oldest, e)]
      all == Loop([i \in 1..Len(order) |-> [acc \in Outputs |-> step(acc, order[i])]],
                  [tables |-> <<>>, open |-> {}, grand |-> 0, seen |-> FALSE,
                   bytes |-> 0, dropped |-> FALSE],
                  Len(order))
  IN closed(all) \o (IF all.dropped /\ all.open = {} THEN <<{}>> ELSE <<>>)

smallest_snapshot == IF snapshots = <<>> THEN last_sequence ELSE Head(snapshots)

Begin(c) ==
  /\ compaction' = [level |-> c.level, inputs0 |-> c.inputs0, inputs1 |-> c.inputs1,
                    version |-> c.version, todo |-> OutputTables(c, smallest_snapshot),
                    outputs |-> {}]
  /\ compact_pointer' = [compact_pointer EXCEPT ![c.level] = c.largest]

\* BackgroundCompaction, up to where DoCompactionWork releases the mutex.
StartCompaction ==
  /\ imm = {} /\ compaction = None /\ manual = None /\ NeedsCompaction
  /\ ~IsTrivialMove(PickCompaction)
  /\ Begin(PickCompaction)
  /\ UNCHANGED <<written, last_sequence, mem, imm, current, file_to_compact, next_file,
                 pending_outputs, disk, manual, snapshots, held, left>>

\* OpenCompactionOutputFile to FinishCompactionOutputFile.
WriteOutput ==
  /\ compaction # None /\ compaction.todo # <<>>
  /\ LET table == Head(compaction.todo)
     IN \/ /\ table = {}
           /\ compaction' = [compaction EXCEPT !.todo = Tail(@)]
           /\ UNCHANGED <<next_file, pending_outputs, disk>>
        \/ /\ table # {} /\ next_file <= MaxFiles
           /\ compaction' = [compaction EXCEPT !.todo = Tail(@),
                               !.outputs = @ \cup {NewFile(next_file, table)}]
           /\ next_file' = next_file + 1
           /\ pending_outputs' = pending_outputs \cup {next_file}
           /\ disk' = disk \cup {next_file}
  /\ UNCHANGED <<written, last_sequence, mem, imm, current, file_to_compact, compact_pointer,
                 manual, snapshots, held, left>>

\* InstallCompactionResults, CleanupCompaction, ReleaseInputs and the rest of
\* BackgroundCompaction: the edit is applied to the version current by now.
\* A manual compaction goes on after the last key that was compacted.
InstallCompaction ==
  LET c == compaction
  IN /\ c # None /\ c.todo = <<>>
     /\ LogAndApply([NoFiles EXCEPT ![c.level] = c.inputs0, ![c.level + 1] = c.inputs1],
                    [NoFiles EXCEPT ![c.level + 1] = c.outputs])
     /\ pending_outputs' = pending_outputs \ {f.number : f \in c.outputs}
     /\ compaction' = None
     /\ RemoveObsoleteFiles(current', None, pending_outputs', disk)
     /\ manual' = IF manual = None THEN None
                  ELSE [manual EXCEPT !.begin = HighKey(c.inputs0)]
     /\ UNCHANGED <<written, last_sequence, mem, imm, compact_pointer, next_file,
                    snapshots, held, left>>

-----------------------------------------------------------------------------
(***************************************************************************)
(* Manual compactions: DB::CompactRange of one level (TEST_CompactRange).  *)
(***************************************************************************)

CompactRange(level, range) ==
  /\ manual = None
  /\ manual' = [level |-> level, begin |-> range[1], end |-> range[2]]
  /\ UNCHANGED <<written, last_sequence, mem, imm, current, file_to_compact, compact_pointer,
                 next_file, pending_outputs, disk, compaction, snapshots, held, left>>

\* VersionSet::CompactRange: below level 0, no more files than fill one table.
ManualInputs(level, lo, hi) ==
  LET all == InOrder(GetOverlappingInputs(current, level, lo, hi))
      total(n) == TotalFileSize({all[i] : i \in 1..n})
      enough == {n \in 1..Len(all) : level > 0 /\ total(n) >= max_file_size}
  IN {all[i] : i \in 1..(IF enough = {} THEN Len(all) ELSE Min(enough))}

\* A round of the manual compaction; it is done when there is no input left.
StartManual ==
  /\ manual # None /\ imm = {} /\ compaction = None
  /\ LET inputs == ManualInputs(manual.level, manual.begin, manual.end)
     IN \/ /\ inputs = {}
           /\ manual' = None
           /\ UNCHANGED <<compaction, compact_pointer>>
        \/ /\ inputs # {}
           /\ Begin(SetupOtherInputs(manual.level, inputs))
           /\ UNCHANGED manual
  /\ UNCHANGED <<written, last_sequence, mem, imm, current, file_to_compact,
                 next_file, pending_outputs, disk, snapshots, held, left>>

-----------------------------------------------------------------------------
(***************************************************************************)
(* Snapshots and readers.                                                  *)
(***************************************************************************)

GetSnapshot ==
  /\ left.holds > 0
  /\ left' = [left EXCEPT !.holds = @ - 1]
  /\ snapshots' = Append(snapshots, last_sequence)
  /\ UNCHANGED <<written, last_sequence, mem, imm, current, file_to_compact, compact_pointer,
                 next_file, pending_outputs, disk, compaction, manual, held>>

ReleaseSnapshot(i) ==
  /\ snapshots' = RemoveAt(snapshots, i)
  /\ UNCHANGED <<written, last_sequence, mem, imm, current, file_to_compact, compact_pointer,
                 next_file, pending_outputs, disk, compaction, manual, held, left>>

\* The first critical section of Get and of NewIterator takes references to
\* the memtables, which only grow by entries the read does not see, and to the
\* current version.
BeginRead(r) ==
  /\ held[r] = None /\ left.holds > 0
  /\ left' = [left EXCEPT !.holds = @ - 1]
  /\ held' = [held EXCEPT ![r] = current]
  /\ UNCHANGED <<written, last_sequence, mem, imm, current, file_to_compact, compact_pointer,
                 next_file, pending_outputs, disk, compaction, manual, snapshots>>

\* The end of Get; CleanupIteratorState.
EndRead(r) ==
  /\ held[r] # None
  /\ held' = [held EXCEPT ![r] = None]
  /\ UNCHANGED <<written, last_sequence, mem, imm, current, file_to_compact, compact_pointer,
                 next_file, pending_outputs, disk, compaction, manual, snapshots, left>>

\* Version::UpdateStats, when the charge exhausts allowed_seeks.
UpdateStats(charged) ==
  /\ left.charges > 0
  /\ charged # None /\ file_to_compact = None
  /\ left' = [left EXCEPT !.charges = @ - 1]
  /\ file_to_compact' = charged
  /\ UNCHANGED <<written, last_sequence, mem, imm, current, compact_pointer, next_file,
                 pending_outputs, disk, compaction, manual, snapshots, held>>

\* A Get, now or at a snapshot, that had to read the version, and a second file
\* of it.  (The charge of a version that is no longer current has no effect.)
ChargeGet(k, s) ==
  /\ Lookup(mem \cup imm, k, s) = None
  /\ UpdateStats(SeekFile(current, k, s))

\* DBImpl::RecordReadSample, from an iterator that passes an entry.
RecordReadSample(e) == UpdateStats(SampledFile(current, e.k, e.s))

-----------------------------------------------------------------------------
Next ==
  \/ \E k \in Keys, t \in Types : Write(k, t)
  \/ SwitchMemTable
  \/ CompactMemTable
  \/ Reopen
  \/ MoveFile
  \/ StartCompaction
  \/ WriteOutput
  \/ InstallCompaction
  \/ GetSnapshot
  \/ \E i \in DOMAIN snapshots : ReleaseSnapshot(i)
  \/ \E r \in Readers : BeginRead(r) \/ EndRead(r)
  \/ \E k \in Keys, s \in {last_sequence} \cup ToSet(snapshots) : ChargeGet(k, s)
  \/ \E e \in written : RecordReadSample(e)

Spec == Init /\ [][Next]_vars

ManualNext ==
  \/ Next
  \/ StartManual
  \/ \E level \in 0..(kNumLevels - 2), range \in ManualRanges : CompactRange(level, range)

ManualSpec == Init /\ [][ManualNext]_vars

-----------------------------------------------------------------------------
(***************************************************************************)
(* Properties.                                                             *)
(***************************************************************************)

\* What key k had when s was the last sequence number.
Expected(k, s) == Value(Lookup(written, k, s))

SeenExactly(m, i, v, s) ==
  \A k \in Keys : /\ Get(m, i, v, k, s) = Expected(k, s)
                  /\ IteratorGet(m, i, v, k, s) = Expected(k, s)

\* A Get and an iterator see the newest entry of every key, now and at every
\* snapshot that is held, whatever was flushed, moved, merged or dropped.
ReadsExact ==
  \A s \in {last_sequence} \cup ToSet(snapshots) : SeenExactly(mem, imm, current, s)

\* No file of the output level that the running compaction leaves alone has a
\* user key in common with its inputs of that level.  (AddBoundaryInputs is
\* called for the inputs of the upper level only.)
InputsWhole ==
  compaction # None =>
    \A f \in current[compaction.level + 1] \ compaction.inputs1, g \in compaction.inputs1 :
      f.largest.k < g.smallest.k \/ g.largest.k < f.smallest.k

\* Reads are exact (ReadsExact) as long as no compaction divides the entries that
\* two files of its output level have of one user key.
UnsplitReadsExact == []InputsWhole => []ReadsExact

\* A database that holds no snapshot always reads exactly: every merge then keeps
\* at most one entry of a user key, so no key is ever in two files of a level.
SnapshotFreeReadsExact == [](snapshots = <<>>) => []ReadsExact

\* No table is deleted that somebody still reads or that a version names: not
\* those of a reader's version, not the inputs or the finished outputs of the
\* running compaction, although a memtable is flushed and obsolete files are
\* removed in the middle of it.
NoTableDeletedInUse ==
  LET inUse == {current} \cup ({held[r] : r \in Readers} \ {None})
                 \cup {c.version : c \in {compaction} \ {None}}
  IN /\ \A v \in inUse : NumbersOf(v) \subseteq disk
     /\ compaction # None => {f.number : f \in compaction.outputs} \subseteq disk

\* The files of a level below level 0 do not overlap (what SaveTo asserts), so
\* that the binary search of a level finds the one file that may hold a key.
LevelsDisjoint ==
  \A l \in Levels \ {0} : \A f, g \in current[l] :
    f = g \/ Before(f.largest, g.smallest) \/ Before(g.largest, f.smallest)
=============================================================================
