------------------------------- MODULE Iterators -------------------------------
(***************************************************************************)
(* What an iterator of the database does to answer one call, from the      *)
(* user's DBIter down to the blocks of the tables: DBIter (db_iter.cc)     *)
(* over a MergingIterator (merger.cc) of the memtable, the tables of level *)
(* 0 and, for a deeper level, a TwoLevelIterator of its files, each of     *)
(* them a TwoLevelIterator of index and blocks (two_level_iterator.cc).    *)
(* Every layer keeps a position, and the two upper ones a direction that   *)
(* a change from Next to Prev, or back, has to turn round.                 *)
(*                                                                         *)
(* The initial states are the ways a few writes can lie in memtable,       *)
(* tables and level.  The contents do not change: an iterator reads a      *)
(* fixed memtable prefix and version, at one sequence number.  Each        *)
(* behaviour uses one iterator, or looks keys up in the tables.            *)
(***************************************************************************)
EXTENDS Tables

CONSTANTS
  Keys,      \* the user keys written
  Targets,   \* the user keys sought
  MaxSeq,    \* bound: writes
  FileSize,  \* entries of a file of the deeper level
  Deletions, \* the sets of writes that delete, one to be chosen
  Big        \* the writes with large values

Seqs == 1..MaxSeq
Places == {"mem", "level0", "level1"}

VARIABLES
  writes,   \* the entry of every sequence number, and where it lies
  sequence, \* the number the reads are made at
  tables,   \* the tables of level 0 and level 1
  iter,     \* the DBIter, or <<>>
  want,     \* the user key a sorted map would be at now, NoKey at none
  found     \* the last lookup in a table: what came, and what should have

vars == <<writes, sequence, tables, iter, want, found>>

-------------------------------------------------------------------------------
(* Iterators over the memtable and over the files of a level: a position   *)
(* in a sorted list.                                                       *)

NewListIterator(list) == [kind |-> "list", list |-> list, index |-> Len(list) + 1]

\* SkipList::Iterator::Seek and FindFile
ListSeek(it, target) ==
  [it EXCEPT !.index = Min({i \in 1..Len(it.list) : ~Before(it.list[i].at, target)} \cup {Len(it.list) + 1})]

\* The positions Next and Prev of MemTableIterator and LevelFileNumIterator give.
ListMoves(it, index) == [it EXCEPT !.index = IF index = 0 THEN Len(it.list) + 1 ELSE index]

-------------------------------------------------------------------------------
(* TwoLevelIterator, and the calls of an iterator of any kind.  data is    *)
(* <<>> or an iterator over what handle stands for.                        *)

NewTwoLevelIterator(index, source) ==
  [kind |-> "two", index |-> index, source |-> source, data |-> <<>>, handle |-> <<>>]

NewTableIterator(table) == NewTwoLevelIterator(NewBlockIterator(table.index), table.blocks)

NewConcatenatingIterator(files) ==
  NewTwoLevelIterator(NewListIterator([i \in 1..Len(files) |-> [at |-> files[i].largest, value |-> i]]), files)

\* GetFileIterator and Table::BlockReader
BlockFunction(x) == IF x.kind = "table" THEN NewTableIterator(x) ELSE NewBlockIterator(x)

RECURSIVE Valid(_)
Valid(it) ==
  CASE it.kind = "list"  -> it.index <= Len(it.list)
    [] it.kind = "block" -> BlockValid(it)
    [] it.kind = "two"   -> it.data # <<>> /\ Valid(it.data)

RECURSIVE Key(_)
Key(it) ==
  CASE it.kind = "list"  -> it.list[it.index].at
    [] it.kind = "block" -> it.key
    [] it.kind = "two"   -> Key(it.data)

RECURSIVE Value(_)
Value(it) ==
  CASE it.kind = "list"  -> it.list[it.index].value
    [] it.kind = "block" -> it.block.entries[it.current].value
    [] it.kind = "two"   -> Value(it.data)

InitDataBlock(it) ==
  IF ~Valid(it.index) THEN [it EXCEPT !.data = <<>>]
  ELSE IF it.data # <<>> /\ it.handle = Value(it.index) THEN it
  ELSE [it EXCEPT !.data = BlockFunction(it.source[Value(it.index)]), !.handle = Value(it.index)]

HasEntry(it) == it.data # <<>> /\ Valid(it.data)

RECURSIVE SeekToFirst(_), SeekToLast(_), Next(_), Prev(_), Seek(_, _),
          SkipEmptyDataBlocksForward(_), SkipEmptyDataBlocksBackward(_)

\* The data iterator, if there is one, moved.
DataToFirst(it) == IF it.data = <<>> THEN it ELSE [it EXCEPT !.data = SeekToFirst(@)]
DataToLast(it)  == IF it.data = <<>> THEN it ELSE [it EXCEPT !.data = SeekToLast(@)]
DataSeek(it, target) == IF it.data = <<>> THEN it ELSE [it EXCEPT !.data = Seek(@, target)]

SkipEmptyDataBlocksForward(it) ==
  IF HasEntry(it) THEN it
  ELSE IF ~Valid(it.index) THEN [it EXCEPT !.data = <<>>]
  ELSE SkipEmptyDataBlocksForward(DataToFirst(InitDataBlock([it EXCEPT !.index = Next(@)])))

SkipEmptyDataBlocksBackward(it) ==
  IF HasEntry(it) THEN it
  ELSE IF ~Valid(it.index) THEN [it EXCEPT !.data = <<>>]
  ELSE SkipEmptyDataBlocksBackward(DataToLast(InitDataBlock([it EXCEPT !.index = Prev(@)])))

TwoLevelSeek(it, target) ==
  SkipEmptyDataBlocksForward(DataSeek(InitDataBlock([it EXCEPT !.index = Seek(@, target)]), target))

SeekToFirst(it) ==
  CASE it.kind = "list"  -> ListMoves(it, 1)
    [] it.kind = "block" -> BlockFirst(it)
    [] it.kind = "two"   ->
         SkipEmptyDataBlocksForward(DataToFirst(InitDataBlock([it EXCEPT !.index = SeekToFirst(@)])))

SeekToLast(it) ==
  CASE it.kind = "list"  -> ListMoves(it, Len(it.list))
    [] it.kind = "block" -> BlockLast(it)
    [] it.kind = "two"   ->
         SkipEmptyDataBlocksBackward(DataToLast(InitDataBlock([it EXCEPT !.index = SeekToLast(@)])))

Seek(it, target) ==
  CASE it.kind = "list"  -> ListSeek(it, target)
    [] it.kind = "block" -> BlockSeek(it, target)
    [] it.kind = "two"   -> TwoLevelSeek(it, target)

Next(it) ==
  CASE it.kind = "list"  -> ListMoves(it, it.index + 1)
    [] it.kind = "block" -> BlockNext(it)
    [] it.kind = "two"   -> SkipEmptyDataBlocksForward([it EXCEPT !.data = Next(@)])

Prev(it) ==
  CASE it.kind = "list"  -> ListMoves(it, it.index - 1)
    [] it.kind = "block" -> BlockPrev(it)
    [] it.kind = "two"   -> SkipEmptyDataBlocksBackward([it EXCEPT !.data = Prev(@)])

-------------------------------------------------------------------------------
(* MergingIterator.  current is 0 if no child is valid.                    *)

NewMergingIterator(children) == [children |-> children, current |-> 0, direction |-> "forward"]

MergerValid(m) == m.current # 0
MergerKey(m) == Key(m.children[m.current])
MergerValue(m) == Value(m.children[m.current])

ValidChildren(m) == {i \in DOMAIN m.children : Valid(m.children[i])}

\* The first child with the smallest key, the last one with the largest.
FindSmallest(m) ==
  [m EXCEPT !.current =
     Min({i \in ValidChildren(m) :
            \A j \in ValidChildren(m) : ~Before(Key(m.children[j]), Key(m.children[i]))} \cup
         (IF ValidChildren(m) = {} THEN {0} ELSE {}))]

FindLargest(m) ==
  [m EXCEPT !.current =
     Max({0} \cup {i \in ValidChildren(m) :
            \A j \in ValidChildren(m) : ~Before(Key(m.children[i]), Key(m.children[j]))})]

MergerSeekToFirst(m) ==
  FindSmallest([m EXCEPT !.direction = "forward", !.children = [i \in DOMAIN @ |-> SeekToFirst(@[i])]])
MergerSeekToLast(m) ==
  FindLargest([m EXCEPT !.direction = "reverse", !.children = [i \in DOMAIN @ |-> SeekToLast(@[i])]])
MergerSeek(m, target) ==
  FindSmallest([m EXCEPT !.direction = "forward", !.children = [i \in DOMAIN @ |-> Seek(@[i], target)]])

\* All children but the current one placed after, before the current key.
AfterKey(c, key) ==
  LET s == Seek(c, key) IN IF Valid(s) /\ Key(s) = key THEN Next(s) ELSE s
BeforeKey(c, key) ==
  LET s == Seek(c, key) IN IF Valid(s) THEN Prev(s) ELSE SeekToLast(s)

\* Mutant: the other children stay where the backward scan left them.
TurnForwardOnlyCurrent(m) == [m EXCEPT !.direction = "forward"]

TurnForward(m) ==
  IF m.direction = "forward" THEN m
  ELSE [m EXCEPT !.direction = "forward",
                 !.children = [i \in DOMAIN @ |-> IF i = m.current THEN @[i] ELSE AfterKey(@[i], MergerKey(m))]]
TurnReverse(m) ==
  IF m.direction = "reverse" THEN m
  ELSE [m EXCEPT !.direction = "reverse",
                 !.children = [i \in DOMAIN @ |-> IF i = m.current THEN @[i] ELSE BeforeKey(@[i], MergerKey(m))]]

MergerNext(m) == LET t == TurnForward(m) IN FindSmallest([t EXCEPT !.children[t.current] = Next(@)])
MergerPrev(m) == LET t == TurnReverse(m) IN FindLargest([t EXCEPT !.children[t.current] = Prev(@)])

-------------------------------------------------------------------------------
(* DBIter. *)

NewDBIterator(m) ==
  [iter |-> m, direction |-> "forward", valid |-> FALSE, saved_key |-> NoKey, saved_value |-> {}]

AtEntry(d) == MergerValue(d.iter)
MoveTo(d, m) == [d EXCEPT !.iter = m]
ClearSavedKey(d) == [d EXCEPT !.saved_key = NoKey]
ClearSaved(d) == [d EXCEPT !.saved_key = NoKey, !.saved_value = {}]

\* DBIter::key and ::value
UserKey(d) == IF d.direction = "forward" THEN AtEntry(d).key ELSE d.saved_key
UserValue(d) == IF d.direction = "forward" THEN {AtEntry(d)} ELSE d.saved_value

\* skip may hold what Seek left in saved_key: it is only read when skipping.
RECURSIVE FindNextUserEntry(_, _)
FindNextUserEntry(d, skipping) ==
  LET e == AtEntry(d)
      visible == e.seq <= sequence
      hidden == skipping /\ ~Less(d.saved_key, e.key)
      deletes == visible /\ e.type = "delete"
      moved == MoveTo(IF deletes THEN [d EXCEPT !.saved_key = e.key] ELSE d, MergerNext(d.iter))
  IN  IF visible /\ e.type = "put" /\ ~hidden
      THEN [ClearSavedKey(d) EXCEPT !.valid = TRUE]
      ELSE IF MergerValid(moved.iter)
           THEN FindNextUserEntry(moved, skipping \/ deletes)
           ELSE [ClearSavedKey(moved) EXCEPT !.valid = FALSE]

\* The loop of FindPrevUserEntry, with the type of the last entry seen.
RECURSIVE ScanBack(_, _)
ScanBack(d, value_type) ==
  LET e == AtEntry(d)
      visible == e.seq <= sequence
      passed == visible /\ value_type = "put" /\ Less(e.key, d.saved_key)
      noted == IF ~visible THEN d
               ELSE IF e.type = "delete" THEN ClearSaved(d)
               ELSE [d EXCEPT !.saved_key = e.key, !.saved_value = {e}]
      type == IF visible THEN e.type ELSE value_type
      moved == MoveTo(noted, MergerPrev(d.iter))
  IN  IF passed THEN [d |-> d, type |-> value_type]
      ELSE IF MergerValid(moved.iter) THEN ScanBack(moved, type)
      ELSE [d |-> moved, type |-> type]

FindPrevUserEntry(d) ==
  LET s == IF MergerValid(d.iter) THEN ScanBack(d, "delete") ELSE [d |-> d, type |-> "delete"]
  IN  IF s.type = "delete"
      THEN [ClearSaved(s.d) EXCEPT !.valid = FALSE, !.direction = "forward"]
      ELSE [s.d EXCEPT !.valid = TRUE]

NotFound(d) == [ClearSavedKey(d) EXCEPT !.valid = FALSE]

DBNext(d) ==
  LET m == IF d.direction = "forward" THEN MergerNext(d.iter)
           ELSE IF MergerValid(d.iter) THEN MergerNext(d.iter)
           ELSE MergerSeekToFirst(d.iter)
      skip == IF d.direction = "forward" THEN AtEntry(d).key ELSE d.saved_key
      moved == [MoveTo(d, m) EXCEPT !.direction = "forward", !.saved_key = skip]
  IN  IF MergerValid(m) THEN FindNextUserEntry(moved, TRUE) ELSE NotFound(moved)

\* Moves back until the user key changes.
RECURSIVE LeaveKey(_)
LeaveKey(d) ==
  LET moved == MoveTo(d, MergerPrev(d.iter))
  IN  IF MergerValid(moved.iter) /\ ~Less(AtEntry(moved).key, d.saved_key) THEN LeaveKey(moved) ELSE moved

DBPrev(d) ==
  LET left == LeaveKey([d EXCEPT !.saved_key = AtEntry(d).key])
  IN  IF d.direction = "reverse" THEN FindPrevUserEntry(d)
      ELSE IF MergerValid(left.iter) THEN FindPrevUserEntry([left EXCEPT !.direction = "reverse"])
      ELSE [ClearSaved(left) EXCEPT !.valid = FALSE]

DBSeek(d, k) ==
  LET moved == [MoveTo(d, MergerSeek(d.iter, Internal(k, sequence)))
                  EXCEPT !.direction = "forward", !.saved_value = {}, !.saved_key = k]
  IN  IF MergerValid(moved.iter) THEN FindNextUserEntry(moved, FALSE) ELSE [moved EXCEPT !.valid = FALSE]

DBSeekToFirst(d) ==
  LET moved == [MoveTo(d, MergerSeekToFirst(d.iter)) EXCEPT !.direction = "forward", !.saved_value = {}]
  IN  IF MergerValid(moved.iter) THEN FindNextUserEntry(moved, FALSE) ELSE [moved EXCEPT !.valid = FALSE]

DBSeekToLast(d) ==
  FindPrevUserEntry([MoveTo(d, MergerSeekToLast(d.iter)) EXCEPT !.direction = "reverse", !.saved_value = {}])

-------------------------------------------------------------------------------
(* Where the writes can lie, and what a sorted map would show of them.     *)

\* Newer entries of a key lie above older ones; the memtable has the newest.
Above(p, q) == p = "mem" \/ q = "level1" \/ p = q
Layered(w) ==
  \A s, t \in Seqs :
    s > t => /\ w[t].place = "mem" => w[s].place = "mem"
             /\ w[s].key = w[t].key => Above(w[s].place, w[t].place)

Entry(s) == [key |-> writes[s].key, seq |-> s, type |-> writes[s].type, size |-> writes[s].size]
EntriesAt(place) ==
  SetToSortSeq({Entry(s) : s \in {t \in Seqs : writes[t].place = place}}, Before)

\* The files of a level: its entries, FileSize to a file.
FilesOf(entries) ==
  [i \in 1..((Len(entries) + FileSize - 1) \div FileSize) |->
     BuildTable(SubSeq(entries, 1 + (i - 1) * FileSize, Min({i * FileSize, Len(entries)})))]

Level0 == IF EntriesAt("level0") = <<>> THEN <<>> ELSE <<BuildTable(EntriesAt("level0"))>>

\* DBImpl::NewInternalIterator and Version::AddIterators
NewInternalIterator(t) ==
  LET mem == EntriesAt("mem")
  IN  NewMergingIterator(
        <<NewListIterator([i \in 1..Len(mem) |-> DataEntry(mem[i])])>>
        \o [i \in 1..Len(t.level0) |-> NewTableIterator(t.level0[i])]
        \o (IF t.level1 = <<>> THEN <<>> ELSE <<NewConcatenatingIterator(t.level1)>>))

Newest(k) == {s \in Seqs : /\ s <= sequence /\ writes[s].key = k
                           /\ \A t \in Seqs : t > s /\ writes[t].key = k => t > sequence}
Present == {k \in Keys : \E s \in Newest(k) : writes[s].type = "put"}

FirstKey(S) == IF S = {} THEN NoKey ELSE CHOOSE k \in S : \A l \in S : ~Less(l, k)
LastKey(S)  == IF S = {} THEN NoKey ELSE CHOOSE k \in S : \A l \in S : ~Less(k, l)

-------------------------------------------------------------------------------
Init ==
  /\ \E keys \in [Seqs -> Keys], places \in [Seqs -> Places], deletions \in Deletions :
       writes = [s \in Seqs |-> [key |-> keys[s], place |-> places[s],
                                 type |-> IF s \in deletions THEN "delete" ELSE "put",
                                 size |-> IF s \in Big THEN 2 * kFilterBase ELSE 1]]
  /\ Layered(writes)
  /\ sequence = 0
  /\ tables = [level0 |-> Level0, level1 |-> FilesOf(EntriesAt("level1"))]
  /\ iter = <<>>
  /\ want = NoKey
  /\ found = [got |-> {}, due |-> {}]

\* DBImpl::NewIterator, at the snapshot of any of the writes.
NewIterator ==
  /\ iter = <<>>
  /\ sequence' \in Seqs
  /\ iter' = NewDBIterator(NewInternalIterator(tables))
  /\ UNCHANGED <<writes, tables, want, found>>

Moves(new, key) ==
  /\ iter' = new
  /\ want' = key
  /\ UNCHANGED <<writes, sequence, tables, found>>

IterSeek == iter # <<>> /\ \E k \in Targets : Moves(DBSeek(iter, k), FirstKey({l \in Present : ~Less(l, k)}))
IterSeekToFirst == iter # <<>> /\ Moves(DBSeekToFirst(iter), FirstKey(Present))
IterSeekToLast == iter # <<>> /\ Moves(DBSeekToLast(iter), LastKey(Present))
IterNext == iter # <<>> /\ iter.valid /\ Moves(DBNext(iter), FirstKey({l \in Present : Less(want, l)}))
IterPrev == iter # <<>> /\ iter.valid /\ Moves(DBPrev(iter), LastKey({l \in Present : Less(l, want)}))

\* Version::Get asks a table, at any of the sequence numbers, for a key.
Lookup ==
  /\ iter = <<>>
  /\ \E s \in Seqs, k \in Targets, place \in {"level0", "level1"} :
       \E t \in Range(IF place = "level0" THEN tables.level0 ELSE tables.level1) :
         LET of == {e \in {Entry(n) : n \in Seqs} :
                      /\ \E b \in Range(t.blocks) : DataEntry(e) \in Range(b.entries)
                      /\ e.key = k /\ e.seq <= s}
         IN  found' = [got |-> InternalGet(t, Internal(k, s)),
                       due |-> {e \in of : \A f \in of : f.seq <= e.seq}]
  /\ UNCHANGED <<writes, sequence, tables, iter, want>>

IterNextState ==
  \/ NewIterator \/ IterSeek \/ IterSeekToFirst \/ IterSeekToLast \/ IterNext \/ IterPrev \/ Lookup

Spec == Init /\ [][IterNextState]_vars

-------------------------------------------------------------------------------
(* Properties. *)

\* After any sequence of calls an iterator is where an iterator over a sorted
\* map of the visible writes would be, and shows the newest visible value:
\* no hidden, deleted or too new entry is shown and none is passed over,
\* whichever way the calls turn.
IteratorExact ==
  iter # <<>> =>
    /\ iter.valid <=> want # NoKey
    /\ iter.valid => /\ UserKey(iter) = want
                     /\ UserValue(iter) = {Entry(s) : s \in Newest(want)}

\* A lookup in a table finds the newest entry of the key at the sequence
\* number if the table has one, whatever the index keys were shortened to,
\* and however blocks lie over the ranges the filters stand for.
LookupExact == found.got = found.due
===============================================================================
