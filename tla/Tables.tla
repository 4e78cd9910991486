-------------------------------- MODULE Tables --------------------------------
(***************************************************************************)
(* Sorted tables: how TableBuilder, BlockBuilder and FilterBlockBuilder    *)
(* lay a sequence of entries out in blocks with an index and filters, and  *)
(* how Table::InternalGet and the iterator of a block find them again      *)
(* (src/cpp/leveldb/table, util/bloom.cc, util/comparator.cc).             *)
(*                                                                         *)
(* A user key is a sequence of bytes 0..MaxByte.  An internal key is a     *)
(* user key with a sequence number, the newest first; an entry adds the    *)
(* type, and stands for its value too, as no two entries share a number.   *)
(* Sizes are in units, and an entry counts for its own size.  Blocks are   *)
(* read back as they were written: checksums, compression and damaged      *)
(* blocks are left out.                                                    *)
(***************************************************************************)
EXTENDS Integers, Sequences, SequencesExt, FiniteSetsExt

CONSTANTS
  MaxByte,                 \* 0xff
  kMaxSequenceNumber,
  block_size,              \* Options::block_size, in units
  block_restart_interval,  \* Options::block_restart_interval, in entries
  kFilterBase,             \* units of file one filter stands for
  Probe                    \* Probe[k]: the bits the Bloom filter sets for key k

NoKey == <<>>

-------------------------------------------------------------------------------
(* Keys. *)

\* Slice::compare < 0
Less(a, b) ==
  \E i \in 1..Len(b) :
    /\ i <= Len(a) + 1
    /\ \A j \in 1..(i - 1) : a[j] = b[j]
    /\ i <= Len(a) => a[i] < b[i]

\* InternalKeyComparator::Compare < 0
Before(x, y) == Less(x.key, y.key) \/ (x.key = y.key /\ x.seq > y.seq)

Internal(k, s) == [key |-> k, seq |-> s]
KeyIn(e) == Internal(e.key, e.seq)

\* BytewiseComparatorImpl::FindShortestSeparator and ::FindShortSuccessor
ShortestSeparator(start, limit) ==
  LET differ == {i \in 1..Min({Len(start), Len(limit)}) : start[i] # limit[i]}
      i == Min(differ)
  IN  IF differ # {} /\ start[i] < MaxByte /\ start[i] + 1 < limit[i]
      THEN Append(SubSeq(start, 1, i - 1), start[i] + 1)
      ELSE start

ShortSuccessor(key) ==
  LET low == {i \in 1..Len(key) : key[i] # MaxByte}
      i == Min(low)
  IN  IF low # {} THEN Append(SubSeq(key, 1, i - 1), key[i] + 1) ELSE key

\* The internal key for a shortened user key, or the old one.
Shortened(old, tmp) ==
  IF Len(tmp) < Len(old.key) /\ Less(old.key, tmp)
  THEN Internal(tmp, kMaxSequenceNumber)
  ELSE old

FindShortestSeparator(start, limit) == Shortened(start, ShortestSeparator(start.key, limit.key))
FindShortSuccessor(key) == Shortened(key, ShortSuccessor(key.key))

-------------------------------------------------------------------------------
(* Filters: the Bloom filter of a set of keys is the set of the bits set.  *)

CreateFilter(keys) == UNION {Probe[k] : k \in keys}
BloomMayMatch(filter, k) == filter # {} /\ Probe[k] \subseteq filter

NoFilters == [keys |-> {}, filters |-> <<>>]

GenerateFilter(f) == [keys |-> {}, filters |-> Append(f.filters, CreateFilter(f.keys))]

\* Mutant: the filter of the range the block starts in is closed too.
StartBlockEager(f, block_offset) ==
  IF block_offset \div kFilterBase >= Len(f.filters) THEN GenerateFilter(f) ELSE f

RECURSIVE StartBlock(_, _)
StartBlock(f, block_offset) ==
  IF block_offset \div kFilterBase > Len(f.filters)
  THEN StartBlock(GenerateFilter(f), block_offset)
  ELSE f

AddKey(f, e) == [f EXCEPT !.keys = @ \cup {e.key}]

FinishFilter(f) == IF f.keys # {} THEN GenerateFilter(f) ELSE f

\* FilterBlockReader::KeyMayMatch
KeyMayMatch(f, block_offset, k) ==
  LET index == block_offset \div kFilterBase
  IN  index < Len(f.filters) => BloomMayMatch(f.filters[index + 1], k)

-------------------------------------------------------------------------------
(* Blocks: entries x with a key x.at, and the places of the restarts,      *)
(* where keys are stored whole; any other key is the one before it with    *)
(* an ending of its own.                                                   *)

Block(entries, interval) ==
  [kind |-> "block", entries |-> entries,
   restarts |-> [r \in 1..Max({1, (Len(entries) + interval - 1) \div interval}) |-> 1 + (r - 1) * interval]]

DataEntry(e) == [at |-> KeyIn(e), value |-> e]

SizeOf(entries) == FoldLeft(LAMBDA n, x : n + x.value.size, 0, entries)

\* Block::Iter.  current is the entry it is at, end the place after the
\* entry read last; key is NoKey until one is read.
NewBlockIterator(b) ==
  [kind |-> "block", block |-> b, current |-> Len(b.entries) + 1, end |-> 1,
   restart_index |-> Len(b.restarts) + 1, key |-> NoKey]

BlockValid(it) == it.current <= Len(it.block.entries)

\* A key that is not stored whole is read onto the key before it.
DecodeEntry(it, n) ==
  LET entries == it.block.entries
      whole == \E r \in DOMAIN it.block.restarts : it.block.restarts[r] = n
  IN  IF whole \/ (n > 1 /\ it.key = entries[n - 1].at) THEN entries[n].at ELSE NoKey

SeekToRestartPoint(it, r) ==
  [it EXCEPT !.key = NoKey, !.restart_index = r, !.end = it.block.restarts[r]]

ParseNextKey(it) ==
  LET n == it.end
      restarts == it.block.restarts
  IN  IF n > Len(it.block.entries)
      THEN [it EXCEPT !.current = Len(it.block.entries) + 1, !.restart_index = Len(restarts) + 1]
      ELSE [it EXCEPT !.current = n, !.end = n + 1, !.key = DecodeEntry(it, n),
                      !.restart_index = Max({@} \cup {r \in DOMAIN restarts : r > it.restart_index /\ restarts[r] < n})]

\* Parses entries until none is left or the one read ends at stop.
RECURSIVE ParseUpTo(_, _)
ParseUpTo(it, stop) ==
  LET new == ParseNextKey(it)
  IN  IF BlockValid(new) /\ new.end < stop THEN ParseUpTo(new, stop) ELSE new

RECURSIVE ParseTo(_, _)
ParseTo(it, target) ==
  LET new == ParseNextKey(it)
  IN  IF BlockValid(new) /\ Before(new.key, target) THEN ParseTo(new, target) ELSE new

\* The last restart point with a key before target, or the first one.
RECURSIVE RestartFor(_, _, _, _)
RestartFor(b, target, left, right) ==
  LET mid == (left + right + 1) \div 2
  IN  IF left >= right THEN left
      ELSE IF Before(b.entries[b.restarts[mid]].at, target)
           THEN RestartFor(b, target, mid, right)
           ELSE RestartFor(b, target, left, mid - 1)

BlockSeek(it, target) ==
  ParseTo(SeekToRestartPoint(it, RestartFor(it.block, target, 1, Len(it.block.restarts))), target)

BlockFirst(it) == ParseNextKey(SeekToRestartPoint(it, 1))
BlockLast(it) ==
  ParseUpTo(SeekToRestartPoint(it, Len(it.block.restarts)), Len(it.block.entries) + 1)
BlockNext(it) == ParseNextKey(it)
BlockPrev(it) ==
  LET earlier == {r \in 1..it.restart_index : it.block.restarts[r] < it.current}
  IN  IF earlier = {}
      THEN [it EXCEPT !.current = Len(it.block.entries) + 1, !.restart_index = Len(it.block.restarts) + 1]
      ELSE ParseUpTo(SeekToRestartPoint(it, Max(earlier)), it.current)

-------------------------------------------------------------------------------
(* Tables: blocks at their offsets, an index that maps a key no less than  *)
(* all of a block's, and less than those after it, to the block, filters.  *)

NewBuilder ==
  [data |-> <<>>, offset |-> 0, blocks |-> <<>>, index |-> <<>>,
   pending |-> FALSE, handle |-> 0, last_key |-> Internal(NoKey, 0),
   filter |-> StartBlock(NoFilters, 0)]

\* WriteBlock and WriteRawBlock; the trailer and the restarts are one unit.
WriteBlock(b) ==
  [b EXCEPT !.handle = b.offset, !.data = <<>>,
            !.blocks = Append(@, [offset |-> b.offset, block |-> Block(b.data, block_restart_interval)]),
            !.offset = @ + SizeOf(b.data) + 1]

Flush(b) ==
  IF b.data = <<>> THEN b
  ELSE LET written == WriteBlock(b)
       IN  [written EXCEPT !.pending = TRUE, !.filter = StartBlock(@, written.offset)]

AddIndexEntry(b, key) ==
  [b EXCEPT !.index = Append(@, [at |-> key, value |-> b.handle]), !.pending = FALSE]

\* TableBuilder::Add
Add(b, e) ==
  LET b1 == IF b.pending
            THEN AddIndexEntry(b, FindShortestSeparator(b.last_key, KeyIn(e)))
            ELSE b
      b2 == [b1 EXCEPT !.filter = AddKey(@, e), !.last_key = KeyIn(e), !.data = Append(@, DataEntry(e))]
  IN  IF SizeOf(b2.data) >= block_size THEN Flush(b2) ELSE b2

\* TableBuilder::Finish
Finish(b) ==
  LET b1 == Flush(b)
      b2 == IF b1.pending THEN AddIndexEntry(b1, FindShortSuccessor(b1.last_key)) ELSE b1
  IN  [kind |-> "table",
       index |-> Block(b2.index, 1),
       blocks |-> [o \in {x.offset : x \in Range(b2.blocks)} |->
                     (CHOOSE x \in Range(b2.blocks) : x.offset = o).block],
       filter |-> FinishFilter(b1.filter),
       largest |-> b1.last_key]

\* BuildTable, for entries in the order of their keys.
BuildTable(entries) == Finish(FoldLeft(Add, NewBuilder, entries))

\* Table::InternalGet with the callback SaveValue: the entry found for the
\* user key of target, as a set of at most one.
InternalGet(table, target) ==
  LET iiter == BlockSeek(NewBlockIterator(table.index), target)
      handle == table.index.entries[iiter.current].value
      found == BlockSeek(NewBlockIterator(table.blocks[handle]), target)
  IN  IF /\ BlockValid(iiter)
         /\ KeyMayMatch(table.filter, handle, target.key)
         /\ BlockValid(found)
         /\ found.key.key = target.key
      THEN {found.block.entries[found.current].value}
      ELSE {}
===============================================================================
