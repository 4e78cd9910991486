------------------------------ MODULE FakeStore ------------------------------
(***************************************************************************)
(* The in-memory double of the database (src/fake.ts): FakeLevelDB keeps a *)
(* sorted array kv of [key, value] tuples, and FakeLevelDBIterator a copy  *)
(* of that array and a position in it.  The copy is shallow, so tuples are *)
(* heap cells here: kv and the iterators' arrays hold references to them.  *)
(*                                                                         *)
(* Arrays are sequences (position p of the code is index p + 1), and keys  *)
(* are integers ordered as arraybufGt and arraybufLt order their bytes.    *)
(* A call that throws changes nothing and is a stuttering step.            *)
(***************************************************************************)
EXTENDS Integers, Sequences, SequencesExt, Functions

CONSTANTS
  Keys,      \* keys: a finite set of integers
  Values,    \* values
  Iters,     \* FakeLevelDBIterator objects
  Absent,    \* null: a closed store's kv, a missing value
  Undefined, \* undefined: the position of an iterator that was not sought
  MaxCells   \* bound on the tuples alive at once

\* null is no key, value, array or map, undefined is no number.
ASSUME FakeAssumption ==
  /\ Keys \subseteq Int /\ MaxCells \in Nat /\ Undefined \notin Int
  /\ Absent \notin Keys /\ Absent \notin Values
  /\ Absent \notin Seq(Nat) /\ Absent \notin [Keys -> Values \cup {Absent}]

VARIABLES
  kv,       \* FakeLevelDB.kv: references to tuples, or Absent when closed
  heap,     \* the tuples that some array refers to
  itKv,     \* FakeLevelDBIterator.kv, or Absent for an object not constructed
  itPos,    \* FakeLevelDBIterator.pos
  itClosed  \* the client called close() on the iterator (history)

vars == <<kv, heap, itKv, itPos, itClosed>>

Tuple == [key : Keys, value : Values]
Cells == 1..MaxCells

TypeOK ==
  /\ kv = Absent \/ kv \in Seq(Cells)
  /\ \E live \in SUBSET Cells : heap \in [live -> Tuple]
  /\ \A i \in Iters : /\ itKv[i] = Absent \/ itKv[i] \in Seq(Cells)
                      /\ itPos[i] = Undefined \/ itPos[i] \in Int
                      /\ itClosed[i] \in BOOLEAN

-----------------------------------------------------------------------------

\* Mutant: a range of one element answers its start, whatever it holds.
getIdxNoLastProbe(cells, mem, k) ==
  LET key(p) == mem[cells[p + 1]].key
      n == Len(cells)
      search[start \in 0..n] == [end \in 0..n |->
        LET pivot == start + (end - start) \div 2
        IN  IF end - start <= 1 THEN pivot
            ELSE IF key(pivot) = k THEN pivot
            ELSE IF key(pivot) > k THEN search[start][pivot]
            ELSE search[pivot][end]]
  IN  search[0][n]

\* getIdx: binary search for the position of the first key at or past k.
getIdx(cells, mem, k) ==
  LET key(p) == mem[cells[p + 1]].key
      n == Len(cells)
      search[start \in 0..n] == [end \in 0..n |->
        LET pivot == start + (end - start) \div 2
        IN  IF end - start <= 1
            THEN IF pivot < n /\ k > key(pivot) THEN end ELSE pivot
            ELSE IF key(pivot) = k THEN pivot
            ELSE IF key(pivot) > k THEN search[start][pivot]
            ELSE search[pivot][end]]
  IN  search[0][n]

\* The garbage collector: tuples no array refers to are gone.
Collect(mem, cells, its) ==
  LET arrays == {cells} \cup {its[i] : i \in Iters}
  IN  Restrict(mem, DOMAIN mem \cap UNION {Range(a) : a \in arrays \ {Absent}})

FreeCells == Cells \ DOMAIN heap

\* The key at a position of an array.
KeyAt(cells, p) == heap[cells[p + 1]].key

\* getIdx found k itself.
Hit(cells, k) ==
  LET p == getIdx(cells, heap, k) IN p < Len(cells) /\ KeyAt(cells, p) = k

\* getBuf, getStr: the value of k, or null.
getBuf(k) == IF Hit(kv, k) THEN heap[kv[getIdx(kv, heap, k) + 1]].value ELSE Absent

\* FakeLevelDBIterator.valid().
Valid(i) == itPos[i] # Undefined /\ itPos[i] >= 0 /\ itPos[i] < Len(itKv[i])

Init ==
  /\ kv = <<>>
  /\ heap = <<>>
  /\ itKv = [i \in Iters |-> Absent]
  /\ itPos = [i \in Iters |-> Undefined]
  /\ itClosed = [i \in Iters |-> FALSE]

-----------------------------------------------------------------------------
(***************************************************************************)
(* FakeLevelDB.                                                            *)
(***************************************************************************)

\* put of a key that is there: the tuple is updated in place.
Overwrite(k, v) ==
  /\ kv # Absent
  /\ Hit(kv, k)
  /\ heap' = [heap EXCEPT ![kv[getIdx(kv, heap, k) + 1]].value = v]
  /\ UNCHANGED <<kv, itKv, itPos, itClosed>>

\* put of a new key: push at the end, or splice before the first greater key.
Insert(k, v) ==
  /\ kv # Absent
  /\ ~Hit(kv, k)
  /\ FreeCells # {}
  /\ LET c == CHOOSE c \in FreeCells : \A d \in FreeCells : c <= d
     IN  /\ kv' = InsertAt(kv, getIdx(kv, heap, k) + 1, c)
         /\ heap' = [d \in DOMAIN heap \cup {c} |->
                       IF d = c THEN [key |-> k, value |-> v] ELSE heap[d]]
  /\ UNCHANGED <<itKv, itPos, itClosed>>

Delete(k) ==
  /\ kv # Absent
  /\ Hit(kv, k)
  /\ kv' = RemoveAt(kv, getIdx(kv, heap, k) + 1)
  /\ heap' = Collect(heap, kv', itKv)
  /\ UNCHANGED <<itKv, itPos, itClosed>>

\* Iterators keep their arrays when the store is closed.
Close ==
  /\ kv # Absent
  /\ kv' = Absent
  /\ heap' = Collect(heap, kv', itKv)
  /\ UNCHANGED <<itKv, itPos, itClosed>>

-----------------------------------------------------------------------------
(***************************************************************************)
(* FakeLevelDBIterator.                                                    *)
(***************************************************************************)

NewIterator(i) ==
  /\ kv # Absent
  /\ itKv[i] = Absent
  /\ itKv' = [itKv EXCEPT ![i] = kv]
  /\ UNCHANGED <<kv, heap, itPos, itClosed>>

MoveTo(i, p) ==
  /\ itKv[i] # Absent
  /\ itPos' = [itPos EXCEPT ![i] = p]
  /\ UNCHANGED <<kv, heap, itKv, itClosed>>

SeekToFirst(i) == MoveTo(i, 0)

\* Mutant: seekLast goes one past the last tuple.
SeekPastLast(i) == MoveTo(i, Len(itKv[i]))

SeekLast(i) == MoveTo(i, Len(itKv[i]) - 1)
Seek(i, k)  == MoveTo(i, getIdx(itKv[i], heap, k))

\* next and prev require a valid iterator (LevelDBIteratorI).
MoveNext(i) == itKv[i] # Absent /\ Valid(i) /\ MoveTo(i, itPos[i] + 1)
MovePrev(i) == itKv[i] # Absent /\ Valid(i) /\ MoveTo(i, itPos[i] - 1)

CloseIterator(i) ==
  /\ itKv[i] # Absent
  /\ itPos' = [itPos EXCEPT ![i] = Undefined]
  /\ itClosed' = [itClosed EXCEPT ![i] = TRUE]
  /\ UNCHANGED <<kv, heap, itKv>>

\* The client drops its reference to the iterator.
DropIterator(i) ==
  /\ itKv[i] # Absent
  /\ itKv' = [itKv EXCEPT ![i] = Absent]
  /\ itPos' = [itPos EXCEPT ![i] = Undefined]
  /\ itClosed' = [itClosed EXCEPT ![i] = FALSE]
  /\ heap' = Collect(heap, kv, itKv')
  /\ UNCHANGED kv

-----------------------------------------------------------------------------
(***************************************************************************)
(* compareKey with an ArrayBuffer and with a string target.  The second    *)
(* comparison is given the target as it came: new Uint8Array of a string   *)
(* that is no number is empty, and no key is less than the empty one.      *)
(***************************************************************************)
Sign(a, b) == IF a > b THEN 1 ELSE IF a < b THEN -1 ELSE 0

compareKey(i, target, isString) ==
  LET k == KeyAt(itKv[i], itPos[i])
  IN  IF k > target THEN 1
      ELSE IF ~isString /\ k < target THEN -1 ELSE 0

-----------------------------------------------------------------------------
Moves(i) ==
  \/ SeekToFirst(i) \/ SeekLast(i) \/ MoveNext(i) \/ MovePrev(i)
  \/ \E k \in Keys : Seek(i, k)

Next ==
  \/ \E k \in Keys, v \in Values : Overwrite(k, v) \/ Insert(k, v)
  \/ \E k \in Keys : Delete(k)
  \/ Close
  \/ \E i \in Iters :
       NewIterator(i) \/ Moves(i) \/ CloseIterator(i) \/ DropIterator(i)

Spec == Init /\ [][Next]_vars

\* A client that the double serves like the database: it does not use an
\* iterator after closing it, and overwrites no key that a live one can reach.
Reachable(k) ==
  \E i \in Iters : itKv[i] # Absent /\ Hit(kv, k)
                    /\ kv[getIdx(kv, heap, k) + 1] \in Range(itKv[i])

CarefulNext ==
  \/ \E k \in Keys, v \in Values :
       (kv # Absent /\ ~Reachable(k) /\ Overwrite(k, v)) \/ Insert(k, v)
  \/ \E k \in Keys : Delete(k)
  \/ Close
  \/ \E i \in Iters : \/ NewIterator(i) \/ CloseIterator(i) \/ DropIterator(i)
                      \/ ~itClosed[i] /\ Moves(i)

CarefulSpec == Init /\ [][CarefulNext]_vars

-----------------------------------------------------------------------------
(***************************************************************************)
(* Properties.                                                             *)
(***************************************************************************)

\* The map an array of tuples stands for.
MapOf(cells) ==
  [k \in Keys |->
     IF \E c \in Range(cells) : heap[c].key = k
     THEN heap[CHOOSE c \in Range(cells) : heap[c].key = k].value
     ELSE Absent]

Snapshot(i) == IF itKv[i] = Absent \/ itClosed[i] THEN Absent ELSE MapOf(itKv[i])
Contents == IF kv = Absent THEN [k \in Keys |-> Absent] ELSE MapOf(kv)

KV == INSTANCE KVStore WITH
        isClosed <- kv = Absent,
        contents <- Contents,
        snapshot <- [i \in Iters |-> Snapshot(i)],
        at <- [i \in Iters |->
                 IF Snapshot(i) # Absent /\ Valid(i) THEN KeyAt(itKv[i], itPos[i])
                 ELSE Absent]

\* For a careful client the double implements what the database promises:
\* every call, each move of an iterator included, has the effect it has there.
ImplementsKVStore == KV!Spec

\* Lookups are exact: getIdx returns the number of keys below its target, whatever
\* the length of the array and whether the target is there, below the first or past
\* the last key, and getStr and getBuf return the value last put, or null.
SearchExact ==
  kv # Absent =>
    /\ \A k \in Keys \cup {l - 1 : l \in Keys} \cup {l + 1 : l \in Keys} :
         getIdx(kv, heap, k) = Cardinality({c \in Range(kv) : heap[c].key < k})
    /\ \A k \in Keys : getBuf(k) = Contents[k]

\* What an iterator shows never changes ("This creates a snapshot, like LevelDB
\* would!").
SnapshotStable ==
  [][\A i \in Iters : itKv[i] # Absent /\ itKv'[i] = itKv[i] =>
       MapOf(itKv[i])' = MapOf(itKv[i])]_vars

\* compareKey orders the iterator's key and a target as LevelDB's comparator
\* does, for targets given as strings too.
CompareAgrees ==
  \A i \in Iters : itKv[i] # Absent /\ Valid(i) =>
    \A target \in Keys, isString \in BOOLEAN :
      compareKey(i, target, isString) = Sign(KeyAt(itKv[i], itPos[i]), target)
=============================================================================
