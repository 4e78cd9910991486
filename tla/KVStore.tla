------------------------------- MODULE KVStore -------------------------------
(***************************************************************************)
(* What one open database promises its client (the interfaces LevelDBI,    *)
(* LevelDBIteratorI and LevelDBWriteBatchI of src/index.ts): an ordered    *)
(* map, and iterators over the contents the map had when each was made.    *)
(* The in-memory double (FakeStore) and the storage engine implement it.   *)
(*                                                                         *)
(* Keys are integers: only their order, bytewise in the code, matters.     *)
(***************************************************************************)
EXTENDS Integers

CONSTANTS
  Keys,    \* keys, a set of integers
  Values,  \* values
  Iters,   \* iterator objects
  Absent   \* what get returns for a key that is not there; no snapshot; no key

VARIABLES
  isClosed,  \* closed()
  contents,  \* the value of each key, or Absent
  snapshot,  \* for each iterator, the contents it iterates over, or Absent
  at         \* for each iterator, the key it is at, or Absent: not valid

kvVars == <<isClosed, contents, snapshot, at>>

Init ==
  /\ isClosed = FALSE
  /\ contents = [k \in Keys |-> Absent]
  /\ snapshot = [i \in Iters |-> Absent]
  /\ at = [i \in Iters |-> Absent]

Present(map) == {k \in Keys : map[k] # Absent}

\* The first, the last key of a set, Absent if there is none.
First(S) == IF S = {} THEN Absent ELSE CHOOSE k \in S : \A l \in S : k <= l
Last(S)  == IF S = {} THEN Absent ELSE CHOOSE k \in S : \A l \in S : l <= k

\* The updates of one batch take effect together: keys is the set of keys it
\* updates, new their values, Absent for a deletion.
Write(keys, new) ==
  /\ ~isClosed
  /\ contents' = [k \in Keys |-> IF k \in keys THEN new[k] ELSE contents[k]]
  /\ UNCHANGED <<isClosed, snapshot, at>>

Put(k, v) == Write({k}, [l \in {k} |-> v])
Delete(k) == Write({k}, [l \in {k} |-> Absent])

Close ==
  /\ ~isClosed
  /\ isClosed' = TRUE
  /\ contents' = [k \in Keys |-> Absent]
  /\ UNCHANGED <<snapshot, at>>

NewIterator(i) ==
  /\ ~isClosed
  /\ snapshot[i] = Absent
  /\ snapshot' = [snapshot EXCEPT ![i] = contents]
  /\ at' = [at EXCEPT ![i] = Absent]
  /\ UNCHANGED <<isClosed, contents>>

Move(i, k) ==
  /\ snapshot[i] # Absent
  /\ at' = [at EXCEPT ![i] = k]
  /\ UNCHANGED <<isClosed, contents, snapshot>>

SeekToFirst(i) == Move(i, First(Present(snapshot[i])))
SeekLast(i)    == Move(i, Last(Present(snapshot[i])))
Seek(i, k)     == Move(i, First({l \in Present(snapshot[i]) : k <= l}))
MoveNext(i)    == /\ at[i] # Absent
                  /\ Move(i, First({l \in Present(snapshot[i]) : at[i] < l}))
MovePrev(i)    == /\ at[i] # Absent
                  /\ Move(i, Last({l \in Present(snapshot[i]) : l < at[i]}))

\* The iterator is closed, or dropped without being closed: no more moves.
CloseIterator(i) ==
  /\ snapshot[i] # Absent
  /\ snapshot' = [snapshot EXCEPT ![i] = Absent]
  /\ at' = [at EXCEPT ![i] = Absent]
  /\ UNCHANGED <<isClosed, contents>>

Next ==
  \/ \E k \in Keys : Delete(k) \/ \E v \in Values : Put(k, v)
  \/ Close
  \/ \E i \in Iters :
       \/ NewIterator(i) \/ SeekToFirst(i) \/ SeekLast(i) \/ MoveNext(i)
       \/ MovePrev(i) \/ CloseIterator(i)
       \/ \E k \in Keys : Seek(i, k)

Spec == Init /\ [][Next]_kvVars
=============================================================================
