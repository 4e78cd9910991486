---------------------------- MODULE HandlesProofs ----------------------------
(***************************************************************************)
(* Proofs about Handles, for any sets of names and wrappers and any bounds *)
(* on the registries.                                                      *)
(*                                                                         *)
(* ClosedAgrees, NoCrossWrite and IteratorRouting are not inductive: they  *)
(* speak of a wrapper and the slot its ref denotes, while a step such as   *)
(* NewLevelDB hands out what openRefs holds and CloseDB empties a slot     *)
(* that other wrappers still denote.  The strengthening below ties all     *)
(* three layers together: openRefs and the non-empty slots of dbs are      *)
(* inverse to each other, and a slot a wrapper denotes holds the           *)
(* wrapper's own database or nothing.                                      *)
(*                                                                         *)
(* The first half of the strengthening, RInv, survives even the module     *)
(* reloads and late invalidations of ReloadSpec, and gives NotLockedOut.   *)
(* The whole of it, IInv, holds of Spec.  CInv adds who owns each native   *)
(* iterator, which a client that keeps the contract never loses track of,  *)
(* and gives NoUseAfterFree for ContractSpec.                              *)
(***************************************************************************)
EXTENDS Handles, SequenceTheorems, TLAPS

\* A runtime without bindings has nothing in its heap.
Quiescent ==
  runtime # "bound" =>
    /\ \A n \in Names : openRefs[n] = NoRef
    /\ \A d \in DbObjs : dbName[d] = Null /\ dbRef[d] = NoRef
    /\ \A i \in ItObjs : itName[i] = Null /\ itRef[i] = NoRef
    /\ \A b \in BatchObjs : batchRef[b] = NoRef

\* An open database is found under its name.
OpenIsListed ==
  runtime = "bound" =>
    \A r \in DOMAIN dbs : dbs[r] # Null => openRefs[dbs[r]] = r

\* A listed ref denotes the database of that name, open.
ListedIsOpen ==
  \A n \in Names : openRefs[n] # NoRef =>
    openRefs[n] \in DOMAIN dbs /\ dbs[openRefs[n]] = n

\* A wrapper's slot holds its own database or nothing.
DbRouting ==
  \A d \in DbObjs : dbRef[d] # NoRef =>
    /\ dbName[d] # Null
    /\ dbRef[d] \in DOMAIN dbs
    /\ dbs[dbRef[d]] \in {dbName[d], Null}

\* An iterator's database was the one it was asked from.
ItRouting ==
  \A i \in ItObjs : itRef[i] # NoRef =>
    /\ itRef[i] \in DOMAIN iterators
    /\ LET it == iterators[itRef[i]]
       IN it # NoRef => it \in DOMAIN dbs /\ dbs[it] \in {itName[i], Null}

\* A wrapper of a batch that is not closed owns its slot alone.
BatchOwnership ==
  /\ \A b \in BatchObjs : batchRef[b] # NoRef =>
       /\ batchRef[b] \in DOMAIN batches
       /\ batches[batchRef[b]] # Null
       /\ batches[batchRef[b]] \subseteq {b}
  /\ \A b, c \in BatchObjs :
       batchRef[b] # NoRef /\ batchRef[b] = batchRef[c] => b = c

RInv == TypeOK /\ OpenIsListed

IInv ==
  /\ RInv
  /\ Quiescent
  /\ ListedIsOpen
  /\ DbRouting
  /\ ItRouting
  /\ BatchOwnership
  /\ NoCrossWrite

\* A native iterator's database is open, and under a live runtime some wrapper
\* still holds the iterator and knows whose it is.
IteratorsOwned ==
  \A r \in DOMAIN iterators : iterators[r] # NoRef =>
    /\ iterators[r] \in DOMAIN dbs
    /\ dbs[iterators[r]] # Null
    /\ runtime = "bound" =>
         \E i \in ItObjs : itRef[i] = r /\ itName[i] = dbs[iterators[r]]

CInv == IInv /\ IteratorsOwned /\ NoUseAfterFree

-----------------------------------------------------------------------------
(***************************************************************************)
(* What the two ways a registry changes do to a sequence.                  *)
(***************************************************************************)

\* An empty slot is no database.
LEMMA NullNotName == Null \notin Names
  BY HandlesAssumption

\* push_back leaves the existing slots alone and adds one at the end.
LEMMA PushBack ==
  ASSUME NEW S, NEW s \in Seq(S), NEW x \in S
  PROVE  /\ Append(s, x) \in Seq(S)
         /\ DOMAIN s = 1..Len(s)
         /\ Len(s) \in Nat
         /\ DOMAIN Append(s, x) = 1..(Len(s) + 1)
         /\ \A k \in DOMAIN s : Append(s, x)[k] = s[k]
         /\ Append(s, x)[Len(s) + 1] = x
  OBVIOUS

\* Assigning to a slot changes that slot only.
LEMMA SetSlot ==
  ASSUME NEW S, NEW s \in Seq(S), NEW k \in DOMAIN s, NEW x \in S
  PROVE  /\ [s EXCEPT ![k] = x] \in Seq(S)
         /\ DOMAIN [s EXCEPT ![k] = x] = DOMAIN s
         /\ Len([s EXCEPT ![k] = x]) = Len(s)
         /\ [s EXCEPT ![k] = x][k] = x
         /\ \A j \in DOMAIN s : j # k => [s EXCEPT ![k] = x][j] = s[j]
  OBVIOUS

\* A vector that was cleared is well typed and has no slot.
LEMMA Cleared ==
  ASSUME NEW S
  PROVE  <<>> \in Seq(S) /\ DOMAIN <<>> = {} /\ Len(<<>>) = 0
  OBVIOUS

-----------------------------------------------------------------------------
(***************************************************************************)
(* Every step, reloads included, preserves RInv.                           *)
(***************************************************************************)

\* new LevelDB keeps every open database listed under its name.
LEMMA NewLevelDBKeepsRInv ==
  ASSUME RInv, NEW d \in DbObjs, NEW n \in Names, NEW c \in BOOLEAN,
         NEW e \in BOOLEAN, NewLevelDB(d, n, c, e)
  PROVE  RInv'
<1> USE NullNotName DEF NoRef
<1>1. CASE openRefs[n] # NoRef
  <2>1. /\ dbName' = [dbName EXCEPT ![d] = n]
        /\ dbRef' = [dbRef EXCEPT ![d] = openRefs[n]]
        /\ UNCHANGED <<runtime, initError, openRefs, itName, itRef, batchRef,
                       dbs, iterators, batches, exists, content, fault>>
    BY <1>1 DEF NewLevelDB
  <2>2. TypeOK'
    BY <2>1 DEF RInv, TypeOK
  <2>3. OpenIsListed'
    BY <2>1 DEF RInv, OpenIsListed
  <2>4. QED BY <2>2, <2>3 DEF RInv
<1>2. CASE openRefs[n] = NoRef
  <2>1. PICK x \in Names \cup {Null} :
          /\ dbs' = Append(dbs, x)
          /\ \/ /\ x = n /\ ~Locked(n)
                /\ exists' = exists \cup {n}
                /\ openRefs' = [openRefs EXCEPT ![n] = Len(dbs) + 1]
                /\ dbName' = [dbName EXCEPT ![d] = n]
                /\ dbRef' = [dbRef EXCEPT ![d] = Len(dbs) + 1]
             \/ x = Null /\ UNCHANGED <<openRefs, dbName, dbRef, exists>>
    BY <1>2 DEF NewLevelDB, OpenSucceeds
  <2>2. /\ dbs \in Seq(Names \cup {Null}) /\ dbs' \in Seq(Names \cup {Null})
        /\ Len(dbs) \in Nat /\ DOMAIN dbs = 1..Len(dbs)
        /\ DOMAIN dbs' = 1..(Len(dbs) + 1)
        /\ \A k \in DOMAIN dbs : dbs'[k] = dbs[k]
        /\ dbs'[Len(dbs) + 1] = x
    BY <2>1, PushBack DEF RInv, TypeOK
  <2>3. UNCHANGED <<runtime, initError, itName, itRef, batchRef, iterators,
                    batches, content, fault>>
    BY DEF NewLevelDB
  <2>4. TypeOK'
    <3>1. /\ openRefs \in [Names -> Nat] /\ dbName \in [DbObjs -> Names \cup {Null}]
          /\ dbRef \in [DbObjs -> Nat] /\ exists \in SUBSET Names
      BY DEF RInv, TypeOK
    <3>2. /\ openRefs' \in [Names -> Nat]
          /\ dbName' \in [DbObjs -> Names \cup {Null}]
          /\ dbRef' \in [DbObjs -> Nat]
      <4>1. CASE x = n
        <5>1. PICK k \in Nat : k = Len(dbs) + 1
          BY <2>2
        <5>2. /\ openRefs' = [openRefs EXCEPT ![n] = k]
              /\ dbName' = [dbName EXCEPT ![d] = n]
              /\ dbRef' = [dbRef EXCEPT ![d] = k]
          BY <2>1, <4>1, <5>1
        <5>3. QED BY <3>1, <5>2
      <4>2. CASE x = Null
        BY <2>1, <3>1, <4>2
      <4>3. QED BY <2>1, <4>1, <4>2
    <3>3. exists' \in SUBSET Names
      BY <2>1, <3>1
    <3>4. QED BY <2>2, <2>3, <3>2, <3>3 DEF RInv, TypeOK
  <2>5. OpenIsListed'
    BY <2>1, <2>2, <2>3 DEF RInv, TypeOK, OpenIsListed, Locked
  <2>6. QED BY <2>4, <2>5 DEF RInv
<1>3. QED BY <1>1, <1>2

\* close() forgets the name of exactly the database whose slot it empties.
LEMMA CloseDBKeepsRInv ==
  ASSUME RInv, NEW d \in DbObjs, CloseDB(d)
  PROVE  RInv'
<1> USE NullNotName DEF NoRef
<1> DEFINE r == dbRef[d]
<1>1. /\ r \in DOMAIN dbs /\ dbs' = [dbs EXCEPT ![r] = Null]
  BY DEF CloseDB, valueToDb
<1>2. /\ dbs \in Seq(Names \cup {Null}) /\ dbs' \in Seq(Names \cup {Null})
      /\ DOMAIN dbs' = DOMAIN dbs /\ dbs'[r] = Null
      /\ \A k \in DOMAIN dbs : k # r => dbs'[k] = dbs[k]
  BY <1>1, SetSlot DEF RInv, TypeOK
<1>3. /\ UNCHANGED <<runtime, initError, dbName, itName, itRef, batchRef,
                     iterators, batches, exists, content, fault>>
      /\ openRefs' = [n \in Names |-> IF openRefs[n] = r THEN 0 ELSE openRefs[n]]
      /\ dbRef' = [dbRef EXCEPT ![d] = 0]
  BY DEF CloseDB, diskVars
<1> HIDE DEF r
<1>4. TypeOK'
  BY <1>2, <1>3 DEF RInv, TypeOK
<1>5. OpenIsListed'
  BY <1>1, <1>2, <1>3 DEF RInv, TypeOK, OpenIsListed
<1>6. QED BY <1>4, <1>5 DEF RInv

\* destroyDB forgets a name only together with the slot it denotes.
LEMMA DestroyDBKeepsRInv ==
  ASSUME RInv, NEW n \in Names, NEW force \in BOOLEAN, destroyDB(n, force)
  PROVE  RInv'
<1> USE NullNotName DEF NoRef
<1>1. UNCHANGED <<runtime, initError, dbName, dbRef, itName, itRef, batchRef,
                  iterators, batches, fault>>
  BY DEF destroyDB
<1>2. exists' \in SUBSET Names /\ content' \in [Names -> SUBSET Names]
  BY DEF destroyDB, RInv, TypeOK, diskVars
<1>3. CASE openRefs[n] = NoRef
  <2>1. UNCHANGED <<openRefs, dbs>>
    BY <1>3 DEF destroyDB
  <2>2. TypeOK'
    BY <1>1, <1>2, <2>1 DEF RInv, TypeOK
  <2>3. OpenIsListed'
    BY <1>1, <2>1 DEF RInv, OpenIsListed
  <2>4. QED BY <2>2, <2>3 DEF RInv
<1>4. CASE openRefs[n] # NoRef
  <2> DEFINE r == openRefs[n]
  <2>1. /\ r \in DOMAIN dbs /\ dbs' = [dbs EXCEPT ![r] = Null]
        /\ openRefs' = [openRefs EXCEPT ![n] = 0]
    BY <1>4 DEF destroyDB, valueToDb
  <2>2. /\ dbs \in Seq(Names \cup {Null}) /\ dbs' \in Seq(Names \cup {Null})
        /\ DOMAIN dbs' = DOMAIN dbs /\ dbs'[r] = Null
        /\ \A k \in DOMAIN dbs : k # r => dbs'[k] = dbs[k]
    BY <2>1, SetSlot DEF RInv, TypeOK
  <2>3. TypeOK'
    BY <1>1, <1>2, <2>1, <2>2 DEF RInv, TypeOK
  <2>4. OpenIsListed'
    BY <1>1, <2>1, <2>2 DEF RInv, TypeOK, OpenIsListed
  <2>5. QED BY <2>3, <2>4 DEF RInv
<1>5. QED BY <1>3, <1>4

\* Put, merge, write, the iterators and the batches leave dbs and openRefs
\* alone: what is left to show is that they keep the types.
LEMMA ClientKeepsRInv ==
  ASSUME RInv,
         \/ \E d \in DbObjs : Put(d) \/ DropDB(d)
         \/ \E dst, src \in DbObjs : Merge(dst, src)
         \/ \E i \in ItObjs, d \in DbObjs : NewIterator(i, d)
         \/ \E i \in ItObjs : \/ MoveIterator(i) \/ CompareKey(i)
                              \/ CloseIterator(i) \/ DropIterator(i)
         \/ \E b \in BatchObjs : \/ NewWriteBatch(b) \/ BatchPut(b)
                                 \/ CloseWriteBatch(b) \/ DropWriteBatch(b)
         \/ \E d \in DbObjs, b \in BatchObjs : Write(d, b)
  PROVE  RInv'
<1> USE NullNotName DEF NoRef
<1>1. OpenIsListed'
  <2>1. UNCHANGED <<runtime, openRefs, dbs>>
    BY DEF Put, DropDB, Merge, NewIterator, MoveIterator, CompareKey,
       CloseIterator, DropIterator, NewWriteBatch, BatchPut, CloseWriteBatch,
       DropWriteBatch, Write, jsVars, nativeVars
  <2>2. QED BY <2>1 DEF RInv, OpenIsListed
<1>2. ASSUME NEW d \in DbObjs, dbName[d] # Null, valueToDb(dbRef[d]) # Null,
             content' = [content EXCEPT ![valueToDb(dbRef[d])] = @ \cup {dbName[d]}],
             UNCHANGED <<runtime, initError, jsVars, nativeVars, exists, fault>>
      PROVE  TypeOK'
  <2>1. valueToDb(dbRef[d]) \in Names /\ dbName[d] \in Names
    BY <1>2 DEF valueToDb, RInv, TypeOK
  <2>2. content' \in [Names -> SUBSET Names]
    BY <1>2, <2>1 DEF RInv, TypeOK
  <2>3. QED BY <1>2, <2>2 DEF RInv, TypeOK, jsVars, nativeVars
<1>3. ASSUME NEW d \in DbObjs, Put(d) PROVE TypeOK'
  BY <1>2, <1>3 DEF Put
<1>4. ASSUME NEW dst \in DbObjs, NEW src \in DbObjs, Merge(dst, src) PROVE TypeOK'
  BY <1>2, <1>4 DEF Merge
<1>5. ASSUME NEW d \in DbObjs, NEW b \in BatchObjs, Write(d, b) PROVE TypeOK'
  BY <1>2, <1>5 DEF Write
<1>6. ASSUME NEW d \in DbObjs, DropDB(d) PROVE TypeOK'
  BY <1>6 DEF DropDB, RInv, TypeOK, nativeVars, diskVars
<1>7. ASSUME NEW i \in ItObjs, NEW d \in DbObjs, NewIterator(i, d) PROVE TypeOK'
  <2>1. dbRef[d] \in Nat /\ dbName[d] \in Names
    BY <1>7 DEF NewIterator, RInv, TypeOK
  <2>2. /\ iterators' \in Seq(Nat)
        /\ Len(iterators) + 1 \in Nat
    BY <1>7, <2>1, PushBack DEF NewIterator, RInv, TypeOK
  <2>3. PICK k \in Nat : k = Len(iterators) + 1
    BY <2>2
  <2>4. itRef' = [itRef EXCEPT ![i] = k] /\ itName' = [itName EXCEPT ![i] = dbName[d]]
    BY <1>7, <2>3 DEF NewIterator
  <2>5. itRef' \in [ItObjs -> Nat] /\ itName' \in [ItObjs -> Names \cup {Null}]
    BY <2>1, <2>4 DEF RInv, TypeOK
  <2>6. UNCHANGED <<runtime, initError, openRefs, dbName, dbRef, batchRef, dbs,
                    batches, exists, content, fault>>
    BY <1>7 DEF NewIterator, diskVars
  <2>7. QED BY <2>2, <2>5, <2>6 DEF RInv, TypeOK
<1>8. ASSUME NEW i \in ItObjs, MoveIterator(i) \/ CompareKey(i) PROVE TypeOK'
  BY <1>8 DEF MoveIterator, CompareKey, RInv, TypeOK, jsVars, nativeVars, diskVars
<1>9. ASSUME NEW i \in ItObjs, CloseIterator(i) PROVE TypeOK'
  <2>1. itRef[i] \in DOMAIN iterators
    BY <1>9 DEF CloseIterator, valueToIterator
  <2>2. iterators' \in Seq(Nat) /\ itRef' \in [ItObjs -> Nat]
    <3>1. iterators \in Seq(Nat) /\ itRef \in [ItObjs -> Nat] /\ 0 \in Nat
      BY DEF RInv, TypeOK
    <3>2. [iterators EXCEPT ![itRef[i]] = 0] \in Seq(Nat)
      BY ONLY <2>1, <3>1, SetSlot
    <3>3. \/ iterators' = iterators /\ itRef' = itRef
          \/ /\ iterators' = [iterators EXCEPT ![itRef[i]] = 0]
             /\ itRef' = [itRef EXCEPT ![i] = 0]
      BY <1>9 DEF CloseIterator
    <3>4. QED BY <3>1, <3>2, <3>3
  <2>3. fault' \in {"none", "null_deref", "use_after_free"}
    BY <1>9 DEF CloseIterator, RInv, TypeOK
  <2>4. QED BY <1>9, <2>2, <2>3 DEF CloseIterator, RInv, TypeOK, diskVars
<1>10. ASSUME NEW i \in ItObjs, DropIterator(i) PROVE TypeOK'
  BY <1>10 DEF DropIterator, RInv, TypeOK, nativeVars, diskVars
<1>11. ASSUME NEW b \in BatchObjs, NewWriteBatch(b) PROVE TypeOK'
  <2> DEFINE S == (SUBSET BatchObjs) \cup {Null}
  <2>1. batches \in Seq(S) /\ {} \in S
    BY DEF RInv, TypeOK
  <2> HIDE DEF S
  <2>2. PICK k \in Nat : batchRef' = [batchRef EXCEPT ![b] = k] /\ batches' \in Seq(S)
    <3>1. ASSUME NEW r \in EmptySlots,
                 batches' = [batches EXCEPT ![r] = {}],
                 batchRef' = [batchRef EXCEPT ![b] = r]
          PROVE  \E k \in Nat : batchRef' = [batchRef EXCEPT ![b] = k] /\ batches' \in Seq(S)
      <4>1. r \in DOMAIN batches
        BY DEF EmptySlots
      <4>2. r \in Nat
        BY <2>1, <4>1
      <4>3. [batches EXCEPT ![r] = {}] \in Seq(S)
        BY ONLY <2>1, <4>1, SetSlot
      <4>4. QED BY <3>1, <4>2, <4>3
    <3>2. ASSUME batches' = Append(batches, {}),
                 batchRef' = [batchRef EXCEPT ![b] = Len(batches) + 1]
          PROVE  \E k \in Nat : batchRef' = [batchRef EXCEPT ![b] = k] /\ batches' \in Seq(S)
      <4>1. Append(batches, {}) \in Seq(S) /\ Len(batches) \in Nat
        BY ONLY <2>1, PushBack
      <4>2. PICK k \in Nat : k = Len(batches) + 1
        BY <4>1
      <4>3. batchRef' = [batchRef EXCEPT ![b] = k] /\ batches' \in Seq(S)
        BY <3>2, <4>1, <4>2
      <4>4. QED BY <4>3
    <3>3. QED BY <1>11, <3>1, <3>2 DEF NewWriteBatch
  <2>3. UNCHANGED <<runtime, initError, openRefs, dbName, dbRef, itName, itRef,
                    dbs, iterators, exists, content, fault>>
    BY <1>11 DEF NewWriteBatch, diskVars
  <2>4. batchRef' \in [BatchObjs -> Nat]
    BY <2>2 DEF RInv, TypeOK
  <2>5. QED BY <2>2, <2>3, <2>4 DEF RInv, TypeOK, S
<1>12. ASSUME NEW b \in BatchObjs, BatchPut(b) \/ CloseWriteBatch(b) PROVE TypeOK'
  <2> DEFINE S == (SUBSET BatchObjs) \cup {Null}
             k == batchRef[b]
  <2>1. k \in DOMAIN batches /\ batches[k] # Null /\ batches \in Seq(S)
    BY <1>12 DEF BatchPut, CloseWriteBatch, valueToWriteBatch, RInv, TypeOK
  <2>2. Null \in S /\ batches[k] \cup {b} \in S
    BY <2>1
  <2>3. \/ batches' = [batches EXCEPT ![k] = batches[k] \cup {b}]
        \/ batches' = [batches EXCEPT ![k] = Null]
    BY <1>12 DEF BatchPut, CloseWriteBatch
  <2> HIDE DEF S, k
  <2>4. batches' \in Seq(S)
    <3>1. [batches EXCEPT ![k] = batches[k] \cup {b}] \in Seq(S)
      BY ONLY <2>1, <2>2, SetSlot
    <3>2. [batches EXCEPT ![k] = Null] \in Seq(S)
      BY ONLY <2>1, <2>2, SetSlot
    <3>3. QED BY <2>3, <3>1, <3>2
  <2>5. batchRef' \in [BatchObjs -> Nat]
    BY <1>12 DEF BatchPut, CloseWriteBatch, RInv, TypeOK, jsVars
  <2>6. UNCHANGED <<runtime, initError, openRefs, dbName, dbRef, itName, itRef,
                    dbs, iterators, exists, content, fault>>
    BY <1>12 DEF BatchPut, CloseWriteBatch, jsVars, diskVars
  <2>7. QED BY <2>4, <2>5, <2>6 DEF RInv, TypeOK, S
<1>13. ASSUME NEW b \in BatchObjs, DropWriteBatch(b) PROVE TypeOK'
  BY <1>13 DEF DropWriteBatch, RInv, TypeOK, nativeVars, diskVars
<1>14. TypeOK'
  BY <1>3, <1>4, <1>5, <1>6, <1>7, <1>8, <1>9, <1>10, <1>11, <1>12, <1>13
<1>15. QED BY <1>1, <1>14 DEF RInv

\* Starting, stopping and reloading clear the registries, or leave them to a
\* runtime that has no bindings, or do not touch anything.
LEMMA RuntimeKeepsRInv ==
  ASSUME RInv,
         \/ StartRuntime \/ StopRuntime \/ RestartProcess
         \/ ReloadModule \/ LateInvalidate
  PROVE  RInv'
<1> USE NullNotName DEF NoRef
<1>1. \/ UNCHANGED <<dbs, iterators, batches>>
      \/ dbs' = <<>> /\ iterators' = <<>> /\ batches' = <<>>
  BY DEF StartRuntime, StopRuntime, RestartProcess, ReloadModule,
     LateInvalidate, Install, Cleanup, nativeVars
<1>2. \/ UNCHANGED <<openRefs, dbName, dbRef, itName, itRef, batchRef>>
      \/ /\ openRefs' = [n \in Names |-> 0]
         /\ dbName' = [d \in DbObjs |-> Null]
         /\ dbRef' = [d \in DbObjs |-> 0]
         /\ itName' = [i \in ItObjs |-> Null]
         /\ itRef' = [i \in ItObjs |-> 0]
         /\ batchRef' = [b \in BatchObjs |-> 0]
  BY DEF StartRuntime, StopRuntime, RestartProcess, ReloadModule,
     LateInvalidate, FreshRuntime, jsVars
<1>3. /\ runtime' \in {"down", "unbound", "bound"}
      /\ initError' \in BOOLEAN
      /\ fault' \in {"none", "null_deref", "use_after_free"}
      /\ UNCHANGED <<exists, content>>
  BY DEF StartRuntime, StopRuntime, RestartProcess, ReloadModule,
     LateInvalidate, Install, Cleanup, RInv, TypeOK, diskVars
<1>4. /\ openRefs' \in [Names -> Nat]
      /\ dbName' \in [DbObjs -> Names \cup {Null}]
      /\ dbRef' \in [DbObjs -> Nat]
      /\ itName' \in [ItObjs -> Names \cup {Null}]
      /\ itRef' \in [ItObjs -> Nat]
      /\ batchRef' \in [BatchObjs -> Nat]
  <2>1. /\ openRefs \in [Names -> Nat]
        /\ dbName \in [DbObjs -> Names \cup {Null}]
        /\ dbRef \in [DbObjs -> Nat]
        /\ itName \in [ItObjs -> Names \cup {Null}]
        /\ itRef \in [ItObjs -> Nat]
        /\ batchRef \in [BatchObjs -> Nat]
    BY DEF RInv, TypeOK
  <2> QED
    BY <1>2, <2>1
<1>5. /\ dbs' \in Seq(Names \cup {Null})
      /\ iterators' \in Seq(Nat)
      /\ batches' \in Seq((SUBSET BatchObjs) \cup {Null})
  <2>1. /\ dbs \in Seq(Names \cup {Null})
        /\ iterators \in Seq(Nat)
        /\ batches \in Seq((SUBSET BatchObjs) \cup {Null})
    BY DEF RInv, TypeOK
  <2> QED
    BY <1>1, <2>1, Cleared
<1>6. TypeOK'
  BY <1>3, <1>4, <1>5 DEF RInv, TypeOK
<1>7. OpenIsListed'
  <2>1. CASE dbs' = <<>>
    BY <2>1, Cleared DEF OpenIsListed
  <2>2. CASE dbs' # <<>> /\ runtime' = "bound"
    BY <2>2 DEF StartRuntime, StopRuntime, RestartProcess, ReloadModule,
       LateInvalidate, Install, Cleanup, RInv, OpenIsListed, jsVars, nativeVars
  <2>3. QED BY <2>1, <2>2 DEF OpenIsListed
<1>8. QED BY <1>6, <1>7 DEF RInv

\* All of them together, and the stuttering step.
LEMMA RInvStep ==
  ASSUME RInv, [ReloadNext]_vars
  PROVE  RInv'
<1>1. CASE UNCHANGED vars
  <2>1. TypeOK'
    BY <1>1 DEF vars, jsVars, nativeVars, diskVars, RInv, TypeOK
  <2>2. OpenIsListed'
    BY <1>1 DEF vars, jsVars, nativeVars, RInv, OpenIsListed
  <2>3. QED BY <2>1, <2>2 DEF RInv
<1>2. CASE ReloadNext
  BY <1>2, NewLevelDBKeepsRInv, CloseDBKeepsRInv, DestroyDBKeepsRInv,
     ClientKeepsRInv, RuntimeKeepsRInv DEF ReloadNext, Next, OtherSteps
<1>3. QED BY <1>1, <1>2

\* The first state satisfies it.
LEMMA RInvInit == ASSUME Init PROVE RInv
  BY Cleared DEF Init, RInv, TypeOK, OpenIsListed, NoRef

-----------------------------------------------------------------------------
(***************************************************************************)
(* Every step of Next preserves IInv.                                      *)
(***************************************************************************)

\* A constructed wrapper gets a listed ref, or the slot just added.
LEMMA NewLevelDBKeepsIInv ==
  ASSUME IInv, NEW d \in DbObjs, NEW n \in Names, NEW c \in BOOLEAN,
         NEW e \in BOOLEAN, NewLevelDB(d, n, c, e)
  PROVE  IInv'
<1> USE NullNotName DEF NoRef
<1>0. RInv'
  BY NewLevelDBKeepsRInv DEF IInv
<1>1. CASE openRefs[n] # NoRef
  <2>1. /\ runtime = "bound"
        /\ dbName' = [dbName EXCEPT ![d] = n]
        /\ dbRef' = [dbRef EXCEPT ![d] = openRefs[n]]
        /\ UNCHANGED <<runtime, openRefs, itName, itRef, batchRef, dbs,
                       iterators, batches, content>>
    BY <1>1 DEF NewLevelDB, Running
  <2>2. /\ Quiescent' /\ ListedIsOpen' /\ ItRouting' /\ BatchOwnership'
        /\ NoCrossWrite'
    BY <2>1 DEF IInv, Quiescent, ListedIsOpen, ItRouting, BatchOwnership,
       NoCrossWrite
  <2>3. DbRouting'
    BY <1>1, <2>1 DEF IInv, RInv, TypeOK, DbRouting, ListedIsOpen
  <2>4. QED BY <1>0, <2>2, <2>3 DEF IInv
<1>2. CASE openRefs[n] = NoRef
  <2>1. PICK x \in Names \cup {Null} :
          /\ dbs' = Append(dbs, x)
          /\ \/ /\ x = n
                /\ openRefs' = [openRefs EXCEPT ![n] = Len(dbs) + 1]
                /\ dbName' = [dbName EXCEPT ![d] = n]
                /\ dbRef' = [dbRef EXCEPT ![d] = Len(dbs) + 1]
             \/ x = Null /\ UNCHANGED <<openRefs, dbName, dbRef>>
    BY <1>2 DEF NewLevelDB
  <2>2. /\ Len(dbs) \in Nat /\ DOMAIN dbs = 1..Len(dbs)
        /\ DOMAIN dbs' = 1..(Len(dbs) + 1)
        /\ \A k \in DOMAIN dbs : dbs'[k] = dbs[k]
        /\ dbs'[Len(dbs) + 1] = x
    BY <2>1, PushBack DEF IInv, RInv, TypeOK
  <2>3. /\ runtime = "bound" /\ dbName[d] = Null
        /\ UNCHANGED <<runtime, itName, itRef, batchRef, iterators, batches,
                       content>>
    BY DEF NewLevelDB, Running
  <2>4. Quiescent' /\ BatchOwnership' /\ NoCrossWrite'
    BY <2>3 DEF IInv, Quiescent, BatchOwnership, NoCrossWrite
  <2>5. ListedIsOpen'
    BY <2>1, <2>2, <2>3 DEF IInv, RInv, TypeOK, ListedIsOpen
  <2>6. DbRouting'
    BY <2>1, <2>2, <2>3 DEF IInv, RInv, TypeOK, DbRouting
  <2>7. ItRouting'
    BY <2>1, <2>2, <2>3 DEF IInv, RInv, TypeOK, ItRouting
  <2>8. QED BY <1>0, <2>4, <2>5, <2>6, <2>7 DEF IInv
<1>3. QED BY <1>1, <1>2

\* Emptying the slot of a wrapper leaves the other wrappers of that database
\* with a ref that denotes nothing, never with one that denotes another.
LEMMA CloseDBKeepsIInv ==
  ASSUME IInv, NEW d \in DbObjs, CloseDB(d)
  PROVE  IInv'
<1> USE NullNotName DEF NoRef
<1>0. RInv'
  BY CloseDBKeepsRInv DEF IInv
<1> DEFINE r == dbRef[d]
<1>1. r \in DOMAIN dbs /\ dbs' = [dbs EXCEPT ![r] = Null]
  BY DEF CloseDB, valueToDb
<1>2. /\ DOMAIN dbs' = DOMAIN dbs /\ dbs'[r] = Null
      /\ \A k \in DOMAIN dbs : k # r => dbs'[k] = dbs[k]
  BY <1>1, SetSlot DEF IInv, RInv, TypeOK
<1>3. /\ runtime = "bound"
      /\ UNCHANGED <<runtime, dbName, itName, itRef, batchRef, iterators,
                     batches, content>>
      /\ openRefs' = [n \in Names |-> IF openRefs[n] = r THEN 0 ELSE openRefs[n]]
      /\ dbRef' = [dbRef EXCEPT ![d] = 0]
  BY DEF CloseDB, Running, diskVars
<1> HIDE DEF r
<1>4. Quiescent' /\ BatchOwnership' /\ NoCrossWrite'
  BY <1>3 DEF IInv, Quiescent, BatchOwnership, NoCrossWrite
<1>5. ListedIsOpen'
  BY <1>1, <1>2, <1>3 DEF IInv, RInv, TypeOK, ListedIsOpen
<1>6. DbRouting'
  BY <1>1, <1>2, <1>3 DEF IInv, RInv, TypeOK, DbRouting
<1>7. ItRouting'
  BY <1>1, <1>2, <1>3 DEF IInv, RInv, TypeOK, ItRouting
<1>8. QED BY <1>0, <1>4, <1>5, <1>6, <1>7 DEF IInv

\* So does a forced destroyDB, and the directory it removes loses its writes.
LEMMA DestroyDBKeepsIInv ==
  ASSUME IInv, NEW n \in Names, NEW force \in BOOLEAN, destroyDB(n, force)
  PROVE  IInv'
<1> USE NullNotName DEF NoRef
<1>0. RInv'
  BY DestroyDBKeepsRInv DEF IInv
<1>1. /\ runtime = "bound"
      /\ UNCHANGED <<runtime, dbName, dbRef, itName, itRef, batchRef, iterators,
                     batches>>
  BY DEF destroyDB, Running
<1>2. NoCrossWrite'
  <2>1. content' = content \/ content' = [content EXCEPT ![n] = {}]
    BY DEF destroyDB, diskVars
  <2>2. /\ NoCrossWrite
        /\ content \in [Names -> SUBSET Names]
    BY DEF IInv, RInv, TypeOK
  <2>3. \A m \in Names : content'[m] = content[m] \/ content'[m] = {}
    BY <2>1, <2>2
  <2>4. QED BY <2>2, <2>3 DEF NoCrossWrite
<1>3. BatchOwnership'
  BY <1>1 DEF IInv, BatchOwnership
<1>4. Quiescent'
  BY <1>1 DEF Quiescent
<1>5. CASE openRefs[n] = NoRef
  <2>1. UNCHANGED <<openRefs, dbs>>
    BY <1>5 DEF destroyDB
  <2>2. ListedIsOpen' /\ DbRouting' /\ ItRouting'
    BY <1>1, <2>1 DEF IInv, ListedIsOpen, DbRouting, ItRouting
  <2>3. QED BY <1>0, <1>2, <1>3, <1>4, <2>2 DEF IInv
<1>6. CASE openRefs[n] # NoRef
  <2> DEFINE r == openRefs[n]
  <2>1. /\ r \in DOMAIN dbs /\ dbs' = [dbs EXCEPT ![r] = Null]
        /\ openRefs' = [openRefs EXCEPT ![n] = 0]
    BY <1>6 DEF destroyDB, valueToDb
  <2>2. /\ DOMAIN dbs' = DOMAIN dbs /\ dbs'[r] = Null
        /\ \A k \in DOMAIN dbs : k # r => dbs'[k] = dbs[k]
    BY <2>1, SetSlot DEF IInv, RInv, TypeOK
  <2>3. dbs[r] = n
    BY <1>6 DEF IInv, ListedIsOpen
  <2>4. ListedIsOpen'
    BY <2>1, <2>2, <2>3 DEF IInv, RInv, TypeOK, ListedIsOpen
  <2>5. DbRouting'
    BY <1>1, <2>1, <2>2 DEF IInv, RInv, TypeOK, DbRouting
  <2>6. ItRouting'
    BY <1>1, <2>1, <2>2 DEF IInv, RInv, TypeOK, ItRouting
  <2>7. QED BY <1>0, <1>2, <1>3, <1>4, <2>4, <2>5, <2>6 DEF IInv
<1>7. QED BY <1>5, <1>6

\* Put, merge and write: the slot a wrapper denotes is its own database.
LEMMA WriteKeepsIInv ==
  ASSUME IInv, RInv', NEW d \in DbObjs, valueToDb(dbRef[d]) # Null,
         content' = [content EXCEPT ![valueToDb(dbRef[d])] = @ \cup {dbName[d]}],
         UNCHANGED <<runtime, jsVars, nativeVars>>
  PROVE  IInv'
<1> USE NullNotName DEF NoRef
<1>1. dbRef[d] \in DOMAIN dbs /\ dbs[dbRef[d]] # Null /\ dbRef[d] # 0
  BY DEF valueToDb, IInv, RInv, TypeOK
<1>2. valueToDb(dbRef[d]) = dbName[d] /\ dbName[d] \in Names
  BY <1>1 DEF valueToDb, IInv, DbRouting, RInv, TypeOK
<1>3. NoCrossWrite'
  BY <1>2 DEF IInv, RInv, TypeOK, NoCrossWrite
<1>4. /\ Quiescent' /\ ListedIsOpen' /\ DbRouting' /\ ItRouting'
      /\ BatchOwnership'
  BY DEF IInv, Quiescent, ListedIsOpen, DbRouting, ItRouting, BatchOwnership,
     jsVars, nativeVars
<1>5. QED BY <1>3, <1>4 DEF IInv

\* The iterators' wrappers and slots.
LEMMA IteratorKeepsIInv ==
  ASSUME IInv, RInv', NEW i \in ItObjs,
         \/ \E d \in DbObjs : NewIterator(i, d)
         \/ MoveIterator(i) \/ CompareKey(i)
         \/ CloseIterator(i) \/ DropIterator(i)
  PROVE  IInv'
<1> USE NullNotName DEF NoRef
<1>1. /\ runtime = "bound"
      /\ UNCHANGED <<runtime, openRefs, dbName, dbRef, batchRef, dbs, batches,
                     content>>
  BY DEF NewIterator, MoveIterator, CompareKey, CloseIterator, DropIterator,
     Running, jsVars, nativeVars, diskVars
<1>2. /\ Quiescent' /\ ListedIsOpen' /\ DbRouting' /\ BatchOwnership'
      /\ NoCrossWrite'
  BY <1>1 DEF IInv, Quiescent, ListedIsOpen, DbRouting, BatchOwnership,
     NoCrossWrite
<1>3. ASSUME NEW d \in DbObjs, NewIterator(i, d) PROVE IInv'
  <2>1. dbRef[d] \in DOMAIN dbs /\ dbs[dbRef[d]] \in {dbName[d], Null} /\ dbRef[d] \in Nat
    BY <1>3 DEF NewIterator, valueToDb, IInv, RInv, TypeOK, DbRouting
  <2>2. /\ Len(iterators) \in Nat /\ DOMAIN iterators = 1..Len(iterators)
        /\ DOMAIN iterators' = 1..(Len(iterators) + 1)
        /\ \A k \in DOMAIN iterators : iterators'[k] = iterators[k]
        /\ iterators'[Len(iterators) + 1] = dbRef[d]
    BY <1>3, <2>1, PushBack DEF NewIterator, IInv, RInv, TypeOK
  <2>3. /\ itName' = [itName EXCEPT ![i] = dbName[d]]
        /\ itRef' = [itRef EXCEPT ![i] = Len(iterators) + 1]
    BY <1>3 DEF NewIterator
  <2>4. ItRouting'
    <3>1. /\ ItRouting /\ itRef \in [ItObjs -> Nat] /\ itName \in [ItObjs -> Names \cup {Null}]
          /\ Len(iterators) + 1 \in DOMAIN iterators'
      BY <2>2 DEF IInv, RInv, TypeOK
    <3> QED
      BY <1>1, <2>1, <2>2, <2>3, <3>1 DEF ItRouting
  <2>5. QED BY <1>2, <2>4 DEF IInv
<1>4. CASE MoveIterator(i) \/ CompareKey(i)
  <2>1. UNCHANGED <<itName, itRef, iterators>>
    BY <1>4 DEF MoveIterator, CompareKey, jsVars, nativeVars
  <2>2. ItRouting'
    BY <1>1, <2>1 DEF IInv, ItRouting
  <2>3. QED BY <1>2, <2>2 DEF IInv
<1>5. CASE CloseIterator(i)
  <2>1. itRef[i] \in DOMAIN iterators /\ itName' = itName
    BY <1>5 DEF CloseIterator, valueToIterator
  <2>2. CASE UNCHANGED <<itRef, iterators>>
    <3>1. ItRouting'
      BY <1>1, <2>1, <2>2 DEF IInv, ItRouting
    <3>2. QED BY <1>2, <3>1 DEF IInv
  <2>3. CASE /\ iterators' = [iterators EXCEPT ![itRef[i]] = 0]
             /\ itRef' = [itRef EXCEPT ![i] = 0]
    <3>1. /\ DOMAIN iterators' = DOMAIN iterators /\ iterators'[itRef[i]] = 0
          /\ \A k \in DOMAIN iterators : k # itRef[i] => iterators'[k] = iterators[k]
      BY <2>1, <2>3, SetSlot DEF IInv, RInv, TypeOK
    <3>2. ItRouting'
      BY <1>1, <2>1, <2>3, <3>1 DEF IInv, RInv, TypeOK, ItRouting
    <3>3. QED BY <1>2, <3>2 DEF IInv
  <2>4. QED BY <1>5, <2>2, <2>3 DEF CloseIterator
<1>6. CASE DropIterator(i)
  <2>1. ItRouting'
    BY <1>1, <1>6 DEF DropIterator, nativeVars, IInv, RInv, TypeOK, ItRouting
  <2>2. QED BY <1>2, <2>1 DEF IInv
<1>7. QED BY <1>3, <1>4, <1>5, <1>6

\* The batches' wrappers and slots: a reused slot has no other wrapper.
LEMMA BatchKeepsIInv ==
  ASSUME IInv, RInv', NEW b \in BatchObjs,
         \/ NewWriteBatch(b) \/ BatchPut(b) \/ CloseWriteBatch(b)
         \/ DropWriteBatch(b)
  PROVE  IInv'
<1> USE NullNotName DEF NoRef
<1> DEFINE S == (SUBSET BatchObjs) \cup {Null}
<1>1. /\ runtime = "bound"
      /\ UNCHANGED <<runtime, openRefs, dbName, dbRef, itName, itRef, dbs,
                     iterators, content>>
  BY DEF NewWriteBatch, BatchPut, CloseWriteBatch, DropWriteBatch, Running,
     jsVars, nativeVars, diskVars
<1>2. Quiescent' /\ ListedIsOpen' /\ DbRouting' /\ ItRouting' /\ NoCrossWrite'
  BY <1>1 DEF IInv, Quiescent, ListedIsOpen, DbRouting, ItRouting, NoCrossWrite
<1>3. /\ batches \in Seq(S) /\ {} \in S /\ Null \in S
      /\ batchRef \in [BatchObjs -> Nat]
  BY DEF IInv, RInv, TypeOK
<1>4. {} # Null /\ {b} # Null
  BY HandlesAssumption
<1> HIDE DEF S
<1>5. ASSUME NEW r \in EmptySlots,
             batches' = [batches EXCEPT ![r] = {}],
             batchRef' = [batchRef EXCEPT ![b] = r]
      PROVE  BatchOwnership'
  <2>1. r \in DOMAIN batches /\ batches[r] = Null
    BY DEF EmptySlots
  <2>2. /\ DOMAIN batches' = DOMAIN batches /\ batches'[r] = {}
        /\ \A k \in DOMAIN batches : k # r => batches'[k] = batches[k]
    BY <1>3, <1>5, <2>1, SetSlot
  <2>3. QED BY <1>3, <1>4, <1>5, <2>1, <2>2 DEF IInv, BatchOwnership
<1>6. ASSUME batches' = Append(batches, {}),
             batchRef' = [batchRef EXCEPT ![b] = Len(batches) + 1]
      PROVE  BatchOwnership'
  <2>1. /\ Len(batches) \in Nat /\ DOMAIN batches = 1..Len(batches)
        /\ DOMAIN batches' = 1..(Len(batches) + 1)
        /\ \A k \in DOMAIN batches : batches'[k] = batches[k]
        /\ batches'[Len(batches) + 1] = {}
    BY <1>3, <1>6, PushBack
  <2>2. QED BY <1>3, <1>4, <1>6, <2>1 DEF IInv, BatchOwnership
<1>7. CASE NewWriteBatch(b)
  <2>1. BatchOwnership'
    BY <1>5, <1>6, <1>7 DEF NewWriteBatch
  <2>2. QED BY <1>2, <2>1 DEF IInv
<1>8. CASE BatchPut(b)
  <2> DEFINE k == batchRef[b]
             x == batches[k] \cup {b}
  <2>1. k \in DOMAIN batches /\ batches[k] # Null /\ k # 0
    BY <1>3, <1>8 DEF BatchPut, valueToWriteBatch
  <2>2. batches[k] \subseteq {b} /\ x = {b} /\ x \in S
    BY <2>1 DEF IInv, BatchOwnership, S
  <2>3. batches' = [batches EXCEPT ![k] = {b}] /\ batchRef' = batchRef
    BY <1>8, <2>2 DEF BatchPut, jsVars
  <2> HIDE DEF k, x
  <2>4. /\ DOMAIN batches' = DOMAIN batches /\ batches'[k] = {b}
        /\ \A j \in DOMAIN batches : j # k => batches'[j] = batches[j]
    BY <1>3, <2>1, <2>2, <2>3, SetSlot
  <2>5. BatchOwnership'
    BY <1>3, <1>4, <2>1, <2>3, <2>4 DEF IInv, BatchOwnership, k
  <2>6. QED BY <1>2, <2>5 DEF IInv
<1>9. CASE CloseWriteBatch(b)
  <2>1. batchRef[b] \in DOMAIN batches
    BY <1>9 DEF CloseWriteBatch, valueToWriteBatch
  <2>2. /\ batches' = [batches EXCEPT ![batchRef[b]] = Null]
        /\ batchRef' = [batchRef EXCEPT ![b] = 0]
    BY <1>9 DEF CloseWriteBatch
  <2>3. /\ DOMAIN batches' = DOMAIN batches
        /\ \A j \in DOMAIN batches : j # batchRef[b] => batches'[j] = batches[j]
    BY <1>3, <2>1, <2>2, SetSlot
  <2>4. BatchOwnership'
    BY <1>3, <2>1, <2>2, <2>3 DEF IInv, BatchOwnership
  <2>5. QED BY <1>2, <2>4 DEF IInv
<1>10. CASE DropWriteBatch(b)
  <2>1. batchRef' = [batchRef EXCEPT ![b] = 0] /\ batches' = batches
    BY <1>10 DEF DropWriteBatch, nativeVars
  <2>2. BatchOwnership'
    BY <1>3, <2>1 DEF IInv, BatchOwnership
  <2>3. QED BY <1>2, <2>2 DEF IInv
<1>11. QED BY <1>7, <1>8, <1>9, <1>10

\* A wrapper that is dropped denotes nothing.
LEMMA DropDBKeepsIInv ==
  ASSUME IInv, RInv', NEW d \in DbObjs, DropDB(d)
  PROVE  IInv'
<1> USE DEF NoRef
<1>1. /\ runtime = "bound"
      /\ dbName' = [dbName EXCEPT ![d] = Null]
      /\ dbRef' = [dbRef EXCEPT ![d] = 0]
      /\ UNCHANGED <<runtime, openRefs, itName, itRef, batchRef, dbs, iterators,
                     batches, content>>
  BY DEF DropDB, Running, nativeVars, diskVars
<1>2. /\ Quiescent' /\ ListedIsOpen' /\ ItRouting' /\ BatchOwnership'
      /\ NoCrossWrite'
  BY <1>1 DEF IInv, Quiescent, ListedIsOpen, ItRouting, BatchOwnership,
     NoCrossWrite
<1>3. DbRouting'
  BY <1>1 DEF IInv, RInv, TypeOK, DbRouting
<1>4. QED BY <1>2, <1>3 DEF IInv

\* A runtime starts with an empty heap and ends without one.
LEMMA RuntimeKeepsIInv ==
  ASSUME IInv, RInv', StartRuntime \/ StopRuntime \/ RestartProcess
  PROVE  IInv'
<1> USE DEF NoRef
<1>1. /\ \A n \in Names : openRefs'[n] = 0
      /\ \A d \in DbObjs : dbName'[d] = Null /\ dbRef'[d] = 0
      /\ \A i \in ItObjs : itName'[i] = Null /\ itRef'[i] = 0
      /\ \A b \in BatchObjs : batchRef'[b] = 0
  <2>1. CASE StartRuntime
    BY <2>1 DEF StartRuntime, jsVars, IInv, Quiescent
  <2>2. CASE StopRuntime \/ RestartProcess
    BY <2>2 DEF StopRuntime, RestartProcess, FreshRuntime
  <2>3. QED BY <2>1, <2>2
<1>2. Quiescent' /\ ListedIsOpen' /\ DbRouting' /\ ItRouting' /\ BatchOwnership'
  BY <1>1 DEF Quiescent, ListedIsOpen, DbRouting, ItRouting, BatchOwnership
<1>3. NoCrossWrite'
  BY DEF StartRuntime, StopRuntime, RestartProcess, diskVars, IInv, NoCrossWrite
<1>4. QED BY <1>2, <1>3 DEF IInv

\* All of them together, and the stuttering step.
LEMMA IInvStep ==
  ASSUME IInv, [Next]_vars
  PROVE  IInv'
<1>1. RInv'
  BY RInvStep DEF IInv, ReloadNext
<1>2. CASE UNCHANGED vars
  BY <1>1, <1>2 DEF vars, jsVars, nativeVars, diskVars, IInv, Quiescent,
     ListedIsOpen, DbRouting, ItRouting, BatchOwnership, NoCrossWrite
<1>3. ASSUME NEW d \in DbObjs, Put(d) PROVE IInv'
  BY <1>1, <1>3, WriteKeepsIInv DEF Put
<1>4. ASSUME NEW dst \in DbObjs, NEW src \in DbObjs, Merge(dst, src) PROVE IInv'
  BY <1>1, <1>4, WriteKeepsIInv DEF Merge
<1>5. ASSUME NEW d \in DbObjs, NEW b \in BatchObjs, Write(d, b) PROVE IInv'
  BY <1>1, <1>5, WriteKeepsIInv DEF Write
<1>6. CASE Next
  BY <1>1, <1>3, <1>4, <1>5, <1>6, NewLevelDBKeepsIInv, CloseDBKeepsIInv,
     DestroyDBKeepsIInv, IteratorKeepsIInv, BatchKeepsIInv, DropDBKeepsIInv,
     RuntimeKeepsIInv DEF Next, OtherSteps
<1>7. QED BY <1>2, <1>6

\* The first state satisfies it.
LEMMA IInvInit == ASSUME Init PROVE IInv
  BY RInvInit DEF Init, IInv, Quiescent, ListedIsOpen, DbRouting, ItRouting,
     BatchOwnership, NoCrossWrite, NoRef

-----------------------------------------------------------------------------
(***************************************************************************)
(* Every step of a client that keeps the contract preserves CInv.          *)
(***************************************************************************)

\* A native iterator is never left without its database.
LEMMA CInvStep ==
  ASSUME CInv, [ContractNext]_vars
  PROVE  CInv'
<1> USE NullNotName DEF NoRef
<1>1. IInv'
  BY IInvStep DEF CInv, ContractNext, Next
<1>2. IInv /\ IteratorsOwned /\ NoUseAfterFree /\ TypeOK
  BY DEF CInv, IInv, RInv
<1>3. ASSUME NEW i \in ItObjs, valueToIterator(itRef[i]) # NoRef
      PROVE  ~Dangling(valueToIterator(itRef[i]))
  BY <1>2, <1>3 DEF valueToIterator, Dangling, valueToDb, IteratorsOwned
<1>4. ASSUME UNCHANGED <<runtime, itName, itRef, dbs, iterators, fault>>
      PROVE  CInv'
  <2>1. IteratorsOwned'
    BY <1>2, <1>4 DEF IteratorsOwned
  <2>2. NoUseAfterFree'
    BY <1>2, <1>4 DEF NoUseAfterFree
  <2>3. QED BY <1>1, <2>1, <2>2 DEF CInv
<1>5. ASSUME NEW d \in DbObjs, NEW n \in Names, NEW c \in BOOLEAN,
             NEW e \in BOOLEAN, NewLevelDB(d, n, c, e)
      PROVE  CInv'
  <2>1. UNCHANGED <<runtime, itName, itRef, iterators, fault>>
    BY <1>5 DEF NewLevelDB
  <2>2. CASE dbs' = dbs
    BY <1>4, <2>1, <2>2
  <2>3. ASSUME NEW x \in Names \cup {Null}, dbs' = Append(dbs, x)
        PROVE  CInv'
    <3>1. /\ DOMAIN dbs \subseteq DOMAIN dbs'
          /\ \A k \in DOMAIN dbs : dbs'[k] = dbs[k]
      <4>1. /\ DOMAIN dbs = 1..Len(dbs) /\ Len(dbs) \in Nat
            /\ DOMAIN dbs' = 1..(Len(dbs) + 1)
            /\ \A k \in DOMAIN dbs : dbs'[k] = dbs[k]
        BY <1>2, <2>3, PushBack DEF TypeOK
      <4>2. QED BY <4>1
    <3>2. IteratorsOwned'
      BY <1>2, <2>1, <3>1 DEF IteratorsOwned
    <3>3. NoUseAfterFree'
      BY <1>2, <2>1 DEF NoUseAfterFree
    <3>4. QED BY <1>1, <3>2, <3>3 DEF CInv
  <2>4. QED BY <1>5, <2>2, <2>3 DEF NewLevelDB
<1>6. ASSUME NEW r \in DOMAIN dbs, dbs[r] # Null, IteratorsClosed(dbs[r]),
             dbs' = [dbs EXCEPT ![r] = Null], runtime = "bound",
             UNCHANGED <<runtime, itName, itRef, iterators, fault>>
      PROVE  CInv'
  <2>1. /\ DOMAIN dbs' = DOMAIN dbs
        /\ \A k \in DOMAIN dbs : k # r => dbs'[k] = dbs[k]
    BY <1>2, <1>6, SetSlot DEF TypeOK
  <2>2. \A s \in DOMAIN iterators : iterators[s] # NoRef => iterators[s] # r /\ s # 0
    BY <1>2, <1>6 DEF IteratorsOwned, IteratorsClosed, TypeOK
  <2>3. IteratorsOwned'
    BY <1>2, <1>6, <2>1, <2>2 DEF IteratorsOwned
  <2>4. NoUseAfterFree'
    BY <1>2, <1>6 DEF NoUseAfterFree
  <2>5. QED BY <1>1, <2>3, <2>4 DEF CInv
<1>7. ASSUME NEW d \in DbObjs, IteratorsClosed(dbName[d]), CloseDB(d)
      PROVE  CInv'
  <2>1. /\ dbRef[d] \in DOMAIN dbs /\ dbs[dbRef[d]] # Null
        /\ dbs' = [dbs EXCEPT ![dbRef[d]] = Null] /\ runtime = "bound"
        /\ UNCHANGED <<runtime, itName, itRef, iterators, fault>>
    BY <1>7 DEF CloseDB, valueToDb, Running
  <2>2. dbs[dbRef[d]] = dbName[d]
    BY <1>2, <2>1 DEF IInv, DbRouting, TypeOK
  <2>3. QED BY <1>6, <1>7, <2>1, <2>2
<1>8. ASSUME NEW n \in Names, NEW force \in BOOLEAN, IteratorsClosed(n),
             destroyDB(n, force)
      PROVE  CInv'
  <2>1. /\ runtime = "bound" /\ UNCHANGED <<runtime, itName, itRef, iterators, fault>>
    BY <1>8 DEF destroyDB, Running
  <2>2. CASE openRefs[n] = NoRef
    BY <1>4, <1>8, <2>1, <2>2 DEF destroyDB
  <2>3. CASE openRefs[n] # NoRef
    <3>1. /\ openRefs[n] \in DOMAIN dbs /\ dbs[openRefs[n]] = n
          /\ dbs' = [dbs EXCEPT ![openRefs[n]] = Null]
      BY <1>2, <1>8, <2>3 DEF destroyDB, IInv, ListedIsOpen
    <3>2. QED BY <1>6, <1>8, <2>1, <3>1
  <2>4. QED BY <2>2, <2>3
<1>9. ASSUME NEW i \in ItObjs, NEW d \in DbObjs, NewIterator(i, d)
      PROVE  CInv'
  <2>1. /\ dbRef[d] \in DOMAIN dbs /\ dbs[dbRef[d]] # Null /\ dbRef[d] \in Nat
        /\ dbs[dbRef[d]] = dbName[d] /\ itName[i] = Null
    BY <1>2, <1>9 DEF NewIterator, valueToDb, IInv, DbRouting, TypeOK
  <2>2. /\ Len(iterators) \in Nat /\ DOMAIN iterators = 1..Len(iterators)
        /\ DOMAIN iterators' = 1..(Len(iterators) + 1)
        /\ \A k \in DOMAIN iterators : iterators'[k] = iterators[k]
        /\ iterators'[Len(iterators) + 1] = dbRef[d]
    BY <1>2, <1>9, <2>1, PushBack DEF NewIterator, TypeOK
  <2>3. /\ itName' = [itName EXCEPT ![i] = dbName[d]]
        /\ itRef' = [itRef EXCEPT ![i] = Len(iterators) + 1]
        /\ UNCHANGED <<runtime, dbs, fault>>
    BY <1>9 DEF NewIterator
  <2>4. ASSUME NEW r \in DOMAIN iterators', iterators'[r] # NoRef
        PROVE  /\ iterators'[r] \in DOMAIN dbs' /\ dbs'[iterators'[r]] # Null
               /\ runtime' = "bound" =>
                    \E j \in ItObjs : itRef'[j] = r /\ itName'[j] = dbs'[iterators'[r]]
    <3>1. CASE r = Len(iterators) + 1
      <4>1. itRef'[i] = r /\ itName'[i] = dbs'[iterators'[r]]
        BY <1>2, <2>1, <2>2, <2>3, <3>1 DEF TypeOK
      <4>2. QED BY <2>1, <2>2, <2>3, <3>1, <4>1
    <3>2. CASE r # Len(iterators) + 1
      <4>1. r \in DOMAIN iterators /\ iterators'[r] = iterators[r]
        BY <2>2, <3>2
      <4>2. iterators[r] \in DOMAIN dbs /\ dbs[iterators[r]] # Null
        BY <1>2, <2>4, <4>1 DEF IteratorsOwned
      <4>3. ASSUME runtime = "bound"
            PROVE  \E j \in ItObjs : itRef'[j] = r /\ itName'[j] = dbs'[iterators'[r]]
        <5>1. PICK j \in ItObjs : itRef[j] = r /\ itName[j] = dbs[iterators[r]]
          BY <1>2, <2>4, <4>1, <4>3 DEF IteratorsOwned
        <5>2. j # i
          BY <2>1, <4>2, <5>1
        <5>3. itRef'[j] = itRef[j] /\ itName'[j] = itName[j]
          BY <1>2, <2>3, <5>2 DEF TypeOK
        <5>4. QED BY <2>3, <4>1, <5>1, <5>3
      <4>4. QED BY <2>3, <4>1, <4>2, <4>3
    <3>3. QED BY <3>1, <3>2
  <2>5. IteratorsOwned'
    BY <2>4 DEF IteratorsOwned
  <2>6. NoUseAfterFree'
    BY <1>2, <2>3 DEF NoUseAfterFree
  <2>7. QED BY <1>1, <2>5, <2>6 DEF CInv
<1>10. ASSUME NEW i \in ItObjs, MoveIterator(i) \/ CompareKey(i)
       PROVE  CInv'
  <2>1. UNCHANGED <<runtime, itName, itRef, dbs, iterators>>
    BY <1>10 DEF MoveIterator, CompareKey, jsVars, nativeVars
  <2>2. IteratorsOwned'
    BY <1>2, <2>1 DEF IteratorsOwned
  <2>3. NoUseAfterFree'
    BY <1>3, <1>10 DEF MoveIterator, CompareKey, NoUseAfterFree
  <2>4. QED BY <1>1, <2>2, <2>3 DEF CInv
<1>11. ASSUME NEW i \in ItObjs, CloseIterator(i)
       PROVE  CInv'
  <2>1. /\ itRef[i] \in DOMAIN iterators /\ itRef[i] # 0
        /\ iterators' = [iterators EXCEPT ![itRef[i]] = 0]
        /\ itRef' = [itRef EXCEPT ![i] = 0]
        /\ UNCHANGED <<runtime, itName, dbs, fault>>
    BY <1>2, <1>3, <1>11 DEF CloseIterator, valueToIterator, TypeOK
  <2>2. /\ DOMAIN iterators' = DOMAIN iterators /\ iterators'[itRef[i]] = 0
        /\ \A k \in DOMAIN iterators : k # itRef[i] => iterators'[k] = iterators[k]
    BY <1>2, <2>1, SetSlot DEF TypeOK
  <2>3. \A j \in ItObjs : j # i => itRef'[j] = itRef[j]
    BY <1>2, <2>1 DEF TypeOK
  <2>4. IteratorsOwned'
    BY <1>2, <2>1, <2>2, <2>3 DEF IteratorsOwned
  <2>5. NoUseAfterFree'
    BY <1>2, <2>1 DEF NoUseAfterFree
  <2>6. QED BY <1>1, <2>4, <2>5 DEF CInv
<1>12. ASSUME NEW i \in ItObjs, itRef[i] = NoRef, DropIterator(i)
       PROVE  CInv'
  <2>1. /\ itName' = [itName EXCEPT ![i] = Null]
        /\ itRef' = itRef
        /\ UNCHANGED <<runtime, dbs, iterators, fault>>
    BY <1>2, <1>12 DEF DropIterator, nativeVars, TypeOK
  <2>2. \A j \in ItObjs : j # i => itName'[j] = itName[j]
    BY <1>2, <2>1 DEF TypeOK
  <2>3. \A r \in DOMAIN iterators : r # 0
    BY <1>2 DEF TypeOK
  <2>4. IteratorsOwned'
    BY <1>2, <1>12, <2>1, <2>2, <2>3 DEF IteratorsOwned
  <2>5. NoUseAfterFree'
    BY <1>2, <2>1 DEF NoUseAfterFree
  <2>6. QED BY <1>1, <2>4, <2>5 DEF CInv
<1>13. CASE StartRuntime \/ StopRuntime \/ RestartProcess
  <2>1. \/ runtime' # "bound" /\ UNCHANGED <<dbs, iterators>>
        \/ iterators' = <<>>
    BY <1>13 DEF StartRuntime, StopRuntime, RestartProcess, Install, Cleanup,
       nativeVars
  <2>2. IteratorsOwned'
    BY <1>2, <2>1, Cleared DEF IteratorsOwned
  <2>3. NoUseAfterFree'
    <3>1. ~ \E r \in DOMAIN iterators : iterators[r] # NoRef /\ Dangling(iterators[r])
      BY <1>2 DEF IteratorsOwned, Dangling, valueToDb
    <3>2. fault' \in {fault, "none"}
      BY <1>13, <3>1 DEF StartRuntime, StopRuntime, RestartProcess, Install, Cleanup
    <3>3. QED BY <1>2, <3>2 DEF NoUseAfterFree
  <2>4. QED BY <1>1, <2>2, <2>3 DEF CInv
<1>14. ASSUME \/ \E d \in DbObjs : Put(d) \/ DropDB(d)
              \/ \E dst, src \in DbObjs : Merge(dst, src)
              \/ \E b \in BatchObjs : \/ NewWriteBatch(b) \/ BatchPut(b)
                                      \/ CloseWriteBatch(b) \/ DropWriteBatch(b)
              \/ \E d \in DbObjs, b \in BatchObjs : Write(d, b)
              \/ UNCHANGED vars
       PROVE  CInv'
  <2>1. UNCHANGED <<runtime, itName, itRef, dbs, iterators, fault>>
    BY <1>14 DEF Put, DropDB, Merge, NewWriteBatch, BatchPut, CloseWriteBatch,
       DropWriteBatch, Write, vars, jsVars, nativeVars
  <2>2. QED BY <1>4, <2>1
<1>15. QED
  BY <1>5, <1>7, <1>8, <1>9, <1>10, <1>11, <1>12, <1>13, <1>14
     DEF ContractNext, OtherSteps

-----------------------------------------------------------------------------
(***************************************************************************)
(* Theorems.                                                               *)
(***************************************************************************)

\* The strengthening is an invariant of any client's behaviour.
THEOREM IInvariant == Spec => []IInv
  BY IInvInit, IInvStep, PTL DEF Spec

\* The registries, the wrappers and openRefs stay well formed even when the
\* module is evaluated again, or cleaned up late, under a live runtime.
THEOREM TypeInvariant == ReloadSpec => []TypeOK
<1>1. RInv => TypeOK
  BY DEF RInv
<1>2. QED BY <1>1, RInvInit, RInvStep, PTL DEF ReloadSpec

\* Under any interleaving of clients, reloads and late invalidations, a name
\* this runtime does not list is not locked by this process: installLeveldb's
\* clean-up and close's sweep of openRefs leave no orphan handle behind.
THEOREM NeverLockedOut == ReloadSpec => []NotLockedOut
<1>1. RInv => NotLockedOut
  <2> SUFFICES ASSUME RInv, runtime = "bound", NEW n \in Names,
                      openRefs[n] = NoRef, NEW r \in DOMAIN dbs, dbs[r] = n
               PROVE  FALSE
    BY DEF NotLockedOut, Locked
  <2>1. r \in Nat /\ r # 0
    BY DEF RInv, TypeOK
  <2>2. openRefs[n] = r
    BY NullNotName DEF RInv, OpenIsListed
  <2>3. QED BY <2>1, <2>2 DEF NoRef
<1>2. QED BY <1>1, RInvInit, RInvStep, PTL DEF ReloadSpec

\* IInv makes closed() exact.
LEMMA ClosedIsExact == IInv => ClosedAgrees
<1> SUFFICES ASSUME IInv, runtime = "bound", NEW d \in DbObjs, dbName[d] # Null
             PROVE  Closed(d) <=> valueToDb(dbRef[d]) = Null
  BY DEF ClosedAgrees
<1> USE NullNotName DEF NoRef
<1>1. ASSUME Closed(d) PROVE valueToDb(dbRef[d]) = Null
  <2>1. CASE dbRef[d] = 0
    BY <2>1 DEF valueToDb, IInv, RInv, TypeOK
  <2>2. CASE dbRef[d] # 0
    <3>1. \A n \in Names : openRefs[n] # dbRef[d]
      BY <1>1, <2>2 DEF Closed
    <3>2. QED BY <3>1 DEF valueToDb, IInv, RInv, TypeOK, OpenIsListed
  <2>3. QED BY <2>1, <2>2
<1>2. ASSUME valueToDb(dbRef[d]) = Null PROVE Closed(d)
  BY <1>2 DEF valueToDb, Closed, IInv, ListedIsOpen, RInv, TypeOK
<1>3. QED BY <1>1, <1>2

\* closed() tells the truth about the native handle, for any number of wrappers
\* that share it.
THEOREM ClosedIsTruthful == Spec => []ClosedAgrees
  BY ClosedIsExact, IInvariant, PTL

\* A slot a wrapper denotes, once empty, stays empty for as long as the wrapper
\* lives: leveldbOpen never reuses a slot.
LEMMA EmptyStaysEmpty ==
  ASSUME IInv, [Next]_vars, NEW d \in DbObjs, dbName[d] # Null,
         dbName'[d] # Null, valueToDb(dbRef[d]) = Null
  PROVE  valueToDb(dbRef[d])' = Null
<1> USE NullNotName DEF NoRef
<1>1. /\ dbs \in Seq(Names \cup {Null}) /\ dbRef \in [DbObjs -> Nat]
      /\ dbName \in [DbObjs -> Names \cup {Null}]
      /\ dbRef[d] # 0 => dbRef[d] \in DOMAIN dbs /\ dbs[dbRef[d]] = Null
      /\ dbRef[d] = 0 => dbRef[d] \notin DOMAIN dbs
  BY DEF IInv, RInv, TypeOK, DbRouting, valueToDb
<1>2. dbs' \in Seq(Names \cup {Null}) /\ dbRef' \in [DbObjs -> Nat]
  BY IInvStep DEF IInv, RInv, TypeOK
<1>3. ASSUME NEW e \in DbObjs, NEW n \in Names, NEW p \in BOOLEAN,
             NEW q \in BOOLEAN, NewLevelDB(e, n, p, q)
      PROVE  valueToDb(dbRef[d])' = Null
  <2>1. dbRef'[d] = dbRef[d]
    BY <1>1, <1>3 DEF NewLevelDB
  <2>2. CASE dbs' = dbs
    BY <1>1, <2>1, <2>2 DEF valueToDb
  <2>3. ASSUME NEW x \in Names \cup {Null}, dbs' = Append(dbs, x)
        PROVE  valueToDb(dbRef[d])' = Null
    <3>1. /\ DOMAIN dbs = 1..Len(dbs) /\ Len(dbs) \in Nat
          /\ DOMAIN dbs' = 1..(Len(dbs) + 1)
          /\ \A k \in DOMAIN dbs : dbs'[k] = dbs[k]
      BY <1>1, <2>3, PushBack
    <3>2. QED BY <1>1, <2>1, <3>1 DEF valueToDb
  <2>4. QED BY <1>3, <2>2, <2>3 DEF NewLevelDB
<1>4. ASSUME NEW k \in DOMAIN dbs, dbs' = [dbs EXCEPT ![k] = Null],
             dbRef'[d] \in {dbRef[d], 0}
      PROVE  valueToDb(dbRef[d])' = Null
  <2>1. /\ DOMAIN dbs' = DOMAIN dbs /\ dbs'[k] = Null
        /\ \A j \in DOMAIN dbs : j # k => dbs'[j] = dbs[j]
    BY <1>1, <1>4, SetSlot
  <2>2. QED BY <1>1, <1>2, <1>4, <2>1 DEF valueToDb
<1>5. ASSUME NEW e \in DbObjs, CloseDB(e) PROVE valueToDb(dbRef[d])' = Null
  BY <1>1, <1>4, <1>5 DEF CloseDB, valueToDb
<1>6. ASSUME UNCHANGED dbs, dbRef'[d] \in {dbRef[d], 0}
      PROVE  valueToDb(dbRef[d])' = Null
  BY <1>1, <1>6 DEF valueToDb
<1>7. ASSUME NEW n \in Names, NEW force \in BOOLEAN, destroyDB(n, force)
      PROVE  valueToDb(dbRef[d])' = Null
  <2>1. CASE openRefs[n] = NoRef
    BY <1>6, <1>7, <2>1 DEF destroyDB
  <2>2. CASE openRefs[n] # NoRef
    BY <1>4, <1>7, <2>2 DEF destroyDB, valueToDb
  <2>3. QED BY <2>1, <2>2
<1>8. CASE StartRuntime \/ StopRuntime \/ RestartProcess
  <2>1. StartRuntime => dbName'[d] = Null
    BY DEF StartRuntime, jsVars, IInv, Quiescent
  <2>2. StopRuntime \/ RestartProcess => dbName'[d] = Null
    BY DEF StopRuntime, RestartProcess, FreshRuntime
  <2>3. QED BY <1>8, <2>1, <2>2
<1>9. ASSUME NEW e \in DbObjs, DropDB(e) PROVE valueToDb(dbRef[d])' = Null
  BY <1>1, <1>6, <1>9 DEF DropDB, nativeVars
<1>10. ASSUME \/ \E e \in DbObjs : Put(e)
              \/ \E dst, src \in DbObjs : Merge(dst, src)
              \/ \E i \in ItObjs, e \in DbObjs : NewIterator(i, e)
              \/ \E i \in ItObjs : \/ MoveIterator(i) \/ CompareKey(i)
                                   \/ CloseIterator(i) \/ DropIterator(i)
              \/ \E b \in BatchObjs : \/ NewWriteBatch(b) \/ BatchPut(b)
                                      \/ CloseWriteBatch(b) \/ DropWriteBatch(b)
              \/ \E e \in DbObjs, b \in BatchObjs : Write(e, b)
              \/ UNCHANGED vars
       PROVE  valueToDb(dbRef[d])' = Null
  <2>1. UNCHANGED <<dbs, dbRef>>
    BY <1>10 DEF Put, Merge, NewIterator, MoveIterator, CompareKey, CloseIterator,
       DropIterator, NewWriteBatch, BatchPut, CloseWriteBatch, DropWriteBatch,
       Write, vars, jsVars, nativeVars
  <2>2. QED BY <1>6, <2>1
<1>11. QED
  BY <1>3, <1>5, <1>7, <1>8, <1>9, <1>10 DEF Next, OtherSteps

\* A wrapper that reported closed reports closed for good, also after another
\* wrapper reopens the name.
THEOREM ClosedIsForever == Spec => ClosedForever
<1>1. ASSUME IInv, [Next]_vars, NEW d \in DbObjs, dbName[d] # Null, Closed(d),
             dbName'[d] # Null
      PROVE  Closed(d)'
  <2>1. runtime = "bound"
    BY <1>1 DEF IInv, Quiescent
  <2>2. valueToDb(dbRef[d]) = Null
    BY <1>1, <2>1, ClosedIsExact DEF ClosedAgrees
  <2>3. IInv' /\ valueToDb(dbRef[d])' = Null
    BY <1>1, <2>2, IInvStep, EmptyStaysEmpty
  <2>4. ASSUME NEW n \in Names, openRefs'[n] = dbRef'[d], dbRef'[d] # NoRef
        PROVE  FALSE
    <3>1. dbRef'[d] \in DOMAIN dbs' /\ dbs'[dbRef'[d]] = n
      BY <2>3, <2>4 DEF IInv, ListedIsOpen
    <3>2. QED BY <2>3, <3>1, NullNotName DEF valueToDb
  <2>5. QED BY <2>4 DEF Closed
<1>2. IInv /\ [Next]_vars =>
        [\A d \in DbObjs :
           dbName[d] # Null /\ Closed(d) /\ dbName'[d] # Null => Closed(d)']_vars
  BY <1>1
<1>3. QED BY <1>2, IInvariant, PTL DEF Spec, ClosedForever

\* No write reaches a database of another name than its wrapper's.
THEOREM WritesStayHome == Spec => []NoCrossWrite
<1>1. IInv => NoCrossWrite
  BY DEF IInv
<1>2. QED BY <1>1, IInvariant, PTL

\* An iterator reads the database it was asked from.
THEOREM IteratorsStayHome == Spec => []IteratorRouting
<1>1. IInv => IteratorRouting
  <2> SUFFICES ASSUME IInv, NEW i \in ItObjs,
                      valueToIterator(itRef[i]) # NoRef,
                      ~Dangling(valueToIterator(itRef[i]))
               PROVE  valueToDb(valueToIterator(itRef[i])) = itName[i]
    BY DEF IteratorRouting
  <2>1. /\ itRef[i] \in DOMAIN iterators /\ itRef[i] # NoRef
        /\ valueToIterator(itRef[i]) = iterators[itRef[i]]
    BY DEF valueToIterator, IInv, RInv, TypeOK, NoRef
  <2>2. QED BY <2>1 DEF IInv, ItRouting, valueToDb, Dangling
<1>2. QED BY <1>1, IInvariant, PTL

\* Reusing the slots of closed batches never mixes two wrappers' updates.
THEOREM BatchesAreIsolated == Spec => []BatchIsolation
<1>1. IInv => BatchIsolation
  <2> SUFFICES ASSUME IInv, NEW b \in BatchObjs,
                      valueToWriteBatch(batchRef[b]) # Null
               PROVE  valueToWriteBatch(batchRef[b]) \subseteq {b}
    BY DEF BatchIsolation
  <2>1. /\ batchRef[b] \in DOMAIN batches /\ batchRef[b] # NoRef
        /\ valueToWriteBatch(batchRef[b]) = batches[batchRef[b]]
    BY DEF valueToWriteBatch, IInv, RInv, TypeOK, NoRef
  <2>2. QED BY <2>1 DEF IInv, BatchOwnership
<1>2. QED BY <1>1, IInvariant, PTL

\* A client that closes its iterators before their database never makes a host
\* function touch freed memory.
THEOREM ContractIsEnough == ContractSpec => []NoUseAfterFree
<1>1. Init => CInv
  BY IInvInit, Cleared DEF Init, CInv, IteratorsOwned, NoUseAfterFree
<1>2. CInv => NoUseAfterFree
  BY DEF CInv
<1>3. QED BY <1>1, <1>2, CInvStep, PTL DEF ContractSpec
=============================================================================
