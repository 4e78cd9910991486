------------------------------- MODULE Handles -------------------------------
(***************************************************************************)
(* Lifetimes of the objects an application reaches through rn-leveldb.     *)
(*                                                                         *)
(* Three layers hold state about one open database:                        *)
(*   - the JavaScript wrappers (src/index.ts): LevelDB, LevelDBIterator    *)
(*     and LevelDBWriteBatch objects, each holding a number `ref', and the *)
(*     table LevelDB.openRefs() on globalThis from a name to a ref;        *)
(*   - the native registries (cpp/react-native-leveldb.cpp): the vectors   *)
(*     dbs, iterators and batches that a ref indexes;                      *)
(*   - LevelDB itself: the database directory and its LOCK.                *)
(* They are kept in step by hand.  This module models every operation that *)
(* changes one of them, the reload flow of React Native included, and      *)
(* states what it means for them to agree.                                 *)
(*                                                                         *)
(* Refs are 1-based here (a vector is a sequence) and NoRef = 0 stands for *)
(* what a wrapper holds when it has no handle: -1 for iterators and        *)
(* batches, undefined for databases.  Every host function refuses both.    *)
(* A call that throws without changing anything is a stuttering step.      *)
(***************************************************************************)
EXTENDS Integers, Sequences

CONSTANTS
  Names,        \* database names passed to new LevelDB(name, ...)
  DbObjs,       \* LevelDB wrapper objects
  ItObjs,       \* LevelDBIterator wrapper objects
  BatchObjs,    \* LevelDBWriteBatch wrapper objects
  Null,         \* an empty unique_ptr, or the name of an object not constructed
  MaxDbs,       \* bound on the length of the vector dbs
  MaxIterators, \* bound on the length of the vector iterators
  MaxBatches    \* bound on the length of the vector batches

ASSUME HandlesAssumption ==
  /\ Null \notin Names
  /\ \A S \in SUBSET BatchObjs : Null # S
  /\ MaxDbs \in Nat /\ MaxIterators \in Nat /\ MaxBatches \in Nat

VARIABLES
  runtime,    \* "down", "unbound" (install failed) or "bound": the JS runtime
  initError,  \* nativeModuleInitError # null
  openRefs,   \* globalThis.__rn_leveldb_openPathRefs
  dbName,     \* the name a LevelDB object was constructed with (history)
  dbRef,      \* LevelDB.ref
  itName,     \* the name of the database an iterator was asked from (history)
  itRef,      \* LevelDBIterator.ref
  batchRef,   \* LevelDBWriteBatch.ref
  dbs,        \* native: the name of the open database in each slot, or Null
  iterators,  \* native: the dbs slot of each iterator's database, or NoRef
  batches,    \* native: the wrappers that added an update to the batch, or Null
  exists,     \* names whose directory holds a database (a CURRENT file)
  content,    \* for each directory, the databases its writes were meant for
  fault       \* undefined behaviour executed by a host function, if any

jsVars     == <<openRefs, dbName, dbRef, itName, itRef, batchRef>>
nativeVars == <<dbs, iterators, batches>>
diskVars   == <<exists, content>>
vars == <<runtime, initError, jsVars, nativeVars, diskVars, fault>>

NoRef == 0

TypeOK ==
  /\ runtime \in {"down", "unbound", "bound"}
  /\ initError \in BOOLEAN
  /\ openRefs \in [Names -> Nat]
  /\ dbName \in [DbObjs -> Names \cup {Null}]
  /\ dbRef \in [DbObjs -> Nat]
  /\ itName \in [ItObjs -> Names \cup {Null}]
  /\ itRef \in [ItObjs -> Nat]
  /\ batchRef \in [BatchObjs -> Nat]
  /\ dbs \in Seq(Names \cup {Null})
  /\ iterators \in Seq(Nat)
  /\ batches \in Seq((SUBSET BatchObjs) \cup {Null})
  /\ exists \in SUBSET Names
  /\ content \in [Names -> SUBSET Names]
  /\ fault \in {"none", "null_deref", "use_after_free"}

-----------------------------------------------------------------------------
(***************************************************************************)
(* What the host functions look up, and what LevelDB answers.              *)
(***************************************************************************)

\* valueToDb: the open database a ref denotes, Null when the call throws.
valueToDb(ref) == IF ref \in DOMAIN dbs THEN dbs[ref] ELSE Null

\* valueToIterator: the dbs slot of the iterator, NoRef when there is none.
valueToIterator(ref) ==
  IF ref \in DOMAIN iterators THEN iterators[ref] ELSE NoRef

\* valueToWriteBatch: the batch, Null when the call throws.
valueToWriteBatch(ref) == IF ref \in DOMAIN batches THEN batches[ref] ELSE Null

\* An iterator whose database object has been deleted.  DBImpl's destructor
\* frees the mutex, the table cache and the versions that the iterator, and the
\* cleanup it runs when it is deleted, still point to.
Dangling(it) == valueToDb(it) = Null

\* The LOCK of a database directory: held by the DBImpl that has it open.
Locked(n) == \E r \in DOMAIN dbs : dbs[r] = n

\* DB::Open as DBImpl::Recover decides it: the lock is taken first, then
\* CURRENT is looked for.  A failed open deletes the DBImpl, which unlocks.
OpenSucceeds(n, createIfMissing, errorIfExists) ==
  /\ ~Locked(n)
  /\ IF n \in exists THEN ~errorIfExists ELSE createIfMissing

\* LevelDB.closed().
Closed(d) ==
  \/ dbRef[d] = NoRef
  \/ \A n \in Names : openRefs[n] # dbRef[d]

\* cleanupLeveldb: iterators first, so that each is deleted before its database,
\* unless the database was closed under it earlier.
Cleanup == /\ iterators' = <<>>
           /\ dbs' = <<>>
           /\ batches' = <<>>
           /\ fault' = IF \E r \in DOMAIN iterators :
                             iterators[r] # NoRef /\ Dangling(iterators[r])
                       THEN "use_after_free" ELSE fault

\* A fresh globalThis and an empty JavaScript heap.
FreshRuntime ==
  /\ openRefs' = [n \in Names |-> NoRef]
  /\ dbName' = [d \in DbObjs |-> Null]
  /\ dbRef' = [d \in DbObjs |-> NoRef]
  /\ itName' = [i \in ItObjs |-> Null]
  /\ itRef' = [i \in ItObjs |-> NoRef]
  /\ batchRef' = [b \in BatchObjs |-> NoRef]

\* Host functions can be called.
Running == runtime = "bound" /\ fault = "none"

-----------------------------------------------------------------------------
(***************************************************************************)
(* Databases.                                                              *)
(***************************************************************************)

\* Mutant: the registries' TODO carried out naively, open reuses an empty slot.
NewLevelDBReusingSlots(d, n, createIfMissing, errorIfExists) ==
  /\ Running
  /\ dbName[d] = Null
  /\ \/ /\ openRefs[n] # NoRef
        /\ dbRef' = [dbRef EXCEPT ![d] = openRefs[n]]
        /\ UNCHANGED <<openRefs, dbs, exists>>
     \/ /\ openRefs[n] = NoRef
        /\ OpenSucceeds(n, createIfMissing, errorIfExists)
        /\ \E r \in 1..MaxDbs :
             /\ r <= Len(dbs) + 1
             /\ r <= Len(dbs) => dbs[r] = Null
             /\ dbs' = [s \in 1..(IF r > Len(dbs) THEN r ELSE Len(dbs)) |->
                          IF s = r THEN n ELSE dbs[s]]
             /\ openRefs' = [openRefs EXCEPT ![n] = r]
             /\ dbRef' = [dbRef EXCEPT ![d] = r]
        /\ exists' = exists \cup {n}
  /\ dbName' = [dbName EXCEPT ![d] = n]
  /\ UNCHANGED <<runtime, initError, itName, itRef, batchRef, iterators,
                 batches, content, fault>>

\* new LevelDB(name, createIfMissing, errorIfExists), leveldbOpen included.
\* The vector grows even when the open fails: an empty slot is left behind.
NewLevelDB(d, n, createIfMissing, errorIfExists) ==
  /\ Running
  /\ ~initError
  /\ dbName[d] = Null
  /\ \/ /\ openRefs[n] # NoRef
        /\ dbName' = [dbName EXCEPT ![d] = n]
        /\ dbRef' = [dbRef EXCEPT ![d] = openRefs[n]]
        /\ UNCHANGED <<openRefs, dbs, exists>>
     \/ /\ openRefs[n] = NoRef
        /\ Len(dbs) < MaxDbs
        /\ IF OpenSucceeds(n, createIfMissing, errorIfExists)
           THEN /\ dbs' = Append(dbs, n)
                /\ exists' = exists \cup {n}
                /\ openRefs' = [openRefs EXCEPT ![n] = Len(dbs) + 1]
                /\ dbName' = [dbName EXCEPT ![d] = n]
                /\ dbRef' = [dbRef EXCEPT ![d] = Len(dbs) + 1]
           ELSE /\ dbs' = Append(dbs, Null)
                /\ UNCHANGED <<openRefs, dbName, dbRef, exists>>
  /\ UNCHANGED <<runtime, initError, itName, itRef, batchRef, iterators,
                 batches, content, fault>>

\* Mutant: close() leaves the name in openRefs.
CloseDBKeepingName(d) ==
  /\ Running
  /\ valueToDb(dbRef[d]) # Null
  /\ dbs' = [dbs EXCEPT ![dbRef[d]] = Null]
  /\ dbRef' = [dbRef EXCEPT ![d] = NoRef]
  /\ UNCHANGED <<runtime, initError, openRefs, dbName, itName, itRef, batchRef,
                 iterators, batches, diskVars, fault>>

\* LevelDB.close() and leveldbClose: every name bound to the ref is forgotten.
CloseDB(d) ==
  /\ Running
  /\ valueToDb(dbRef[d]) # Null
  /\ dbs' = [dbs EXCEPT ![dbRef[d]] = Null]
  /\ openRefs' = [n \in Names |->
                    IF openRefs[n] = dbRef[d] THEN NoRef ELSE openRefs[n]]
  /\ dbRef' = [dbRef EXCEPT ![d] = NoRef]
  /\ UNCHANGED <<runtime, initError, dbName, itName, itRef, batchRef, iterators,
                 batches, diskVars, fault>>

\* LevelDB.destroyDB(name, force), leveldbClose and leveldbDestroy included.
\* DestroyDB refuses a locked directory; the handle closed before stays closed.
destroyDB(n, force) ==
  /\ Running
  /\ \/ /\ openRefs[n] = NoRef
        /\ UNCHANGED <<openRefs, dbs>>
     \/ /\ openRefs[n] # NoRef
        /\ force
        /\ valueToDb(openRefs[n]) # Null
        /\ dbs' = [dbs EXCEPT ![openRefs[n]] = Null]
        /\ openRefs' = [openRefs EXCEPT ![n] = NoRef]
  /\ IF Locked(n)'
     THEN UNCHANGED diskVars
     ELSE /\ exists' = exists \ {n}
          /\ content' = [content EXCEPT ![n] = {}]
  /\ UNCHANGED <<runtime, initError, dbName, dbRef, itName, itRef, batchRef,
                 iterators, batches, fault>>

\* LevelDB.put, delete: the update reaches the database in the slot.
Put(d) ==
  /\ Running
  /\ dbName[d] # Null
  /\ valueToDb(dbRef[d]) # Null
  /\ content' = [content EXCEPT ![valueToDb(dbRef[d])] = @ \cup {dbName[d]}]
  /\ UNCHANGED <<runtime, initError, jsVars, nativeVars, exists, fault>>

\* LevelDB.merge(src, batchMerge): the whole of src is written into dst.
Merge(dst, src) ==
  /\ Running
  /\ dbName[dst] # Null
  /\ valueToDb(dbRef[dst]) # Null
  /\ valueToDb(dbRef[src]) # Null
  /\ content[valueToDb(dbRef[src])] # {}
  /\ content' = [content EXCEPT ![valueToDb(dbRef[dst])] = @ \cup {dbName[dst]}]
  /\ UNCHANGED <<runtime, initError, jsVars, nativeVars, exists, fault>>

-----------------------------------------------------------------------------
(***************************************************************************)
(* Iterators.                                                              *)
(***************************************************************************)

\* Mutant: the index is read before the push.
NewIteratorOffByOne(i, d) ==
  /\ Running
  /\ itName[i] = Null
  /\ dbName[d] # Null
  /\ valueToDb(dbRef[d]) # Null
  /\ Len(iterators) < MaxIterators
  /\ iterators' = Append(iterators, dbRef[d])
  /\ itName' = [itName EXCEPT ![i] = dbName[d]]
  /\ itRef' = [itRef EXCEPT ![i] = Len(iterators)]
  /\ UNCHANGED <<runtime, initError, openRefs, dbName, dbRef, batchRef, dbs,
                 batches, diskVars, fault>>

\* LevelDB.newIterator() and leveldbNewIterator.
NewIterator(i, d) ==
  /\ Running
  /\ itName[i] = Null
  /\ dbName[d] # Null
  /\ valueToDb(dbRef[d]) # Null
  /\ Len(iterators) < MaxIterators
  /\ iterators' = Append(iterators, dbRef[d])
  /\ itName' = [itName EXCEPT ![i] = dbName[d]]
  /\ itRef' = [itRef EXCEPT ![i] = Len(iterators) + 1]
  /\ UNCHANGED <<runtime, initError, openRefs, dbName, dbRef, batchRef, dbs,
                 batches, diskVars, fault>>

\* seekToFirst, seekLast, seek, next, prev read through the database object's
\* table cache, block cache and mutex: undefined once that object is gone.
\* (valid, key* and value* read only what the iterator itself keeps alive.)
MoveIterator(i) ==
  /\ Running
  /\ valueToIterator(itRef[i]) # NoRef
  /\ Dangling(valueToIterator(itRef[i]))
  /\ fault' = "use_after_free"
  /\ UNCHANGED <<runtime, initError, jsVars, nativeVars, diskVars>>

\* LevelDBIterator.compareKey: leveldbIteratorKeyCompare calls key() before it
\* tests the pointer it was given.
CompareKey(i) ==
  /\ Running
  /\ itName[i] # Null
  /\ valueToIterator(itRef[i]) = NoRef
  /\ fault' = "null_deref"
  /\ UNCHANGED <<runtime, initError, jsVars, nativeVars, diskVars>>

\* LevelDBIterator.close() and leveldbIteratorDelete.
CloseIterator(i) ==
  /\ Running
  /\ valueToIterator(itRef[i]) # NoRef
  /\ IF Dangling(valueToIterator(itRef[i]))
     THEN /\ fault' = "use_after_free"
          /\ UNCHANGED <<iterators, itRef>>
     ELSE /\ iterators' = [iterators EXCEPT ![itRef[i]] = NoRef]
          /\ itRef' = [itRef EXCEPT ![i] = NoRef]
          /\ UNCHANGED fault
  /\ UNCHANGED <<runtime, initError, openRefs, dbName, dbRef, itName, batchRef,
                 dbs, batches, diskVars>>

-----------------------------------------------------------------------------
(***************************************************************************)
(* Write batches: the only registry whose slots are reused.                *)
(***************************************************************************)

EmptySlots == {r \in DOMAIN batches : batches[r] = Null}

\* new LevelDBWriteBatch() and leveldbNewWriteBatch: the first empty slot, or a
\* new one.
NewWriteBatch(b) ==
  /\ Running
  /\ batchRef[b] = NoRef
  /\ \/ \E r \in EmptySlots :
          /\ \A s \in EmptySlots : r <= s
          /\ batches' = [batches EXCEPT ![r] = {}]
          /\ batchRef' = [batchRef EXCEPT ![b] = r]
     \/ /\ EmptySlots = {}
        /\ Len(batches) < MaxBatches
        /\ batches' = Append(batches, {})
        /\ batchRef' = [batchRef EXCEPT ![b] = Len(batches) + 1]
  /\ UNCHANGED <<runtime, initError, openRefs, dbName, dbRef, itName, itRef,
                 dbs, iterators, diskVars, fault>>

\* LevelDBWriteBatch.put, delete.
BatchPut(b) ==
  /\ Running
  /\ valueToWriteBatch(batchRef[b]) # Null
  /\ batches' = [batches EXCEPT ![batchRef[b]] = @ \cup {b}]
  /\ UNCHANGED <<runtime, initError, jsVars, dbs, iterators, diskVars, fault>>

\* Mutant: close() keeps the ref of the slot it gives back.
CloseWriteBatchKeepingRef(b) ==
  /\ Running
  /\ valueToWriteBatch(batchRef[b]) # Null
  /\ batches' = [batches EXCEPT ![batchRef[b]] = Null]
  /\ UNCHANGED <<runtime, initError, jsVars, dbs, iterators, diskVars, fault>>

\* LevelDBWriteBatch.close() and leveldbWriteBatchClose.
CloseWriteBatch(b) ==
  /\ Running
  /\ valueToWriteBatch(batchRef[b]) # Null
  /\ batches' = [batches EXCEPT ![batchRef[b]] = Null]
  /\ batchRef' = [batchRef EXCEPT ![b] = NoRef]
  /\ UNCHANGED <<runtime, initError, openRefs, dbName, dbRef, itName, itRef,
                 dbs, iterators, diskVars, fault>>

\* LevelDB.write(batch) and leveldbWriteWriteBatch.
Write(d, b) ==
  /\ Running
  /\ dbName[d] # Null
  /\ valueToDb(dbRef[d]) # Null
  /\ valueToWriteBatch(batchRef[b]) \notin {Null, {}}
  /\ content' = [content EXCEPT ![valueToDb(dbRef[d])] = @ \cup {dbName[d]}]
  /\ UNCHANGED <<runtime, initError, jsVars, nativeVars, exists, fault>>

-----------------------------------------------------------------------------
(***************************************************************************)
(* The runtime's life.                                                     *)
(***************************************************************************)

\* The application drops its last reference to a wrapper: there is no
\* finalizer, so the native object it denotes stays.
DropDB(d) ==
  /\ Running
  /\ dbName[d] # Null
  /\ dbName' = [dbName EXCEPT ![d] = Null]
  /\ dbRef' = [dbRef EXCEPT ![d] = NoRef]
  /\ UNCHANGED <<runtime, initError, openRefs, itName, itRef, batchRef,
                 nativeVars, diskVars, fault>>

DropIterator(i) ==
  /\ Running
  /\ itName[i] # Null
  /\ itName' = [itName EXCEPT ![i] = Null]
  /\ itRef' = [itRef EXCEPT ![i] = NoRef]
  /\ UNCHANGED <<runtime, initError, openRefs, dbName, dbRef, batchRef,
                 nativeVars, diskVars, fault>>

DropWriteBatch(b) ==
  /\ Running
  /\ batchRef[b] # NoRef
  /\ batchRef' = [batchRef EXCEPT ![b] = NoRef]
  /\ UNCHANGED <<runtime, initError, openRefs, dbName, dbRef, itName, itRef,
                 nativeVars, diskVars, fault>>

\* Mutant: installLeveldb does not clean up first.
InstallWithoutCleanup(runtimeOnFailure) ==
  /\ initError' = FALSE
  /\ runtime' = "bound"
  /\ UNCHANGED <<nativeVars, fault>>

\* The module src/index.ts is evaluated: install() reports failure without
\* touching anything, or runs installLeveldb, whose first act is cleanupLeveldb.
Install(runtimeOnFailure) ==
  \/ /\ initError' = TRUE
     /\ runtime' = runtimeOnFailure
     /\ UNCHANGED <<nativeVars, fault>>
  \/ /\ initError' = FALSE
     /\ runtime' = "bound"
     /\ Cleanup

\* A JavaScript runtime is started and loads the package.
StartRuntime ==
  /\ runtime = "down"
  /\ fault = "none"
  /\ Install("unbound")
  /\ UNCHANGED <<jsVars, diskVars>>

\* The runtime is torn down.  React Native calls invalidate (iOS) or
\* onCatalystInstanceDestroy (Android), which clean up, or the runtime is
\* recreated without the call and the native objects linger.
StopRuntime ==
  /\ runtime # "down"
  /\ fault = "none"
  /\ runtime' = "down"
  /\ FreshRuntime
  /\ Cleanup \/ UNCHANGED <<nativeVars, fault>>
  /\ UNCHANGED <<initError, diskVars>>

\* Metro evaluates src/index.ts again in the same runtime: globalThis, and with
\* it openRefs, and every wrapper the application holds survive.
ReloadModule ==
  /\ runtime # "down"
  /\ fault = "none"
  /\ Install(runtime)
  /\ UNCHANGED <<jsVars, diskVars>>

\* The previous runtime's invalidate, queued on the module's own queue, runs
\* only after the next runtime has installed its bindings.
LateInvalidate ==
  /\ Running
  /\ Cleanup
  /\ UNCHANGED <<runtime, initError, jsVars, diskVars>>

\* The process ends, for whatever reason, and is started again.  LevelDB's
\* directories survive it, everything else is lost.
RestartProcess ==
  /\ runtime' = "down"
  /\ initError' = FALSE
  /\ FreshRuntime
  /\ dbs' = <<>> /\ iterators' = <<>> /\ batches' = <<>>
  /\ fault' = "none"
  /\ UNCHANGED diskVars

Init ==
  /\ runtime = "down"
  /\ initError = FALSE
  /\ openRefs = [n \in Names |-> NoRef]
  /\ dbName = [d \in DbObjs |-> Null]
  /\ dbRef = [d \in DbObjs |-> NoRef]
  /\ itName = [i \in ItObjs |-> Null]
  /\ itRef = [i \in ItObjs |-> NoRef]
  /\ batchRef = [b \in BatchObjs |-> NoRef]
  /\ dbs = <<>> /\ iterators = <<>> /\ batches = <<>>
  /\ exists = {}
  /\ content = [n \in Names |-> {}]
  /\ fault = "none"

-----------------------------------------------------------------------------
(***************************************************************************)
(* Specifications.  They differ in what the application and React Native   *)
(* are assumed to do, never in what the package does.                      *)
(***************************************************************************)

\* Steps no client contract restricts.
OtherSteps ==
  \/ \E d \in DbObjs, n \in Names, c, e \in BOOLEAN : NewLevelDB(d, n, c, e)
  \/ \E d \in DbObjs : Put(d) \/ DropDB(d)
  \/ \E dst, src \in DbObjs : Merge(dst, src)
  \/ \E i \in ItObjs, d \in DbObjs : NewIterator(i, d)
  \/ \E i \in ItObjs : MoveIterator(i) \/ CompareKey(i) \/ CloseIterator(i)
  \/ \E b \in BatchObjs :
       NewWriteBatch(b) \/ BatchPut(b) \/ CloseWriteBatch(b) \/ DropWriteBatch(b)
  \/ \E d \in DbObjs, b \in BatchObjs : Write(d, b)
  \/ StartRuntime
  \/ StopRuntime
  \/ RestartProcess

\* Any client; runtimes replace one another in order.
Next ==
  \/ OtherSteps
  \/ \E d \in DbObjs : CloseDB(d)
  \/ \E n \in Names, force \in BOOLEAN : destroyDB(n, force)
  \/ \E i \in ItObjs : DropIterator(i)

Spec == Init /\ [][Next]_vars

\* A client that keeps to LevelDBI.newIterator's comment: an iterator is closed
\* when it is no longer needed, and before its database is closed.
IteratorsClosed(n) == \A i \in ItObjs : itName[i] = n => itRef[i] = NoRef

ContractNext ==
  \/ OtherSteps
  \/ \E d \in DbObjs : IteratorsClosed(dbName[d]) /\ CloseDB(d)
  \/ \E n \in Names, force \in BOOLEAN : IteratorsClosed(n) /\ destroyDB(n, force)
  \/ \E i \in ItObjs : itRef[i] = NoRef /\ DropIterator(i)

ContractSpec == Init /\ [][ContractNext]_vars

\* Metro may evaluate the module again under a live runtime.
ModuleReloadSpec == Init /\ [][Next \/ ReloadModule]_vars

\* So may a late invalidate of the previous runtime clean up under it.
ReloadNext == Next \/ ReloadModule \/ LateInvalidate

ReloadSpec == Init /\ [][ReloadNext]_vars

-----------------------------------------------------------------------------
(***************************************************************************)
(* Properties.                                                             *)
(***************************************************************************)

\* closed() tells the truth: a wrapper reports closed exactly when the host
\* functions would refuse its ref, whichever of the wrappers that share the
\* database closed it, and after a forced destroyDB too.
ClosedAgrees ==
  runtime = "bound" =>
    \A d \in DbObjs : dbName[d] # Null =>
      (Closed(d) <=> valueToDb(dbRef[d]) = Null)

\* A wrapper that has reported closed never comes back to life, even when its
\* database is opened again under the same name.
ClosedForever ==
  [][\A d \in DbObjs :
       dbName[d] # Null /\ Closed(d) /\ dbName'[d] # Null => Closed(d)']_vars

\* Put, write and merge through a wrapper constructed for one name never change
\* the database of another name.
NoCrossWrite == \A n \in Names : content[n] \subseteq {n}

\* An iterator reads the database it was asked from.
IteratorRouting ==
  \A i \in ItObjs :
    LET it == valueToIterator(itRef[i])
    IN  it # NoRef /\ ~Dangling(it) => valueToDb(it) = itName[i]

\* A database that this runtime does not hold open can be opened: no handle of
\* an earlier runtime, or of a failed or forced operation, holds its LOCK
\* (installLeveldb: "so LevelDB file locks don't linger").
NotLockedOut ==
  runtime = "bound" => \A n \in Names : openRefs[n] = NoRef => ~Locked(n)

\* The updates in a live wrapper's batch are its own: no other wrapper, of a
\* closed batch whose slot was reused, added one.
BatchIsolation ==
  \A b \in BatchObjs :
    valueToWriteBatch(batchRef[b]) # Null =>
      valueToWriteBatch(batchRef[b]) \subseteq {b}

\* No host function moves or deletes an iterator whose database object was
\* deleted.
NoUseAfterFree == fault # "use_after_free"

\* No host function dereferences the null pointer of a closed iterator.
NoNullDeref == fault # "null_deref"
=============================================================================
