------------------------------ MODULE TableCache ------------------------------
(***************************************************************************)
(* The cache of open tables: TableCache (db/table_cache.cc) over one shard *)
(* of the LRUCache (util/cache.cc), with the files PosixEnv opens for it   *)
(* and the two Limiters that bound mappings and descriptors                *)
(* (util/env_posix.cc).  The cache's own operations hold its mutex; what   *)
(* FindTable does between a Lookup that misses and its Insert does not, so *)
(* two readers may open one table twice.  The rounds of the loop that ends *)
(* an Insert are steps of their own, and the mutex is held meanwhile.      *)
(*                                                                         *)
(* A table is deleted only when no version in use has it                   *)
(* (NoTableDeletedInUse of LsmStore), hence when no reader is at it.       *)
(* Every entry has charge 1, as in FindTable.                              *)
(***************************************************************************)
EXTENDS Integers, Sequences, FiniteSets, SequencesExt

CONSTANTS
  Files,       \* table files
  TableReaders,\* threads that read tables
  Capacities,  \* capacities of the shard, one to be chosen
  MaxMmaps,
  MaxOpenFiles,
  Nil          \* no file, no handle

ASSUME TableCacheAssumption ==
  /\ IsFiniteSet(Files) /\ IsFiniteSet(TableReaders)
  /\ Capacities \subseteq Nat /\ MaxMmaps \in Nat /\ MaxOpenFiles \in Nat
  /\ Nil \notin Files /\ Nil \notin Int

\* Memory for handles: as many as can exist at once.
Slots == 1..(Cardinality(Files) + Cardinality(TableReaders))

\* What the two limiters limit, and how much of it there is.
Limited == {"mmap", "fd"}
MaxAllowed(what) == IF what = "mmap" THEN MaxMmaps ELSE MaxOpenFiles

VARIABLES
  capacity,
  handle,    \* LRUHandle: the file, its references, how it is open
  in_cache,  \* the handles whose in_cache is set
  table,     \* the handle the hash table has for each file
  lru,       \* the lru_ list, oldest first
  in_use,    \* the in_use_ list
  usage,
  allowed,   \* acquires_allowed_ of the two limiters
  reader,    \* where each reader is in FindTable, for which file, its handle
  deleted    \* the files evicted and removed

cacheVars == <<capacity, handle, in_cache, table, lru, in_use, usage, allowed, reader, deleted>>
shardVars == <<handle, in_cache, table, lru, in_use, usage>>

Free == [file |-> Nil, refs |-> 0, as |-> "closed"]
AtRest == [at |-> "idle", file |-> Nil, handle |-> Nil, as |-> "closed"]

CacheInit ==
  /\ capacity \in Capacities
  /\ handle = [h \in Slots |-> Free] /\ in_cache = {}
  /\ table = [f \in Files |-> Nil]
  /\ lru = <<>> /\ in_use = {}
  /\ usage = 0
  /\ allowed = [what \in Limited |-> MaxAllowed(what)]
  /\ reader = [r \in TableReaders |-> AtRest]
  /\ deleted = {}

-------------------------------------------------------------------------------
(* The shard, as a record, while its mutex is held; with the permits of    *)
(* the limiters, as deleting a table gives one back.                       *)

Shard == [handle |-> handle, in_cache |-> in_cache, table |-> table, lru |-> lru,
          in_use |-> in_use, usage |-> usage, allowed |-> allowed]

SetShard(s) ==
  /\ handle' = s.handle /\ in_cache' = s.in_cache /\ table' = s.table /\ lru' = s.lru
  /\ in_use' = s.in_use /\ usage' = s.usage /\ allowed' = s.allowed

\* The destructors of PosixMmapReadableFile and PosixRandomAccessFile
CloseFile(permits, as) ==
  IF as \in Limited THEN [permits EXCEPT ![as] = @ + 1] ELSE permits

\* A list without one of its handles
Without(list, h) ==
  IF h \in ToSet(list) THEN RemoveAt(list, CHOOSE i \in DOMAIN list : list[i] = h) ELSE list

LRU_Remove(s, h) == [s EXCEPT !.lru = Without(@, h), !.in_use = @ \ {h}]

Ref(s, h) ==
  LET moved == IF s.handle[h].refs = 1 /\ h \in s.in_cache
               THEN [LRU_Remove(s, h) EXCEPT !.in_use = @ \cup {h}]
               ELSE s
  IN  [moved EXCEPT !.handle[h].refs = @ + 1]

\* Unref, with DeleteEntry for the last reference
Unref(s, h) ==
  LET e == [s.handle[h] EXCEPT !.refs = @ - 1]
      less == [s EXCEPT !.handle[h] = e]
  IN  IF e.refs = 0
      THEN [less EXCEPT !.handle[h] = Free, !.allowed = CloseFile(@, e.as)]
      ELSE IF h \in s.in_cache /\ e.refs = 1
      THEN [LRU_Remove(less, h) EXCEPT !.lru = Append(@, h)]
      ELSE less

\* FinishErase, for the handle h that the table had or Nil
FinishErase(s, h) ==
  IF h = Nil THEN s
  ELSE Unref([LRU_Remove(s, h) EXCEPT !.in_cache = @ \ {h}, !.usage = @ - 1], h)

\* FinishErase(table_.Remove(...))
Erase(s, f) == FinishErase([s EXCEPT !.table[f] = Nil], s.table[f])

\* A handle that LRUCache::Insert made, with its references, before it is cached
Allocated(s, h, f, as) ==
  [s EXCEPT !.handle[h] = [file |-> f, refs |-> IF capacity > 0 THEN 2 ELSE 1, as |-> as]]

Cached(s, h, f) ==
  [s EXCEPT !.in_cache = @ \cup {h}, !.in_use = @ \cup {h}, !.usage = @ + 1, !.table[f] = h]

\* Mutant: an entry the new one displaces is forgotten.
InsertForgetting(s, h, f, as) ==
  IF capacity > 0 THEN Cached(Allocated(s, h, f, as), h, f) ELSE Allocated(s, h, f, as)

\* LRUCache::Insert of a new handle h, up to its loop
Insert(s, h, f, as) ==
  IF capacity > 0
  THEN FinishErase(Cached(Allocated(s, h, f, as), h, f), s.table[f])
  ELSE Allocated(s, h, f, as)

-------------------------------------------------------------------------------
(* FindTable and its callers. *)

\* Only the loop of an Insert holds the mutex from step to step.
MutexFree == \A r \in TableReaders : reader[r].at # "shrinking"

Goes(r, at) == reader' = [reader EXCEPT ![r].at = at]
Opens(r, as) == reader' = [reader EXCEPT ![r] = [@ EXCEPT !.at = "opened", !.as = as]]

\* TableCache::Get or ::NewIterator calls FindTable, whose Lookup hits or not.
FindTable(r, f) ==
  /\ reader[r].at = "idle" /\ f \notin deleted /\ MutexFree
  /\ IF table[f] # Nil
     THEN /\ SetShard(Ref(Shard, table[f]))
          /\ reader' = [reader EXCEPT ![r] = [AtRest EXCEPT !.at = "using", !.file = f, !.handle = table[f]]]
     ELSE /\ reader' = [reader EXCEPT ![r] = [AtRest EXCEPT !.at = "acquire_mmap", !.file = f]]
          /\ UNCHANGED <<shardVars, allowed>>
  /\ UNCHANGED <<capacity, deleted>>

\* open() fails, for the .ldb and for the .sst name.
OpenFails(r) ==
  /\ reader[r].at = "acquire_mmap"
  /\ reader' = [reader EXCEPT ![r] = AtRest]
  /\ UNCHANGED <<capacity, shardVars, allowed, deleted>>

\* Limiter::Acquire takes a permit, and gives it back if there was none.
Acquire(r, from, what, got, none) ==
  /\ reader[r].at = from
  /\ allowed' = [allowed EXCEPT ![what] = @ - 1]
  /\ Goes(r, IF allowed[what] > 0 THEN got ELSE none)
  /\ UNCHANGED <<capacity, shardVars, deleted>>

AcquireMmap(r) == Acquire(r, "acquire_mmap", "mmap", "map", "return_mmap")
AcquireFd(r)   == Acquire(r, "acquire_fd", "fd", "keep_fd", "return_fd")

ReturnMmap(r) ==
  /\ reader[r].at = "return_mmap"
  /\ allowed' = [allowed EXCEPT !["mmap"] = @ + 1]
  /\ Goes(r, "acquire_fd")
  /\ UNCHANGED <<capacity, shardVars, deleted>>

\* Without a permit the file will be opened on every read.
ReturnFd(r) ==
  /\ reader[r].at = "return_fd"
  /\ allowed' = [allowed EXCEPT !["fd"] = @ + 1]
  /\ Opens(r, "each_read")
  /\ UNCHANGED <<capacity, shardVars, deleted>>

KeepFd(r) ==
  /\ reader[r].at = "keep_fd"
  /\ Opens(r, "fd")
  /\ UNCHANGED <<capacity, shardVars, allowed, deleted>>

Map(r) ==
  /\ reader[r].at = "map"
  /\ Opens(r, "mmap")
  /\ UNCHANGED <<capacity, shardVars, allowed, deleted>>

\* Mutant: the permit stays taken.
MapFailsKeepingPermit(r) ==
  /\ reader[r].at = "map"
  /\ reader' = [reader EXCEPT ![r] = AtRest]
  /\ UNCHANGED <<capacity, shardVars, allowed, deleted>>

\* GetFileSize or mmap fails, and there is no file of the .sst name.
MapFails(r) ==
  /\ reader[r].at = "map"
  /\ allowed' = [allowed EXCEPT !["mmap"] = @ + 1]
  /\ reader' = [reader EXCEPT ![r] = AtRest]
  /\ UNCHANGED <<capacity, shardVars, deleted>>

\* Table::Open fails, the file is deleted and the error is not cached.
TableOpenFails(r) ==
  /\ reader[r].at = "opened"
  /\ allowed' = CloseFile(allowed, reader[r].as)
  /\ reader' = [reader EXCEPT ![r] = AtRest]
  /\ UNCHANGED <<capacity, shardVars, deleted>>

TableOpened(r) ==
  LET h == CHOOSE g \in Slots : handle[g] = Free
  IN  /\ reader[r].at = "opened" /\ MutexFree
      /\ SetShard(Insert(Shard, h, reader[r].file, reader[r].as))
      /\ reader' = [reader EXCEPT ![r] = [@ EXCEPT !.at = "shrinking", !.handle = h, !.as = "closed"]]
      /\ UNCHANGED <<capacity, deleted>>

\* The loop at the end of LRUCache::Insert: a round, and its end
Shrink(r) ==
  /\ reader[r].at = "shrinking"
  /\ usage > capacity /\ lru # <<>>
  /\ SetShard(Erase(Shard, handle[Head(lru)].file))
  /\ UNCHANGED <<capacity, reader, deleted>>

Inserted(r) ==
  /\ reader[r].at = "shrinking"
  /\ usage <= capacity \/ lru = <<>>
  /\ Goes(r, "using")
  /\ UNCHANGED <<capacity, shardVars, allowed, deleted>>

\* Get is done with the table, or the iterator is deleted (UnrefEntry).
Release(r) ==
  /\ reader[r].at = "using" /\ MutexFree
  /\ SetShard(Unref(Shard, reader[r].handle))
  /\ reader' = [reader EXCEPT ![r] = AtRest]
  /\ UNCHANGED <<capacity, deleted>>

\* RemoveObsoleteFiles: TableCache::Evict and RemoveFile.
Evict(f) ==
  /\ f \notin deleted /\ MutexFree
  /\ \A r \in TableReaders : reader[r].file # f
  /\ SetShard(Erase(Shard, f))
  /\ deleted' = deleted \cup {f}
  /\ UNCHANGED <<capacity, reader>>

\* The number of a deleted file is not used again; here a new file takes its
\* name, so that the behaviours go on.
NewFile(f) ==
  /\ f \in deleted
  /\ deleted' = deleted \ {f}
  /\ UNCHANGED <<capacity, shardVars, allowed, reader>>

CacheNext ==
  \/ \E r \in TableReaders :
       \/ \E f \in Files : FindTable(r, f)
       \/ OpenFails(r) \/ AcquireMmap(r) \/ ReturnMmap(r) \/ AcquireFd(r) \/ ReturnFd(r)
       \/ KeepFd(r) \/ Map(r) \/ MapFails(r) \/ TableOpenFails(r) \/ TableOpened(r) \/ Shrink(r) \/ Inserted(r)
       \/ Release(r)
  \/ \E f \in Files : Evict(f) \/ NewFile(f)

-------------------------------------------------------------------------------
(* Properties. *)

CacheSpec == CacheInit /\ [][CacheNext]_cacheVars

Users(h) == {r \in TableReaders : reader[r].handle = h}

\* A reader's table stays open until the reader lets go of it, and no longer
\* than the cache wants it: references are the readers and the cache, and the
\* hash table, the two lists, in_cache and usage_ tell the same story.  Once
\* an Insert has returned, the cache exceeds its capacity by entries that were
\* in use at once only.
ReferencesExact ==
  /\ \A h \in Slots :
       /\ handle[h].refs = Cardinality(Users(h)) + (IF h \in in_cache THEN 1 ELSE 0)
       /\ \A r \in Users(h) : handle[h].file = reader[r].file
       /\ h \in in_cache <=> \E f \in Files : table[f] = h /\ handle[h].file = f
       /\ h \in in_use <=> h \in in_cache /\ handle[h].refs > 1
       /\ h \in ToSet(lru) <=> h \in in_cache /\ handle[h].refs = 1
  /\ usage = Cardinality({f \in Files : table[f] # Nil})
  /\ MutexFree => usage <= capacity \/ usage <= Cardinality(TableReaders)

\* The readers that have a permit which is not a table's yet.
Taken(what) == IF what = "mmap" THEN {"return_mmap", "map"} ELSE {"return_fd", "keep_fd"}
Holders(what) == {r \in TableReaders : reader[r].as = what \/ reader[r].at \in Taken(what)}

\* Every permit of a limiter is free or belongs to an open table or to a call
\* under way, after any mix of failures, duplicate opens and evictions, and
\* no table of a removed file is open.
NothingLeaked ==
  /\ \A what \in Limited :
       allowed[what] + Cardinality({h \in Slots : handle[h].as = what}) + Cardinality(Holders(what))
         = MaxAllowed(what)
  /\ \A h \in Slots : handle[h].file \notin deleted
===============================================================================
