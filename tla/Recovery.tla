------------------------------- MODULE Recovery -------------------------------
(***************************************************************************)
(* Opening a database after a crash (cpp/leveldb/db/db_impl.cc: DB::Open,  *)
(* NewDB, Recover, RecoverLogFile; version_set.cc: Recover, LogAndApply,   *)
(* WriteSnapshot; filename.cc: SetCurrentFile), or repairing it            *)
(* (repair.cc), and the steps of a running database that put its files in  *)
(* the state a crash leaves behind.                                        *)
(*                                                                         *)
(* The process or the machine may stop between any two steps, those of a   *)
(* recovery included.  A process that stops loses what it had in memory; a *)
(* machine that stops also loses, from every log and manifest, any part    *)
(* that was not synced.  Creating, renaming and deleting a file are        *)
(* durable and in order (WritableFile::Sync syncs the directory too for a  *)
(* manifest).  A table is synced before anything names it, so one that was *)
(* not finished is as good as absent.  A record that a crash tore is       *)
(* skipped silently (LogFormat), so a log or manifest is a sequence of     *)
(* whole records, the ones its reader delivers.  What is appended behind   *)
(* an append that failed may not be among them (LogFailedAppend.cfg): a    *)
(* log is read without it, a manifest may be refused.                      *)
(*                                                                         *)
(* An entry is one write: the number of the call, which no other write has *)
(* and which stands for its contents, and its sequence number.  Levels are *)
(* left out: LsmStore has them.  options.reuse_logs is false, as in every  *)
(* use by this repository.                                                 *)
(***************************************************************************)
EXTENDS Integers, Sequences, FiniteSets, FiniteSetsExt, SequencesExt

CONSTANTS
  Budgets,       \* bounds, one of which a behaviour keeps to: on the writes, on
                 \* the times that the process or the machine stops or the
                 \* database is destroyed, on the file operations that fail, on the
                 \* compactions, and on the repairs, those not counted that finish an
                 \* interrupted one
  NoFile         \* no file: CURRENT does not exist; no field of an edit

ASSUME RecoveryAssumption ==
  /\ Budgets \subseteq [writes : Nat, crashes : Nat, failures : Nat, compactions : Nat,
                        repairs : Nat]
  /\ NoFile \notin Int

VARIABLES
  current,     \* the manifest that the file CURRENT names, or NoFile
  manifests,   \* the edits of each manifest, and how many of them are synced
  logs,        \* the entries of each log, and how many of them are synced
  tables,      \* the entries of each table
  damaged,     \* the reader of the manifest CURRENT names reports a bad record
  pc,          \* where DB::Open is, "open" when it has returned the database
  db,          \* the volatile state of DBImpl and VersionSet
  job,         \* the edit of a flush or compaction, and what is done with it
  writes,      \* calls of Write so far
  acked,       \* entries whose Write returned OK and met no failed append to their
               \* log, and what a table of the manifest or a recovery has kept
  durable,     \* those of them that must survive a machine that stops
  opened,      \* Open has returned this database since it was created, or since
               \* its last repair (history)
  left         \* what is left of the budget

files == <<current, manifests, logs, tables, damaged>>
history == <<writes, acked, durable, opened>>
vars == <<files, pc, db, job, history, left>>

\* A VersionEdit: the tables it adds and deletes, and its numbers.
Edit(add, del, log, next, seq) ==
  [add |-> add, del |-> del, log |-> log, next |-> next, seq |-> seq]

\* A process that has not opened the database.  (replay: the logs still to be
\* read; pos: how much of the first one was, or the log that a repair converts;
\* inputs: the tables of the compaction under way; torn: an append to the log has
\* failed; tail: what follows the records of the manifest in use, "torn" if an
\* append failed, "cut" if no later record can be read.)
Fresh == [next_file |-> 2, manifest |-> NoFile, log_number |-> 0, seq |-> 0, version |-> {},
          logfile |-> NoFile, mem |-> {}, imm |-> {}, replay |-> {}, pos |-> 0,
          adds |-> {}, max |-> 0, bg_error |-> "OK", inputs |-> {}, torn |-> FALSE,
          tail |-> "whole"]

\* The background thread has nothing going on.
NoJob == [stage |-> "none", edit |-> Edit({}, {}, 0, 0, 0)]

NoFiles == [n \in {} |-> {}]

Init ==
  /\ current = NoFile
  /\ manifests = NoFiles /\ logs = NoFiles /\ tables = NoFiles
  /\ damaged = FALSE
  /\ pc = "closed" /\ db = Fresh /\ job = NoJob
  /\ writes = 0 /\ acked = {} /\ durable = {} /\ opened = FALSE
  /\ left \in Budgets

Put(f, n, x) == [m \in DOMAIN f \cup {n} |-> IF m = n THEN x ELSE f[m]]
Keep(f, S) == [m \in DOMAIN f \cap S |-> f[m]]
EntriesOf(names) == UNION {tables[t] : t \in names}

\* The entries of the open database.
Contents == db.mem \cup db.imm \cup EntriesOf(db.version)

Succeeds == UNCHANGED left
Fails == left.failures > 0 /\ left' = [left EXCEPT !.failures = @ - 1]
Stops == left.crashes > 0 /\ left' = [left EXCEPT !.crashes = @ - 1]

-----------------------------------------------------------------------------
(***************************************************************************)
(* Files.                                                                  *)
(***************************************************************************)

NewFile(recs) == [recs |-> recs, synced |-> 0]
Appended(file, rec) == [file EXCEPT !.recs = Append(@, rec)]
Synced(file) == [file EXCEPT !.synced = Len(file.recs)]

\* What a machine that stops may leave of a log or manifest; that is on the
\* device then.
Leftovers(file) == {SubSeq(file.recs, 1, n) : n \in file.synced..Len(file.recs)}
Survivors(file) == {Synced(NewFile(recs)) : recs \in Leftovers(file)}
Torn(f) == {g \in [DOMAIN f -> UNION {Survivors(f[n]) : n \in DOMAIN f}] :
              \A n \in DOMAIN f : g[n] \in Survivors(f[n])}

\* Mutant: every log but the newest is obsolete.
ObsoleteOlderLogs(d) == {n \in DOMAIN logs : n < d.logfile}

ObsoleteLogs(d) == {n \in DOMAIN logs : n < d.log_number}

\* RemoveObsoleteFiles by a process in state d: logs older than the manifest's
\* log number, manifests older than its own, tables of no version; nothing after
\* a background error.  Errors are ignored, and the process may stop in the
\* middle: some of the logs and tables may stay.
RemoveObsoleteFiles(d) ==
  \/ d.bg_error # "OK" /\ UNCHANGED <<logs, tables, manifests>>
  \/ /\ d.bg_error = "OK"
     /\ \E l \in SUBSET ObsoleteLogs(d), t \in SUBSET (DOMAIN tables \ d.version) :
          /\ logs' = Keep(logs, DOMAIN logs \ l)
          /\ tables' = Keep(tables, DOMAIN tables \ t)
          /\ manifests' = Keep(manifests, {n \in DOMAIN manifests : n >= d.manifest})

-----------------------------------------------------------------------------
(***************************************************************************)
(* DB::Open.                                                               *)
(***************************************************************************)

\* Mutant: the lock of the directory is kept, and no later Open gets it.
GiveUpLocked ==
  /\ Fails
  /\ pc' = "locked" /\ db' = Fresh
  /\ UNCHANGED <<job, history>>

\* A failed step: Open deletes the DBImpl, which unlocks the directory, and
\* returns the error.  (The lock is held in every state of pc but "closed" and
\* "corrupt".)
GiveUp ==
  /\ Fails
  /\ pc' = "closed" /\ db' = Fresh
  /\ UNCHANGED <<job, history>>

\* Recover: lock the directory; a database without CURRENT is created.
Open ==
  /\ pc = "closed"
  /\ pc' = IF current = NoFile THEN "creating" ELSE "reading"
  /\ UNCHANGED <<files, db, job, history, left>>

\* NewDB writes manifest 1, without a sync ...
NewDB ==
  /\ pc = "creating"
  /\ \/ /\ Succeeds
        /\ manifests' = Put(manifests, 1, NewFile(<<Edit({}, {}, 0, 2, 0)>>))
        /\ pc' = "created"
        /\ UNCHANGED <<current, logs, tables, damaged, db, job, history>>
     \/ /\ GiveUp
        /\ manifests' = Keep(manifests, DOMAIN manifests \ {1})
        /\ UNCHANGED <<current, logs, tables, damaged>>

\* ... and SetCurrentFile makes CURRENT name it, by a rename.
NameFirstManifest ==
  /\ pc = "created"
  /\ \/ /\ Succeeds
        /\ current' = 1
        /\ pc' = "reading"
        /\ UNCHANGED <<manifests, logs, tables, damaged, db, job, history>>
     \/ GiveUp /\ UNCHANGED files

\* The last value that a manifest gives to one of its numbers, or NoFile.
LastGiven(numbers) ==
  LET given == {i \in DOMAIN numbers : numbers[i] # NoFile}
  IN IF given = {} THEN NoFile ELSE numbers[Max(given)]

LogNumber(edits)    == LastGiven([i \in DOMAIN edits |-> edits[i].log])
NextFile(edits)     == LastGiven([i \in DOMAIN edits |-> edits[i].next])
LastSequence(edits) == LastGiven([i \in DOMAIN edits |-> edits[i].seq])

\* Builder::Apply of all edits: each deletes tables, then adds some.
Applied(edits) ==
  {t \in UNION {e.add : e \in ToSet(edits)} :
     \E i \in DOMAIN edits : t \in edits[i].add /\ \A j \in (i + 1)..Len(edits) : t \notin edits[j].del}

\* The logs that must be replayed, the oldest first.
LogsToReplay(min) == {n \in DOMAIN logs : n >= min}

\* VersionSet::Recover; the number of the manifest to come is the one that the
\* old one would have given out next.
ReadManifest(edits) ==
  [Fresh EXCEPT !.version = Applied(edits),
                !.manifest = NextFile(edits),
                !.next_file = NextFile(edits) + 1,
                !.seq = LastSequence(edits),
                !.log_number = LogNumber(edits),
                !.replay = LogsToReplay(LogNumber(edits))]

\* VersionSet::Recover and the check for missing tables in DBImpl::Recover.
ReadCurrent ==
  /\ pc = "reading"
  /\ LET edits == IF current \in DOMAIN manifests THEN manifests[current].recs ELSE <<>>
         corrupt == \/ damaged
                    \/ NoFile \in {NextFile(edits), LogNumber(edits), LastSequence(edits)}
                    \/ ~(Applied(edits) \subseteq DOMAIN tables)
     IN \/ /\ corrupt
           /\ pc' = "corrupt"
           /\ UNCHANGED db
        \/ /\ ~corrupt
           /\ pc' = "replaying"
           /\ db' = ReadManifest(edits)
  /\ UNCHANGED <<files, job, history, left>>

\* MarkFileNumberUsed.
Used(next, n) == IF next <= n THEN n + 1 ELSE next

\* RecoverLogFile, when it turns the records up to the n-th into a table of
\* level 0 (WriteLevel0Table): the memtable is full, or the log ends there.
Replayed(d, n) == [d EXCEPT !.adds = @ \cup {d.next_file}, !.next_file = @ + 1, !.pos = n]

ReplayTable ==
  /\ pc = "replaying" /\ db.replay # {}
  /\ LET recs == logs[Min(db.replay)].recs
     IN \/ /\ Succeeds
           /\ \E n \in (db.pos + 1)..Len(recs) :
                /\ tables' = Put(tables, db.next_file, {recs[i] : i \in (db.pos + 1)..n})
                /\ db' = [Replayed(db, n) EXCEPT !.max = Max({@, recs[n].seq})]
           /\ UNCHANGED <<current, manifests, logs, damaged, pc, job, history>>
        \/ /\ db.pos < Len(recs)
           /\ GiveUp
           /\ UNCHANGED files

\* The log is replayed; its number is taken.
ReplayNext ==
  /\ pc = "replaying" /\ db.replay # {}
  /\ db.pos = Len(logs[Min(db.replay)].recs)
  /\ db' = [db EXCEPT !.next_file = Used(@, Min(db.replay)), !.replay = @ \ {Min(@)}, !.pos = 0]
  /\ UNCHANGED <<files, pc, job, history, left>>

\* Mutant: the sequence numbers of the logs are forgotten.
RecoveredFromManifest(d) == d

\* The end of DBImpl::Recover.
Recovered(d) == [d EXCEPT !.seq = Max({@, d.max})]

\* DB::Open makes a new log ...
NewLog ==
  /\ pc = "replaying" /\ db.replay = {}
  /\ \/ /\ Succeeds
        /\ logs' = Put(logs, db.next_file, NewFile(<<>>))
        /\ db' = [Recovered(db) EXCEPT !.logfile = db.next_file, !.next_file = @ + 1]
        /\ pc' = "logged"
        /\ UNCHANGED <<current, manifests, tables, damaged, job, history>>
     \/ GiveUp /\ UNCHANGED files

\* Mutant: CURRENT is set to a manifest that was not synced.
WithoutSync == "synced"

\* The new manifest is written and must be synced.
WithSync == "written"

\* ... and LogAndApply a new manifest: WriteSnapshot of the version that was
\* read, then the edit with the recovered tables.
WriteManifest ==
  /\ pc = "logged"
  /\ \/ /\ Succeeds
        /\ manifests' = Put(manifests, db.manifest,
             NewFile(<<Edit(db.version, {}, NoFile, NoFile, NoFile),
                       Edit(db.adds, {}, db.logfile, db.next_file, db.seq)>>))
        /\ pc' = WithSync
        /\ UNCHANGED <<current, logs, tables, damaged, db, job, history>>
     \/ GiveUp /\ UNCHANGED files

\* A failure from here on removes the new manifest.
Abandon ==
  /\ GiveUp
  /\ manifests' = Keep(manifests, DOMAIN manifests \ {db.manifest})
  /\ UNCHANGED <<current, logs, tables, damaged>>

SyncManifest ==
  /\ pc = "written"
  /\ \/ /\ Succeeds
        /\ manifests' = [manifests EXCEPT ![db.manifest] = Synced(@)]
        /\ pc' = "synced"
        /\ UNCHANGED <<current, logs, tables, damaged, db, job, history>>
     \/ Abandon

SetCurrentFile ==
  /\ pc = "synced"
  /\ \/ /\ Succeeds
        /\ current' = db.manifest
        /\ pc' = "named"
        /\ UNCHANGED <<manifests, logs, tables, damaged, db, job, history>>
     \/ Abandon

\* AppendVersion, RemoveObsoleteFiles, and Open returns.
Opened ==
  /\ pc = "named"
  /\ LET d == [db EXCEPT !.version = @ \cup db.adds, !.adds = {}, !.log_number = db.logfile]
     IN /\ db' = d
        /\ RemoveObsoleteFiles(d)
        /\ acked' = acked \cup EntriesOf(d.version)
        /\ durable' = durable \cup EntriesOf(d.version)
  /\ pc' = "open" /\ opened' = TRUE
  /\ UNCHANGED <<current, damaged, job, writes, left>>

-----------------------------------------------------------------------------
(***************************************************************************)
(* The running database.                                                   *)
(***************************************************************************)

\* What a log may be to its reader once the record is in it.
AddRecord(log, rec) ==
  {Appended(log, rec)} \cup (IF db.torn THEN {log} ELSE {})

\* DBImpl::Write.  Behind a failed append to its log, a write that is answered
\* OK is not sure to be found there again.
Write(sync) ==
  LET e == [id |-> writes + 1, seq |-> db.seq + 1]
  IN /\ pc = "open" /\ left.writes > 0 /\ db.bg_error = "OK"
     /\ left' = [left EXCEPT !.writes = @ - 1]
     /\ writes' = writes + 1
     /\ \E log \in AddRecord(logs[db.logfile], e) :
          logs' = [logs EXCEPT ![db.logfile] = IF sync THEN Synced(log) ELSE log]
     /\ db' = [db EXCEPT !.mem = @ \cup {e}, !.seq = @ + 1]
     /\ acked' = IF db.torn THEN acked ELSE acked \cup {e}
     /\ durable' = IF sync /\ ~db.torn THEN durable \cup {e} ELSE durable
     /\ UNCHANGED <<current, manifests, tables, damaged, pc, job, opened>>

\* The same with an error.  The sequence number is used up all the same.  A failed
\* append leaves no whole record and no background error; after a failed sync the
\* record is in the log, and RecordBackgroundError stops later writes.
WriteFails ==
  LET e == [id |-> writes + 1, seq |-> db.seq + 1]
  IN /\ pc = "open" /\ left.writes > 0 /\ left.failures > 0 /\ db.bg_error = "OK"
     /\ left' = [left EXCEPT !.writes = @ - 1, !.failures = @ - 1]
     /\ writes' = writes + 1
     /\ \/ /\ db' = [db EXCEPT !.seq = @ + 1, !.torn = TRUE]
           /\ UNCHANGED logs
        \/ /\ \E log \in AddRecord(logs[db.logfile], e) : logs' = [logs EXCEPT ![db.logfile] = log]
           /\ db' = [db EXCEPT !.seq = @ + 1, !.bg_error = "IOError"]
     /\ UNCHANGED <<current, manifests, tables, damaged, pc, job, acked, durable, opened>>

\* MakeRoomForWrite, when the memtable is full.
SwitchMemTable ==
  /\ pc = "open" /\ db.mem # {} /\ db.imm = {} /\ db.bg_error = "OK"
  /\ logs' = Put(logs, db.next_file, NewFile(<<>>))
  /\ db' = [db EXCEPT !.logfile = db.next_file, !.next_file = @ + 1, !.imm = db.mem, !.mem = {},
                      !.torn = FALSE]
  /\ UNCHANGED <<current, manifests, tables, damaged, pc, job, history, left>>

\* RecordBackgroundError, by the flush or compaction that ends with it.
BackgroundFails(del) ==
  /\ Fails
  /\ db' = [db EXCEPT !.bg_error = "IOError", !.inputs = IF del = {} THEN @ ELSE {}]
  /\ job' = NoJob

\* The background thread writes a table, from the immutable memtable or from
\* the tables of a compaction.
BuildTable(entries, del, log) ==
  /\ pc = "open" /\ job.stage = "none"
  /\ \/ /\ Succeeds
        /\ tables' = Put(tables, db.next_file, entries)
        /\ db' = [db EXCEPT !.next_file = @ + 1]
        /\ job' = [stage |-> "built",
                   edit |-> Edit({db.next_file}, del, log, db.next_file + 1, db.seq)]
     \/ /\ BackgroundFails(del)
        /\ UNCHANGED tables
  /\ UNCHANGED <<current, manifests, logs, damaged, pc, history>>

\* By BackgroundCompaction, or in the loop of DoCompactionWork: there an error,
\* of this flush or of an earlier one, does not stop it, nor the compaction.
CompactMemTable ==
  /\ db.imm # {} /\ (db.bg_error = "OK" \/ db.inputs # {})
  /\ BuildTable(db.imm, {}, db.logfile)

\* BackgroundCompaction picks its inputs (any tables here, LsmStore says which; a
\* trivial move, which changes only the level of a table, is left out) ...
PickCompaction ==
  /\ pc = "open" /\ db.bg_error = "OK" /\ job.stage = "none" /\ left.compactions > 0
  /\ db.imm = {} /\ db.inputs = {}
  /\ \E inputs \in SUBSET db.version : inputs # {} /\ db' = [db EXCEPT !.inputs = inputs]
  /\ left' = [left EXCEPT !.compactions = @ - 1]
  /\ UNCHANGED <<files, pc, job, history>>

\* ... and DoCompactionWork merges them.
CompactTables ==
  /\ db.inputs # {}
  /\ BuildTable(EntriesOf(db.inputs), db.inputs, db.log_number)

\* The append of an edit to the manifest in use succeeds.  Behind one that failed
\* it may not be read again, and then no later edit either: the file ends before
\* it for the reader, or the reader reports what it meets there.
AddEdit(edit) ==
  \/ /\ db.tail # "cut"
     /\ manifests' = [manifests EXCEPT ![db.manifest] = Appended(@, edit)]
     /\ UNCHANGED <<db, damaged>>
  \/ /\ db.tail # "whole"
     /\ damaged' \in {damaged, TRUE}
     /\ db' = [db EXCEPT !.tail = "cut"]
     /\ UNCHANGED manifests

\* LogAndApply: the edit is appended to the manifest (descriptor_log_ is kept when
\* that fails, and what is there of the edit stays) ...
AppendEdit ==
  /\ pc = "open" /\ job.stage = "built"
  /\ \/ /\ Succeeds
        /\ AddEdit(job.edit)
        /\ job' = [job EXCEPT !.stage = "appended"]
     \/ /\ Fails
        /\ \E tail \in IF db.tail = "whole" THEN {"torn"} ELSE {db.tail, "cut"} :
             /\ db' = [db EXCEPT !.bg_error = "IOError", !.tail = tail,
                                 !.inputs = IF job.edit.del = {} THEN @ ELSE {}]
             /\ damaged' \in {damaged, damaged \/ tail = "cut"}
        /\ job' = NoJob
        /\ UNCHANGED manifests
  /\ UNCHANGED <<current, logs, tables, pc, history>>

\* ... synced (if that fails the edit is in the file all the same) ...
SyncEdit ==
  /\ pc = "open" /\ job.stage = "appended"
  /\ \/ /\ Succeeds
        /\ manifests' = [manifests EXCEPT ![db.manifest] = Synced(@)]
        /\ job' = [job EXCEPT !.stage = "synced"]
        /\ UNCHANGED db
     \/ /\ BackgroundFails(job.edit.del)
        /\ UNCHANGED manifests
  /\ UNCHANGED <<current, logs, tables, damaged, pc, history>>

\* ... and installed; what became obsolete is removed.  What is in a table then
\* is kept for good, if the manifest will be read to its end.
Install ==
  /\ pc = "open" /\ job.stage = "synced"
  /\ LET d == [db EXCEPT !.version = (@ \ job.edit.del) \cup job.edit.add,
                         !.log_number = job.edit.log,
                         !.imm = IF job.edit.del = {} THEN {} ELSE @,
                         !.inputs = IF job.edit.del = {} THEN @ ELSE {}]
         kept == IF db.tail = "whole" THEN EntriesOf(d.version) ELSE {}
     IN /\ db' = d
        /\ RemoveObsoleteFiles(d)
        /\ acked' = acked \cup kept
        /\ durable' = durable \cup kept
  /\ job' = NoJob
  /\ UNCHANGED <<current, damaged, pc, writes, opened, left>>

-----------------------------------------------------------------------------
(***************************************************************************)
(* RepairDB, of a database that is not open.  It takes no lock.  A repair  *)
(* that was cut off or failed has put logs away whose tables no manifest   *)
(* names, so the client calls RepairDB again, not Open.  Damaged tables,   *)
(* and what RepairTable saves of them, are left out.                       *)
(***************************************************************************)

RepairFails ==
  /\ Fails
  /\ pc' = "unrepaired" /\ db' = Fresh

\* FindFiles: the numbers of manifests do not count.
FoundFiles ==
  [Fresh EXCEPT !.replay = LogsToReplay(0), !.next_file = Max({0} \cup DOMAIN logs \cup DOMAIN tables) + 1]

RepairDB ==
  /\ \/ pc = "unrepaired" /\ Succeeds
     \/ /\ pc \in {"closed", "corrupt"} /\ current # NoFile /\ left.repairs > 0
        /\ left' = [left EXCEPT !.repairs = @ - 1]
  /\ pc' = "repairing" /\ db' = FoundFiles /\ opened' = FALSE
  /\ UNCHANGED <<files, job, writes, acked, durable>>

\* ConvertLogToTable reads the whole log.
ConvertLogToTable(n) == ToSet(logs[n].recs)

\* ConvertLogFilesToTables, one log, in the directory's order: its table is
\* made ...  (An error is ignored, and what only the log has is lost.)
ConvertLog(n) ==
  /\ pc = "repairing" /\ n \in db.replay /\ db.pos = 0
  /\ LET entries == ConvertLogToTable(n)
         lost == entries \ EntriesOf(DOMAIN tables)
     IN \/ /\ Succeeds
           /\ tables' = IF entries = {} THEN tables ELSE Put(tables, db.next_file, entries)
           /\ UNCHANGED <<acked, durable>>
        \/ /\ Fails
           /\ acked' = acked \ lost /\ durable' = durable \ lost
           /\ UNCHANGED tables
  /\ db' = [db EXCEPT !.pos = n, !.next_file = @ + 1]
  /\ UNCHANGED <<current, manifests, logs, damaged, pc, job, writes, opened>>

\* ... and the log is archived, or stays if that fails.
ArchiveLog ==
  /\ pc = "repairing" /\ db.pos # 0
  /\ \/ Succeeds /\ logs' = Keep(logs, DOMAIN logs \ {db.pos})
     \/ Fails /\ UNCHANGED logs
  /\ db' = [db EXCEPT !.pos = 0, !.replay = @ \ {db.pos}]
  /\ UNCHANGED <<current, manifests, tables, damaged, pc, job, history>>

\* ExtractMetaData: every table there is, and the largest sequence number.
ExtractMetaData(d) ==
  [d EXCEPT !.adds = DOMAIN tables,
            !.max = Max({0} \cup {e.seq : e \in EntriesOf(DOMAIN tables)})]

\* WriteDescriptor: the descriptor is a temporary file, not synced ...
WriteDescriptor ==
  /\ pc = "repairing" /\ db.replay = {}
  /\ \/ Succeeds /\ pc' = "described" /\ db' = ExtractMetaData(db)
     \/ RepairFails
  /\ UNCHANGED <<files, job, history>>

\* ... the old manifests are archived, as far as that works ...
ArchiveManifests ==
  /\ pc = "described"
  /\ \E kept \in SUBSET DOMAIN manifests : manifests' = Keep(manifests, kept)
  /\ pc' = "archived"
  /\ UNCHANGED <<current, logs, tables, damaged, db, job, history, left>>

\* ... and it becomes manifest 1 ...
InstallDescriptor ==
  /\ pc = "archived"
  /\ \/ /\ Succeeds
        /\ manifests' = Put(manifests, 1, NewFile(<<Edit(db.adds, {}, 0, db.next_file, db.max)>>))
        /\ pc' = "installed" /\ UNCHANGED db
     \/ RepairFails /\ UNCHANGED manifests
  /\ UNCHANGED <<current, logs, tables, damaged, job, history>>

\* ... which CURRENT names.
Repaired ==
  /\ pc = "installed"
  /\ \/ Succeeds /\ current' = 1 /\ damaged' = FALSE /\ pc' = "closed" /\ db' = Fresh
     \/ RepairFails /\ UNCHANGED <<current, damaged>>
  /\ UNCHANGED <<manifests, logs, tables, job, history>>

Repair ==
  \/ RepairDB \/ (\E n \in DOMAIN logs : ConvertLog(n)) \/ ArchiveLog \/ WriteDescriptor \/ ArchiveManifests
  \/ InstallDescriptor \/ Repaired

-----------------------------------------------------------------------------
(***************************************************************************)
(* Stopping.                                                               *)
(***************************************************************************)

InRepair == pc \in {"repairing", "described", "archived", "installed"}

Stop ==
  /\ pc \notin {"closed", "corrupt", "unrepaired"} /\ Stops
  /\ pc' = IF InRepair THEN "unrepaired" ELSE "closed"
  /\ db' = Fresh /\ job' = NoJob
  /\ UNCHANGED <<current, tables, writes, durable, opened>>

\* The process is killed, or the database is closed: the system keeps the files.
ProcessStops ==
  /\ Stop
  /\ UNCHANGED <<manifests, logs, damaged, acked>>

\* The machine stops: a log or manifest keeps some part of what was not synced,
\* what its reader reports may be lost too.  Writes that were not synced may be
\* lost.
MachineStops ==
  /\ Stop
  /\ logs' \in Torn(logs)
  /\ manifests' \in Torn(manifests)
  /\ damaged' \in {damaged, FALSE}
  /\ acked' = durable

\* DestroyDB of a closed database.
DestroyDB ==
  /\ pc = "closed" /\ current # NoFile /\ Stops
  /\ current' = NoFile /\ manifests' = NoFiles /\ logs' = NoFiles /\ tables' = NoFiles
  /\ damaged' = FALSE
  /\ acked' = {} /\ durable' = {} /\ opened' = FALSE
  /\ UNCHANGED <<pc, db, job, writes>>

-----------------------------------------------------------------------------
Recover ==
  \/ Open \/ NewDB \/ NameFirstManifest \/ ReadCurrent \/ ReplayTable \/ ReplayNext
  \/ NewLog \/ WriteManifest \/ SyncManifest \/ SetCurrentFile \/ Opened

\* A repair that was begun is finished.
Mend == (InRepair \/ pc = "unrepaired") /\ Repair

Next ==
  \/ Open
  \/ NewDB
  \/ NameFirstManifest
  \/ ReadCurrent
  \/ ReplayTable
  \/ ReplayNext
  \/ NewLog
  \/ WriteManifest
  \/ SyncManifest
  \/ SetCurrentFile
  \/ Opened
  \/ \E sync \in BOOLEAN : Write(sync)
  \/ WriteFails
  \/ SwitchMemTable
  \/ CompactMemTable
  \/ PickCompaction
  \/ CompactTables
  \/ AppendEdit
  \/ SyncEdit
  \/ Install
  \/ RepairDB
  \/ \E n \in DOMAIN logs : ConvertLog(n)
  \/ ArchiveLog
  \/ WriteDescriptor
  \/ ArchiveManifests
  \/ InstallDescriptor
  \/ Repaired
  \/ ProcessStops
  \/ MachineStops
  \/ DestroyDB

Spec == Init /\ [][Next]_vars /\ WF_vars(Recover) /\ WF_vars(Mend)

-----------------------------------------------------------------------------
(***************************************************************************)
(* Properties.                                                             *)
(***************************************************************************)

\* What was acknowledged is in the open database: after the process stopped at
\* any point, all of it; after the machine stopped, what was written with sync,
\* what had reached a table of the manifest, and what an earlier recovery had
\* brought back.  A repair that meets no error loses none of it either.  A write
\* that follows a failed append to its log is excepted, until a table has it.
AckedSurvive == pc = "open" => acked \subseteq Contents

\* Recovery finds the files damaged (a manifest without numbers, a missing
\* table) only if the database was being created when the machine stopped, never
\* once Open has returned it: unless an edit was appended to the manifest behind
\* one whose append had failed.
NeverCorrupt == pc = "corrupt" => ~opened \/ damaged

\* The same without the exception.  It does not hold (RecoveryTornManifest.cfg): a
\* compaction goes on after the flush inside it could not append its edit, and
\* appends its own to the same manifest.
OpenedNeverCorrupt == pc = "corrupt" => ~opened

\* The next write gets a sequence number above that of every entry, so that it
\* hides the older entries of its key: also if the newest are only in a log.
SequencesFresh ==
  pc = "open" => \A e \in Contents : e.seq <= db.seq

\* However often a recovery or a repair is interrupted, it ends once it is left
\* alone: with an open database, or with the report that the files are damaged.
EventuallyOpen == (pc # "open" /\ pc # "corrupt") ~> (pc = "open" \/ pc = "corrupt")
=============================================================================
