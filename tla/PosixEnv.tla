------------------------------- MODULE PosixEnv -------------------------------
(***************************************************************************)
(* Two services of PosixEnv (util/env_posix.cc) that every open database   *)
(* shares: the lock on a database's LOCK file, kept in the process's table *)
(* of locks and in the operating system, and the one background thread     *)
(* that runs what the databases schedule.                                  *)
(*                                                                         *)
(* The system's record locks belong to a process: fcntl grants a lock to   *)
(* the process that has it, and closing any descriptor of the file that    *)
(* the process has open gives the lock up (POSIX, modelled as external).   *)
(***************************************************************************)
EXTENDS Integers, Sequences

CONSTANTS
  Processes,
  Openers,    \* the threads of one process that open and close the database
  Databases,  \* the databases one process has open
  Nobody      \* no process, no database

ASSUME PosixEnvAssumption == Nobody \notin Databases

VARIABLES
  locks,      \* the processes whose PosixLockTable has the LOCK file
  owner,      \* the process with the record lock, or Nobody
  opener,     \* where each thread is in LockFile and UnlockFile
  scheduled,  \* the databases with background work not yet finished
  queue,      \* background_work_queue_
  worker,     \* the background thread
  running     \* the database whose work it runs

lockVars == <<locks, owner, opener>>
workVars == <<scheduled, queue, worker, running>>
envVars  == <<lockVars, workVars>>

EnvInit ==
  /\ locks = {}
  /\ owner = Nobody
  /\ opener = [t \in Processes \X Openers |-> "idle"]
  /\ scheduled = {}
  /\ queue = <<>>
  /\ worker = "absent"
  /\ running = Nobody

-------------------------------------------------------------------------------
(* LockFile and UnlockFile. *)

\* close() of a descriptor of the LOCK file by process p
Relinquish(p) == owner' = IF owner = p THEN Nobody ELSE owner

Moves(t, from, to) == opener[t] = from /\ opener' = [opener EXCEPT ![t] = to]

\* The descriptor is opened first.
LockFile(t) ==
  /\ Moves(t, "idle", "opened")
  /\ UNCHANGED <<locks, owner, workVars>>

\* Mutant: the table of locks is not asked.
InsertUnchecked(t) ==
  /\ Moves(t, "opened", "inserted")
  /\ locks' = locks \cup {t[1]}
  /\ UNCHANGED <<owner, workVars>>

InsertLock(t) ==
  /\ t[1] \notin locks
  /\ Moves(t, "opened", "inserted")
  /\ locks' = locks \cup {t[1]}
  /\ UNCHANGED <<owner, workVars>>

\* "already held by process"
AlreadyHeld(t) ==
  /\ t[1] \in locks
  /\ Moves(t, "opened", "idle")
  /\ Relinquish(t[1])
  /\ UNCHANGED <<locks, workVars>>

Lock(t) ==
  /\ owner \in {Nobody, t[1]}
  /\ Moves(t, "inserted", "holding")
  /\ owner' = t[1]
  /\ UNCHANGED <<locks, workVars>>

\* Another process has it: close the descriptor, then leave the table.
LockRefused(t) ==
  /\ owner \notin {Nobody, t[1]}
  /\ Moves(t, "inserted", "refused")
  /\ UNCHANGED <<locks, owner, workVars>>

RemoveRefused(t) ==
  /\ Moves(t, "refused", "idle")
  /\ locks' = locks \ {t[1]}
  /\ UNCHANGED <<owner, workVars>>

\* UnlockFile: unlock, leave the table, close the descriptor.  (The unlock is taken to
\* succeed; if it failed the lock would stay held, and the table would say so.)
Unlock(t) ==
  /\ Moves(t, "holding", "unlocked")
  /\ Relinquish(t[1])
  /\ UNCHANGED <<locks, workVars>>

RemoveLock(t) ==
  /\ Moves(t, "unlocked", "removed")
  /\ locks' = locks \ {t[1]}
  /\ UNCHANGED <<owner, workVars>>

CloseLock(t) ==
  /\ Moves(t, "removed", "idle")
  /\ Relinquish(t[1])
  /\ UNCHANGED <<locks, workVars>>

LockNext ==
  \E t \in Processes \X Openers :
    \/ LockFile(t) \/ InsertLock(t) \/ AlreadyHeld(t) \/ Lock(t) \/ LockRefused(t)
    \/ RemoveRefused(t) \/ Unlock(t) \/ RemoveLock(t) \/ CloseLock(t)

-------------------------------------------------------------------------------
(* Schedule and the background thread. *)

\* The thread, if it waits, is woken by a signal.
Woken == IF worker = "waiting" THEN "ready" ELSE worker

\* Mutant: the queue is looked at after the work was put on it.
ScheduleLateSignal(d) ==
  /\ d \notin scheduled
  /\ scheduled' = scheduled \cup {d}
  /\ queue' = Append(queue, d)
  /\ worker' = IF worker = "absent" THEN "ready" ELSE worker
  /\ UNCHANGED <<running, lockVars>>

\* MaybeScheduleCompaction, once for work of a database that is outstanding.
Schedule(d) ==
  /\ d \notin scheduled
  /\ scheduled' = scheduled \cup {d}
  /\ queue' = Append(queue, d)
  /\ worker' = IF worker = "absent" THEN "ready" ELSE IF queue = <<>> THEN Woken ELSE worker
  /\ UNCHANGED <<running, lockVars>>

WaitForWork ==
  /\ worker = "ready" /\ queue = <<>>
  /\ worker' = "waiting"
  /\ UNCHANGED <<scheduled, queue, running, lockVars>>

\* A wait may also return for no reason.
SpuriousWakeup ==
  /\ worker = "waiting"
  /\ worker' = "ready"
  /\ UNCHANGED <<scheduled, queue, running, lockVars>>

TakeWork ==
  /\ worker = "ready" /\ queue # <<>>
  /\ worker' = "running" /\ running' = Head(queue)
  /\ queue' = Tail(queue)
  /\ UNCHANGED <<scheduled, lockVars>>

\* BackgroundCall lets its database schedule again, and perhaps does so.
WorkDone(d) ==
  /\ worker = "running" /\ running = d
  /\ worker' = "ready" /\ running' = Nobody
  /\ \/ scheduled' = scheduled \ {d} /\ UNCHANGED queue
     \/ queue' = Append(queue, d) /\ UNCHANGED scheduled
  /\ UNCHANGED lockVars

WorkNext ==
  \/ WaitForWork \/ SpuriousWakeup \/ TakeWork
  \/ \E d \in Databases : Schedule(d) \/ WorkDone(d)

EnvNext == LockNext \/ WorkNext

EnvSpec == EnvInit /\ [][EnvNext]_envVars

-------------------------------------------------------------------------------
(* Properties. *)

\* Within a process at most one thread has the lock of a database, however
\* LockFile and UnlockFile of several threads interleave.
HeldOncePerProcess ==
  \A s, t \in Processes \X Openers :
    s[1] = t[1] /\ opener[s] = "holding" /\ opener[t] = "holding" => s = t

\* Why: a thread is in the table of locks from InsertLock until it removes its
\* entry, and no second thread of its process gets in meanwhile.
LockStates ==
  {"idle", "opened", "inserted", "holding", "refused", "unlocked", "removed"}
InTable(t) == opener[t] \in {"inserted", "holding", "refused", "unlocked"}
LockInv ==
  /\ opener \in [Processes \X Openers -> LockStates]
  /\ \A t \in Processes \X Openers : InTable(t) => t[1] \in locks
  /\ \A s, t \in Processes \X Openers : s[1] = t[1] /\ InTable(s) /\ InTable(t) => s = t

\* "A database may only be opened by one process at a time."
HeldByOneProcess ==
  \A s, t \in Processes \X Openers :
    opener[s] = "holding" /\ opener[t] = "holding" => s[1] = t[1]

\* Work that was scheduled is not left behind by a thread that sleeps, and
\* each database has one call at most, queued or running.
WorkNotForgotten ==
  /\ queue # <<>> => worker \notin {"waiting", "absent"}
  /\ \A i, j \in 1..Len(queue) : queue[i] = queue[j] => i = j
  /\ \A i \in 1..Len(queue) : queue[i] # running
  /\ \A d \in Databases :
       d \in scheduled <=> running = d \/ \E i \in 1..Len(queue) : queue[i] = d

\* The states of the background thread: it runs something exactly while it says
\* so.
WorkTypes ==
  /\ scheduled \subseteq Databases
  /\ queue \in Seq(Databases)
  /\ worker \in {"absent", "ready", "waiting", "running"}
  /\ running \in Databases \cup {Nobody}
  /\ worker = "running" <=> running # Nobody
===============================================================================
