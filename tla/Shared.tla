-------------------------------- MODULE Shared --------------------------------
(***************************************************************************)
(* The structures that the threads of the engine share outside the         *)
(* database's mutex: the skip list, the cache of open tables and the       *)
(* services of PosixEnv.  They have no state in common, so a behaviour     *)
(* exercises one of them: their product would show nothing more.           *)
(***************************************************************************)
EXTENDS SkipList, TableCache, PosixEnv

VARIABLE part   \* the structure this behaviour exercises

sharedVars == <<part, listVars, cacheVars, envVars>>

Init ==
  /\ ListInit /\ CacheInit /\ EnvInit
  /\ part \in {"list", "cache", "locks", "work"}
  /\ part = "cache" \/ capacity = Max(Capacities)

Next ==
  \/ part = "list"  /\ ListNext  /\ UNCHANGED <<part, cacheVars, envVars>>
  \/ part = "cache" /\ CacheNext /\ UNCHANGED <<part, listVars, envVars>>
  \/ part = "locks" /\ LockNext  /\ UNCHANGED <<part, listVars, cacheVars>>
  \/ part = "work"  /\ WorkNext  /\ UNCHANGED <<part, listVars, cacheVars>>

Spec == Init /\ [][Next]_sharedVars
===============================================================================
