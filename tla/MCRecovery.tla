------------------------------ MODULE MCRecovery ------------------------------
(* The bounds of the run of Recovery: one write with two crashes and a failure, two *)
(* writes and a compaction, which may have a full memtable beside it, with two      *)
(* crashes or with one and a failure, and a repair with fewer of these.             *)
(* RecoveryInv.cfg checks the inductive invariant of RecoveryProofs, Bounded        *)
(* excepted, within them; RecoveryTornManifest.cfg has two writes, a compaction, a  *)
(* failure and a crash.                                                             *)
EXTENDS RecoveryProofs

Budget(w, c, f, k, r) ==
  [writes |-> w, crashes |-> c, failures |-> f, compactions |-> k, repairs |-> r]
MCBudgets == {Budget(1, 2, 1, 0, 0), Budget(2, 2, 0, 1, 0), Budget(2, 1, 1, 1, 0),
              Budget(1, 2, 0, 0, 1), Budget(2, 1, 0, 0, 1), Budget(1, 1, 1, 0, 1)}
=============================================================================
