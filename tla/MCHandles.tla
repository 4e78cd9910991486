------------------------------ MODULE MCHandles ------------------------------
(***************************************************************************)
(* Handles for TLC.  Names and wrapper objects are interchangeable.        *)
(***************************************************************************)
EXTENDS Handles, TLC

Symmetry == Permutations(Names) \cup Permutations(DbObjs)
              \cup Permutations(ItObjs) \cup Permutations(BatchObjs)
=============================================================================
