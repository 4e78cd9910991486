----------------------------- MODULE MCWritePath -----------------------------
(***************************************************************************)
(* WritePath for TLC: two threads, a memtable that one batch fills, and    *)
(* level-0 triggers low enough to be reached.  Threads are interchangeable *)
(* (used where only safety is checked).                                    *)
(***************************************************************************)
EXTENDS WritePath, TLC

Symmetry == Permutations(Writers)
=============================================================================
