----------------------------- MODULE MCFakeStore -----------------------------
(***************************************************************************)
(* FakeStore for TLC.  Values and iterators are interchangeable, keys are  *)
(* ordered and are not.                                                    *)
(***************************************************************************)
EXTENDS FakeStore, TLC

Symmetry == Permutations(Values) \cup Permutations(Iters)
=============================================================================
