------------------------------ MODULE MCIterators ------------------------------
(* The bounds of the run of Iterators. *)
EXTENDS Iterators

\* Two keys far enough apart for a shorter key to separate them.
MCKeys == {<<0, 1>>, <<2, 0>>}
\* Each of them, the separator, and a key before and after all.
MCTargets == {<<0>>, <<0, 1>>, <<1>>, <<2, 0>>, <<2, 1>>}
MCDeletions == {{3}}

\* Bits 0, 1, 2 of a filter: two for each key, and every key shares one.
MCProbe == [k \in MCTargets |-> {k[1], (k[1] + Len(k)) % 3}]
===============================================================================
