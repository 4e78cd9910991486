------------------------------ MODULE MCLsmStore ------------------------------
(* The bounds of the runs of LsmStore. *)
EXTENDS LsmReadsProofs

Budget(w, d, h, c, r) ==
  [writes |-> w, deletes |-> d, holds |-> h, charges |-> c, reopens |-> r]

\* Three writes with everything else once; four with a deletion and a snapshot or
\* reader, or with a reopening.
MCBudgets == {Budget(3, 1, 1, 1, 1), Budget(4, 1, 1, 0, 0), Budget(4, 0, 0, 0, 1)}

\* For the manual compactions: only writes.
MCManualBudgets == {Budget(5, 0, 0, 0, 0)}
MCManualRanges == {<<1, 3>>}

\* The invariants of the reads, up to the first state where their condition fails.
MCReadInv == InputsWhole => ReadInv
MCNoSnapshots == snapshots = <<>>
MCWholeInv == MCNoSnapshots => WholeInv
=============================================================================
