----------------------------- MODULE MCHistory -----------------------------
(* Instances of History for TLC: one device of two switches. *)
EXTENDS History
CONSTANTS cutoff, slices
MCParams == {cutoff, slices}
MCSliceParams == {slices}

\* Nothing is claimed of what follows a rollback that did not fit; the second
\* project is edited once.
Explored == fits /\ history.next + 3 * history.generation <= MaxRevision
=============================================================================
