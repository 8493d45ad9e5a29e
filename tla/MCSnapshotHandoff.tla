------------------------- MODULE MCSnapshotHandoff -------------------------
(* The two publishing threads. *)
EXTENDS SnapshotHandoff

CONSTANTS ui, vm

MCTwo == {ui, vm}
=============================================================================
