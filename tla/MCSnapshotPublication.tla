----------------------- MODULE MCSnapshotPublication -----------------------
(* Instances of SnapshotPublication for TLC. *)
EXTENDS SnapshotPublication
=============================================================================
