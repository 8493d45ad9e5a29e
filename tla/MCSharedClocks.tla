--------------------------- MODULE MCSharedClocks ---------------------------
(* Instances of SharedClocks for TLC. *)
EXTENDS SharedClocks
=============================================================================
