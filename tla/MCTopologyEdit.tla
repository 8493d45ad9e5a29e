--------------------------- MODULE MCTopologyEdit ---------------------------
(* Instances of TopologyEdit for TLC: three tracks, the first ones present. *)
EXTENDS TopologyEdit
CONSTANTS ta, tb, tc
MCTracks == {ta, tb, tc}
MCLayout3 == <<ta, tb, tc>>
MCLayout2 == <<ta, tb>>
=============================================================================
