------------------------- MODULE MCQuantizedLaunch -------------------------
(* The clip owner launches on the first track, the others whole scenes. *)
EXTENDS QuantizedLaunch

MCTracksOf == [o \in Owners |-> IF o = "clip" THEN {1} ELSE Tracks]
=============================================================================
