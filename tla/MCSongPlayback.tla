--------------------------- MODULE MCSongPlayback ---------------------------
(* Instances of SongPlayback for TLC: a layout of two rows played once and a *)
(* shorter one of a single row that loops, which is the other's second.      *)
EXTENDS SongPlayback, TLC
CONSTANTS long, short, x, y

MCArrangements == {long, short}
MCCompiled ==
    long  :> [rows |-> <<[start |-> 0, source |-> x], [start |-> 5, source |-> y]>>,
              end |-> 7, loop |-> FALSE]
    @@ short :> [rows |-> <<[start |-> 0, source |-> y]>>, end |-> 4, loop |-> TRUE]
=============================================================================
