------------------------------- MODULE MCRoll -------------------------------
(* An instance of Roll for TLC.                                              *)
EXTENDS Roll
=============================================================================
