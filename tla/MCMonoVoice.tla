----------------------------- MODULE MCMonoVoice -----------------------------
(* An instance of MonoVoice for TLC: three keys, two of one pitch, of which  *)
(* two are held at a time, and steps of two lengths.                         *)
EXTENDS MonoVoice
CONSTANTS low, middle, high
MCPitch == low :> 0 @@ middle :> 1 @@ high :> 1
=============================================================================
