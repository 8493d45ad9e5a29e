----------------------------- MODULE LatestValue -----------------------------
(***************************************************************************)
(* What the snapshot handoff promises to its realtime reader, with no      *)
(* rings, locks or threads in it: values are published under increasing    *)
(* versions, the reader jumps forward over them, it never sees one before  *)
(* it was published, and it does not stay behind.                          *)
(***************************************************************************)
EXTENDS Naturals

VARIABLES latest,   \* version of the newest publication
          seen      \* version the reader works with

vars == <<latest, seen>>

Init == latest = 0 /\ seen = 0

Publish == latest' = latest + 1 /\ UNCHANGED seen

\* Intermediate publications may be skipped.
Observe == seen' \in (seen + 1) .. latest /\ UNCHANGED latest

Next == Publish \/ Observe

SafeSpec == Init /\ [][Next]_vars

Spec == SafeSpec /\ WF_vars(Observe)

=============================================================================
