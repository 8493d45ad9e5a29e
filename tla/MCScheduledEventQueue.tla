----------------------- MODULE MCScheduledEventQueue -----------------------
(* Four events and the two producers. *)
EXTENDS ScheduledEventQueue

CONSTANTS e1, e2, e3, e4, scheduler, audition

MCEvents == {e1, e2, e3, e4}
MCProducers == {scheduler, audition}
=============================================================================
