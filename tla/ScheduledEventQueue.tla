------------------------ MODULE ScheduledEventQueue ------------------------
(***************************************************************************)
(* The queue that carries scheduled events from the scheduler thread to    *)
(* the realtime audio callback.                                            *)
(*                                                                         *)
(* An event is an Arc.  Its owners are the `retained` vector, the lock-free *)
(* `ready` ring, the producer that is pushing it, a thread that is draining *)
(* it in clear(), and the callback for as long as it counts the event down. *)
(* The promise of the design: the callback may drop an event whenever it    *)
(* likes and never runs the destructor, because a producer still owns it;   *)
(* and no garbage ring is needed, because admission counts every event      *)
(* that is still owned by somebody.                                         *)
(***************************************************************************)
EXTENDS Naturals, Sequences, FiniteSets, Functions

CONSTANTS
    Capacity,     \* the const generic CAPACITY
    Events,       \* the addresses an event payload can live at
    Producers,    \* threads that push and clear: the scheduler, the note audition
    RejectedCap,  \* bound on the rejected_events counter
    None

ASSUME CapacityAssumption == Capacity \in Nat /\ Capacity >= 2
ASSUME EventsAssumption   == IsFiniteSet(Events) /\ None \notin Events
ASSUME ProducersAssumption == None \notin Producers
ASSUME RejectedAssumption == RejectedCap \in Nat

Slots == Capacity - 1     \* ArrayQueue::new(CAPACITY - 1)

VARIABLES
    ready,         \* the ring, oldest first
    retained,      \* the events the producers own, as a set
    rejected,      \* rejected_events, stopped at RejectedCap
    retained_lock, \* the producer inside the `retained` mutex, or None
    step,          \* where each producer is
    event,         \* the event each producer is pushing or dropping, or None
    unscanned,     \* what Vec::retain has not inspected yet, per producer
    leased         \* events held by the callback (countdown and block storage)

queueVars == <<ready, retained, rejected, retained_lock, step, event, unscanned, leased>>

-----------------------------------------------------------------------------

ReadySet == Range(ready)

Holders(e) == {p \in Producers : event[p] = e}

\* Owners other than the retained vector.
Shared(e) == e \in ReadySet \/ e \in leased \/ Holders(e) # {}

\* A payload is allocated while anybody owns it.
Allocated(e) == e \in retained \/ Shared(e)

\* (mutants of KeepEntry: the callback's leases are not owners; nothing is;
\* everything is)
KeepQueued(e) == e \in ReadySet \/ Holders(e) # {}
KeepNothing(e) == FALSE
KeepEverything(e) == TRUE

\* Arc::strong_count(event) # 1, for an entry of `retained`.
KeepEntry(e) == Shared(e)

\* (mutant of RetainedFull: off by one)
RetainedOverfull == Cardinality(retained) = Capacity

RetainedFull == Cardinality(retained) = Slots

-----------------------------------------------------------------------------

QueueInit ==
    /\ ready = <<>>
    /\ retained = {}
    /\ rejected = 0
    /\ retained_lock = None
    /\ step = [p \in Producers |-> "idle"]
    /\ event = [p \in Producers |-> None]
    /\ unscanned = [p \in Producers |-> {}]
    /\ leased = {}

\* push: take the mutex with a freshly built event in hand.
PushLock(p) ==
    /\ step[p] = "idle" /\ retained_lock = None
    /\ \E e \in Events :
          /\ ~Allocated(e)
          /\ event' = [event EXCEPT ![p] = e]
    /\ retained_lock' = p
    /\ unscanned' = [unscanned EXCEPT ![p] = retained]
    /\ step' = [step EXCEPT ![p] = "scan"]
    /\ UNCHANGED <<ready, retained, rejected, leased>>

\* push: one entry of `retained.retain(...)`.  The callback runs between two
\* entries, so the reclaimed set need not be a snapshot of any single instant.
PushScan(p) ==
    /\ step[p] = "scan"
    /\ \E e \in unscanned[p] :
          /\ unscanned' = [unscanned EXCEPT ![p] = @ \ {e}]
          /\ retained' = IF KeepEntry(e) THEN retained ELSE retained \ {e}
    /\ UNCHANGED <<ready, rejected, retained_lock, step, event, leased>>

\* (mutant of PushReject: the early return is missing)
RejectFallsThrough(p) ==
    /\ step[p] = "scan" /\ unscanned[p] = {}
    /\ RetainedFull
    /\ event' = [event EXCEPT ![p] = None]
    /\ step' = [step EXCEPT ![p] = "publish"]
    /\ UNCHANGED <<ready, retained, rejected, retained_lock, unscanned, leased>>

\* push: every slot is taken; the event goes back to the caller, who drops it.
PushReject(p) ==
    /\ step[p] = "scan" /\ unscanned[p] = {}
    /\ RetainedFull
    /\ rejected' = IF rejected < RejectedCap THEN rejected + 1 ELSE rejected
    /\ event' = [event EXCEPT ![p] = None]
    /\ retained_lock' = None
    /\ step' = [step EXCEPT ![p] = "idle"]
    /\ UNCHANGED <<ready, retained, unscanned, leased>>

\* push: retained.push(Arc::clone(&event)).
PushRetain(p) ==
    /\ step[p] = "scan" /\ unscanned[p] = {}
    /\ ~RetainedFull
    /\ retained' = retained \cup {event[p]}
    /\ step' = [step EXCEPT ![p] = "publish"]
    /\ UNCHANGED <<ready, rejected, retained_lock, event, unscanned, leased>>

\* push: self.ready.push(event).expect(...), then the guard drops.
PushPublish(p) ==
    /\ step[p] = "publish"
    /\ ready' = Append(ready, event[p])
    /\ event' = [event EXCEPT ![p] = None]
    /\ retained_lock' = None
    /\ step' = [step EXCEPT ![p] = "idle"]
    /\ UNCHANGED <<retained, rejected, unscanned, leased>>

\* clear, on a producer thread: one pop; the popped Arc is dropped next.
ClearPop(p) ==
    /\ step[p] \in {"idle", "clear"} /\ event[p] = None
    /\ ready # <<>>
    /\ event' = [event EXCEPT ![p] = Head(ready)]
    /\ ready' = Tail(ready)
    /\ step' = [step EXCEPT ![p] = "clear"]
    /\ UNCHANGED <<retained, rejected, retained_lock, unscanned, leased>>

ClearDrop(p) ==
    /\ step[p] = "clear" /\ event[p] # None
    /\ event' = [event EXCEPT ![p] = None]
    /\ UNCHANGED <<ready, retained, rejected, retained_lock, step, unscanned, leased>>

\* clear: pop() returned None, the loop ends.
ClearDone(p) ==
    /\ step[p] = "clear" /\ event[p] = None
    /\ ready = <<>>
    /\ step' = [step EXCEPT ![p] = "idle"]
    /\ UNCHANGED <<ready, retained, rejected, retained_lock, event, unscanned, leased>>

\* The callback: pop() into the countdown or the block scratch ...
CallbackPop ==
    /\ ready # <<>>
    /\ leased' = leased \cup {Head(ready)}
    /\ ready' = Tail(ready)
    /\ UNCHANGED <<retained, rejected, retained_lock, step, event, unscanned>>

\* ... and the end of the lease: dispatched, found stale, or cancelled.
CallbackDrop(e) ==
    /\ e \in leased
    /\ leased' = leased \ {e}
    /\ UNCHANGED <<ready, retained, rejected, retained_lock, step, event, unscanned>>

ProducerStep(p) ==
    \/ PushLock(p) \/ PushScan(p) \/ PushReject(p)
    \/ PushRetain(p) \/ PushPublish(p)
    \/ ClearPop(p) \/ ClearDrop(p) \/ ClearDone(p)

QueueNext ==
    \/ \E p \in Producers : ProducerStep(p)
    \/ CallbackPop
    \/ \E e \in Events : CallbackDrop(e)

\* A block runs every few milliseconds and drains the ring and its own event
\* storage; a thread inside push or clear is not suspended forever.
QueueFairness ==
    /\ WF_queueVars(CallbackPop)
    /\ \A e \in Events : WF_queueVars(CallbackDrop(e))
    /\ \A p \in Producers :
          /\ WF_queueVars(\/ PushScan(p) \/ PushReject(p)
                          \/ PushRetain(p) \/ PushPublish(p))
          /\ WF_queueVars(ClearPop(p) /\ step[p] = "clear")
          /\ WF_queueVars(ClearDrop(p) \/ ClearDone(p))

QueueSpec == QueueInit /\ [][QueueNext]_queueVars

\* While the transport plays, the scheduler keeps pushing.
PlayingSpec == QueueSpec /\ QueueFairness /\ \A p \in Producers : SF_queueVars(PushLock(p))

-----------------------------------------------------------------------------
(* Properties                                                              *)

\* The types; a queued entry is an event, never an empty slot.
QueueTypes ==
    /\ ready \in Seq(Events)
    /\ retained \subseteq Events
    /\ rejected \in 0 .. RejectedCap
    /\ retained_lock \in Producers \cup {None}
    /\ step \in [Producers -> {"idle", "scan", "publish", "clear"}]
    /\ event \in [Producers -> Events \cup {None}]
    /\ unscanned \in [Producers -> SUBSET Events]
    /\ leased \subseteq Events

\* `ready.push(event).expect("admitted scheduled event has queue capacity")`
\* never panics: whatever the callback has popped, cancelled or kept, an
\* admitted event finds a free ring slot.
AdmittedEventHasRoom ==
    \A p \in Producers : step[p] = "publish" => Len(ready) < Slots

\* An event that is queued, or held by the callback, or that a clear() is
\* about to drop, is still owned by the retained vector, and the admitted
\* events never outnumber the slots: the callback's storage is bounded too.
OutstandingIsRetained ==
    /\ ReadySet \cup leased \subseteq retained
    /\ \A p \in Producers : step[p] = "clear" /\ event[p] # None
                                => event[p] \in retained
    /\ Cardinality(retained) <= Slots

\* Dropping the callback's Arc never frees the event: the last owner to let
\* go of an admitted event is a producer inside push.
FreedOnlyByProducer ==
    [][\A e \in Events :
          Allocated(e) /\ ~Allocated(e)'
             => \E p \in Producers : retained_lock = p /\ step[p] = "scan"]_queueVars

\* Everything admitted is reclaimed: no entry of `retained` lives on after
\* the callback is done with it, as long as something is pushed now and then.
EventuallyReclaimed ==
    \A e \in Events : e \in retained ~> e \notin retained

=============================================================================
