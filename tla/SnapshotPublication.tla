------------------------- MODULE SnapshotPublication -------------------------
(***************************************************************************)
(* What a scheduler snapshot says about the live state.  A thread edits a  *)
(* part of the live state and publishes: in full, one track copied over    *)
(* the published snapshot, or the transport only.  Inside a                *)
(* coalesce_publishes scope the publication is deferred to the exit of the *)
(* outermost scope.  SnapshotHandoff models how a published snapshot       *)
(* reaches the callback; here storing it is one step.                      *)
(*                                                                         *)
(* The content of a part is the number of times it was edited.             *)
(***************************************************************************)
EXTENDS Integers, FiniteSets

CONSTANTS
    Tracks,       \* the tracks of the project
    Transport,    \* bpm, playing, the epochs
    Threads,      \* threads that edit and publish: the UI, the scheduler's Lisp VM
    Scoped,       \* the threads that open coalescing scopes: the UI
    MaxEdits,     \* bound on the edits of each part
    MaxNest       \* bound on the nesting of scopes

ASSUME PartsAssumption   == Transport \notin Tracks
ASSUME ThreadsAssumption == IsFiniteSet(Threads) /\ Scoped \subseteq Threads
ASSUME BoundsAssumption  == MaxEdits \in Nat /\ MaxNest \in Nat

Parts == Tracks \cup {Transport}

VARIABLES
    live,       \* live state: edits made to each part
    scheduler_snapshot, \* the snapshot in that mutex
    depth,      \* publish_coalesce_depth
    pending,    \* pending_coalesced_publish
    at, nest,   \* per thread: program counter, scopes it has open
    parts,      \* per thread: the parts its publication still has to capture
    snapshot,   \* per thread: the snapshot it is building
    \* ghosts
    overwritten, \* the parts a publication put back to an older content
    late,       \* pending was set after the exit of the scope that was to pay
    early       \* threads that had looked at the depth when the scope was opened

ghosts == <<overwritten, late, early>>
publicationVars == <<live, scheduler_snapshot, depth, pending, at, nest, parts, snapshot, ghosts>>

PublicationInit ==
    /\ live = [x \in Parts |-> 0] /\ scheduler_snapshot = live
    /\ depth = 0 /\ pending = FALSE
    /\ at = [t \in Threads |-> "idle"]
    /\ nest = [t \in Threads |-> 0]
    /\ parts = [t \in Threads |-> {}]
    /\ snapshot = [t \in Threads |-> live]
    /\ overwritten = {} /\ late = FALSE /\ early = {}

-----------------------------------------------------------------------------

\* What the publication that follows an edit of x captures: everything
\* (publish_scheduler_snapshot), or the part and the transport
\* (publish_scheduler_track, publish_transport_only).
Captures(x) == {Parts, {x, Transport}}

Edit(t, x) ==
    /\ at[t] = "idle" /\ live[x] < MaxEdits
    /\ live' = [live EXCEPT ![x] = @ + 1]
    /\ \E c \in Captures(x) : parts' = [parts EXCEPT ![t] = c]
    /\ at' = [at EXCEPT ![t] = "publish"]
    /\ UNCHANGED <<scheduler_snapshot, depth, pending, nest, snapshot, ghosts>>

\* (mutant of ExitScope: the depth is compared after the decrement)
ExitAfterDecrement(t) ==
    /\ at[t] = "idle" /\ nest[t] > 0
    /\ depth' = depth - 1
    /\ nest' = [nest EXCEPT ![t] = @ - 1]
    /\ at' = [at EXCEPT ![t] = IF depth' = 1 THEN "settle" ELSE "idle"]
    /\ UNCHANGED <<live, scheduler_snapshot, pending, parts, snapshot, ghosts>>

\* coalesce_publishes(body) before and after the body; Scope::drop is a
\* decrement that remembers whether it left the outermost scope.
EnterScope(t) ==
    /\ t \in Scoped /\ at[t] = "idle" /\ nest[t] < MaxNest
    /\ depth' = depth + 1
    /\ nest' = [nest EXCEPT ![t] = @ + 1]
    /\ early' = IF depth = 0 THEN {u \in Threads : at[u] \in {"clone", "capture"}} ELSE early
    /\ late' = FALSE
    /\ UNCHANGED <<live, scheduler_snapshot, pending, at, parts, snapshot, overwritten>>

ExitScope(t) ==
    /\ at[t] = "idle" /\ nest[t] > 0
    /\ depth' = depth - 1
    /\ nest' = [nest EXCEPT ![t] = @ - 1]
    /\ at' = [at EXCEPT ![t] = IF depth = 1 THEN "settle" ELSE "idle"]
    /\ UNCHANGED <<live, scheduler_snapshot, pending, parts, snapshot, ghosts>>

\* pending_coalesced_publish.swap(false), and the full publication it owes.
SettleScope(t) ==
    /\ at[t] = "settle"
    /\ pending' = FALSE
    /\ IF pending
       THEN /\ at' = [at EXCEPT ![t] = "publish"]
            /\ parts' = [parts EXCEPT ![t] = Parts]
       ELSE /\ at' = [at EXCEPT ![t] = "idle"]
            /\ UNCHANGED parts
    /\ late' = FALSE
    /\ UNCHANGED <<live, scheduler_snapshot, depth, nest, snapshot, overwritten, early>>

\* (mutant of CheckDepth: the outermost scope does not count)
CheckNested(t) ==
    /\ at[t] = "publish"
    /\ at' = [at EXCEPT ![t] = IF depth > 1 THEN "defer" ELSE "clone"]
    /\ UNCHANGED <<live, scheduler_snapshot, depth, pending, nest, parts, snapshot, ghosts>>

\* Every publication looks at the depth first.
CheckDepth(t) ==
    /\ at[t] = "publish"
    /\ at' = [at EXCEPT ![t] = IF depth > 0 THEN "defer" ELSE "clone"]
    /\ UNCHANGED <<live, scheduler_snapshot, depth, pending, nest, parts, snapshot, ghosts>>

\* (mutant of Defer: the intent is not recorded)
DeferForgets(t) ==
    /\ at[t] = "defer"
    /\ at' = [at EXCEPT ![t] = "idle"]
    /\ parts' = [parts EXCEPT ![t] = {}]
    /\ UNCHANGED <<live, scheduler_snapshot, depth, pending, nest, snapshot, ghosts>>

Defer(t) ==
    /\ at[t] = "defer"
    /\ pending' = TRUE
    /\ at' = [at EXCEPT ![t] = "idle"]
    /\ parts' = [parts EXCEPT ![t] = {}]
    /\ late' = (depth = 0 /\ \A u \in Threads : at[u] # "settle")
    /\ UNCHANGED <<live, scheduler_snapshot, depth, nest, snapshot, overwritten, early>>

\* A partial publication starts from the published snapshot; in a full one
\* the capture overwrites all of it.
Clone(t) ==
    /\ at[t] = "clone"
    /\ snapshot' = [snapshot EXCEPT ![t] = scheduler_snapshot]
    /\ at' = [at EXCEPT ![t] = "capture"]
    /\ UNCHANGED <<live, scheduler_snapshot, depth, pending, nest, parts, ghosts>>

\* The capture reads the live state part by part.
Capture(t, x) ==
    /\ at[t] = "capture" /\ x \in parts[t]
    /\ snapshot' = [snapshot EXCEPT ![t][x] = live[x]]
    /\ parts' = [parts EXCEPT ![t] = @ \ {x}]
    /\ UNCHANGED <<live, scheduler_snapshot, depth, pending, at, nest, ghosts>>

\* publish_scheduler_snapshot_arc.
Publish(t) ==
    /\ at[t] = "capture" /\ parts[t] = {}
    /\ scheduler_snapshot' = snapshot[t]
    /\ at' = [at EXCEPT ![t] = "idle"]
    /\ overwritten' = {x \in overwritten : snapshot[t][x] # live[x]}
                        \cup {x \in Parts : snapshot[t][x] < scheduler_snapshot[x]}
    /\ UNCHANGED <<live, depth, pending, nest, parts, snapshot, late, early>>

Step(t) ==
    \/ \E x \in Parts : Edit(t, x) \/ Capture(t, x)
    \/ EnterScope(t) \/ ExitScope(t) \/ SettleScope(t)
    \/ CheckDepth(t) \/ Defer(t) \/ Clone(t) \/ Publish(t)

PublicationNext == \E t \in Threads : Step(t)

PublicationSpec == PublicationInit /\ [][PublicationNext]_publicationVars

-----------------------------------------------------------------------------
(* Properties                                                              *)

Contents == [Parts -> 0 .. MaxEdits]

\* The types; the scopes are counted without underflow.
PublicationTypes ==
    /\ live \in Contents /\ scheduler_snapshot \in Contents
    /\ depth \in Nat /\ pending \in BOOLEAN
    /\ at \in [Threads -> {"idle", "settle", "publish", "defer", "clone", "capture"}]
    /\ nest \in [Threads -> 0 .. MaxNest]
    /\ parts \in [Threads -> SUBSET Parts]
    /\ snapshot \in [Threads -> Contents]
    /\ overwritten \subseteq Parts /\ late \in BOOLEAN /\ early \subseteq Threads

Idle == \A t \in Threads : at[t] = "idle"

\* No edit is forgotten: when every scope is closed and no publication is
\* under way, the published snapshot is the live state.  Two exceptions, of two
\* threads that publish: a part that the one put back to an older content with
\* a snapshot it had cloned or captured before the other published, and a
\* deferral that came too late.
PublishedIsCurrent ==
    Idle /\ depth = 0 /\ ~late =>
        \A x \in Parts \ overwritten : scheduler_snapshot[x] = live[x]

\* A deferred publication is owed by a scope: one is open, or its exit is
\* about to find the flag.  (publish.rs says that the scope's exit pays for
\* the capture.)  One exception: a thread that saw the depth of a scope and
\* sets the flag when the exit has already looked; the next scope pays for it.
DeferralIsOwed ==
    pending /\ ~late => depth > 0 \/ \E t \in Threads : at[t] = "settle"

\* Nothing is published while a scope is open, so that a transition of several
\* edits is one publication and the scheduler never sees half of it; except
\* what a thread publishes that had looked at the depth before the outermost
\* scope was opened.
ScopesAreSilent ==
    [][scheduler_snapshot' # scheduler_snapshot =>
         depth = 0 \/ \E t \in early : Publish(t)]_publicationVars

=============================================================================
