--------------------------- MODULE SnapshotHandoff ---------------------------
(***************************************************************************)
(* SchedulerSnapshotHandoff and its two callers: publishing threads        *)
(* (publish_scheduler_snapshot_arc) hand immutable snapshots to the audio  *)
(* callback, which swaps them in and hands the outgoing ones back to be    *)
(* freed elsewhere.  A snapshot is identified by the version it is         *)
(* published under; version 0 is the empty snapshot of a new state.        *)
(***************************************************************************)
EXTENDS Integers, Sequences, FiniteSets, Functions

CONSTANTS
    Publishers,          \* threads that publish: the UI, the scheduler's Lisp VM
    PublishedCapacity,   \* PUBLISHED_CAPACITY
    RetiredCapacity,     \* RETIRED_CAPACITY
    MaxVersion,          \* bound on the number of publications
    Nobody

ASSUME PublishersAssumption == IsFiniteSet(Publishers) /\ Nobody \notin Publishers
ASSUME PublishedAssumption  == PublishedCapacity \in Nat \ {0}
\* Enough room for everything that can be retired between two drains.
ASSUME RetiredAssumption ==
    RetiredCapacity \in Nat /\ RetiredCapacity >= Cardinality(Publishers) + 3
ASSUME MaxVersionAssumption == MaxVersion \in Nat

VARIABLES
    stored,          \* the snapshot in the scheduler_snapshot mutex
    version,         \* scheduler_snapshot_version
    lock,            \* the publisher that holds the mutex, or Nobody
    published,       \* ring of versions, oldest first
    retired,         \* ring of versions waiting to be freed
    retired_inline,  \* retirements that found the ring full
    pc, hand,        \* per publisher: program counter, superseded snapshot in hand
    cb,              \* the callback's program counter
    current,         \* the callback's snapshot
    current_version, \* the version it believes that snapshot has
    newest,          \* take_latest's candidate, or NoSnapshot
    skipped          \* the snapshot the callback is retiring, or NoSnapshot

pubVars == <<pc, hand>>
cbVars  == <<cb, current, current_version, newest, skipped>>
vars == <<stored, version, lock, published, retired, retired_inline, pubVars, cbVars>>

NoSnapshot == -1

-----------------------------------------------------------------------------

\* retire(snapshot): into the ring, or dropped on the spot and counted.
Retire(v) ==
    IF Len(retired) < RetiredCapacity
    THEN retired' = Append(retired, v) /\ UNCHANGED retired_inline
    ELSE retired_inline' = retired_inline + 1 /\ UNCHANGED retired

Init ==
    /\ stored = 0 /\ version = 0 /\ lock = Nobody
    /\ published = <<>> /\ retired = <<>> /\ retired_inline = 0
    /\ pc = [p \in Publishers |-> "idle"]
    /\ hand = [p \in Publishers |-> NoSnapshot]
    /\ cb = "closed" /\ current = 0 /\ current_version = 0
    /\ newest = NoSnapshot /\ skipped = NoSnapshot

-----------------------------------------------------------------------------
(* Publishers                                                              *)

\* The capture is done; publish_scheduler_snapshot_arc begins to drain.
PublishBegin(p) ==
    /\ pc[p] = "idle"
    /\ pc' = [pc EXCEPT ![p] = "drain"]
    /\ UNCHANGED <<stored, version, lock, published, retired, retired_inline,
                   hand, cbVars>>

DrainPop(p) ==
    /\ pc[p] = "drain" /\ retired # <<>>
    /\ retired' = Tail(retired)
    /\ UNCHANGED <<stored, version, lock, published, retired_inline,
                   pubVars, cbVars>>

\* (mutant of Drained: the publisher may stop draining at any point)
DrainedOrNot == TRUE

\* The loop ends when pop() finds the retire ring empty.
Drained == retired = <<>>

DrainDone(p) ==
    /\ pc[p] = "drain" /\ Drained
    /\ pc' = [pc EXCEPT ![p] = "lock"]
    /\ UNCHANGED <<stored, version, lock, published, retired, retired_inline,
                   hand, cbVars>>

\* lock(), then *published = Arc::clone(&snapshot).
Store(p) ==
    /\ pc[p] = "lock" /\ lock = Nobody /\ version < MaxVersion
    /\ lock' = p
    /\ stored' = version + 1
    /\ pc' = [pc EXCEPT ![p] = "bump"]
    /\ UNCHANGED <<version, published, retired, retired_inline, hand, cbVars>>

\* scheduler_snapshot_version.fetch_add(1).
Bump(p) ==
    /\ pc[p] = "bump"
    /\ version' = version + 1
    /\ pc' = [pc EXCEPT ![p] = "supersede"]
    /\ UNCHANGED <<stored, lock, published, retired, retired_inline, hand, cbVars>>

\* publish: pop what the callback has not picked up ...
SupersedePop(p) ==
    /\ pc[p] = "supersede" /\ hand[p] = NoSnapshot /\ published # <<>>
    /\ hand' = [hand EXCEPT ![p] = Head(published)]
    /\ published' = Tail(published)
    /\ UNCHANGED <<stored, version, lock, retired, retired_inline, pc, cbVars>>

\* ... and retire it ...
SupersedeRetire(p) ==
    /\ pc[p] = "supersede" /\ hand[p] # NoSnapshot
    /\ Retire(hand[p])
    /\ hand' = [hand EXCEPT ![p] = NoSnapshot]
    /\ UNCHANGED <<stored, version, lock, published, pc, cbVars>>

\* (mutant of SupersedeDone: one entry at most is superseded)
SupersedeOnce(p) ==
    /\ pc[p] = "supersede" /\ hand[p] = NoSnapshot
    /\ pc' = [pc EXCEPT ![p] = "push"]
    /\ UNCHANGED <<stored, version, lock, published, retired, retired_inline,
                   hand, cbVars>>

SupersedeDone(p) ==
    /\ pc[p] = "supersede" /\ hand[p] = NoSnapshot /\ published = <<>>
    /\ pc' = [pc EXCEPT ![p] = "push"]
    /\ UNCHANGED <<stored, version, lock, published, retired, retired_inline,
                   hand, cbVars>>

\* ... then push the new snapshot (evicting the oldest if the ring were full)
\* and unlock.
Push(p) ==
    /\ pc[p] = "push"
    /\ published' = Append(IF Len(published) < PublishedCapacity
                           THEN published ELSE Tail(published), stored)
    /\ lock' = Nobody
    /\ pc' = [pc EXCEPT ![p] = "idle"]
    /\ UNCHANGED <<stored, version, retired, retired_inline, hand, cbVars>>

-----------------------------------------------------------------------------
(* The scheduler worker: drain_retired_scheduler_snapshots on every pass.  *)

WorkerDrain ==
    /\ retired # <<>>
    /\ retired' = Tail(retired)
    /\ UNCHANGED <<stored, version, lock, published, retired_inline,
                   pubVars, cbVars>>

-----------------------------------------------------------------------------
(* The audio callback                                                      *)

\* new_audio_callback_data reads the version counter first ...
OpenVersion ==
    /\ cb = "closed"
    /\ current_version' = version
    /\ cb' = "opening"
    /\ UNCHANGED <<stored, version, lock, published, retired, retired_inline,
                   pubVars, current, newest, skipped>>

\* (mutant of OpenSnapshot: the snapshot is read without the mutex)
OpenUnlocked ==
    /\ cb = "opening"
    /\ current' = stored
    /\ cb' = "idle"
    /\ UNCHANGED <<stored, version, lock, published, retired, retired_inline,
                   pubVars, current_version, newest, skipped>>

\* ... and then the snapshot, under the mutex.
OpenSnapshot ==
    /\ cb = "opening" /\ lock = Nobody
    /\ current' = stored
    /\ cb' = "idle"
    /\ UNCHANGED <<stored, version, lock, published, retired, retired_inline,
                   pubVars, current_version, newest, skipped>>

\* (mutant of Supersedes: the first entry popped is kept)
KeepsFirst(v) == newest = NoSnapshot

\* take_latest keeps `v` rather than the candidate it already has.
Supersedes(v) == newest = NoSnapshot \/ v > newest

\* refresh -> take_latest: pop one entry, and set aside the older of the two.
TakePop ==
    /\ cb \in {"idle", "taking"} /\ skipped = NoSnapshot
    /\ published # <<>>
    /\ LET v == Head(published) IN
          IF Supersedes(v)
          THEN newest' = v /\ skipped' = newest
          ELSE newest' = newest /\ skipped' = v
    /\ published' = Tail(published)
    /\ cb' = "taking"
    /\ UNCHANGED <<stored, version, lock, retired, retired_inline, pubVars,
                   current, current_version>>

\* (mutant of CallbackRetire: the wrong snapshot is retired)
RetireNewest ==
    /\ skipped # NoSnapshot
    /\ Retire(newest)
    /\ skipped' = NoSnapshot
    /\ UNCHANGED <<stored, version, lock, published, pubVars,
                   cb, current, current_version, newest>>

CallbackRetire ==
    /\ skipped # NoSnapshot
    /\ Retire(skipped)
    /\ skipped' = NoSnapshot
    /\ UNCHANGED <<stored, version, lock, published, pubVars,
                   cb, current, current_version, newest>>

\* refresh: the ring is empty; a newer snapshot is swapped in and the outgoing
\* one is next to be retired.
Install ==
    /\ cb = "taking" /\ skipped = NoSnapshot /\ published = <<>>
    /\ newest > current_version
    /\ current' = newest /\ current_version' = newest
    /\ skipped' = current
    /\ newest' = NoSnapshot
    /\ cb' = "idle"
    /\ UNCHANGED <<stored, version, lock, published, retired, retired_inline, pubVars>>

\* refresh: what was taken has been observed before.
Discard ==
    /\ cb = "taking" /\ skipped = NoSnapshot /\ published = <<>>
    /\ newest <= current_version
    /\ skipped' = newest
    /\ newest' = NoSnapshot
    /\ cb' = "idle"
    /\ UNCHANGED <<stored, version, lock, published, retired, retired_inline,
                   pubVars, current, current_version>>

CallbackStep ==
    OpenVersion \/ OpenSnapshot \/ TakePop \/ CallbackRetire \/ Install \/ Discard

PublishStep(p) ==
    \/ DrainPop(p) \/ DrainDone(p) \/ Store(p) \/ Bump(p)
    \/ SupersedePop(p) \/ SupersedeRetire(p) \/ SupersedeDone(p) \/ Push(p)

Next ==
    \/ \E p \in Publishers : PublishBegin(p) \/ PublishStep(p)
    \/ WorkerDrain
    \/ CallbackStep

Spec == Init /\ [][Next]_vars

\* The device calls the callback block after block; a publisher inside the
\* critical section finishes it.  Nothing obliges anybody to publish.
Fairness ==
    /\ WF_vars(CallbackStep)
    /\ WF_vars(WorkerDrain)
    /\ \A p \in Publishers :
          /\ WF_vars(DrainPop(p) \/ DrainDone(p))
          /\ WF_vars(lock = p /\ PublishStep(p))

LiveSpec == Spec /\ Fairness

-----------------------------------------------------------------------------
(* Properties                                                              *)

Snapshots == 0 .. MaxVersion

\* The types; only snapshots, never an empty hand, are queued or retired.
TypeOK ==
    /\ stored \in Snapshots /\ version \in Snapshots
    /\ lock \in Publishers \cup {Nobody}
    /\ published \in Seq(Snapshots) /\ retired \in Seq(Snapshots)
    /\ retired_inline \in Nat
    /\ pc \in [Publishers -> {"idle", "drain", "lock", "bump", "supersede", "push"}]
    /\ hand \in [Publishers -> Snapshots \cup {NoSnapshot}]
    /\ cb \in {"closed", "opening", "idle", "taking"}
    /\ current \in Snapshots /\ current_version \in Snapshots
    /\ newest \in Snapshots \cup {NoSnapshot}
    /\ skipped \in Snapshots \cup {NoSnapshot}

\* The retire ring never fills up, so the callback never frees a project
\* inside the block budget: every publisher drains before it adds a snapshot.
NeverFreedInline == retired_inline = 0

\* Whenever no publication is under way, the newest snapshot is the callback's
\* own, or in the ring, or being taken: it cannot be superseded, evicted or
\* discarded by mistake, in any interleaving with the opening of the stream.
NewestIsReachable ==
    lock = Nobody /\ cb \in {"idle", "taking"}
        => version \in {current, newest} \cup Range(published)

\* The ring holds at most the one publication in flight, so the publisher's
\* eviction loop is dead code.
OnePublicationInFlight == Len(published) <= 1

\* The handoff implements a latest-value register.
Register == INSTANCE LatestValue WITH latest <- version, seen <- current

\* Whatever the interleaving, the callback only ever moves forward to a version
\* that has been published.
RegisterSafe == Register!SafeSpec

\* And under the fairness above it does not stay behind the newest one.
RegisterLive == Register!Spec

=============================================================================
