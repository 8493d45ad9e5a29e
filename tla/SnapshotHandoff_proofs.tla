----------------------- MODULE SnapshotHandoff_proofs -----------------------
(***************************************************************************)
(* Proofs about the two handoffs to the audio callback.  First about       *)
(* SnapshotHandoff, for any set of publishers, any ring capacities that    *)
(* satisfy the assumptions and any number of publications; then about      *)
(* SnapshotPublication, which says what a publication carries; then about  *)
(* ScheduledEventQueue, for every capacity, every set of event addresses   *)
(* and every set of producers.                                             *)
(***************************************************************************)
EXTENDS SnapshotHandoff, SnapshotPublication, ScheduledEventQueue, FiniteSetTheorems, SequenceTheorems, TLAPS

Critical == {"bump", "supersede", "push"}

\* The mutex is held exactly inside publish's critical section, and only a
\* publisher that is superseding has a snapshot in hand; it came out of the
\* ring, which it left empty.
LockInv ==
    \A p \in Publishers :
        /\ pc[p] \in Critical <=> lock = p
        /\ hand[p] # NoSnapshot => pc[p] = "supersede" /\ published = <<>>
        /\ pc[p] = "push" => published = <<>>

\* A publisher between the version bump and the push of that version.
Bumped == lock # Nobody /\ pc[lock] \in {"supersede", "push"}

\* How the versions in the different places compare.
VersionInv ==
    /\ stored = IF lock # Nobody /\ pc[lock] = "bump" THEN version + 1 ELSE version
    /\ Len(published) <= 1
    /\ published # <<>> => published[1] = IF Bumped THEN version - 1 ELSE version
    /\ published # <<>> => newest < published[1] /\ current <= published[1]
    /\ newest <= version /\ current <= version
    /\ Bumped => newest < version /\ current < version
    /\ current_version <= version

\* The callback: what it knows in each state.
CallbackInv ==
    /\ cb \in {"closed", "opening"} =>
          newest = NoSnapshot /\ skipped = NoSnapshot /\ current = 0
    /\ cb = "idle" => newest = NoSnapshot
    /\ cb = "taking" => newest # NoSnapshot
    /\ cb \in {"idle", "taking"} => current_version <= current
    /\ newest # NoSnapshot => newest >= current
    /\ cb \in {"idle", "taking"} /\ ~Bumped
          => version \in {current, newest} \/ published # <<>>

\* Publishers that have drained and whose snapshot is not in the ring yet.
Pending == {p \in Publishers : pc[p] \in {"lock"} \cup Critical}

One(v) == IF v = NoSnapshot THEN 0 ELSE 1

InHand == IF \E p \in Publishers : hand[p] # NoSnapshot THEN 1 ELSE 0

\* Everything that is retired already or may be before the next drain: each
\* snapshot is counted once on its way from a publisher through the ring and
\* the callback to the retire ring, and every publisher adds one only after it
\* has seen the retire ring empty.
InFlight == Len(retired) + Len(published) + Cardinality(Pending)
                + One(newest) + One(skipped) + InHand + 1

CountInv ==
    /\ InFlight <= Cardinality(Publishers) + 4
    /\ retired_inline = 0

IInv == TypeOK /\ LockInv /\ VersionInv /\ CallbackInv /\ CountInv

-----------------------------------------------------------------------------
(***************************************************************************)
(* Lemmas.                                                                 *)
(***************************************************************************)
\* Popping the single entry of a ring empties it.
LEMMA PopSingle ==
    ASSUME NEW S, NEW s \in Seq(S), s # <<>>, Len(s) <= 1
    PROVE  Head(s) = s[1] /\ s[1] \in S /\ Tail(s) = <<>> /\ Len(s) = 1
<1>1. Len(s) = 1
  <2>1. Len(s) \in Nat
    BY LenProperties
  <2>2. Len(s) # 0
    OBVIOUS
  <2>3. QED
    BY <2>1, <2>2
<1>2. Tail(s) \in Seq(S) /\ Len(Tail(s)) = 0 /\ Head(s) \in S
  BY <1>1, HeadTailProperties
<1>4. Head(s) = s[1]
  OBVIOUS
<1>3. QED
  BY <1>1, <1>2, <1>4, EmptySeq

\* There are finitely many publishers on their way.
LEMMA PendingFinite ==
    /\ IsFiniteSet(Pending)
    /\ Cardinality(Pending) \in Nat
    /\ Cardinality(Pending) <= Cardinality(Publishers)
    /\ Cardinality(Publishers) \in Nat
BY PublishersAssumption, FS_Subset, FS_CardinalityType DEF Pending

\* Retiring a snapshot that is still counted once finds room in the ring.
LEMMA RetireHasRoom ==
    ASSUME TypeOK, CountInv, skipped # NoSnapshot \/ InHand = 1
    PROVE  Len(retired) < RetiredCapacity
<1>1. Len(retired) \in Nat /\ Len(published) \in Nat
  BY LenProperties DEF TypeOK
<1>2. One(newest) \in {0, 1} /\ One(skipped) \in {0, 1} /\ InHand \in {0, 1}
      /\ (skipped # NoSnapshot => One(skipped) = 1)
  BY DEF One, InHand
<1>3. Len(retired) + 2 <= InFlight
  BY <1>1, <1>2, PendingFinite DEF InFlight
<1>4. QED
  BY <1>1, <1>2, <1>3, PendingFinite, RetiredAssumption, SMTT(30) DEF CountInv, InFlight

\* The initial state satisfies the inductive invariant.
LEMMA InitIInv == Init => IInv
<1> SUFFICES ASSUME Init PROVE IInv
  OBVIOUS
<1>1. Len(published) = 0 /\ Len(retired) = 0 /\ Range(published) = {}
  BY DEF Init, Range
<1>2. Pending = {} /\ Cardinality(Pending) = 0
  BY FS_EmptySet DEF Init, Pending, Critical
<1>3. InHand = 0 /\ One(newest) = 0 /\ One(skipped) = 0
  BY DEF Init, InHand, One
<1>4. TypeOK
  BY MaxVersionAssumption DEF Init, TypeOK, Snapshots, NoSnapshot
<1>5. LockInv /\ VersionInv /\ CallbackInv
  BY <1>1, PublishersAssumption
     DEF Init, LockInv, VersionInv, CallbackInv, Critical, Bumped, NoSnapshot
<1>6. CountInv
  BY <1>1, <1>2, <1>3, PendingFinite DEF Init, CountInv, InFlight
<1>7. QED
  BY <1>4, <1>5, <1>6 DEF IInv

\* The terms of the count are naturals.
LEMMA CountTypes ==
    ASSUME TypeOK
    PROVE  /\ Len(retired) \in Nat /\ Len(published) \in Nat
           /\ One(newest) \in Nat /\ One(skipped) \in Nat /\ InHand \in Nat
           /\ Cardinality(Pending) \in Nat /\ Cardinality(Publishers) \in Nat
BY LenProperties, PendingFinite DEF TypeOK, One, InHand

\* Publisher steps that move no snapshot between the places.
LEMMA PublisherControl ==
    ASSUME IInv, NEW p \in Publishers,
           PublishBegin(p) \/ Bump(p) \/ SupersedeDone(p)
    PROVE  IInv'
<1>0. TypeOK /\ LockInv /\ VersionInv /\ CallbackInv /\ CountInv
  BY DEF IInv
<1>1. TypeOK'
  <2>1. CASE PublishBegin(p) \/ SupersedeDone(p)
    BY <1>0, <2>1 DEF PublishBegin, SupersedeDone, cbVars, TypeOK
  <2>2. CASE Bump(p)
    <3>1. version + 1 = stored
      BY <1>0, <2>2, PublishersAssumption DEF Bump, LockInv, VersionInv, Critical
    <3>2. QED
      BY <1>0, <2>2, <3>1 DEF Bump, cbVars, TypeOK
  <2>3. QED
    BY <2>1, <2>2
<1>2. LockInv'
  BY <1>0 DEF PublishBegin, Bump, SupersedeDone, cbVars, TypeOK, LockInv, Critical
<1>3. VersionInv'
  <2>1. CASE PublishBegin(p)
    BY <1>0, <2>1, PublishersAssumption
       DEF PublishBegin, cbVars, TypeOK, LockInv, VersionInv, Bumped, Critical
  <2>2. CASE Bump(p)
    <3>1. lock = p /\ ~Bumped /\ stored = version + 1 /\ Bumped'
      BY <1>0, <2>2, PublishersAssumption
         DEF Bump, TypeOK, LockInv, VersionInv, Bumped, Critical
    <3>2. newest \in Int /\ current \in Int /\ version \in Int /\ version' = version + 1
          /\ current_version \in Int
      BY <1>0, <2>2 DEF Bump, TypeOK, Snapshots, NoSnapshot
    <3>3. pc'[p] = "supersede" /\ lock' = p
      BY <1>0, <2>2, <3>1 DEF Bump, TypeOK
    <3>4. QED
      BY <1>0, <2>2, <3>1, <3>2, <3>3 DEF Bump, cbVars, VersionInv
  <2>3. CASE SupersedeDone(p)
    BY <1>0, <2>3, PublishersAssumption
       DEF SupersedeDone, cbVars, TypeOK, LockInv, VersionInv, Bumped, Critical
  <2>4. QED
    BY <2>1, <2>2, <2>3
<1>4. CallbackInv'
  <2>1. Bumped => Bumped'
    BY <1>0 DEF PublishBegin, Bump, SupersedeDone, TypeOK, LockInv, Bumped, Critical
  <2>2. ~Bumped' => version' = version
    <3>1. CASE Bump(p)
      BY <1>0, <3>1, PublishersAssumption DEF Bump, TypeOK, LockInv, Bumped, Critical
    <3>2. QED
      BY <3>1 DEF PublishBegin, SupersedeDone
  <2>3. QED
    BY <1>0, <2>1, <2>2 DEF PublishBegin, Bump, SupersedeDone, cbVars, CallbackInv
<1>5. CountInv'
  <2>1. Pending' = Pending
    BY <1>0 DEF PublishBegin, Bump, SupersedeDone, TypeOK, Pending, Critical
  <2>2. InHand' = InHand
    BY DEF PublishBegin, Bump, SupersedeDone, InHand
  <2>3. QED
    BY <1>0, <2>1, <2>2
       DEF PublishBegin, Bump, SupersedeDone, cbVars, CountInv, InFlight, One
<1>6. QED
  BY <1>1, <1>2, <1>3, <1>4, <1>5 DEF IInv

\* The two drains: a retired snapshot is freed.
LEMMA Drains ==
    ASSUME IInv, WorkerDrain \/ \E p \in Publishers : DrainPop(p)
    PROVE  IInv'
<1>0. TypeOK /\ LockInv /\ VersionInv /\ CallbackInv /\ CountInv
  BY DEF IInv
<1>1. /\ retired # <<>> /\ retired' = Tail(retired)
      /\ UNCHANGED <<stored, version, lock, published, retired_inline, pubVars, cbVars>>
  BY DEF WorkerDrain, DrainPop
<1>2. retired' \in Seq(Snapshots) /\ Len(retired') = Len(retired) - 1
  BY <1>0, <1>1, HeadTailProperties DEF TypeOK
<1>3. TypeOK'
  BY <1>0, <1>1, <1>2 DEF TypeOK, pubVars, cbVars
<1>4. LockInv' /\ VersionInv' /\ CallbackInv'
  BY <1>0, <1>1 DEF LockInv, VersionInv, CallbackInv, Bumped, pubVars, cbVars
<1>5. Pending' = Pending /\ InHand' = InHand
  BY <1>1 DEF Pending, InHand, pubVars
<1>6. CountInv'
  BY <1>0, <1>1, <1>2, <1>5, CountTypes, SMTT(30) DEF CountInv, InFlight, One, cbVars
<1>7. QED
  BY <1>3, <1>4, <1>6 DEF IInv

\* A publisher has seen the retire ring empty: it may add its snapshot.
LEMMA DrainDoneStep ==
    ASSUME IInv, NEW p \in Publishers, DrainDone(p)
    PROVE  IInv'
<1>0. TypeOK /\ LockInv /\ VersionInv /\ CallbackInv /\ CountInv
  BY DEF IInv
<1>1. TypeOK'
  BY <1>0 DEF DrainDone, cbVars, TypeOK
<1>2. LockInv'
  BY <1>0 DEF DrainDone, cbVars, TypeOK, LockInv, Critical
<1>3. lock # p
  BY <1>0 DEF DrainDone, LockInv, Critical
<1>4. VersionInv' /\ CallbackInv'
  <2>1. Bumped' = Bumped /\ (lock # Nobody => pc'[lock] = pc[lock])
    BY <1>0, <1>3 DEF DrainDone, TypeOK, Bumped
  <2>2. QED
    BY <1>0, <2>1 DEF DrainDone, cbVars, VersionInv, CallbackInv
<1>5. CountInv'
  <2>1. Cardinality(Pending)' <= Cardinality(Publishers) /\ Cardinality(Pending)' \in Nat
    BY PublishersAssumption, FS_Subset, FS_CardinalityType DEF Pending
  <2>2. Len(retired') = 0
    BY DEF DrainDone, Drained
  <2>3. Len(published') + InHand' <= 1
    BY <1>0, CountTypes DEF DrainDone, VersionInv, LockInv, InHand
  <2>4. One(newest)' <= 1 /\ One(skipped)' <= 1 /\ One(newest)' \in Nat /\ One(skipped)' \in Nat
    BY DEF One
  <2>5. Len(published') \in Nat /\ InHand' \in Nat /\ Cardinality(Publishers) \in Nat
    BY <1>1, PendingFinite, LenProperties DEF TypeOK, InHand
  <2>6. QED
    BY <1>0, <2>1, <2>2, <2>3, <2>4, <2>5 DEF DrainDone, CountInv, InFlight
<1>6. QED
  BY <1>1, <1>2, <1>4, <1>5 DEF IInv

\* The snapshot goes into the mutex and the version is one behind.
LEMMA StoreStep ==
    ASSUME IInv, NEW p \in Publishers, Store(p)
    PROVE  IInv'
<1>0. TypeOK /\ LockInv /\ VersionInv /\ CallbackInv /\ CountInv
  BY DEF IInv
<1>1. TypeOK'
  BY <1>0, MaxVersionAssumption DEF Store, cbVars, TypeOK, Snapshots
<1>2. LockInv'
  BY <1>0, PublishersAssumption DEF Store, cbVars, TypeOK, LockInv, Critical
<1>3. pc'[p] = "bump" /\ lock' = p /\ ~Bumped' /\ ~Bumped
  BY <1>0 DEF Store, TypeOK, Bumped
<1>4. VersionInv' /\ CallbackInv'
  BY <1>0, <1>3, PublishersAssumption DEF Store, cbVars, VersionInv, CallbackInv
<1>5. CountInv'
  <2>1. Pending' = Pending
    BY <1>0 DEF Store, TypeOK, Pending, Critical
  <2>2. QED
    BY <1>0, <2>1 DEF Store, cbVars, CountInv, InFlight, One, InHand
<1>6. QED
  BY <1>1, <1>2, <1>4, <1>5 DEF IInv

\* What the callback has not picked up is in the publisher's hand.
LEMMA SupersedePopStep ==
    ASSUME IInv, NEW p \in Publishers, SupersedePop(p)
    PROVE  IInv'
<1>0. TypeOK /\ LockInv /\ VersionInv /\ CallbackInv /\ CountInv
  BY DEF IInv
<1>1. /\ lock = p /\ Bumped
      /\ Head(published) \in Snapshots /\ published' = <<>> /\ Len(published) = 1
  BY <1>0, PopSingle, PublishersAssumption
     DEF SupersedePop, TypeOK, LockInv, VersionInv, Bumped, Critical
<1>2. TypeOK'
  BY <1>0, <1>1, EmptySeq DEF SupersedePop, cbVars, TypeOK
<1>3. LockInv'
  BY <1>0, <1>1 DEF SupersedePop, cbVars, TypeOK, LockInv, Critical
<1>4. VersionInv' /\ CallbackInv'
  <2>1. Len(published') = 0 /\ Bumped'
    BY <1>1 DEF SupersedePop, Bumped
  <2>2. /\ UNCHANGED <<stored, version, lock, pc, cb, current, current_version, newest, skipped>>
        /\ published' = <<>>
    BY <1>1 DEF SupersedePop, cbVars
  <2>3. VersionInv'
    BY <1>0, <1>1, <2>1, <2>2 DEF VersionInv
  <2>4. CallbackInv'
    BY <1>0, <1>1, <2>1, <2>2 DEF CallbackInv
  <2>5. QED
    BY <2>3, <2>4
<1>5. CountInv'
  <2>1. hand'[p] # NoSnapshot
    BY <1>0, <1>1 DEF SupersedePop, TypeOK, Snapshots, NoSnapshot
  <2>2. InHand = 0 /\ InHand' = 1
    BY <1>0, <2>1 DEF SupersedePop, LockInv, InHand
  <2>3. Pending' = Pending /\ Len(published') = 0
    BY <1>1 DEF SupersedePop, Pending
  <2>4. UNCHANGED <<retired, retired_inline, newest, skipped>>
    BY DEF SupersedePop, cbVars
  <2>5. InFlight' = InFlight
    BY <1>0, <1>1, <2>2, <2>3, <2>4, CountTypes DEF InFlight, One
  <2>6. QED
    BY <1>0, <2>4, <2>5 DEF CountInv
<1>6. QED
  BY <1>2, <1>3, <1>4, <1>5 DEF IInv

\* The superseded snapshot finds room among the retired ones.
LEMMA SupersedeRetireStep ==
    ASSUME IInv, NEW p \in Publishers, SupersedeRetire(p)
    PROVE  IInv'
<1>0. TypeOK /\ LockInv /\ VersionInv /\ CallbackInv /\ CountInv
  BY DEF IInv
<1>1. InHand = 1 /\ hand[p] \in Snapshots
  BY <1>0 DEF SupersedeRetire, InHand, TypeOK
<1>2. retired' = Append(retired, hand[p]) /\ UNCHANGED retired_inline
  BY <1>0, <1>1, RetireHasRoom DEF SupersedeRetire, Retire
<1>3. retired' \in Seq(Snapshots) /\ Len(retired') = Len(retired) + 1
  BY <1>0, <1>1, <1>2, AppendProperties DEF TypeOK
<1>4. TypeOK'
  BY <1>0, <1>2, <1>3 DEF SupersedeRetire, cbVars, TypeOK
<1>5. LockInv' /\ VersionInv' /\ CallbackInv'
  BY <1>0 DEF SupersedeRetire, cbVars, TypeOK, LockInv, VersionInv, CallbackInv, Bumped
<1>6. CountInv'
  <2>1. \A q \in Publishers : hand[q] # NoSnapshot => q = p
    BY <1>0 DEF SupersedeRetire, LockInv, Critical
  <2>2. InHand' = 0
    BY <1>0, <2>1 DEF SupersedeRetire, TypeOK, InHand
  <2>3. Pending' = Pending
    BY DEF SupersedeRetire, Pending
  <2>4. QED
    BY <1>0, <1>1, <1>2, <1>3, <2>2, <2>3, CountTypes
       DEF SupersedeRetire, cbVars, CountInv, InFlight, One
<1>7. QED
  BY <1>4, <1>5, <1>6 DEF IInv

\* The new snapshot enters an empty ring.
LEMMA PushStep ==
    ASSUME IInv, NEW p \in Publishers, Push(p)
    PROVE  IInv'
<1>0. TypeOK /\ LockInv /\ VersionInv /\ CallbackInv /\ CountInv
  BY DEF IInv
<1>1. lock = p /\ Bumped /\ published = <<>> /\ stored = version
  BY <1>0, PublishersAssumption DEF Push, LockInv, VersionInv, Bumped, Critical
<1>2. published' = Append(<<>>, stored)
  BY <1>1, PublishedAssumption DEF Push
<1>3. /\ published' \in Seq(Snapshots) /\ Len(published') = 1
      /\ published'[1] = version /\ published' # <<>>
  BY <1>0, <1>1, <1>2, AppendProperties, EmptySeq DEF TypeOK
<1>4. TypeOK'
  BY <1>0, <1>3 DEF Push, cbVars, TypeOK
<1>5. LockInv'
  BY <1>0, <1>1, PublishersAssumption DEF Push, cbVars, TypeOK, LockInv, Critical
<1>6. VersionInv' /\ CallbackInv'
  <2>1. lock' = Nobody /\ ~Bumped' /\ version' = version /\ stored' = stored
    BY DEF Push, Bumped
  <2>2. newest < version /\ current < version /\ newest \in Int /\ current \in Int /\ version \in Int
    BY <1>0, <1>1 DEF VersionInv, TypeOK, Snapshots, NoSnapshot
  <2>3. QED
    BY <1>0, <1>1, <1>3, <2>1, <2>2 DEF Push, cbVars, VersionInv, CallbackInv
<1>7. CountInv'
  <2>1. p \in Pending /\ Pending' = Pending \ {p}
    BY <1>0 DEF Push, TypeOK, Pending, Critical
  <2>2. Cardinality(Pending') = Cardinality(Pending) - 1
    BY <2>1, PendingFinite, FS_RemoveElement
  <2>3. InHand' = InHand /\ Len(published) = 0
    BY <1>1 DEF Push, InHand
  <2>4. QED
    BY <1>0, <1>3, <2>2, <2>3, CountTypes
       DEF Push, cbVars, CountInv, InFlight, One
<1>8. QED
  BY <1>4, <1>5, <1>6, <1>7 DEF IInv

\* The stream opens: its version is at most the snapshot it then reads.
LEMMA OpenStep ==
    ASSUME IInv, OpenVersion \/ OpenSnapshot
    PROVE  IInv'
<1>0. TypeOK /\ LockInv /\ VersionInv /\ CallbackInv /\ CountInv
  BY DEF IInv
<1>1. /\ UNCHANGED <<stored, version, lock, published, retired, retired_inline, pc, hand,
                     newest, skipped>>
      /\ newest = NoSnapshot /\ skipped = NoSnapshot
  BY <1>0 DEF OpenVersion, OpenSnapshot, pubVars, CallbackInv
<1>2. TypeOK'
  BY <1>0, <1>1 DEF OpenVersion, OpenSnapshot, TypeOK
<1>3. LockInv'
  BY <1>0, <1>1 DEF LockInv
<1>4. Pending' = Pending /\ InHand' = InHand /\ Bumped' = Bumped
  BY <1>1 DEF Pending, InHand, Bumped
<1>5. CountInv'
  BY <1>0, <1>1, <1>4 DEF CountInv, InFlight, One
<1>6. VersionInv' /\ CallbackInv'
  <2>1. CASE OpenVersion
    BY <1>0, <1>1, <1>4, <2>1 DEF OpenVersion, TypeOK, Snapshots, VersionInv, CallbackInv
  <2>2. CASE OpenSnapshot
    <3>1. ~Bumped /\ lock = Nobody /\ current' = version /\ cb' = "idle"
          /\ UNCHANGED current_version
      BY <1>0, <2>2 DEF OpenSnapshot, VersionInv, Bumped
    <3>2. VersionInv'
      BY <1>0, <1>1, <1>4, <3>1 DEF TypeOK, Snapshots, NoSnapshot, VersionInv
    <3>3. CallbackInv'
      BY <1>0, <1>1, <1>4, <3>1 DEF TypeOK, Snapshots, NoSnapshot, VersionInv, CallbackInv
    <3>4. QED
      BY <3>2, <3>3
  <2>3. QED
    BY <2>1, <2>2
<1>7. QED
  BY <1>2, <1>3, <1>5, <1>6 DEF IInv

\* What the callback pops is newer than anything it has.
LEMMA TakePopStep ==
    ASSUME IInv, TakePop
    PROVE  IInv'
<1>0. TypeOK /\ LockInv /\ VersionInv /\ CallbackInv /\ CountInv
  BY DEF IInv
<1>1. /\ published[1] \in Snapshots /\ Head(published) = published[1]
      /\ published' = <<>> /\ Len(published) = 1
  BY <1>0, PopSingle DEF TakePop, TypeOK, VersionInv
<1>2. /\ newest' = published[1] /\ skipped' = newest /\ cb' = "taking"
      /\ UNCHANGED <<stored, version, lock, retired, retired_inline, pc, hand,
                     current, current_version>>
      /\ skipped = NoSnapshot /\ published # <<>> /\ cb \in {"idle", "taking"}
  BY <1>0, <1>1 DEF TakePop, Supersedes, VersionInv, pubVars, TypeOK, Snapshots, NoSnapshot
<1>3. TypeOK'
  BY <1>0, <1>1, <1>2, EmptySeq DEF TypeOK
<1>4. LockInv'
  BY <1>0, <1>1, <1>2 DEF LockInv
<1>5. /\ Pending' = Pending /\ InHand' = InHand /\ Bumped' = Bumped
      /\ Len(published') = 0
  BY <1>1, <1>2 DEF Pending, InHand, Bumped
<1>6. One(newest') = 1 /\ One(skipped') = One(newest) /\ One(skipped) = 0
  BY <1>1, <1>2 DEF One, Snapshots, NoSnapshot
<1>7. CountInv'
  <2>1. InFlight' = InFlight
    BY <1>0, <1>1, <1>2, <1>5, <1>6, CountTypes DEF InFlight
  <2>2. QED
    BY <1>0, <1>2, <2>1 DEF CountInv
<1>8. VersionInv'
  BY <1>0, <1>1, <1>2, <1>5 DEF VersionInv, TypeOK, Snapshots, NoSnapshot
<1>9. CallbackInv'
  BY <1>0, <1>1, <1>2, <1>5 DEF VersionInv, CallbackInv, TypeOK, Snapshots, NoSnapshot
<1>10. QED
  BY <1>3, <1>4, <1>7, <1>8, <1>9 DEF IInv

\* The callback's outgoing snapshot finds room among the retired ones too.
LEMMA CallbackRetireStep ==
    ASSUME IInv, CallbackRetire
    PROVE  IInv'
<1>0. TypeOK /\ LockInv /\ VersionInv /\ CallbackInv /\ CountInv
  BY DEF IInv
<1>1. skipped \in Snapshots
  BY <1>0 DEF CallbackRetire, TypeOK
<1>2. retired' = Append(retired, skipped) /\ UNCHANGED retired_inline
  BY <1>0, RetireHasRoom DEF CallbackRetire, Retire
<1>3. retired' \in Seq(Snapshots) /\ Len(retired') = Len(retired) + 1
  BY <1>0, <1>1, <1>2, AppendProperties DEF TypeOK
<1>4. /\ UNCHANGED <<stored, version, lock, published, pc, hand,
                     cb, current, current_version, newest>>
      /\ skipped' = NoSnapshot
  BY DEF CallbackRetire, pubVars
<1>5. TypeOK'
  BY <1>0, <1>2, <1>3, <1>4 DEF TypeOK
<1>6. LockInv' /\ VersionInv' /\ CallbackInv'
  BY <1>0, <1>4 DEF LockInv, VersionInv, CallbackInv, Bumped
<1>7. CountInv'
  <2>1. Pending' = Pending /\ InHand' = InHand
    BY <1>4 DEF Pending, InHand
  <2>2. One(skipped) = 1 /\ One(skipped') = 0 /\ One(newest') = One(newest)
    BY <1>1, <1>4 DEF One, Snapshots, NoSnapshot
  <2>3. InFlight' = InFlight
    BY <1>0, <1>3, <1>4, <2>1, <2>2, CountTypes DEF InFlight
  <2>4. QED
    BY <1>0, <1>2, <2>3 DEF CountInv
<1>8. QED
  BY <1>5, <1>6, <1>7 DEF IInv

\* refresh ends: one of the two snapshots is the callback's, the other one is
\* next to be retired.
LEMMA RefreshStep ==
    ASSUME IInv, Install \/ Discard
    PROVE  IInv'
<1>0. TypeOK /\ LockInv /\ VersionInv /\ CallbackInv /\ CountInv
  BY DEF IInv
<1>1. /\ UNCHANGED <<stored, version, lock, published, retired, retired_inline, pc, hand>>
      /\ cb = "taking" /\ cb' = "idle" /\ skipped = NoSnapshot /\ newest' = NoSnapshot
      /\ skipped' \in Snapshots /\ published = <<>>
      /\ newest \in Snapshots /\ newest <= version /\ newest >= current
      /\ (Bumped => newest < version)
  BY <1>0 DEF Install, Discard, pubVars, CallbackInv, VersionInv, TypeOK
<1>2. \/ current' = newest /\ current_version' = newest
      \/ UNCHANGED <<current, current_version>> /\ newest <= current_version
  BY DEF Install, Discard
<1>3. TypeOK'
  BY <1>0, <1>1, <1>2 DEF TypeOK
<1>4. LockInv'
  BY <1>0, <1>1 DEF LockInv
<1>5. Pending' = Pending /\ InHand' = InHand /\ Bumped' = Bumped
  BY <1>1 DEF Pending, InHand, Bumped
<1>6. CountInv'
  <2>1. One(skipped') = One(newest) /\ One(newest') = One(skipped)
    BY <1>1 DEF One, Snapshots, NoSnapshot
  <2>2. InFlight' = InFlight
    BY <1>0, <1>1, <1>5, <2>1, CountTypes DEF InFlight
  <2>3. QED
    BY <1>0, <1>1, <2>2 DEF CountInv
<1>7. VersionInv'
  BY <1>0, <1>1, <1>2, <1>5 DEF VersionInv, TypeOK, Snapshots, NoSnapshot
<1>8. CallbackInv'
  <2>1. current_version <= current
    BY <1>0, <1>1 DEF CallbackInv
  <2>2. current' = newest
    BY <1>0, <1>1, <1>2, <2>1 DEF TypeOK, Snapshots
  <2>3. current_version' <= current'
    BY <1>0, <1>1, <1>2, <2>1, <2>2 DEF TypeOK, Snapshots
  <2>4. ~Bumped => version = newest \/ version = current
    BY <1>0, <1>1 DEF CallbackInv
  <2>5. ~Bumped => version = newest
    BY <1>0, <1>1, <2>4 DEF TypeOK, Snapshots
  <2>6. QED
    BY <1>0, <1>1, <1>5, <2>2, <2>3, <2>5 DEF CallbackInv
<1>9. QED
  BY <1>3, <1>4, <1>6, <1>7, <1>8 DEF IInv

\* Every step keeps the inductive invariant: one step of the proof per action.
LEMMA NextIInv == IInv /\ [Next]_vars => IInv'
<1> SUFFICES ASSUME IInv, [Next]_vars PROVE IInv'
  OBVIOUS
<1>1. ASSUME NEW p \in Publishers, PublishBegin(p) \/ PublishStep(p) PROVE IInv'
  <2>1. CASE PublishBegin(p) \/ Bump(p) \/ SupersedeDone(p)
    BY <2>1, PublisherControl
  <2>2. CASE DrainPop(p)
    BY <2>2, Drains
  <2>3. CASE DrainDone(p)
    BY <2>3, DrainDoneStep
  <2>4. CASE Store(p)
    BY <2>4, StoreStep
  <2>5. CASE SupersedePop(p)
    BY <2>5, SupersedePopStep
  <2>6. CASE SupersedeRetire(p)
    BY <2>6, SupersedeRetireStep
  <2>7. CASE Push(p)
    BY <2>7, PushStep
  <2>8. QED
    BY <1>1, <2>1, <2>2, <2>3, <2>4, <2>5, <2>6, <2>7 DEF PublishStep
<1>2. CASE WorkerDrain
  BY <1>2, Drains
<1>3. CASE CallbackStep
  <2>1. CASE OpenVersion \/ OpenSnapshot
    BY <2>1, OpenStep
  <2>2. CASE TakePop
    BY <2>2, TakePopStep
  <2>3. CASE CallbackRetire
    BY <2>3, CallbackRetireStep
  <2>4. CASE Install \/ Discard
    BY <2>4, RefreshStep
  <2>5. QED
    BY <1>3, <2>1, <2>2, <2>3, <2>4 DEF CallbackStep
<1>4. CASE UNCHANGED vars
  <2>1. UNCHANGED <<stored, version, lock, published, retired, retired_inline, pc, hand,
                    cb, current, current_version, newest, skipped>>
    BY <1>4 DEF vars, pubVars, cbVars
  <2>2. TypeOK' /\ LockInv' /\ VersionInv' /\ CallbackInv'
    BY <2>1 DEF IInv, TypeOK, LockInv, VersionInv, CallbackInv, Bumped
  <2>3. Pending' = Pending /\ InHand' = InHand
    BY <2>1 DEF Pending, InHand
  <2>4. CountInv'
    BY <2>1, <2>3 DEF IInv, CountInv, InFlight, One
  <2>5. QED
    BY <2>2, <2>4 DEF IInv
<1>5. QED
  BY <1>1, <1>2, <1>3, <1>4 DEF Next

-----------------------------------------------------------------------------
(***************************************************************************)
(* Theorems.                                                               *)
(***************************************************************************)
\* The inductive invariant holds in every reachable state.
THEOREM Invariant == Spec => []IInv
BY InitIInv, NextIInv, PTL DEF Spec

\* The rings hold versions, every program counter is one of its states.
THEOREM TypeCorrect == Spec => []TypeOK
<1>1. IInv => TypeOK
  BY DEF IInv
<1>2. QED
  BY <1>1, Invariant, PTL

\* However many publishers drain and publish concurrently, the callback and
\* the publishers always find room in the retire ring: nothing is freed inline.
THEOREM NoInlineFree == Spec => []NeverFreedInline
<1>1. IInv => NeverFreedInline
  BY DEF IInv, CountInv, NeverFreedInline
<1>2. QED
  BY <1>1, Invariant, PTL

\* Between publications the newest snapshot is where the callback finds it.
THEOREM NewestNeverLost == Spec => []NewestIsReachable
<1>1. ASSUME IInv, lock = Nobody, cb \in {"idle", "taking"}
      PROVE  version \in {current, newest} \cup Range(published)
  <2>1. ~Bumped
    BY <1>1 DEF Bumped
  <2>2. CASE version \in {current, newest}
    BY <2>2
  <2>3. CASE published # <<>>
    <3>1. published[1] = version /\ Len(published) = 1
      BY <1>1, <2>1, <2>3, PopSingle DEF IInv, VersionInv, TypeOK
    <3>2. 1 \in DOMAIN published
      BY <1>1, <3>1, LenProperties DEF IInv, TypeOK
    <3>3. QED
      BY <3>1, <3>2 DEF Range
  <2>4. QED
    BY <1>1, <2>1, <2>2, <2>3 DEF IInv, CallbackInv
<1>2. IInv => NewestIsReachable
  BY <1>1 DEF NewestIsReachable
<1>3. QED
  BY <1>2, Invariant, PTL

\* The published ring never holds more than the publication in flight.
THEOREM AtMostOnePublication == Spec => []OnePublicationInFlight
<1>1. IInv => OnePublicationInFlight
  BY DEF IInv, VersionInv, OnePublicationInFlight
<1>2. QED
  BY <1>1, Invariant, PTL

\* Every step of the handoff is a step of the register or leaves it alone.
LEMMA StepRefines ==
    ASSUME IInv, [Next]_vars
    PROVE  [Register!Next]_<<version, current>>
<1>0. version \in Nat /\ current \in Nat /\ newest \in Int /\ current <= version
  BY DEF IInv, TypeOK, VersionInv, Snapshots, NoSnapshot
<1>1. CASE \E p \in Publishers : Bump(p)
  BY <1>0, <1>1 DEF Bump, cbVars, Register!Next, Register!Publish
<1>2. CASE OpenSnapshot
  <2>1. current' = version /\ version' = version
    BY <1>2 DEF OpenSnapshot, IInv, VersionInv
  <2>2. QED
    BY <1>0, <2>1 DEF Register!Next, Register!Observe
<1>3. CASE Install
  <2>1. current' = newest /\ version' = version /\ newest >= current /\ newest <= version
    BY <1>3 DEF Install, IInv, VersionInv, CallbackInv
  <2>2. QED
    BY <1>0, <2>1 DEF Register!Next, Register!Observe
<1>4. CASE UNCHANGED <<version, current>>
  BY <1>0, <1>4
<1>5. QED
  BY <1>1, <1>2, <1>3, <1>4
     DEF Next, PublishStep, CallbackStep, PublishBegin, DrainPop, DrainDone, Store,
         SupersedePop, SupersedeRetire, SupersedeDone, Push, WorkerDrain, OpenVersion,
         TakePop, CallbackRetire, Discard, vars, cbVars

\* The handoff implements the latest-value register.
THEOREM Refines == Spec => RegisterSafe
<1>1. Init => Register!Init
  BY DEF Init, Register!Init
<1>2. IInv /\ [Next]_vars => [Register!Next]_Register!vars
  BY StepRefines DEF Register!vars
<1>3. QED
  BY <1>1, <1>2, Invariant, PTL DEF Spec, RegisterSafe, Register!SafeSpec
-----------------------------------------------------------------------------
(***************************************************************************)
(* SnapshotPublication, for any finite set of threads that publish and     *)
(* open scopes, any set of tracks, any number of edits and any nesting.    *)
(***************************************************************************)
\* The scopes that are open, the threads' scopes numbered from the outermost.
OpenScopes == {c \in Threads \X (1 .. MaxNest) : c[2] <= nest[c[1]]}

\* The depth counts them; a publication is past its look at the depth only
\* outside of every scope, or if it looked before the outermost was opened.
ScopeInv ==
    /\ depth = Cardinality(OpenScopes)
    /\ \A t \in Threads : at[t] \in {"clone", "capture"} => depth = 0 \/ t \in early

\* The publication that t has under way will still capture x, or has captured
\* it as it is.
Captured(t, x) ==
    \/ at[t] \in {"publish", "defer", "clone"} /\ x \in parts[t]
    \/ at[t] = "capture" /\ (x \in parts[t] \/ snapshot[t][x] = live[x])

\* Nothing is ahead of the live state.  What the published snapshot lacks is
\* owed by a deferral, captured by a publication that is under way, or was put
\* back by one.
CaptureInv ==
    \A x \in Parts :
        /\ scheduler_snapshot[x] <= live[x] /\ \A t \in Threads : snapshot[t][x] <= live[x]
        /\ \/ scheduler_snapshot[x] = live[x] \/ x \in overwritten \/ pending
           \/ \E t \in Threads : Captured(t, x)

PublicationInv == PublicationTypes /\ ScopeInv /\ DeferralIsOwed /\ CaptureInv

-----------------------------------------------------------------------------
LEMMA OpenScopesFinite ==
    ASSUME PublicationTypes
    PROVE  /\ IsFiniteSet(OpenScopes) /\ Cardinality(OpenScopes) \in Nat
           /\ \A t \in Threads : nest[t] > 0 => <<t, nest[t]>> \in OpenScopes
<1>1. IsFiniteSet(Threads \X (1 .. MaxNest))
  <2>1. IsFiniteSet(1 .. MaxNest)
    BY BoundsAssumption, FS_Interval
  <2>2. QED
    BY <2>1, ThreadsAssumption, FS_Product
<1>2. IsFiniteSet(OpenScopes)
  BY <1>1, FS_Subset DEF OpenScopes
<1>3. \A t \in Threads : nest[t] > 0 => <<t, nest[t]>> \in OpenScopes
  BY BoundsAssumption DEF PublicationTypes, OpenScopes
<1>4. QED
  BY <1>2, <1>3, FS_CardinalityType

\* The initial state satisfies the inductive invariant.
LEMMA InitPublication == PublicationInit => PublicationInv
<1> SUFFICES ASSUME PublicationInit PROVE PublicationInv
  OBVIOUS
<1>1. PublicationTypes
  <2>1. live \in Contents /\ scheduler_snapshot \in Contents
    BY BoundsAssumption DEF PublicationInit, Contents
  <2>2. snapshot \in [Threads -> Contents] /\ nest \in [Threads -> 0 .. MaxNest]
    BY <2>1, BoundsAssumption DEF PublicationInit
  <2>3. QED
    BY <2>1, <2>2 DEF PublicationInit, PublicationTypes
<1>2. ScopeInv
  <2>1. OpenScopes = {}
    BY DEF PublicationInit, OpenScopes
  <2>2. QED
    BY <2>1, FS_EmptySet DEF PublicationInit, ScopeInv
<1>3. DeferralIsOwed
  BY DEF PublicationInit, DeferralIsOwed
<1>4. CaptureInv
  BY DEF PublicationInit, CaptureInv
<1>5. QED
  BY <1>1, <1>2, <1>3, <1>4 DEF PublicationInv

\* Opening a scope adds one to those that are open, and closing it takes it away.
LEMMA EnterCounts ==
    ASSUME PublicationTypes, ScopeInv, NEW t \in Threads, EnterScope(t)
    PROVE  depth' \in Nat /\ depth' > 0 /\ depth' = Cardinality(OpenScopes')
<1>1. /\ nest[t] \in 0 .. MaxNest /\ nest[t] < MaxNest /\ depth' = depth + 1 /\ depth \in Nat
      /\ nest' = [nest EXCEPT ![t] = nest[t] + 1] /\ nest \in [Threads -> 0 .. MaxNest]
  BY DEF EnterScope, PublicationTypes
<1> DEFINE c == <<t, nest[t] + 1>>
<1>2. c \notin OpenScopes /\ OpenScopes' = OpenScopes \cup {c}
  <2>1. c \in Threads \X (1 .. MaxNest) /\ c \notin OpenScopes
    BY <1>1, BoundsAssumption DEF OpenScopes
  <2>2. \A d \in Threads \X (1 .. MaxNest) : d[2] <= nest'[d[1]] <=> d[2] <= nest[d[1]] \/ d = c
    BY <1>1, BoundsAssumption
  <2>3. QED
    BY <2>1, <2>2 DEF OpenScopes
<1>3. Cardinality(OpenScopes') = Cardinality(OpenScopes) + 1
  <2> HIDE DEF c
  <2>1. QED
    BY <1>2, OpenScopesFinite, FS_AddElement
<1>4. QED
  BY <1>1, <1>3 DEF ScopeInv

LEMMA ExitCounts ==
    ASSUME PublicationTypes, ScopeInv, NEW t \in Threads, ExitScope(t)
    PROVE  depth > 0 /\ depth' \in Nat /\ depth' = Cardinality(OpenScopes')
<1>1. /\ nest[t] \in 1 .. MaxNest /\ depth' = depth - 1 /\ depth \in Nat
      /\ nest' = [nest EXCEPT ![t] = nest[t] - 1] /\ nest \in [Threads -> 0 .. MaxNest]
  BY BoundsAssumption DEF ExitScope, PublicationTypes
<1> DEFINE c == <<t, nest[t]>>
<1>2. c \in OpenScopes /\ OpenScopes' = OpenScopes \ {c}
  <2>1. c \in OpenScopes
    BY <1>1 DEF OpenScopes
  <2>2. \A d \in Threads \X (1 .. MaxNest) : d[2] <= nest'[d[1]] <=> d[2] <= nest[d[1]] /\ d # c
    BY <1>1, BoundsAssumption
  <2>3. QED
    BY <2>1, <2>2 DEF OpenScopes
<1>3. Cardinality(OpenScopes') = Cardinality(OpenScopes) - 1 /\ Cardinality(OpenScopes) > 0
  <2> HIDE DEF c
  <2>1. Cardinality(OpenScopes \ {c}) = Cardinality(OpenScopes) - 1
    BY <1>2, OpenScopesFinite, FS_RemoveElement
  <2>2. Cardinality(OpenScopes) # 0
    BY <1>2, OpenScopesFinite, FS_EmptySet
  <2>3. QED
    BY <1>2, <2>1, <2>2, OpenScopesFinite
<1>4. QED
  BY <1>1, <1>3 DEF ScopeInv

\* Types are kept.
LEMMA StepTypes ==
    ASSUME PublicationTypes, ScopeInv, NEW t \in Threads, Step(t) PROVE PublicationTypes'
<1>1. CASE \E x \in Parts : Edit(t, x)
  BY <1>1, BoundsAssumption DEF Edit, Captures, Contents, Parts, PublicationTypes, ghosts
<1>2. CASE \E x \in Parts : Capture(t, x)
  BY <1>2 DEF Capture, Contents, PublicationTypes, ghosts
<1>3. CASE EnterScope(t)
  <2>1. depth' \in Nat
    BY <1>3, EnterCounts
  <2>2. nest' \in [Threads -> 0 .. MaxNest]
    BY <1>3, BoundsAssumption DEF EnterScope, PublicationTypes
  <2>3. /\ early' \subseteq Threads /\ late' = FALSE
        /\ UNCHANGED <<live, scheduler_snapshot, pending, at, parts, snapshot, overwritten>>
    BY <1>3 DEF EnterScope, PublicationTypes
  <2>4. QED
    BY <2>1, <2>2, <2>3 DEF PublicationTypes, Contents
<1>4. CASE ExitScope(t)
  <2>1. depth' \in Nat
    BY <1>4, ExitCounts
  <2>2. nest' \in [Threads -> 0 .. MaxNest]
    BY <1>4, BoundsAssumption DEF ExitScope, PublicationTypes
  <2>3. /\ at' \in [Threads -> {"idle", "settle", "publish", "defer", "clone", "capture"}]
        /\ UNCHANGED <<live, scheduler_snapshot, pending, parts, snapshot, ghosts>>
    BY <1>4 DEF ExitScope, PublicationTypes
  <2>4. QED
    BY <2>1, <2>2, <2>3 DEF PublicationTypes, Contents, ghosts
<1>5. CASE SettleScope(t)
  BY <1>5 DEF SettleScope, PublicationTypes
<1>6. CASE CheckDepth(t) \/ Clone(t)
  BY <1>6 DEF CheckDepth, Clone, PublicationTypes, ghosts
<1>7. CASE Defer(t)
  BY <1>7 DEF Defer, PublicationTypes
<1>8. CASE Publish(t)
  BY <1>8 DEF Publish, PublicationTypes
<1>9. QED
  BY <1>1, <1>2, <1>3, <1>4, <1>5, <1>6, <1>7, <1>8 DEF Step

\* The scopes are counted, and a deferral stays owed.
LEMMA StepScopes ==
    ASSUME PublicationTypes, ScopeInv, DeferralIsOwed, NEW t \in Threads, Step(t)
    PROVE  ScopeInv' /\ DeferralIsOwed'
<1> USE DEF PublicationTypes, ScopeInv, DeferralIsOwed
<1>1. CASE EnterScope(t)
  BY <1>1, EnterCounts DEF EnterScope
<1>2. CASE ExitScope(t)
  <2>1. depth > 0 /\ depth \in Nat /\ depth' = depth - 1 /\ depth' = Cardinality(OpenScopes')
    BY <1>2, ExitCounts DEF ExitScope
  <2>2. /\ at' = [at EXCEPT ![t] = IF depth = 1 THEN "settle" ELSE "idle"]
        /\ pending' = pending /\ early' = early
    BY <1>2 DEF ExitScope, ghosts
  <2>3. depth' = 0 => at'[t] = "settle"
    BY <2>1, <2>2
  <2>4. QED
    BY <2>1, <2>2, <2>3
<1>3. ASSUME UNCHANGED nest PROVE OpenScopes' = OpenScopes
  BY <1>3 DEF OpenScopes
<1>4. CASE \E x \in Parts : Edit(t, x) \/ Capture(t, x)
  BY <1>3, <1>4 DEF Edit, Capture, ghosts
<1>5. CASE SettleScope(t)
  BY <1>3, <1>5 DEF SettleScope
<1>6. CASE CheckDepth(t) \/ Clone(t)
  BY <1>3, <1>6 DEF CheckDepth, Clone, ghosts
<1>7. CASE Defer(t)
  <2>1. /\ at[t] = "defer" /\ at' = [at EXCEPT ![t] = "idle"]
        /\ UNCHANGED <<depth, nest, early>>
        /\ late' <=> depth = 0 /\ \A u \in Threads : at[u] # "settle"
    BY <1>7 DEF Defer
  <2>2. ScopeInv'
    BY <1>3, <2>1
  <2>3. \A u \in Threads : at[u] = "settle" => at'[u] = "settle"
    BY <2>1
  <2>4. DeferralIsOwed'
    BY <2>1, <2>3
  <2>5. QED
    BY <2>2, <2>4
<1>8. CASE Publish(t)
  BY <1>3, <1>8 DEF Publish
<1>9. QED
  BY <1>1, <1>2, <1>4, <1>5, <1>6, <1>7, <1>8 DEF Step

\* What the published snapshot lacks stays owed, captured or put back.
LEMMA StepCaptures ==
    ASSUME PublicationTypes, CaptureInv, NEW t \in Threads, Step(t) PROVE CaptureInv'
<1> SUFFICES ASSUME NEW x \in Parts
             PROVE  /\ scheduler_snapshot'[x] <= live'[x]
                    /\ \A u \in Threads : snapshot'[u][x] <= live'[x]
                    /\ \/ scheduler_snapshot'[x] = live'[x] \/ x \in overwritten' \/ pending'
                       \/ \E u \in Threads : Captured(u, x)'
  BY DEF CaptureInv
<1> USE DEF PublicationTypes, Contents
<1>1. /\ scheduler_snapshot[x] <= live[x] /\ \A u \in Threads : snapshot[u][x] <= live[x]
      /\ \/ scheduler_snapshot[x] = live[x] \/ x \in overwritten \/ pending
         \/ \E u \in Threads : Captured(u, x)
  BY DEF CaptureInv
<1>2. CASE \E y \in Parts : Edit(t, y)
  BY <1>1, <1>2 DEF Edit, Captures, Captured, ghosts
<1>3. CASE \E y \in Parts : Capture(t, y)
  BY <1>1, <1>3 DEF Capture, Captured, ghosts
<1>4. CASE EnterScope(t) \/ ExitScope(t)
  BY <1>1, <1>4 DEF EnterScope, ExitScope, Captured, ghosts
<1>5. CASE SettleScope(t)
  BY <1>1, <1>5 DEF SettleScope, Captured
<1>6. CASE CheckDepth(t) \/ Clone(t)
  BY <1>1, <1>6 DEF CheckDepth, Clone, Captured, ghosts
<1>7. CASE Defer(t)
  BY <1>1, <1>7 DEF Defer, Captured
<1>8. CASE Publish(t)
  <2>1. /\ scheduler_snapshot' = snapshot[t] /\ at[t] = "capture" /\ parts[t] = {}
        /\ x \in overwritten /\ snapshot[t][x] # live[x] => x \in overwritten'
        /\ snapshot[t][x] < scheduler_snapshot[x] => x \in overwritten'
        /\ at' = [at EXCEPT ![t] = "idle"] /\ UNCHANGED <<live, pending, parts, snapshot>>
    BY <1>8 DEF Publish
  <2>2. \A u \in Threads \ {t} : Captured(u, x) => Captured(u, x)'
    BY <2>1 DEF Captured
  <2>3. snapshot[t][x] # live[x] => ~Captured(t, x)
    BY <2>1 DEF Captured
  <2>4. /\ snapshot[t][x] \in Nat /\ live[x] \in Nat /\ scheduler_snapshot[x] \in Nat
        /\ snapshot[t][x] <= live[x] /\ scheduler_snapshot'[x] = snapshot[t][x]
    BY <1>1, <2>1
  <2>5. CASE snapshot[t][x] = live[x]
    BY <1>1, <2>1, <2>4, <2>5
  <2>6. CASE snapshot[t][x] # live[x]
    <3>1. CASE scheduler_snapshot[x] = live[x]
      <4>1. snapshot[t][x] < scheduler_snapshot[x]
        <5>1. \A a, b \in Nat : a <= b /\ a # b => a < b
          OBVIOUS
        <5>2. QED
          BY <2>4, <2>6, <3>1, <5>1, Zenon
      <4>2. x \in overwritten'
        BY <2>1, <4>1, Zenon
      <4>3. QED
        BY <1>1, <2>1, <2>4, <4>2
    <3>2. CASE x \in overwritten \/ pending
      BY <1>1, <2>1, <2>4, <2>6, <3>2
    <3>3. ASSUME NEW u \in Threads, Captured(u, x)
          PROVE  \E v \in Threads : Captured(v, x)'
      BY <2>2, <2>3, <2>6, <3>3
    <3>4. QED
      BY <1>1, <2>1, <2>4, <3>1, <3>2, <3>3
  <2>7. QED
    BY <2>5, <2>6
<1>9. QED
  BY <1>2, <1>3, <1>4, <1>5, <1>6, <1>7, <1>8 DEF Step

LEMMA PublicationInvariant == PublicationSpec => []PublicationInv
<1>1. PublicationInv /\ [PublicationNext]_publicationVars => PublicationInv'
  <2> SUFFICES ASSUME PublicationInv, [PublicationNext]_publicationVars PROVE PublicationInv'
    OBVIOUS
  <2>1. ASSUME NEW t \in Threads, Step(t) PROVE PublicationInv'
    BY <2>1, StepTypes, StepScopes, StepCaptures DEF PublicationInv
  <2>2. CASE UNCHANGED publicationVars
    BY <2>2 DEF publicationVars, ghosts, PublicationInv, PublicationTypes, ScopeInv, OpenScopes,
                DeferralIsOwed, CaptureInv, Captured, Contents
  <2>3. QED
    BY <2>1, <2>2 DEF PublicationNext
<1>2. QED
  BY <1>1, InitPublication, PTL DEF PublicationSpec

\* No edit is forgotten, however many threads edit and publish: full or partial,
\* at once or deferred to the exit of the outermost scope, a publication that
\* follows the edit reaches the snapshot, unless another thread puts the part
\* back or the deferral comes too late for the scope that should pay for it.
THEOREM NoEditForgotten == PublicationSpec => []PublishedIsCurrent
<1>1. PublicationInv => PublishedIsCurrent
  <2> SUFFICES ASSUME PublicationInv, Idle, depth = 0, ~late, NEW x \in Parts \ overwritten
               PROVE  scheduler_snapshot[x] = live[x]
    BY DEF PublishedIsCurrent
  <2>1. ~pending
    BY DEF PublicationInv, Idle, DeferralIsOwed
  <2>2. \A t \in Threads : ~Captured(t, x)
    BY DEF Idle, Captured
  <2>3. QED
    BY <2>1, <2>2 DEF PublicationInv, CaptureInv
<1>2. QED
  BY <1>1, PublicationInvariant, PTL

\* With any number of threads, a deferred publication is owed by an open scope
\* or by its exit, unless it was recorded after that exit had looked for it.
THEOREM DeferralPaid == PublicationSpec => []DeferralIsOwed
<1>1. PublicationInv => DeferralIsOwed
  BY DEF PublicationInv
<1>2. QED
  BY <1>1, PublicationInvariant, PTL

\* With any number of threads, what is published while a scope is open was past
\* its look at the depth when the outermost scope was opened.
THEOREM NothingPublishedInScope == PublicationSpec => ScopesAreSilent
<1>1. PublicationInv /\ [PublicationNext]_publicationVars =>
          [scheduler_snapshot' # scheduler_snapshot =>
             depth = 0 \/ \E t \in early : Publish(t)]_publicationVars
  <2> SUFFICES ASSUME PublicationInv, PublicationNext, scheduler_snapshot' # scheduler_snapshot
               PROVE  depth = 0 \/ \E t \in early : Publish(t)
    OBVIOUS
  <2>1. PICK t \in Threads : Step(t)
    BY DEF PublicationNext
  <2>2. Publish(t)
    BY <2>1 DEF Step, Edit, Capture, EnterScope, ExitScope, SettleScope, CheckDepth,
                Defer, Clone
  <2>3. QED
    BY <2>2 DEF Publish, PublicationInv, ScopeInv
<1>2. QED
  BY <1>1, PublicationInvariant, PTL DEF PublicationSpec, ScopesAreSilent

-----------------------------------------------------------------------------
(***************************************************************************)
(* Two facts about the ring as a sequence without repetitions.             *)
(***************************************************************************)
\* What Append puts into the ring, and when it keeps the ring free of
\* repetitions.
LEMMA AppendRange ==
    ASSUME NEW S, NEW s \in Seq(S), NEW e \in S
    PROVE  /\ Range(Append(s, e)) = Range(s) \cup {e}
           /\ IsInjective(s) /\ e \notin Range(s) => IsInjective(Append(s, e))
BY AppendProperties, LenProperties DEF Range, IsInjective

\* What a pop takes out of a ring without repetitions.
LEMMA TailRange ==
    ASSUME NEW S, NEW s \in Seq(S), s # <<>>, IsInjective(s)
    PROVE  /\ Head(s) \in Range(s)
           /\ Range(Tail(s)) = Range(s) \ {Head(s)}
           /\ IsInjective(Tail(s))
<1>1. /\ Len(s) \in Nat \ {0}
      /\ DOMAIN s = 1 .. Len(s)
      /\ Head(s) = s[1]
      /\ Tail(s) \in Seq(S)
      /\ Len(Tail(s)) = Len(s) - 1
      /\ \A i \in 1 .. Len(Tail(s)) : Tail(s)[i] = s[i+1]
      /\ DOMAIN Tail(s) = 1 .. Len(Tail(s))
  BY EmptySeq, LenProperties, HeadTailProperties
<1>2. Head(s) \in Range(s)
  BY <1>1 DEF Range
<1>3. Range(Tail(s)) = Range(s) \ {Head(s)}
  <2>1. ASSUME NEW x \in Range(Tail(s)) PROVE x \in Range(s) \ {Head(s)}
    <3>1. PICK i \in 1 .. Len(Tail(s)) : x = Tail(s)[i]
      BY <1>1 DEF Range
    <3>2. x = s[i+1] /\ i+1 \in 1 .. Len(s) /\ i+1 # 1 /\ 1 \in 1 .. Len(s)
      BY <1>1, <3>1
    <3>3. QED
      BY <1>1, <3>2 DEF Range, IsInjective
  <2>2. ASSUME NEW x \in Range(s) \ {Head(s)} PROVE x \in Range(Tail(s))
    <3>1. PICK i \in 1 .. Len(s) : x = s[i]
      BY <1>1 DEF Range
    <3>2. i # 1
      BY <1>1, <3>1
    <3>3. i - 1 \in 1 .. Len(Tail(s)) /\ Tail(s)[i-1] = x
      BY <1>1, <3>1, <3>2
    <3>4. QED
      BY <1>1, <3>3 DEF Range
  <2>3. QED
    BY <2>1, <2>2
<1>4. IsInjective(Tail(s))
  BY <1>1 DEF IsInjective
<1>5. QED
  BY <1>2, <1>3, <1>4

\* A ring without repetitions is no longer than any finite set it draws from.
LEMMA InjectiveLength ==
    ASSUME NEW S, NEW s \in Seq(S), IsInjective(s),
           NEW T, IsFiniteSet(T), Range(s) \subseteq T
    PROVE  Len(s) <= Cardinality(T)
<1>1. Len(s) \in Nat /\ DOMAIN s = 1 .. Len(s) /\ s \in [1 .. Len(s) -> S]
  BY LenProperties
<1>2. s \in Injection(1 .. Len(s), T)
  BY <1>1 DEF Injection, IsInjective, Range
<1>3. Cardinality(1 .. Len(s)) <= Cardinality(T)
  BY <1>2, FS_Injection
<1>4. Cardinality(1 .. Len(s)) = Len(s)
  BY <1>1, FS_Interval
<1>5. QED
  BY <1>3, <1>4

-----------------------------------------------------------------------------
(***************************************************************************)
(* The inductive invariant.  The properties of the model are not inductive *)
(* by themselves: they need to know where a producer stands when it holds  *)
(* an event, and that an event has one mutable owner at a time.            *)
(***************************************************************************)
\* The mutex is held exactly by the producer between the scan and the publish,
\* and a producer has an event in hand while it pushes.
RetainedLockInv ==
    \A p \in Producers :
        /\ step[p] \in {"scan", "publish"} <=> retained_lock = p
        /\ step[p] \in {"scan", "publish"} => event[p] # None
        /\ step[p] = "idle" => event[p] = None

\* An event in a producer's hand is nowhere in the ring or the callback, and in
\* no other hand; it is retained from PushRetain on, and while it is cleared.
HandInv ==
    \A p \in Producers : event[p] # None =>
        /\ event[p] \notin Range(ready)
        /\ event[p] \notin leased
        /\ \A q \in Producers : event[q] = event[p] => q = p
        /\ step[p] = "scan" => event[p] \notin retained
        /\ step[p] \in {"publish", "clear"} => event[p] \in retained

RetainedInv ==
    /\ Range(ready) \subseteq retained
    /\ leased \subseteq retained
    /\ Cardinality(retained) <= Slots

\* An event sits in the ring at most once, and a leased event is not in the
\* ring: its address was free when it was pushed.
NoAliasing ==
    /\ IsInjective(ready)
    /\ ReadySet \cap leased = {}

QueueInv == QueueTypes /\ RetainedLockInv /\ HandInv /\ RetainedInv /\ NoAliasing

\* The retained vector is a finite set.
LEMMA RetainedFinite ==
    ASSUME QueueTypes
    PROVE  IsFiniteSet(retained) /\ Cardinality(retained) \in Nat
BY EventsAssumption, FS_Subset, FS_CardinalityType DEF QueueTypes

\* The initial state satisfies the inductive invariant.
LEMMA InitQueue == QueueInit => QueueInv
<1> SUFFICES ASSUME QueueInit PROVE QueueInv
  OBVIOUS
<1>1. Range(ready) = {} /\ IsInjective(ready)
  BY DEF QueueInit, Range, IsInjective
<1>2. Cardinality(retained) = 0
  BY FS_EmptySet DEF QueueInit
<1>3. QueueTypes
  BY RejectedAssumption DEF QueueInit, QueueTypes
<1>4. RetainedLockInv /\ HandInv
  BY ProducersAssumption DEF QueueInit, RetainedLockInv, HandInv
<1>5. RetainedInv /\ NoAliasing
  BY <1>1, <1>2, CapacityAssumption
     DEF QueueInit, RetainedInv, NoAliasing, ReadySet, Slots
<1>6. QED
  BY <1>3, <1>4, <1>5 DEF QueueInv

\* Every step keeps the inductive invariant: one step of the proof per action.
LEMMA NextQueue == QueueInv /\ [QueueNext]_queueVars => QueueInv'
<1> SUFFICES ASSUME QueueInv, [QueueNext]_queueVars PROVE QueueInv'
  OBVIOUS
<1>0. /\ QueueTypes /\ RetainedLockInv /\ HandInv /\ RetainedInv /\ NoAliasing
      /\ IsFiniteSet(retained) /\ Cardinality(retained) \in Nat
  BY RetainedFinite DEF QueueInv
<1>1. ASSUME NEW p \in Producers, PushLock(p) PROVE QueueInv'
  <2>1. PICK e \in Events : ~Allocated(e) /\ event' = [event EXCEPT ![p] = e]
    BY <1>1 DEF PushLock
  <2>2. e # None /\ e \notin retained /\ e \notin Range(ready) /\ e \notin leased
        /\ \A q \in Producers : event[q] # e
    BY <2>1, EventsAssumption DEF Allocated, Shared, ReadySet, Holders
  <2>3. QueueTypes'
    BY <1>0, <1>1, <2>1 DEF PushLock, QueueTypes
  <2>4. RetainedLockInv'
    BY <1>0, <1>1, <2>1, <2>2, ProducersAssumption DEF PushLock, QueueTypes, RetainedLockInv
  <2>5. HandInv'
    BY <1>0, <1>1, <2>1, <2>2 DEF PushLock, QueueTypes, RetainedLockInv, HandInv
  <2>6. RetainedInv' /\ NoAliasing'
    BY <1>0, <1>1 DEF PushLock, RetainedInv, NoAliasing, ReadySet
  <2>7. QED
    BY <2>3, <2>4, <2>5, <2>6 DEF QueueInv
<1>2. ASSUME NEW p \in Producers, PushScan(p) PROVE QueueInv'
  <2>1. PICK e \in unscanned[p] :
          /\ unscanned' = [unscanned EXCEPT ![p] = @ \ {e}]
          /\ retained' = IF KeepEntry(e) THEN retained ELSE retained \ {e}
    BY <1>2 DEF PushScan
  <2>2. QueueTypes'
    BY <1>0, <1>2, <2>1 DEF PushScan, QueueTypes
  <2>3. RetainedLockInv'
    BY <1>0, <1>2 DEF PushScan, RetainedLockInv
  <2>4. /\ retained' \subseteq retained
        /\ \A x \in retained : Shared(x) => x \in retained'
    BY <2>1 DEF KeepEntry
  <2>5. HandInv'
    BY <1>0, <1>2, <2>4 DEF PushScan, HandInv, Shared, Holders
  <2>6. Cardinality(retained') <= Cardinality(retained)
    BY <1>0, <2>4, FS_Subset
  <2>7. Cardinality(retained') \in Nat
    BY <1>0, <2>4, FS_Subset, FS_CardinalityType
  <2>8. RetainedInv' /\ NoAliasing'
    BY <1>0, <1>2, <2>4, <2>6, <2>7, CapacityAssumption
       DEF PushScan, RetainedInv, NoAliasing, ReadySet, Shared, Slots
  <2>9. QED
    BY <2>2, <2>3, <2>5, <2>8 DEF QueueInv
<1>3. ASSUME NEW p \in Producers, PushReject(p) PROVE QueueInv'
  <2>1. QueueTypes'
    BY <1>0, <1>3, RejectedAssumption DEF PushReject, QueueTypes
  <2>2. RetainedLockInv' /\ HandInv'
    BY <1>0, <1>3, ProducersAssumption DEF PushReject, QueueTypes, RetainedLockInv, HandInv
  <2>3. RetainedInv' /\ NoAliasing'
    BY <1>0, <1>3 DEF PushReject, RetainedInv, NoAliasing, ReadySet
  <2>4. QED
    BY <2>1, <2>2, <2>3 DEF QueueInv
<1>4. ASSUME NEW p \in Producers, PushRetain(p) PROVE QueueInv'
  <2>1. retained_lock = p /\ event[p] # None /\ event[p] \in Events
    BY <1>0, <1>4 DEF PushRetain, RetainedLockInv, QueueTypes
  <2>2. QueueTypes'
    BY <1>0, <1>4, <2>1 DEF PushRetain, QueueTypes
  <2>3. RetainedLockInv' /\ HandInv'
    BY <1>0, <1>4, <2>1 DEF PushRetain, QueueTypes, RetainedLockInv, HandInv
  <2>4. Cardinality(retained') <= Slots
    <3>1. Cardinality(retained') <= Cardinality(retained) + 1
      BY <1>0, <1>4, FS_AddElement DEF PushRetain
    <3>2. Cardinality(retained) < Slots
      BY <1>0, <1>4, CapacityAssumption
         DEF PushRetain, RetainedFull, RetainedInv, Slots
    <3>3. Cardinality(retained') \in Nat
      BY <1>0, <1>4, FS_AddElement, FS_CardinalityType DEF PushRetain
    <3>4. QED
      BY <1>0, <3>1, <3>2, <3>3, CapacityAssumption DEF Slots
  <2>5. RetainedInv' /\ NoAliasing'
    BY <1>0, <1>4, <2>4 DEF PushRetain, RetainedInv, NoAliasing, ReadySet, Slots
  <2>6. QED
    BY <2>2, <2>3, <2>5 DEF QueueInv
<1>5. ASSUME NEW p \in Producers, PushPublish(p) PROVE QueueInv'
  <2>1. /\ retained_lock = p /\ event[p] \in Events /\ event[p] \in retained
        /\ event[p] \notin Range(ready) /\ event[p] \notin leased
    BY <1>0, <1>5 DEF PushPublish, RetainedLockInv, HandInv, QueueTypes
  <2>2. Range(ready') = Range(ready) \cup {event[p]} /\ IsInjective(ready')
    BY <1>0, <1>5, <2>1, AppendRange DEF PushPublish, QueueTypes, NoAliasing
  <2>3. QueueTypes'
    BY <1>0, <1>5, <2>1, AppendProperties DEF PushPublish, QueueTypes
  <2>4. RetainedLockInv'
    BY <1>0, <1>5, <2>1, ProducersAssumption DEF PushPublish, QueueTypes, RetainedLockInv
  <2>5. HandInv'
    BY <1>0, <1>5, <2>1, <2>2 DEF PushPublish, QueueTypes, HandInv
  <2>6. RetainedInv' /\ NoAliasing'
    BY <1>0, <1>5, <2>1, <2>2 DEF PushPublish, RetainedInv, NoAliasing, ReadySet
  <2>7. QED
    BY <2>3, <2>4, <2>5, <2>6 DEF QueueInv
<1>6. ASSUME NEW p \in Producers, ClearPop(p) PROVE QueueInv'
  <2>1. /\ Head(ready) \in Range(ready)
        /\ Range(ready') = Range(ready) \ {Head(ready)}
        /\ IsInjective(ready')
    BY <1>0, <1>6, TailRange DEF ClearPop, QueueTypes, NoAliasing
  <2>2. Head(ready) \in Events /\ ready' \in Seq(Events) /\ Head(ready) # None
    BY <1>0, <1>6, HeadTailProperties, EventsAssumption DEF ClearPop, QueueTypes
  <2>3. QueueTypes'
    BY <1>0, <1>6, <2>2 DEF ClearPop, QueueTypes
  <2>4. RetainedLockInv'
    BY <1>0, <1>6 DEF ClearPop, QueueTypes, RetainedLockInv
  <2>5. HandInv'
    BY <1>0, <1>6, <2>1, <2>2
       DEF ClearPop, QueueTypes, HandInv, RetainedLockInv, RetainedInv, NoAliasing, ReadySet
  <2>6. RetainedInv' /\ NoAliasing'
    BY <1>0, <1>6, <2>1 DEF ClearPop, RetainedInv, NoAliasing, ReadySet
  <2>7. QED
    BY <2>3, <2>4, <2>5, <2>6 DEF QueueInv
<1>7. ASSUME NEW p \in Producers, ClearDrop(p) PROVE QueueInv'
  BY <1>0, <1>7
     DEF ClearDrop, QueueInv, QueueTypes, RetainedLockInv, HandInv, RetainedInv, NoAliasing, ReadySet
<1>8. ASSUME NEW p \in Producers, ClearDone(p) PROVE QueueInv'
  BY <1>0, <1>8
     DEF ClearDone, QueueInv, QueueTypes, RetainedLockInv, HandInv, RetainedInv, NoAliasing, ReadySet
<1>9. CASE CallbackPop
  <2>1. /\ Head(ready) \in Range(ready)
        /\ Range(ready') = Range(ready) \ {Head(ready)}
        /\ IsInjective(ready')
    BY <1>0, <1>9, TailRange DEF CallbackPop, QueueTypes, NoAliasing
  <2>2. Head(ready) \in Events /\ ready' \in Seq(Events)
    BY <1>0, <1>9, HeadTailProperties DEF CallbackPop, QueueTypes
  <2>3. QueueTypes' /\ RetainedLockInv'
    BY <1>0, <1>9, <2>2 DEF CallbackPop, QueueTypes, RetainedLockInv
  <2>4. HandInv'
    BY <1>0, <1>9, <2>1 DEF CallbackPop, HandInv
  <2>5. RetainedInv' /\ NoAliasing'
    BY <1>0, <1>9, <2>1 DEF CallbackPop, RetainedInv, NoAliasing, ReadySet
  <2>6. QED
    BY <2>3, <2>4, <2>5 DEF QueueInv
<1>10. ASSUME NEW e \in Events, CallbackDrop(e) PROVE QueueInv'
  BY <1>0, <1>10
     DEF CallbackDrop, QueueInv, QueueTypes, RetainedLockInv, HandInv, RetainedInv, NoAliasing, ReadySet
<1>11. CASE UNCHANGED queueVars
  BY <1>0, <1>11
     DEF queueVars, QueueInv, QueueTypes, RetainedLockInv, HandInv, RetainedInv, NoAliasing, ReadySet
<1>12. QED
  BY <1>1, <1>2, <1>3, <1>4, <1>5, <1>6, <1>7, <1>8, <1>9, <1>10, <1>11
     DEF QueueNext, ProducerStep

-----------------------------------------------------------------------------
(***************************************************************************)
(* The promises of the queue.                                              *)
(***************************************************************************)

\* The inductive invariant holds in every reachable state.
THEOREM QueueInvariant == QueueSpec => []QueueInv
BY InitQueue, NextQueue, PTL DEF QueueSpec

\* The queue only ever holds what the types say.
THEOREM QueueTypeCorrect == QueueSpec => []QueueTypes
BY QueueInvariant, PTL DEF QueueInv

\* Every queued or leased event is retained, within the admission bound.
THEOREM Retained == QueueSpec => []OutstandingIsRetained
<1>1. QueueInv => OutstandingIsRetained
  BY DEF QueueInv, RetainedInv, HandInv, OutstandingIsRetained, ReadySet
<1>2. QED
  BY <1>1, QueueInvariant, PTL

\* The expect() in push never fires.
THEOREM PushNeverPanics == QueueSpec => []AdmittedEventHasRoom
<1>1. QueueInv => AdmittedEventHasRoom
  <2> SUFFICES ASSUME QueueInv, NEW p \in Producers, step[p] = "publish"
               PROVE  Len(ready) < Slots
    BY DEF AdmittedEventHasRoom
  <2>1. QueueTypes /\ RetainedLockInv /\ HandInv /\ RetainedInv /\ NoAliasing
    BY DEF QueueInv
  <2>2. IsFiniteSet(retained) /\ Cardinality(retained) \in Nat
    BY <2>1, RetainedFinite
  <2>3. event[p] \in retained /\ event[p] \notin Range(ready)
    BY <2>1 DEF RetainedLockInv, HandInv
  <2>4. /\ IsFiniteSet(retained \ {event[p]})
        /\ Cardinality(retained \ {event[p]}) = Cardinality(retained) - 1
    BY <2>2, <2>3, FS_RemoveElement
  <2>5. Range(ready) \subseteq retained \ {event[p]}
    BY <2>1, <2>3 DEF RetainedInv
  <2>6. Len(ready) <= Cardinality(retained \ {event[p]})
    BY <2>1, <2>4, <2>5, InjectiveLength DEF QueueTypes, NoAliasing
  <2>7. Len(ready) \in Nat
    BY <2>1, LenProperties DEF QueueTypes
  <2>8. QED
    BY <2>1, <2>2, <2>4, <2>6, <2>7, CapacityAssumption DEF RetainedInv, Slots
<1>2. QED
  BY <1>1, QueueInvariant, PTL

\* No step of the callback, and no clear(), is the one that frees an event.
THEOREM CallbackNeverFrees == QueueSpec => FreedOnlyByProducer
<1> DEFINE Good(e) == Allocated(e) /\ ~Allocated(e)'
                         => \E p \in Producers : retained_lock = p /\ step[p] = "scan"
<1>1. ASSUME QueueInv, [QueueNext]_queueVars PROVE \A e \in Events : Good(e)
  <2> SUFFICES ASSUME NEW e \in Events, Allocated(e), ~Allocated(e)'
               PROVE  \E p \in Producers : retained_lock = p /\ step[p] = "scan"
    OBVIOUS
  <2>0. QueueTypes /\ RetainedLockInv /\ HandInv /\ RetainedInv /\ NoAliasing
    BY <1>1 DEF QueueInv
  <2>1. ~(e \in retained') /\ ~(e \in Range(ready')) /\ ~(e \in leased')
        /\ \A q \in Producers : event'[q] # e
    BY DEF Allocated, Shared, ReadySet, Holders
  <2>2. \/ e \in retained \/ \E q \in Producers : event[q] = e
    BY <2>0 DEF Allocated, Shared, ReadySet, Holders, RetainedInv
  <2>3. ASSUME NEW p \in Producers, PushLock(p) PROVE FALSE
    BY <2>0, <2>1, <2>2, <2>3, ProducersAssumption, EventsAssumption
       DEF PushLock, QueueTypes, RetainedLockInv
  <2>4. ASSUME NEW p \in Producers, PushScan(p) \/ PushReject(p) PROVE retained_lock = p /\ step[p] = "scan"
    BY <2>0, <2>4 DEF PushScan, PushReject, RetainedLockInv
  <2>5. ASSUME NEW p \in Producers, PushRetain(p) PROVE FALSE
    BY <2>0, <2>1, <2>2, <2>5 DEF PushRetain
  <2>6. ASSUME NEW p \in Producers, PushPublish(p) PROVE FALSE
    <3>1. event[p] \in retained
      BY <2>0, <2>6, EventsAssumption DEF PushPublish, RetainedLockInv, HandInv
    <3>2. QED
      BY <2>0, <2>1, <2>2, <2>6, <3>1 DEF PushPublish, QueueTypes
  <2>7. ASSUME NEW p \in Producers, ClearPop(p) \/ ClearDrop(p) \/ ClearDone(p) PROVE FALSE
    <3>1. ASSUME event[p] = e PROVE e \in retained
      BY <2>0, <2>7, <3>1, EventsAssumption
         DEF ClearPop, ClearDrop, ClearDone, HandInv, RetainedLockInv
    <3>2. e \in retained
      <4>1. ASSUME NEW q \in Producers, event[q] = e, q # p PROVE FALSE
        BY <2>0, <2>1, <2>7, <4>1 DEF ClearPop, ClearDrop, ClearDone, QueueTypes
      <4>2. QED
        BY <2>2, <3>1, <4>1
    <3>3. QED
      BY <2>1, <2>7, <3>2 DEF ClearPop, ClearDrop, ClearDone
  <2>8. ASSUME CallbackPop \/ \E x \in Events : CallbackDrop(x) PROVE FALSE
    BY <2>1, <2>2, <2>8 DEF CallbackPop, CallbackDrop
  <2>9. CASE UNCHANGED queueVars
    BY <2>1, <2>2, <2>9 DEF queueVars
  <2>10. QED
    BY <1>1, <2>3, <2>4, <2>5, <2>6, <2>7, <2>8, <2>9 DEF QueueNext, ProducerStep
<1>2. QueueInv /\ [QueueNext]_queueVars => [\A e \in Events : Good(e)]_queueVars
  BY <1>1
<1>3. QED
  BY <1>2, QueueInvariant, PTL DEF QueueSpec, FreedOnlyByProducer
=============================================================================
