------------------------- MODULE TopologyEdit_proofs -------------------------
(***************************************************************************)
(* Proofs about TopologyEdit, for any tracks, layout, lookahead and swing  *)
(* and any number of commands and events.  The handoff is quiet whatever   *)
(* the commands; what is kept per index follows its track where the        *)
(* commands are the deletion of one track and the appending of one, which  *)
(* is where the code gets it right.                                        *)
(***************************************************************************)
EXTENDS TopologyEdit, SequenceTheorems, TLAPS

(* The handoff                                                             *)

\* The pass is a record of what one pass loads.
PassIsWhole ==
    pass = [snap |-> pass.snap, lead |-> pass.lead, elapsed |-> pass.elapsed,
            edit |-> pass.edit, request |-> pass.request, ready |-> pass.ready]

\* The ids only grow, and no answer is ahead of its request.
IdsInv ==
    /\ request \in Nat /\ ready \in Nat /\ applied \in Nat /\ pass.request \in Nat
    /\ ready <= request /\ pass.request <= request
    /\ applied <= request /\ (kind => applied < request)

\* A pass that is about to act on an answered request knows of the edit: it
\* loaded the ids when the request was already there.
HandoffInv ==
    /\ PassIsWhole /\ IdsInv
    /\ kind /\ ready >= request /\ sched = "act" => pass.edit

-----------------------------------------------------------------------------
(* What is kept per index                                                  *)

\* The commands whose reindexing the callback gets right.
OneTrackAtATime == Kinds \subseteq {"delete", "append"}

View  == [layout : Seq(Tracks), epoch : Nat, topo : Nat, playing : BOOLEAN]
Event == [due : Nat, index : Nat, track : Tracks, epoch : Nat]

LayoutTypes ==
    /\ live \in View /\ snap \in View /\ cb_snap \in View /\ pass.snap \in View
    /\ pass.lead \in Nat /\ pass.elapsed \in Nat /\ lead \in Nat
    /\ PassIsWhole
    /\ queue \subseteq Event /\ countdown \subseteq Event
    /\ runtime \in Seq(Tracks \cup {Fresh})
    /\ ui \in {"idle", "wait", "edit", "complete", "publish"}
    /\ kind \in BOOLEAN /\ waits \in BOOLEAN

\* The live project is ahead of the snapshot between a command and its
\* publication only, and never in its layout.
PublicationInv ==
    /\ ui # "publish" => live = snap
    /\ live.layout = snap.layout
    /\ snap.epoch <= live.epoch /\ snap.topo <= live.topo
    /\ kind => waits /\ ui \in {"wait", "edit", "complete"}

\* What the callback remembers is of its snapshot; an index it has noted is
\* that of a request under way or forgotten at the next refresh.
CallbackInv ==
    /\ last_num_tracks = Len(cb_snap.layout) /\ Len(runtime) = Len(cb_snap.layout)
    /\ last_topology_epoch = cb_snap.topo
    /\ cb_snap.topo <= snap.topo
    /\ pending_delete # None => kind \/ cb_snap.topo < live.topo

\* The callback has seen every edit of the layout.
Seen == cb_snap.layout = snap.layout /\ cb_snap.epoch <= snap.epoch

\* It has not seen the last track.
Appended ==
    /\ \E t \in Tracks : snap.layout = Append(cb_snap.layout, t)
    /\ cb_snap.epoch = snap.epoch
    /\ plan = <<>> /\ ~waits /\ ui \in {"edit", "idle"}

\* It has not seen the deletion of the track at d, and if it has noted an
\* index, or may still, it is d.
Removed ==
    /\ \E d \in DOMAIN cb_snap.layout :
          /\ snap.layout = RemoveAt(cb_snap.layout, d)
          /\ kind => edit_track = d
          /\ pending_delete \in {None, d}
    /\ cb_snap.epoch < snap.epoch
    /\ plan = <<>>

\* The callback is one edit of the layout behind at most.
LagInv == Seen \/ Appended \/ Removed

\* An edit that is still to be made finds the callback up to date, and the
\* request names the index that the edit deletes.
PlansDeletion ==
    \E i \in DOMAIN live.layout :
        /\ plan = <<RemoveTrack(i)>>
        /\ kind => edit_track = i
        /\ pending_delete \in {None, i}

PlansAppend == \E t \in Tracks : plan = <<AppendTrack(t)>> /\ ~waits

PlanInv ==
    plan # <<>> =>
        /\ ui \in {"wait", "edit"} /\ cb_snap = snap
        /\ PlansDeletion \/ PlansAppend

\* An event means in v what it meant when it was scheduled, if v has the
\* patterns it was scheduled from.
MeansTheSame(e, v) ==
    e.epoch = v.epoch => e.index \in DOMAIN v.layout /\ v.layout[e.index] = e.track

\* A layout with the same patterns is the same one, or some of its first tracks.
Begins(a, b) ==
    a.epoch = b.epoch =>
        \A i \in DOMAIN a.layout : i \in DOMAIN b.layout /\ b.layout[i] = a.layout[i]

\* A pass acts on a snapshot the current one grew out of.
PassInv ==
    sched \in {"edit", "act"} =>
        /\ pass.snap.epoch <= snap.epoch /\ Begins(pass.snap, snap)
        /\ Appended \/ Begins(pass.snap, cb_snap)

\* The same of the events: an epoch tells apart the layouts in which an index
\* means different tracks.
EventsInv ==
    \A e \in countdown \cup queue :
        /\ e.epoch <= snap.epoch /\ MeansTheSame(e, snap)
        /\ Appended \/ MeansTheSame(e, cb_snap)

\* What the callback holds on to when a block ends is of its own snapshot.
CountdownInv ==
    cb = "refresh" => \A e \in countdown : e.epoch = cb_snap.epoch

LayoutInv ==
    /\ LayoutTypes /\ PublicationInv /\ CallbackInv /\ LagInv /\ PlanInv /\ PassInv
    /\ EventsInv /\ CountdownInv /\ RuntimeFollowsTracks
-----------------------------------------------------------------------------
(* The handoff is quiet                                                    *)

LEMMA InitHandoff == Init => HandoffInv
BY DEF Init, HandoffInv, PassIsWhole, IdsInv, NoPass

\* Commands only issue requests and take them back.
LEMMA ControlHandoff == HandoffInv /\ Control => HandoffInv'
<1> SUFFICES ASSUME HandoffInv, Control PROVE HandoffInv'
  OBVIOUS
<1> USE DEF HandoffInv, PassIsWhole, IdsInv, edit_vars, sched_vars
<1>1. CASE \E c \in Waiting : Request(c)
  <2>1. PICK c : Request(c)
    BY <1>1
  <2>2. /\ UNCHANGED <<ready, applied, sched, pass>>
        /\ request' = request + 1 \/ UNCHANGED <<request, kind>>
    BY <2>1 DEF Request
  <2>3. CASE request' = request + 1
    <3>1. /\ request' \in Nat /\ ready < request' /\ pass.request <= request'
          /\ applied < request'
      BY <2>3
    <3>2. QED
      BY <2>2, <3>1
  <2>4. CASE UNCHANGED <<request, kind>>
    BY <2>2, <2>4
  <2>5. QED
    BY <2>2, <2>3, <2>4
<1>2. CASE Complete
  BY <1>2 DEF Complete
<1>3. CASE TogglePlay \/ BoundaryReady \/ TimeOut \/ EditStep \/ EditDone \/ Publish
           \/ \E t \in Absent : AddTrack(t)
  BY <1>3 DEF TogglePlay, BoundaryReady, TimeOut, EditStep, EditDone, Publish, AddTrack
<1>4. QED
  BY <1>1, <1>2, <1>3 DEF Control

\* A pass that starts after the answer finds the edit in flight.
LEMMA SchedulerHandoff == HandoffInv /\ Scheduler => HandoffInv'
<1> SUFFICES ASSUME HandoffInv, Scheduler PROVE HandoffInv'
  OBVIOUS
<1> USE DEF HandoffInv, PassIsWhole, IdsInv, edit_vars, NoPass
<1>1. CASE Load \/ LoadSnapshot
  BY <1>1 DEF Load, LoadSnapshot
<1>2. CASE LoadEdit
  <2>1. /\ UNCHANGED <<request, ready, applied, kind>>
        /\ pass'.edit = EditInFlight /\ pass'.request = request
    BY <1>2 DEF LoadEdit
  <2>2. PassIsWhole'
    BY <1>2 DEF LoadEdit
  <2>3. IdsInv'
    BY <2>1
  <2>4. kind => pass'.edit
    BY <2>1 DEF EditInFlight
  <2>5. QED
    BY <2>1, <2>2, <2>3, <2>4
<1>3. CASE PassStopped \/ PassSchedule
  BY <1>3 DEF PassStopped, PassSchedule
<1>4. CASE PassHold
  BY <1>4 DEF PassHold
<1>5. QED
  BY <1>1, <1>2, <1>3, <1>4 DEF Scheduler

LEMMA CallbackHandoff == HandoffInv /\ Callback => HandoffInv'
<1> SUFFICES ASSUME HandoffInv, Callback PROVE HandoffInv'
  OBVIOUS
<1> USE DEF HandoffInv, PassIsWhole, IdsInv, edit_vars, sched_vars
<1>1. CASE Refresh \/ NoteInFlight
  BY <1>1 DEF Refresh, NoteInFlight
<1>2. CASE Render
  BY <1>2 DEF Render
<1>3. QED
  BY <1>1, <1>2 DEF Callback

LEMMA HandoffInvariant == Spec => []HandoffInv
<1>1. HandoffInv /\ UNCHANGED vars => HandoffInv'
  BY DEF HandoffInv, PassIsWhole, IdsInv, vars, edit_vars, sched_vars
<1>2. HandoffInv /\ [Next]_vars => HandoffInv'
  BY <1>1, ControlHandoff, SchedulerHandoff, CallbackHandoff DEF Next
<1>3. QED
  BY <1>2, InitHandoff, PTL DEF Spec

\* Whatever the commands and however the threads interleave, nothing is
\* scheduled between the boundary and the completion: the boundary is reached
\* at the end of a pass, and every later one loads an edit that is in flight.
THEOREM NothingScheduledInHandoff == Spec => HandoffIsQuiet
<1> DEFINE Quiet == kind /\ ready >= request => queue' \subseteq queue
<1>1. ASSUME HandoffInv, Next PROVE Quiet
  <2>1. CASE Control
    BY <2>1 DEF Control, TogglePlay, Request, BoundaryReady, TimeOut, EditStep, EditDone,
                Complete, Publish, AddTrack
  <2>2. CASE PassSchedule
    BY <1>1, <2>2 DEF PassSchedule, HandoffInv
  <2>3. CASE Load \/ LoadSnapshot \/ LoadEdit \/ PassStopped \/ PassHold
    BY <2>3 DEF Load, LoadSnapshot, LoadEdit, PassStopped, PassHold
  <2>4. CASE Callback
    BY <2>4 DEF Callback, Refresh, KeepIndices, CloseGap, ResetAll, NoteInFlight, Render
  <2>5. QED
    BY <1>1, <2>1, <2>2, <2>3, <2>4 DEF Next, Scheduler
<1>2. HandoffInv /\ [Next]_vars => [Quiet]_vars
  BY <1>1
<1>3. QED
  BY <1>2, HandoffInvariant, PTL DEF Spec, HandoffIsQuiet
-----------------------------------------------------------------------------
(* The layout                                                              *)

\* Removing at an index: what is before it stays, what is after it moves down.
LEMMA RemoveAtProperties ==
    ASSUME NEW S, NEW s \in Seq(S), NEW d \in 1 .. Len(s)
    PROVE  /\ RemoveAt(s, d) \in Seq(S)
           /\ Len(RemoveAt(s, d)) = Len(s) - 1
           /\ \A j \in 1 .. Len(s) - 1 :
                 RemoveAt(s, d)[j] = IF j < d THEN s[j] ELSE s[j + 1]
<1> DEFINE before == SubSeq(s, 1, d - 1)
           after  == SubSeq(s, d + 1, Len(s))
<1>1. /\ Len(s) \in Nat /\ 1 \in Int /\ d - 1 \in Int /\ d + 1 \in Int /\ Len(s) \in Int
      /\ \A i \in 1 .. d - 1 : s[i] \in S
      /\ \A i \in d + 1 .. Len(s) : s[i] \in S
  OBVIOUS
<1>2. /\ before \in Seq(S) /\ Len(before) = d - 1
      /\ \A i \in 1 .. d - 1 : before[i] = s[i]
  <2>1. /\ before \in Seq(S)
        /\ Len(before) = IF 1 <= d - 1 THEN (d - 1) - 1 + 1 ELSE 0
        /\ \A i \in 1 .. (d - 1) - 1 + 1 : before[i] = s[1 + i - 1]
    BY <1>1, SubSeqProperties
  <2>2. QED
    BY <2>1
<1>3. /\ after \in Seq(S) /\ Len(after) = Len(s) - d
      /\ \A i \in 1 .. Len(s) - d : after[i] = s[d + i]
  <2>1. /\ after \in Seq(S)
        /\ Len(after) = IF d + 1 <= Len(s) THEN Len(s) - (d + 1) + 1 ELSE 0
        /\ \A i \in 1 .. Len(s) - (d + 1) + 1 : after[i] = s[(d + 1) + i - 1]
    BY <1>1, SubSeqProperties
  <2>2. QED
    BY <1>1, <2>1
<1> HIDE DEF before, after
<1>4. /\ before \o after \in Seq(S)
      /\ Len(before \o after) = Len(before) + Len(after)
      /\ \A i \in 1 .. Len(before) + Len(after) :
            (before \o after)[i] = IF i <= Len(before) THEN before[i] ELSE after[i - Len(before)]
  BY <1>2, <1>3, ConcatProperties
<1>5. \A j \in 1 .. Len(s) - 1 : (before \o after)[j] = IF j < d THEN s[j] ELSE s[j + 1]
  BY <1>1, <1>2, <1>3, <1>4
<1>6. RemoveAt(s, d) = before \o after
  BY DEF RemoveAt, before, after
<1>7. Len(before) + Len(after) = Len(s) - 1
  BY <1>1, <1>2, <1>3
<1>8. QED
  BY <1>4, <1>5, <1>6, <1>7

LEMMA InitLayout == Init => LayoutInv
<1> SUFFICES ASSUME Init PROVE LayoutInv
  OBVIOUS
<1> USE DEF Init
<1>1. InitialLayout \in Seq(Tracks)
  BY LayoutAssumption
<1>2. live \in View
  BY <1>1 DEF View
<1>3. runtime \in Seq(Tracks \cup {Fresh})
  BY <1>1
<1>4. LayoutTypes
  BY <1>2, <1>3 DEF LayoutTypes, PassIsWhole, NoPass
<1>5. PublicationInv /\ CallbackInv
  BY <1>1, <1>2 DEF PublicationInv, CallbackInv, View
<1>6. LagInv
  BY <1>2 DEF LagInv, Seen, View
<1>7. PlanInv /\ PassInv /\ EventsInv /\ CountdownInv
  BY DEF PlanInv, PassInv, EventsInv, CountdownInv
<1>8. RuntimeFollowsTracks
  BY DEF RuntimeFollowsTracks
<1>9. QED
  BY <1>4, <1>5, <1>6, <1>7, <1>8 DEF LayoutInv

\* A command starts where the callback is up to date and has noted nothing.
LEMMA StartsClean ==
    ASSUME LayoutInv, CanStart
    PROVE  /\ live = snap /\ cb_snap = snap /\ ~kind /\ pending_delete = None
           /\ plan = <<>> /\ ~Appended
<1> USE DEF LayoutInv, CanStart
<1>1. live = snap /\ cb_snap = snap /\ ~kind
  BY DEF PublicationInv
<1>2. pending_delete = None
  BY <1>1 DEF CallbackInv, LayoutTypes, View
<1>3. plan = <<>>
  BY DEF PlanInv
<1>4. ~Appended
  <2>1. snap.layout \in Seq(Tracks)
    BY DEF LayoutTypes, View
  <2>2. \A t \in Tracks : Len(Append(snap.layout, t)) # Len(snap.layout)
    BY <2>1
  <2>3. QED
    BY <1>1, <2>2 DEF Appended
<1>5. QED
  BY <1>1, <1>2, <1>3, <1>4

\* What is planned then: the deletion of one track, which the request names,
\* or nothing, where the deletion fails.
LEMMA RequestPlans ==
    ASSUME OneTrackAtATime, LayoutInv, NEW c \in Waiting, Request(c)
    PROVE  c.plan = <<>> \/ (c.boundary \in Indices /\ c.plan = <<RemoveTrack(c.boundary)>>)
BY DEF OneTrackAtATime, Waiting, DeleteTrack, Request
\* One edit of the layout: one track goes, which is the one a request names and
\* the callback may have noted, or one track comes at the end.
Deletes(d) ==
    /\ live' = [live EXCEPT !.layout = RemoveAt(@, d), !.epoch = @ + 1]
    /\ kind => edit_track = d
    /\ pending_delete \in {None, d}

Appends(t) ==
    /\ live' = [live EXCEPT !.layout = Append(@, t), !.topo = @ + 1]
    /\ ~waits

\* A view and its fields.
LEMMA ViewFields ==
    ASSUME NEW v \in View
    PROVE  /\ v = [layout |-> v.layout, epoch |-> v.epoch, topo |-> v.topo,
                   playing |-> v.playing]
           /\ v.layout \in Seq(Tracks) /\ v.epoch \in Nat /\ v.topo \in Nat
           /\ v.playing \in BOOLEAN
BY DEF View

LEMMA FieldsView ==
    ASSUME NEW l \in Seq(Tracks), NEW e \in Nat, NEW t \in Nat, NEW p \in BOOLEAN
    PROVE  [layout |-> l, epoch |-> e, topo |-> t, playing |-> p] \in View
BY DEF View

LEMMA EditStepEdits ==
    ASSUME LayoutInv, EditStep
    PROVE  /\ live = snap /\ cb_snap = snap /\ snap' = live' /\ plan' = <<>>
           /\ \/ \E d \in DOMAIN live.layout : Deletes(d)
              \/ \E t \in Tracks : Appends(t)
<1>1. live = snap /\ cb_snap = snap /\ snap' = live'
  BY DEF LayoutInv, PublicationInv, PlanInv, EditStep
<1>2. CASE PlansDeletion
  <2>1. PICK d \in DOMAIN live.layout : /\ plan = <<RemoveTrack(d)>>
                                        /\ kind => edit_track = d
                                        /\ pending_delete \in {None, d}
    BY <1>2 DEF PlansDeletion
  <2>2. Head(plan) = RemoveTrack(d) /\ Tail(plan) = <<>>
    BY <2>1
  <2>3. live' = [live EXCEPT !.layout = RemoveAt(@, d), !.epoch = @ + 1]
    <3>1. RemoveTrack(d).op = "remove" /\ RemoveTrack(d).at = d
      BY DEF RemoveTrack
    <3>2. Edited(RemoveTrack(d)) = [live EXCEPT !.layout = RemoveAt(@, d), !.epoch = @ + 1]
      BY <3>1, Zenon DEF Edited
    <3>3. QED
      BY <2>2, <3>2, Zenon DEF EditStep
  <2>4. QED
    BY <1>1, <2>1, <2>2, <2>3 DEF Deletes, EditStep
<1>3. CASE PlansAppend
  <2>1. PICK t \in Tracks : plan = <<AppendTrack(t)>> /\ ~waits
    BY <1>3 DEF PlansAppend
  <2>2. Head(plan) = AppendTrack(t) /\ Tail(plan) = <<>>
    BY <2>1
  <2>3. live' = [live EXCEPT !.layout = Append(@, t), !.topo = @ + 1]
    <3>1. AppendTrack(t).op = "append" /\ AppendTrack(t).track = t
      BY DEF AppendTrack
    <3>2. Edited(AppendTrack(t)) = [live EXCEPT !.layout = Append(@, t), !.topo = @ + 1]
      BY <3>1, Zenon DEF Edited
    <3>3. QED
      BY <2>2, <3>2, Zenon DEF EditStep
  <2>4. QED
    BY <1>1, <2>1, <2>2, <2>3 DEF Appends, EditStep
<1>4. QED
  BY <1>2, <1>3 DEF LayoutInv, PlanInv, EditStep

\* The views after an edit.
LEMMA DeletionTypes ==
    ASSUME LayoutTypes, NEW d \in DOMAIN live.layout, Deletes(d)
    PROVE  /\ live' \in View
           /\ live'.layout = RemoveAt(live.layout, d) /\ live'.epoch = live.epoch + 1
           /\ live'.topo = live.topo /\ live.epoch < live'.epoch
           /\ d \in 1 .. Len(live.layout) /\ live.layout \in Seq(Tracks)
<1>1. /\ live = [layout |-> live.layout, epoch |-> live.epoch, topo |-> live.topo,
                 playing |-> live.playing]
      /\ live.layout \in Seq(Tracks) /\ live.epoch \in Nat /\ live.topo \in Nat
      /\ live.playing \in BOOLEAN
  BY ViewFields DEF LayoutTypes
<1>2. d \in 1 .. Len(live.layout) /\ RemoveAt(live.layout, d) \in Seq(Tracks)
  BY <1>1, RemoveAtProperties
<1>3. live' = [layout |-> RemoveAt(live.layout, d), epoch |-> live.epoch + 1,
               topo |-> live.topo, playing |-> live.playing]
  BY <1>1 DEF Deletes
<1>4. live.epoch + 1 \in Nat /\ live.epoch < live.epoch + 1
  BY <1>1
<1>5. live' \in View
  BY <1>1, <1>2, <1>3, <1>4, FieldsView
<1>6. /\ live'.layout = RemoveAt(live.layout, d) /\ live'.epoch = live.epoch + 1
      /\ live'.topo = live.topo
  BY <1>3
<1>7. QED
  BY <1>1, <1>2, <1>4, <1>5, <1>6

LEMMA AppendTypes ==
    ASSUME LayoutTypes, NEW t \in Tracks, Appends(t)
    PROVE  /\ live' \in View
           /\ live'.layout = Append(live.layout, t) /\ live'.epoch = live.epoch
           /\ live'.topo = live.topo + 1
           /\ Len(live'.layout) = Len(live.layout) + 1
           /\ \A i \in DOMAIN live.layout :
                 i \in DOMAIN live'.layout /\ live'.layout[i] = live.layout[i]
<1>1. /\ live = [layout |-> live.layout, epoch |-> live.epoch, topo |-> live.topo,
                 playing |-> live.playing]
      /\ live.layout \in Seq(Tracks) /\ live.epoch \in Nat /\ live.topo \in Nat
      /\ live.playing \in BOOLEAN
  BY ViewFields DEF LayoutTypes
<1>2. live' = [layout |-> Append(live.layout, t), epoch |-> live.epoch,
               topo |-> live.topo + 1, playing |-> live.playing]
  BY <1>1 DEF Appends
<1>3. Append(live.layout, t) \in Seq(Tracks) /\ live.topo + 1 \in Nat
  BY <1>1
<1>4. live' \in View
  BY <1>1, <1>2, <1>3, FieldsView
<1>5. /\ live'.layout = Append(live.layout, t) /\ live'.epoch = live.epoch
      /\ live'.topo = live.topo + 1
  BY <1>2
<1>6. QED
  BY <1>1, <1>4, <1>5

\* The views after the other commands: the layout is what it was, and neither
\* epoch goes back.
LEMMA CommandTypes ==
    ASSUME LayoutTypes, TogglePlay \/ Complete
    PROVE  /\ live' \in View /\ live'.layout = live.layout
           /\ live.epoch <= live'.epoch /\ live.topo <= live'.topo
           /\ Complete => live.topo < live'.topo
<1>1. /\ live = [layout |-> live.layout, epoch |-> live.epoch, topo |-> live.topo,
                 playing |-> live.playing]
      /\ live.layout \in Seq(Tracks) /\ live.epoch \in Nat /\ live.topo \in Nat
      /\ live.playing \in BOOLEAN
  BY ViewFields DEF LayoutTypes
<1>2. CASE TogglePlay
  <2>1. live' = [layout |-> live.layout, epoch |-> live.epoch + 1, topo |-> live.topo,
                 playing |-> ~live.playing]
    BY <1>1, <1>2 DEF TogglePlay
  <2>2. live.epoch + 1 \in Nat
    BY <1>1
  <2>3. live' \in View
    <3>1. (~live.playing) \in BOOLEAN
      OBVIOUS
    <3>2. QED
      BY <1>1, <2>1, <2>2, <3>1, FieldsView
  <2>4. live'.layout = live.layout /\ live'.epoch = live.epoch + 1 /\ live'.topo = live.topo
    BY <2>1
  <2>5. ~Complete
    BY <1>2 DEF TogglePlay, CanStart, Complete
  <2>6. live.epoch <= live'.epoch /\ live.topo <= live'.topo
    BY <1>1, <2>4
  <2>7. QED
    BY <2>3, <2>4, <2>5, <2>6
<1>3. CASE Complete
  <2>1. live' = [layout |-> live.layout, epoch |-> live.epoch, topo |-> live.topo + 1,
                 playing |-> live.playing]
    BY <1>1, <1>3 DEF Complete
  <2>2. live.topo + 1 \in Nat
    BY <1>1
  <2>3. live' \in View
    BY <1>1, <2>1, <2>2, FieldsView
  <2>4. live'.layout = live.layout /\ live'.epoch = live.epoch /\ live'.topo = live.topo + 1
    BY <2>1
  <2>5. live.epoch <= live'.epoch /\ live.topo < live'.topo /\ live.topo <= live'.topo
    BY <1>1, <2>4
  <2>6. QED
    BY <2>3, <2>4, <2>5
<1>4. QED
  BY <1>2, <1>3

LEMMA ControlTypes == LayoutInv /\ Control => LayoutTypes'
<1> SUFFICES ASSUME LayoutInv, Control PROVE LayoutTypes'
  OBVIOUS
<1> USE DEF LayoutInv, PassIsWhole, sched_vars, cb_vars
<1>1. CASE \E c \in Waiting : Request(c)
  BY <1>1 DEF LayoutTypes, Request, View
<1>2. CASE EditStep
  <2>1. live' \in View /\ snap' \in View
    BY <1>2, EditStepEdits, DeletionTypes, AppendTypes
  <2>2. QED
    BY <1>2, <2>1 DEF LayoutTypes, EditStep, edit_vars
<1>3. CASE TogglePlay \/ Complete
  <2>1. live' \in View
    BY <1>3, CommandTypes
  <2>2. QED
    BY <1>3, <2>1 DEF LayoutTypes, TogglePlay, Complete, edit_vars
<1>4. CASE Publish
  BY <1>4 DEF LayoutTypes, Publish, edit_vars
<1>5. CASE BoundaryReady \/ TimeOut \/ EditDone \/ \E t \in Absent : AddTrack(t)
  BY <1>5 DEF LayoutTypes, BoundaryReady, TimeOut, EditDone, AddTrack, edit_vars
<1>6. QED
  BY <1>1, <1>2, <1>3, <1>4, <1>5 DEF Control

\* What a pass schedules has the type of an event.
LEMMA ScheduledTypes ==
    ASSUME LayoutTypes, NEW i \in DOMAIN pass.snap.layout, NEW d \in Int, NEW s \in Nat
    PROVE  Scheduled(i, d, s) \in Event
<1>1. pass.snap.layout \in Seq(Tracks) /\ pass.snap.epoch \in Nat /\ pass.elapsed \in Nat
  BY DEF LayoutTypes, View
<1>2. i \in Nat /\ pass.snap.layout[i] \in Tracks
  BY <1>1
<1>3. d + s - pass.elapsed - 1 \in Int
  BY <1>1
<1>4. Positive(d + s - pass.elapsed - 1) \in Nat
  BY <1>3 DEF Positive
<1>5. QED
  BY <1>1, <1>2, <1>4 DEF Scheduled, Event

\* What a pass leaves in the queue: some of what was there and an event or none.
LEMMA SchedulePasses ==
    ASSUME PassSchedule, LayoutTypes
    PROVE  \/ queue' \subseteq queue
           \/ \E i \in DOMAIN pass.snap.layout, d \in Int, s \in Nat :
                 queue' \subseteq queue \cup {Scheduled(i, d, s)}
<1> DEFINE kept     == IF Resync THEN {} ELSE queue
           frontier == IF Resync THEN 0 ELSE pass.lead
<1>1. frontier + 1 \in Int /\ Lookahead \in Int /\ kept \subseteq queue
  BY TimeAssumption DEF LayoutTypes
<1>2. \/ queue' = kept
      \/ \E i \in DOMAIN pass.snap.layout, d \in (frontier + 1) .. Lookahead,
            s \in 0 .. MaxSwing : queue' = kept \cup {Scheduled(i, d, s)}
  BY DEF PassSchedule
<1> HIDE DEF kept, frontier
<1>3. \A d \in (frontier + 1) .. Lookahead : d \in Int
  BY <1>1
<1>4. \A s \in 0 .. MaxSwing : s \in Nat
  BY TimeAssumption
<1>5. QED
  BY <1>1, <1>2, <1>3, <1>4

LEMMA SchedulerTypes == LayoutInv /\ Scheduler => LayoutTypes'
<1> SUFFICES ASSUME LayoutInv, Scheduler PROVE LayoutTypes'
  OBVIOUS
<1> USE DEF LayoutInv, PassIsWhole, edit_vars, ui_vars, cb_vars
<1>1. NoPass.snap \in View
  BY LayoutAssumption DEF NoPass, View
<1>2. CASE Load \/ LoadSnapshot \/ LoadEdit
  BY <1>2 DEF LayoutTypes, Load, LoadSnapshot, LoadEdit
<1>3. CASE PassStopped
  BY <1>1, <1>3 DEF LayoutTypes, PassStopped, NoPass
<1>4. CASE PassHold
  BY <1>1, <1>4 DEF LayoutTypes, PassHold, NoPass
<1>5. CASE PassSchedule
  <2>1. queue' \subseteq Event
    BY <1>5, SchedulePasses, ScheduledTypes DEF LayoutTypes
  <2>2. Lookahead - pass.elapsed \in Int
    BY TimeAssumption DEF LayoutTypes
  <2>3. lead' \in Nat
    BY <1>5, <2>2 DEF PassSchedule, Positive
  <2>4. QED
    BY <1>1, <1>5, <2>1, <2>3 DEF LayoutTypes, PassSchedule, NoPass
<1>6. QED
  BY <1>2, <1>3, <1>4, <1>5 DEF Scheduler
\* The edit the callback has not seen shows in the number of tracks.
LEMMA LagShows ==
    ASSUME LayoutInv
    PROVE  /\ cb_snap.layout \in Seq(Tracks) /\ snap.layout \in Seq(Tracks)
           /\ Seen => Len(snap.layout) = Len(cb_snap.layout)
           /\ Appended => Len(snap.layout) = Len(cb_snap.layout) + 1
           /\ Removed => Len(snap.layout) = Len(cb_snap.layout) - 1
<1>1. cb_snap.layout \in Seq(Tracks) /\ snap.layout \in Seq(Tracks)
  BY ViewFields DEF LayoutInv, LayoutTypes
<1>2. Appended => Len(snap.layout) = Len(cb_snap.layout) + 1
  BY <1>1 DEF Appended
<1>3. ASSUME Removed PROVE Len(snap.layout) = Len(cb_snap.layout) - 1
  <2>1. PICK d \in DOMAIN cb_snap.layout : snap.layout = RemoveAt(cb_snap.layout, d)
    BY <1>3 DEF Removed
  <2>2. d \in 1 .. Len(cb_snap.layout)
    BY <1>1
  <2>3. QED
    BY <1>1, <2>1, <2>2, RemoveAtProperties
<1>4. QED
  BY <1>1, <1>2, <1>3 DEF Seen

\* The state per index is kept, as the tracks that are known stay where they are.
Keeps ==
    /\ Seen \/ Appended
    /\ UNCHANGED <<countdown, queue>>
    /\ \/ Seen /\ UNCHANGED runtime
       \/ runtime' = [i \in DOMAIN snap.layout |->
                         IF i <= Len(cb_snap.layout) THEN runtime[i] ELSE Fresh]

\* The track at d is gone and the callback closes the gap there.
Closes(d) ==
    /\ Removed /\ snap.layout = RemoveAt(cb_snap.layout, d)
    /\ CloseGap(d)

\* A refresh meets at most one edit of the layout, and does with the state per
\* index what that edit calls for.
LEMMA RefreshCases ==
    ASSUME LayoutInv, Refresh
    PROVE  Keeps \/ (\E d \in DOMAIN cb_snap.layout : Closes(d)) \/ ResetAll
<1> USE DEF Refresh
<1>1. /\ last_num_tracks = Len(cb_snap.layout) /\ Len(cb_snap.layout) \in Nat
      /\ Len(snap.layout) \in Nat /\ LagInv
  BY LagShows DEF LayoutInv, CallbackInv
<1>2. CASE ~TopologyChanged
  <2>1. Len(snap.layout) = Len(cb_snap.layout)
    BY <1>1, <1>2 DEF TopologyChanged
  <2>2. Seen
    BY <1>1, <2>1, LagShows DEF LagInv
  <2>3. UNCHANGED <<runtime, countdown, queue>>
    BY <1>2
  <2>4. QED
    BY <2>2, <2>3 DEF Keeps
<1>3. CASE TopologyChanged /\ ~Compacting
  <2>1. Len(snap.layout) >= Len(cb_snap.layout)
    BY <1>1, <1>3 DEF Compacting
  <2>2. Seen \/ Appended
    BY <1>1, <2>1, LagShows DEF LagInv
  <2>3. KeepIndices
    BY <1>3
  <2>4. QED
    BY <1>1, <2>2, <2>3 DEF Keeps, KeepIndices
<1>4. CASE TopologyChanged /\ Compacting /\ DeletedTrack # None
  <2>1. Len(snap.layout) < Len(cb_snap.layout)
    BY <1>1, <1>4 DEF Compacting
  <2>2. Removed
    BY <1>1, <2>1, LagShows DEF LagInv
  <2>3. PICK d \in DOMAIN cb_snap.layout : /\ snap.layout = RemoveAt(cb_snap.layout, d)
                                           /\ pending_delete \in {None, d}
    BY <2>2 DEF Removed
  <2>4. DeletedTrack = d
    BY <1>4, <2>3 DEF DeletedTrack
  <2>5. CloseGap(d)
    BY <1>4, <2>4
  <2>6. QED
    BY <2>2, <2>3, <2>5 DEF Closes
<1>5. CASE TopologyChanged /\ Compacting /\ DeletedTrack = None
  BY <1>5
<1>6. QED
  BY <1>2, <1>3, <1>4, <1>5

\* One entry per track that is known, in each case.
LEMMA RuntimeTypes ==
    ASSUME LayoutInv, Refresh
    PROVE  runtime' \in Seq(Tracks \cup {Fresh}) /\ Len(runtime') = Len(snap.layout)
<1>1. /\ cb_snap.layout \in Seq(Tracks) /\ snap.layout \in Seq(Tracks)
      /\ runtime \in Seq(Tracks \cup {Fresh}) /\ Len(runtime) = Len(cb_snap.layout)
  BY LagShows DEF LayoutInv, LayoutTypes, CallbackInv
<1>2. DOMAIN snap.layout = 1 .. Len(snap.layout)
  BY <1>1
<1>3. CASE Keeps
  <2>1. CASE Seen /\ UNCHANGED runtime
    BY <1>1, <2>1 DEF Seen
  <2>2. CASE runtime' = [i \in DOMAIN snap.layout |->
                            IF i <= Len(cb_snap.layout) THEN runtime[i] ELSE Fresh]
    <3>1. \A i \in 1 .. Len(snap.layout) :
             (IF i <= Len(cb_snap.layout) THEN runtime[i] ELSE Fresh) \in Tracks \cup {Fresh}
      BY <1>1
    <3>2. QED
      BY <1>1, <1>2, <2>2, <3>1
  <2>3. QED
    BY <1>3, <2>1, <2>2 DEF Keeps
<1>4. CASE \E d \in DOMAIN cb_snap.layout : Closes(d)
  <2>1. PICK d \in DOMAIN cb_snap.layout : Closes(d)
    BY <1>4
  <2>2. d \in 1 .. Len(runtime)
    BY <1>1
  <2>3. runtime' = RemoveAt(runtime, d) /\ Len(snap.layout) = Len(cb_snap.layout) - 1
    BY <2>1, LagShows DEF Closes, CloseGap
  <2>4. QED
    BY <1>1, <2>2, <2>3, RemoveAtProperties
<1>5. CASE ResetAll
  BY <1>1, <1>2, <1>5 DEF ResetAll
<1>6. QED
  BY <1>3, <1>4, <1>5, RefreshCases

\* An event that moves down stays an event.
LEMMA ShiftedTypes ==
    ASSUME LayoutTypes, NEW e \in Event, NEW d \in Nat, e.index # d
    PROVE  /\ Shifted(e, d) \in Event
           /\ Shifted(e, d).index = IF e.index > d THEN e.index - 1 ELSE e.index
           /\ Shifted(e, d).track = e.track /\ Shifted(e, d).epoch = snap.epoch
<1>1. /\ e = [due |-> e.due, index |-> e.index, track |-> e.track, epoch |-> e.epoch]
      /\ e.due \in Nat /\ e.index \in Nat /\ e.track \in Tracks
  BY DEF Event
<1>2. snap.epoch \in Nat
  BY ViewFields DEF LayoutTypes
<1> DEFINE index == IF e.index > d THEN e.index - 1 ELSE e.index
<1>3. index \in Nat
  BY <1>1
<1>8. Shifted(e, d) = [e EXCEPT !.index = index, !.epoch = snap.epoch]
  BY DEF Shifted
<1> HIDE DEF index
<1>4. Shifted(e, d) = [due |-> e.due, index |-> index, track |-> e.track, epoch |-> snap.epoch]
  BY <1>1, <1>8
<1>5. Shifted(e, d) \in Event
  BY <1>1, <1>2, <1>3, <1>4 DEF Event
<1>6. /\ Shifted(e, d).index = index /\ Shifted(e, d).track = e.track
      /\ Shifted(e, d).epoch = snap.epoch
  BY <1>4
<1>7. QED
  BY <1>5, <1>6 DEF index

\* What the callback still has at the end of a block is nearer to its time.
LEMMA RenderedTypes ==
    ASSUME NEW x \in Event, x.due > 0
    PROVE  /\ [x EXCEPT !.due = @ - 1] \in Event
           /\ [x EXCEPT !.due = @ - 1].index = x.index
           /\ [x EXCEPT !.due = @ - 1].track = x.track
           /\ [x EXCEPT !.due = @ - 1].epoch = x.epoch
<1>1. /\ x = [due |-> x.due, index |-> x.index, track |-> x.track, epoch |-> x.epoch]
      /\ x.due \in Nat /\ x.index \in Nat /\ x.track \in Tracks /\ x.epoch \in Nat
  BY DEF Event
<1>2. [x EXCEPT !.due = @ - 1] =
         [due |-> x.due - 1, index |-> x.index, track |-> x.track, epoch |-> x.epoch]
  BY <1>1
<1>3. x.due - 1 \in Nat
  BY <1>1
<1>4. QED
  BY <1>1, <1>2, <1>3 DEF Event

LEMMA CallbackTypes == LayoutInv /\ Callback => LayoutTypes'
<1> SUFFICES ASSUME LayoutInv, Callback PROVE LayoutTypes'
  OBVIOUS
<1> USE DEF LayoutInv, PassIsWhole, edit_vars, ui_vars, sched_vars
<1>1. CASE Refresh
  <2>1. queue' \subseteq Event /\ countdown' \subseteq Event
    <3>1. CASE Keeps
      BY <3>1 DEF LayoutTypes, Keeps
    <3>2. CASE \E d \in DOMAIN cb_snap.layout : Closes(d)
      <4>1. PICK d \in DOMAIN cb_snap.layout : Closes(d)
        BY <3>2
      <4>2. d \in Nat
        BY LagShows
      <4>3. /\ UNCHANGED queue
            /\ countdown' = {Shifted(e, d) : e \in {x \in countdown : x.index # d}}
        BY <4>1 DEF Closes, CloseGap
      <4>4. QED
        BY <4>2, <4>3, ShiftedTypes DEF LayoutTypes
    <3>3. CASE ResetAll
      BY <3>3 DEF ResetAll
    <3>4. QED
      BY <1>1, <3>1, <3>2, <3>3, RefreshCases
  <2>2. runtime' \in Seq(Tracks \cup {Fresh})
    BY <1>1, RuntimeTypes
  <2>3. QED
    BY <1>1, <2>1, <2>2 DEF LayoutTypes, Refresh
<1>2. CASE NoteInFlight
  BY <1>2 DEF LayoutTypes, NoteInFlight
<1>3. CASE Render
  <2>1. countdown' \subseteq Event
    <3>1. Current \subseteq Event
      BY DEF Current, LayoutTypes
    <3>2. \/ countdown' = {}
          \/ countdown' = {[e EXCEPT !.due = @ - 1] : e \in {x \in Current : x.due > 0}}
      BY <1>3 DEF Render
    <3>3. QED
      BY <3>1, <3>2, RenderedTypes
  <2>2. runtime' \in Seq(Tracks \cup {Fresh})
    <3>1. /\ runtime \in Seq(Tracks \cup {Fresh}) /\ cb_snap.layout \in Seq(Tracks)
          /\ Len(runtime) = Len(cb_snap.layout)
      BY LagShows DEF LayoutTypes, CallbackInv
    <3>2. runtime' = [i \in DOMAIN runtime |->
                         IF runtime[i] = Fresh THEN cb_snap.layout[i] ELSE runtime[i]]
      BY <1>3 DEF Render
    <3>3. DOMAIN runtime = 1 .. Len(runtime) /\ Len(runtime) \in Nat
      BY <3>1
    <3>4. \A i \in 1 .. Len(runtime) :
             (IF runtime[i] = Fresh THEN cb_snap.layout[i] ELSE runtime[i]) \in Tracks \cup {Fresh}
      BY <3>1
    <3>5. QED
      BY <3>2, <3>3, <3>4
  <2>3. lead' \in Nat /\ pass'.elapsed \in Nat /\ pass'.snap = pass.snap /\ pass'.lead = pass.lead
        /\ PassIsWhole'
    <3>1. lead - 1 \in Int /\ pass.elapsed + 1 \in Nat
      BY DEF LayoutTypes
    <3>2. lead' \in Nat
      BY <1>3, <3>1 DEF Render, Positive
    <3>3. QED
      BY <1>3, <3>1, <3>2 DEF Render, LayoutTypes
  <2>4. QED
    BY <1>3, <2>1, <2>2, <2>3 DEF LayoutTypes, Render
<1>4. QED
  BY <1>1, <1>2, <1>3 DEF Callback
-----------------------------------------------------------------------------
(* The control thread keeps the invariant                                  *)

LEMMA ControlKeeps == Control => UNCHANGED <<sched_vars, lead, queue, cb_vars>>
BY DEF Control, TogglePlay, Request, BoundaryReady, TimeOut, EditStep, EditDone, Complete,
       Publish, AddTrack

\* What a view that is not published changes says of passes and events is kept.
LEMMA SameViews ==
    ASSUME PassInv, EventsInv, Appended => Appended',
           UNCHANGED <<snap, cb_snap, pass, sched, queue, countdown>>
    PROVE  PassInv' /\ EventsInv'
BY DEF PassInv, EventsInv, MeansTheSame, Begins

\* All of the invariant that the control thread can disturb.
SharedInv == PublicationInv /\ CallbackInv /\ LagInv /\ PlanInv /\ PassInv /\ EventsInv

\* An edit is asked for: the request names what will be deleted.
LEMMA RequestKeeps ==
    ASSUME OneTrackAtATime, LayoutInv, NEW c \in Waiting, Request(c) PROVE SharedInv'
<1> USE DEF LayoutInv, Request, cb_vars, sched_vars
<1>1. /\ live = snap /\ cb_snap = snap /\ ~kind /\ pending_delete = None
      /\ plan = <<>> /\ ~Appended
  BY StartsClean
<1>2. PublicationInv'
  BY <1>1 DEF PublicationInv, LayoutTypes
<1>3. CallbackInv'
  BY <1>1 DEF CallbackInv
<1>4. LagInv'
  BY <1>1, ViewFields DEF LagInv, Seen, LayoutTypes
<1>5. PlanInv'
  <2>1. ui' \in {"wait", "edit"} /\ cb_snap' = snap'
    BY <1>1
  <2>2. c.plan = <<>> \/ (c.boundary \in Indices /\ c.plan = <<RemoveTrack(c.boundary)>>)
    BY RequestPlans
  <2>3. kind' => edit_track' = c.boundary
    BY <1>1
  <2>4. plan' # <<>> => PlansDeletion'
    BY <1>1, <2>2, <2>3 DEF PlansDeletion, Indices
  <2>5. QED
    BY <2>1, <2>4 DEF PlanInv
<1>6. PassInv' /\ EventsInv'
  BY <1>1, SameViews
<1>7. QED
  BY <1>2, <1>3, <1>4, <1>5, <1>6 DEF SharedInv

LEMMA AddTrackKeeps ==
    ASSUME LayoutInv, NEW t \in Absent, AddTrack(t) PROVE SharedInv'
<1> USE DEF LayoutInv, AddTrack, cb_vars, sched_vars, edit_vars
<1>1. /\ live = snap /\ cb_snap = snap /\ ~kind /\ pending_delete = None
      /\ plan = <<>> /\ ~Appended
  BY StartsClean
<1>2. PublicationInv'
  BY <1>1 DEF PublicationInv
<1>3. CallbackInv'
  BY <1>1 DEF CallbackInv
<1>4. LagInv'
  BY <1>1, ViewFields DEF LagInv, Seen, LayoutTypes
<1>5. PlanInv'
  BY <1>1 DEF PlanInv, PlansAppend, Absent
<1>6. PassInv' /\ EventsInv'
  BY <1>1, SameViews
<1>7. QED
  BY <1>2, <1>3, <1>4, <1>5, <1>6 DEF SharedInv

\* The wait ends, or the edit.
LEMMA MovesOnKeeps ==
    ASSUME LayoutInv, BoundaryReady \/ TimeOut \/ EditDone PROVE SharedInv'
<1> USE DEF LayoutInv, BoundaryReady, TimeOut, EditDone, cb_vars, sched_vars, edit_vars
<1>1. UNCHANGED <<live, snap, cb_snap, kind, edit_track, waits, pass, sched, queue, countdown,
                  pending_delete, last_num_tracks, last_topology_epoch, runtime>>
  OBVIOUS
<1>2. plan' \in {plan, <<>>} /\ (EditDone => plan' = <<>>)
  OBVIOUS
<1>3. Appended => Appended'
  BY <1>1 DEF Appended
<1>4. PublicationInv'
  BY <1>1 DEF PublicationInv
<1>5. CallbackInv'
  BY <1>1 DEF CallbackInv
<1>6. LagInv'
  <2>1. Removed => Removed'
    <3>1. ASSUME Removed PROVE plan' = <<>>
      BY <1>2, <3>1 DEF Removed
    <3>2. QED
      BY <1>1, <3>1 DEF Removed
  <2>2. QED
    BY <1>1, <1>3, <2>1 DEF LagInv, Seen
<1>7. PlanInv'
  BY <1>1, <1>2 DEF PlanInv, PlansDeletion, PlansAppend
<1>8. PassInv' /\ EventsInv'
  BY <1>1, <1>3, SameViews
<1>9. QED
  BY <1>4, <1>5, <1>6, <1>7, <1>8 DEF SharedInv

\* The transport is toggled, or an edit completed: the live project moves on,
\* and its layout does not.
LEMMA CommandKeeps ==
    ASSUME LayoutInv, TogglePlay \/ Complete PROVE SharedInv'
<1> USE DEF LayoutInv, cb_vars, sched_vars, edit_vars
<1>1. UNCHANGED <<snap, cb_snap, waits, plan, pass, sched, queue, countdown,
                  pending_delete, last_num_tracks, last_topology_epoch, runtime>>
  BY DEF TogglePlay, Complete
<1>2. ui' = "publish" /\ plan = <<>> /\ ~Appended /\ ~kind'
  <2>1. CASE TogglePlay
    BY <2>1, StartsClean DEF TogglePlay
  <2>2. CASE Complete
    BY <2>2 DEF Complete, PlanInv, Appended
  <2>3. QED
    BY <2>1, <2>2
<1>3. /\ live' \in View /\ live'.layout = live.layout
      /\ live.epoch <= live'.epoch /\ live.topo <= live'.topo
      /\ Complete => live.topo < live'.topo
  BY CommandTypes
<1>4. /\ live.epoch \in Nat /\ live.topo \in Nat /\ live'.epoch \in Nat /\ live'.topo \in Nat
      /\ snap.epoch \in Nat /\ snap.topo \in Nat /\ cb_snap.topo \in Nat
  BY <1>3, ViewFields DEF LayoutTypes
<1>5. PublicationInv'
  BY <1>1, <1>2, <1>3, <1>4 DEF PublicationInv
<1>6. CallbackInv'
  <2>1. cb_snap.topo <= live.topo
    BY <1>4 DEF CallbackInv, PublicationInv
  <2>2. pending_delete # None => cb_snap.topo < live'.topo
    <3>1. CASE Complete
      BY <1>3, <1>4, <2>1, <3>1
    <3>2. CASE TogglePlay
      BY <3>2, StartsClean DEF TogglePlay
    <3>3. QED
      BY <3>1, <3>2
  <2>3. QED
    BY <1>1, <2>2 DEF CallbackInv
<1>7. LagInv'
  <2>1. Removed => Removed'
    BY <1>1, <1>2 DEF Removed
  <2>2. QED
    BY <1>1, <1>2, <2>1 DEF LagInv, Seen
<1>8. PlanInv'
  BY <1>1, <1>2 DEF PlanInv
<1>9. PassInv' /\ EventsInv'
  BY <1>1, <1>2, SameViews
<1>10. QED
  BY <1>5, <1>6, <1>7, <1>8, <1>9 DEF SharedInv

\* The publication of a command.
LEMMA PublishKeeps ==
    ASSUME LayoutInv, Publish PROVE SharedInv'
<1> USE DEF LayoutInv, cb_vars, sched_vars, edit_vars
<1>1. /\ UNCHANGED <<live, cb_snap, waits, plan, pass, sched, queue, countdown, kind,
                     edit_track, pending_delete, last_num_tracks, last_topology_epoch, runtime>>
      /\ snap' = live /\ ui = "publish" /\ ui' = "idle"
  BY DEF Publish
<1>2. /\ live.layout = snap.layout /\ snap.epoch <= live.epoch /\ snap.topo <= live.topo
      /\ plan = <<>> /\ ~Appended /\ ~kind
  BY <1>1 DEF PublicationInv, PlanInv, Appended
<1>3. /\ live.epoch \in Nat /\ live.topo \in Nat /\ snap.epoch \in Nat /\ snap.topo \in Nat
      /\ cb_snap.topo \in Nat /\ cb_snap.epoch \in Nat /\ pass.snap.epoch \in Nat
  BY ViewFields DEF LayoutTypes
<1>4. PublicationInv'
  BY <1>1, <1>2, <1>3 DEF PublicationInv
<1>5. CallbackInv'
  BY <1>1, <1>2, <1>3 DEF CallbackInv
<1>6. LagInv'
  <2>1. CASE Seen
    BY <1>1, <1>2, <1>3, <2>1 DEF LagInv, Seen
  <2>2. CASE Removed
    <3>1. cb_snap.epoch < live.epoch
      BY <1>2, <1>3, <2>2 DEF Removed
    <3>2. Removed'
      BY <1>1, <1>2, <2>2, <3>1 DEF Removed
    <3>3. QED
      BY <3>2 DEF LagInv
  <2>3. QED
    BY <1>2, <2>1, <2>2 DEF LagInv
<1>7. PlanInv'
  BY <1>1, <1>2 DEF PlanInv
<1>8. PassInv'
  <2>1. ASSUME sched \in {"edit", "act"}
        PROVE  pass.snap.epoch <= live.epoch /\ Begins(pass.snap, live)
    BY <1>2, <1>3, <2>1 DEF PassInv, Begins
  <2>2. sched \in {"edit", "act"} => Begins(pass.snap, cb_snap)
    BY <1>2 DEF PassInv
  <2>3. QED
    BY <1>1, <2>1, <2>2 DEF PassInv, Begins
<1>9. EventsInv'
  <2>1. ASSUME NEW e \in countdown \cup queue
        PROVE  e.epoch <= live.epoch /\ MeansTheSame(e, live) /\ MeansTheSame(e, cb_snap)
    <3>1. e.epoch \in Nat
      BY DEF LayoutTypes, Event
    <3>2. QED
      BY <1>2, <1>3, <3>1 DEF EventsInv, MeansTheSame
  <2>2. QED
    BY <1>1, <2>1 DEF EventsInv, MeansTheSame
<1>10. QED
  BY <1>4, <1>5, <1>6, <1>7, <1>8, <1>9 DEF SharedInv
\* A track is deleted: the pattern epoch tells the new layout from the old.
LEMMA DeletionKeeps ==
    ASSUME LayoutInv, EditStep, NEW d \in DOMAIN live.layout, Deletes(d) PROVE SharedInv'
<1> USE DEF LayoutInv, cb_vars, sched_vars, edit_vars
<1>1. /\ UNCHANGED <<cb_snap, waits, pass, sched, queue, countdown, kind, ui,
                     edit_track, pending_delete, last_num_tracks, last_topology_epoch, runtime>>
      /\ live = snap /\ cb_snap = snap /\ snap' = live' /\ plan' = <<>> /\ ui = "edit"
  BY EditStepEdits DEF EditStep
<1>2. /\ live' \in View /\ live'.layout = RemoveAt(live.layout, d)
      /\ live'.topo = live.topo /\ live.epoch < live'.epoch
  BY DeletionTypes
<1>3. /\ live.epoch \in Nat /\ live'.epoch \in Nat /\ live.topo \in Nat /\ live'.topo \in Nat
      /\ pass.snap.epoch \in Nat
  BY <1>2, ViewFields DEF LayoutTypes
<1>4. PublicationInv'
  BY <1>1, <1>3 DEF PublicationInv
<1>5. CallbackInv'
  BY <1>1, <1>2 DEF CallbackInv
<1>6. LagInv'
  <2>1. Removed'
    BY <1>1, <1>2 DEF Removed, Deletes
  <2>2. QED
    BY <2>1 DEF LagInv
<1>7. PlanInv'
  BY <1>1 DEF PlanInv
<1>8. ~Appended
  BY DEF EditStep, Appended
<1>9. PassInv'
  <2>1. ASSUME sched \in {"edit", "act"}
        PROVE  /\ pass.snap.epoch <= live'.epoch /\ Begins(pass.snap, live')
               /\ Begins(pass.snap, cb_snap)
    <3>1. pass.snap.epoch <= live.epoch /\ Begins(pass.snap, cb_snap)
      BY <1>1, <1>8, <2>1 DEF PassInv
    <3>2. pass.snap.epoch < live'.epoch
      BY <1>2, <1>3, <3>1
    <3>3. QED
      BY <1>3, <3>1, <3>2 DEF Begins
  <2>2. QED
    BY <1>1, <2>1 DEF PassInv, Begins
<1>10. EventsInv'
  <2>1. ASSUME NEW e \in countdown \cup queue
        PROVE  e.epoch <= live'.epoch /\ MeansTheSame(e, live') /\ MeansTheSame(e, cb_snap)
    <3>1. e.epoch \in Nat
      BY DEF LayoutTypes, Event
    <3>2. e.epoch <= live.epoch /\ MeansTheSame(e, cb_snap)
      BY <1>1, <1>8 DEF EventsInv
    <3>3. e.epoch < live'.epoch
      BY <1>2, <1>3, <3>1, <3>2
    <3>4. QED
      BY <1>3, <3>1, <3>2, <3>3 DEF MeansTheSame
  <2>2. QED
    BY <1>1, <2>1 DEF EventsInv, MeansTheSame
<1>11. QED
  BY <1>4, <1>5, <1>6, <1>7, <1>9, <1>10 DEF SharedInv

\* A track is appended: with the epoch unchanged, the old layout begins the new.
LEMMA AppendKeeps ==
    ASSUME LayoutInv, EditStep, NEW t \in Tracks, Appends(t) PROVE SharedInv'
<1> USE DEF LayoutInv, cb_vars, sched_vars, edit_vars
<1>1. /\ UNCHANGED <<cb_snap, waits, pass, sched, queue, countdown, kind, ui,
                     edit_track, pending_delete, last_num_tracks, last_topology_epoch, runtime>>
      /\ live = snap /\ cb_snap = snap /\ snap' = live' /\ plan' = <<>> /\ ui = "edit"
  BY EditStepEdits DEF EditStep
<1>2. /\ live' \in View /\ live'.layout = Append(live.layout, t)
      /\ live'.topo = live.topo + 1 /\ live'.epoch = live.epoch
      /\ \A i \in DOMAIN live.layout :
            i \in DOMAIN live'.layout /\ live'.layout[i] = live.layout[i]
  BY AppendTypes
<1>3. live.epoch \in Nat /\ live.topo \in Nat /\ live'.topo \in Nat
  BY <1>2, ViewFields DEF LayoutTypes
<1>4. PublicationInv'
  BY <1>1, <1>2, <1>3 DEF PublicationInv
<1>5. CallbackInv'
  <2>1. live.topo <= live'.topo /\ live.topo < live'.topo
    BY <1>2, <1>3
  <2>2. QED
    BY <1>1, <2>1 DEF CallbackInv
<1>6. Appended'
  BY <1>1, <1>2 DEF Appended, Appends
<1>7. LagInv'
  BY <1>6 DEF LagInv
<1>8. PlanInv'
  BY <1>1 DEF PlanInv
<1>9. PassInv'
  BY <1>1, <1>2, <1>6 DEF PassInv, Begins
<1>10. EventsInv'
  BY <1>1, <1>2, <1>6 DEF EventsInv, MeansTheSame
<1>11. QED
  BY <1>4, <1>5, <1>7, <1>8, <1>9, <1>10 DEF SharedInv

LEMMA ControlLayout == OneTrackAtATime /\ LayoutInv /\ Control => LayoutInv'
<1> SUFFICES ASSUME OneTrackAtATime, LayoutInv, Control PROVE LayoutInv'
  OBVIOUS
<1>1. LayoutTypes'
  BY ControlTypes
<1>2. SharedInv'
  <2>1. ASSUME EditStep PROVE SharedInv'
    BY <2>1, EditStepEdits, DeletionKeeps, AppendKeeps
  <2>2. QED
    BY <2>1, RequestKeeps, AddTrackKeeps, MovesOnKeeps, CommandKeeps, PublishKeeps DEF Control
<1>3. CountdownInv' /\ RuntimeFollowsTracks'
  BY ControlKeeps DEF LayoutInv, CountdownInv, RuntimeFollowsTracks, cb_vars
<1>4. QED
  BY <1>1, <1>2, <1>3 DEF LayoutInv, SharedInv

-----------------------------------------------------------------------------
(* The scheduler keeps it                                                  *)

\* The current snapshot grew out of itself, and out of that of the callback.
LEMMA SnapshotBegins ==
    ASSUME LayoutInv
    PROVE  snap.epoch <= snap.epoch /\ Begins(snap, snap) /\ (Appended \/ Begins(snap, cb_snap))
<1>1. snap.epoch \in Nat /\ cb_snap.epoch \in Nat
  BY ViewFields DEF LayoutInv, LayoutTypes
<1>2. CASE Seen
  BY <1>1, <1>2 DEF Seen, Begins
<1>3. CASE Removed
  BY <1>1, <1>3 DEF Removed, Begins
<1>4. QED
  BY <1>1, <1>2, <1>3 DEF LayoutInv, LagInv, Begins

\* An event of a pass means what its snapshot says.
LEMMA ScheduledMeans ==
    ASSUME LayoutInv, sched = "act",
           NEW i \in DOMAIN pass.snap.layout, NEW d \in Int, NEW s \in Nat,
           NEW e, e = Scheduled(i, d, s)
    PROVE  /\ e.epoch <= snap.epoch /\ MeansTheSame(e, snap)
           /\ Appended \/ MeansTheSame(e, cb_snap)
<1>1. /\ e.epoch = pass.snap.epoch /\ e.index = i /\ e.track = pass.snap.layout[i]
  BY DEF Scheduled
<1>2. /\ pass.snap.epoch <= snap.epoch /\ Begins(pass.snap, snap)
      /\ Appended \/ Begins(pass.snap, cb_snap)
  BY DEF LayoutInv, PassInv
<1>3. \A v : Begins(pass.snap, v) => MeansTheSame(e, v)
  BY <1>1 DEF Begins, MeansTheSame
<1>4. QED
  BY <1>1, <1>2, <1>3

LEMMA SchedulerLayout == LayoutInv /\ Scheduler => LayoutInv'
<1> SUFFICES ASSUME LayoutInv, Scheduler PROVE LayoutInv'
  OBVIOUS
<1> USE DEF cb_vars, ui_vars, edit_vars
<1>1. LayoutTypes'
  BY SchedulerTypes
<1>2. UNCHANGED <<live, snap, ui_vars, cb_vars, kind, edit_track>>
  BY DEF Scheduler, Load, LoadSnapshot, LoadEdit, PassStopped, PassHold, PassSchedule
<1>3. /\ PublicationInv' /\ CallbackInv' /\ LagInv' /\ PlanInv' /\ CountdownInv'
      /\ RuntimeFollowsTracks'
  BY <1>2 DEF LayoutInv, PublicationInv, CallbackInv, LagInv, Seen, Appended, Removed, PlanInv,
              PlansDeletion, PlansAppend, CountdownInv, RuntimeFollowsTracks
<1>4. Appended <=> Appended'
  BY <1>2 DEF Appended
<1>5. PassInv'
  <2>1. CASE LoadSnapshot
    <3>1. pass'.snap = snap
      BY <2>1 DEF LoadSnapshot, LayoutInv, LayoutTypes, PassIsWhole
    <3>2. QED
      BY <1>2, <1>4, <3>1, SnapshotBegins DEF PassInv, Begins
  <2>2. CASE LoadEdit
    <3>1. pass'.snap = pass.snap /\ sched = "edit"
      BY <2>2 DEF LoadEdit, LayoutInv, LayoutTypes, PassIsWhole
    <3>2. QED
      BY <1>2, <1>4, <3>1 DEF LayoutInv, PassInv, Begins
  <2>3. CASE Load \/ PassStopped \/ PassHold \/ PassSchedule
    BY <2>3 DEF PassInv, Load, PassStopped, PassHold, PassSchedule
  <2>4. QED
    BY <2>1, <2>2, <2>3 DEF Scheduler
<1>6. EventsInv'
  <2>1. CASE queue' \subseteq queue
    BY <1>2, <1>4, <2>1 DEF LayoutInv, EventsInv, MeansTheSame
  <2>2. CASE PassSchedule
    <3>1. CASE \E i \in DOMAIN pass.snap.layout, d \in Int, s \in Nat :
                  queue' \subseteq queue \cup {Scheduled(i, d, s)}
      <4>1. PICK i \in DOMAIN pass.snap.layout, d \in Int, s \in Nat :
                queue' \subseteq queue \cup {Scheduled(i, d, s)}
        BY <3>1
      <4>2. \A e \in countdown' \cup queue' :
                e \in countdown \cup queue \/ e = Scheduled(i, d, s)
        BY <1>2, <4>1
      <4>3. sched = "act"
        BY <2>2 DEF PassSchedule
      <4>4. \A e \in countdown' \cup queue' :
                /\ e.epoch <= snap.epoch /\ MeansTheSame(e, snap)
                /\ Appended \/ MeansTheSame(e, cb_snap)
        BY <4>2, <4>3, ScheduledMeans DEF LayoutInv, EventsInv
      <4>5. QED
        BY <1>2, <1>4, <4>4 DEF EventsInv, MeansTheSame
    <3>2. QED
      BY <2>1, <2>2, <3>1, SchedulePasses DEF LayoutInv
  <2>3. CASE Load \/ LoadSnapshot \/ LoadEdit \/ PassStopped \/ PassHold
    <3>1. queue' \subseteq queue
      BY <2>3 DEF Load, LoadSnapshot, LoadEdit, PassStopped, PassHold
    <3>2. QED
      BY <2>1, <3>1
  <2>4. QED
    BY <2>2, <2>3 DEF Scheduler
<1>7. QED
  BY <1>1, <1>3, <1>5, <1>6 DEF LayoutInv

-----------------------------------------------------------------------------
(* The callback keeps it                                                   *)

\* An event that moves down with its track means what it meant.
LEMMA ShiftedMeans ==
    ASSUME LayoutInv, NEW d \in DOMAIN cb_snap.layout, Closes(d), cb = "refresh",
           NEW e \in countdown, e.index # d
    PROVE  /\ Shifted(e, d).epoch <= snap.epoch
           /\ MeansTheSame(Shifted(e, d), snap)
<1>1. /\ cb_snap.layout \in Seq(Tracks) /\ snap.layout = RemoveAt(cb_snap.layout, d)
      /\ d \in 1 .. Len(cb_snap.layout) /\ d \in Nat /\ snap.epoch \in Nat
  <2>1. cb_snap.layout \in Seq(Tracks) /\ snap.layout = RemoveAt(cb_snap.layout, d)
    BY LagShows DEF Closes
  <2>2. d \in 1 .. Len(cb_snap.layout) /\ d \in Nat
    BY <2>1
  <2>3. snap.epoch \in Nat
    BY ViewFields DEF LayoutInv, LayoutTypes
  <2>4. QED
    BY <2>1, <2>2, <2>3
<1>2. e \in Event
  BY DEF LayoutInv, LayoutTypes
<1>3. ~Appended
  <2>1. Removed
    BY DEF Closes
  <2>2. Len(cb_snap.layout) \in Nat
    BY <1>1
  <2>3. QED
    BY <2>1, <2>2, LagShows
<1>4. e.index \in DOMAIN cb_snap.layout /\ cb_snap.layout[e.index] = e.track
  BY <1>3 DEF LayoutInv, EventsInv, CountdownInv, MeansTheSame
<1>5. /\ Shifted(e, d).index = IF e.index > d THEN e.index - 1 ELSE e.index
      /\ Shifted(e, d).track = e.track /\ Shifted(e, d).epoch = snap.epoch
  BY <1>1, <1>2, ShiftedTypes DEF LayoutInv
<1>6. e.index \in 1 .. Len(cb_snap.layout) /\ e.index \in Nat
  BY <1>1, <1>4
<1>7. /\ snap.layout \in Seq(Tracks) /\ Len(snap.layout) = Len(cb_snap.layout) - 1
      /\ \A j \in 1 .. Len(cb_snap.layout) - 1 :
            snap.layout[j] = IF j < d THEN cb_snap.layout[j] ELSE cb_snap.layout[j + 1]
  BY <1>1, RemoveAtProperties
<1>8. Shifted(e, d).index \in 1 .. Len(cb_snap.layout) - 1
  BY <1>1, <1>5, <1>6
<1>9. snap.layout[Shifted(e, d).index] = e.track
  <2> DEFINE at == Shifted(e, d).index
             from == IF at < d THEN at ELSE at + 1
  <2>1. from = e.index
    BY <1>1, <1>5, <1>6
  <2>2. snap.layout[at] = cb_snap.layout[from]
    BY <1>7, <1>8
  <2> HIDE DEF at, from
  <2>3. QED
    BY <1>4, <2>1, <2>2 DEF at
<1>10. Shifted(e, d).index \in DOMAIN snap.layout
  BY <1>7, <1>8
<1>11. QED
  BY <1>1, <1>5, <1>9, <1>10 DEF MeansTheSame

\* After a refresh the state per index is that of the new snapshot's tracks.
LEMMA RefreshRuntime == ASSUME LayoutInv, Refresh PROVE RuntimeFollowsTracks'
<1>1. /\ cb_snap.layout \in Seq(Tracks) /\ snap.layout \in Seq(Tracks)
      /\ runtime \in Seq(Tracks \cup {Fresh}) /\ Len(runtime) = Len(cb_snap.layout)
      /\ \A i \in 1 .. Len(runtime) : runtime[i] \in {Fresh, cb_snap.layout[i]}
  BY LagShows DEF LayoutInv, LayoutTypes, CallbackInv, RuntimeFollowsTracks
<1>2. cb_snap' = snap
  BY DEF Refresh
<1>3. CASE Keeps
  <2>1. \A i \in 1 .. Len(cb_snap.layout) : snap.layout[i] = cb_snap.layout[i]
    BY <1>1, <1>3 DEF Keeps, Seen, Appended
  <2>2. CASE Seen /\ UNCHANGED runtime
    BY <1>1, <1>2, <2>1, <2>2 DEF RuntimeFollowsTracks
  <2>3. CASE runtime' = [i \in DOMAIN snap.layout |->
                            IF i <= Len(cb_snap.layout) THEN runtime[i] ELSE Fresh]
    <3>1. \A i \in DOMAIN snap.layout :
             (IF i <= Len(cb_snap.layout) THEN runtime[i] ELSE Fresh) \in {Fresh, snap.layout[i]}
      BY <1>1, <2>1
    <3>2. QED
      BY <1>2, <2>3, <3>1 DEF RuntimeFollowsTracks
  <2>4. QED
    BY <1>3, <2>2, <2>3 DEF Keeps
<1>4. CASE \E d \in DOMAIN cb_snap.layout : Closes(d)
  <2>1. PICK d \in DOMAIN cb_snap.layout : Closes(d)
    BY <1>4
  <2>2. d \in 1 .. Len(runtime) /\ d \in 1 .. Len(cb_snap.layout)
    BY <1>1
  <2>3. runtime' = RemoveAt(runtime, d) /\ snap.layout = RemoveAt(cb_snap.layout, d)
    BY <2>1 DEF Closes, CloseGap
  <2>4. /\ DOMAIN runtime' = 1 .. Len(runtime) - 1
        /\ \A j \in 1 .. Len(runtime) - 1 :
              /\ runtime'[j] = IF j < d THEN runtime[j] ELSE runtime[j + 1]
              /\ snap.layout[j] = IF j < d THEN cb_snap.layout[j] ELSE cb_snap.layout[j + 1]
    <3>1. /\ runtime' \in Seq(Tracks \cup {Fresh}) /\ Len(runtime') = Len(runtime) - 1
          /\ \A j \in 1 .. Len(runtime) - 1 :
                runtime'[j] = IF j < d THEN runtime[j] ELSE runtime[j + 1]
      BY <1>1, <2>2, <2>3, RemoveAtProperties
    <3>2. \A j \in 1 .. Len(cb_snap.layout) - 1 :
                snap.layout[j] = IF j < d THEN cb_snap.layout[j] ELSE cb_snap.layout[j + 1]
      BY <1>1, <2>2, <2>3, RemoveAtProperties, SMTT(30)
    <3>3. QED
      BY <1>1, <3>1, <3>2
  <2>5. \A j \in 1 .. Len(runtime) - 1 : runtime'[j] \in {Fresh, snap.layout[j]}
    <3>1. Len(runtime) \in Nat
      BY <1>1
    <3>2. \A j \in 1 .. Len(runtime) - 1 : j \in 1 .. Len(runtime) /\ j + 1 \in 1 .. Len(runtime)
      BY <3>1
    <3>3. QED
      BY <1>1, <2>4, <3>2
  <2>6. QED
    BY <1>2, <2>4, <2>5 DEF RuntimeFollowsTracks
<1>5. CASE ResetAll
  BY <1>2, <1>5 DEF ResetAll, RuntimeFollowsTracks
<1>6. QED
  BY <1>3, <1>4, <1>5, RefreshCases

LEMMA RefreshKeeps == ASSUME LayoutInv, Refresh PROVE LayoutInv'
<1> USE DEF edit_vars, ui_vars, sched_vars
<1>1. /\ UNCHANGED <<live, snap, ui, plan, waits, kind, edit_track, sched, pass>>
      /\ cb_snap' = snap /\ cb = "refresh" /\ cb' = "in_flight"
      /\ last_num_tracks' = Len(snap.layout) /\ last_topology_epoch' = snap.topo
      /\ pending_delete' \in {pending_delete, None}
      /\ TopologyChanged => pending_delete' = None
  BY DEF Refresh
<1>2. LayoutTypes'
  BY CallbackTypes DEF Callback
<1>3. snap.epoch \in Nat /\ snap.topo \in Nat /\ live.topo \in Nat
  BY ViewFields DEF LayoutInv, LayoutTypes
<1>4. PublicationInv'
  BY <1>1 DEF LayoutInv, PublicationInv
<1>5. CallbackInv'
  <2>1. Len(runtime') = Len(snap.layout)
    BY RuntimeTypes
  <2>2. pending_delete' # None => kind \/ snap.topo < live.topo
    BY <1>1 DEF LayoutInv, CallbackInv, TopologyChanged
  <2>3. QED
    BY <1>1, <1>3, <2>1, <2>2 DEF CallbackInv
<1>6. LagInv'
  BY <1>1, <1>3 DEF LagInv, Seen
<1>7. PlanInv'
  BY <1>1 DEF LayoutInv, PlanInv, PlansDeletion, PlansAppend
<1>8. PassInv'
  BY <1>1 DEF LayoutInv, PassInv, Begins
<1>9. EventsInv'
  <2>1. \A e \in countdown' \cup queue' : e.epoch <= snap.epoch /\ MeansTheSame(e, snap)
    <3>1. CASE Keeps
      BY <3>1 DEF LayoutInv, EventsInv, Keeps
    <3>2. CASE \E d \in DOMAIN cb_snap.layout : Closes(d)
      <4>1. PICK d \in DOMAIN cb_snap.layout : Closes(d)
        BY <3>2
      <4>2. /\ UNCHANGED queue
            /\ countdown' = {Shifted(e, d) : e \in {x \in countdown : x.index # d}}
        BY <4>1 DEF Closes, CloseGap
      <4>3. \A e \in countdown : e.index # d =>
               Shifted(e, d).epoch <= snap.epoch /\ MeansTheSame(Shifted(e, d), snap)
        BY <1>1, <4>1, ShiftedMeans
      <4>4. QED
        BY <4>2, <4>3 DEF LayoutInv, EventsInv
    <3>3. CASE ResetAll
      BY <3>3 DEF ResetAll
    <3>4. QED
      BY <3>1, <3>2, <3>3, RefreshCases
  <2>2. QED
    BY <1>1, <2>1 DEF EventsInv, MeansTheSame
<1>10. CountdownInv'
  BY <1>1 DEF CountdownInv
<1>11. QED
  BY <1>2, <1>4, <1>5, <1>6, <1>7, <1>8, <1>9, <1>10, RefreshRuntime DEF LayoutInv

\* Noting an index finds the one that the edit under way deletes.
LEMMA NoteKeeps == ASSUME LayoutInv, NoteInFlight PROVE LayoutInv'
<1> USE DEF edit_vars, ui_vars, sched_vars
<1>1. /\ UNCHANGED <<live, snap, ui, plan, waits, kind, edit_track, sched, pass, queue, cb_snap,
                     last_num_tracks, last_topology_epoch, countdown, runtime>>
      /\ pending_delete' = IF kind THEN edit_track ELSE pending_delete
      /\ cb' = "render"
  BY DEF NoteInFlight
<1>2. LayoutTypes'
  BY CallbackTypes DEF Callback
<1>3. PublicationInv'
  BY <1>1 DEF LayoutInv, PublicationInv
<1>4. CallbackInv'
  BY <1>1 DEF LayoutInv, CallbackInv
<1>5. LagInv'
  <2>1. Appended => Appended'
    BY <1>1 DEF Appended
  <2>2. Removed => Removed'
    BY <1>1 DEF Removed
  <2>3. QED
    BY <1>1, <2>1, <2>2 DEF LayoutInv, LagInv, Seen
<1>6. PlanInv'
  BY <1>1 DEF LayoutInv, PlanInv, PlansDeletion, PlansAppend
<1>7. PassInv' /\ EventsInv'
  <2>1. Appended => Appended'
    BY <1>1 DEF Appended
  <2>2. QED
    BY <1>1, <2>1, SameViews DEF LayoutInv
<1>8. CountdownInv' /\ RuntimeFollowsTracks'
  BY <1>1 DEF LayoutInv, CountdownInv, RuntimeFollowsTracks
<1>9. QED
  BY <1>2, <1>3, <1>4, <1>5, <1>6, <1>7, <1>8 DEF LayoutInv

\* A block takes what is of the callback's epoch and drops the rest.
LEMMA RenderKeeps == ASSUME LayoutInv, Render PROVE LayoutInv'
<1> USE DEF edit_vars, ui_vars
<1>1. /\ UNCHANGED <<live, snap, ui, plan, waits, kind, edit_track, sched, cb_snap,
                     last_num_tracks, last_topology_epoch, pending_delete>>
      /\ queue' = {}
      /\ \/ countdown' = {}
         \/ countdown' = {[e EXCEPT !.due = @ - 1] : e \in {x \in Current : x.due > 0}}
  BY DEF Render
<1>2. LayoutTypes'
  BY CallbackTypes DEF Callback
<1>3. pass'.snap = pass.snap
  BY DEF Render, LayoutInv, LayoutTypes, PassIsWhole
<1>4. Appended <=> Appended'
  BY <1>1 DEF Appended
<1>5. PublicationInv'
  BY <1>1 DEF LayoutInv, PublicationInv
<1>6. /\ runtime' = [i \in DOMAIN runtime |->
                        IF runtime[i] = Fresh THEN cb_snap.layout[i] ELSE runtime[i]]
      /\ runtime \in Seq(Tracks \cup {Fresh})
      /\ DOMAIN runtime = 1 .. Len(runtime) /\ Len(runtime) \in Nat
  BY DEF Render, LayoutInv, LayoutTypes
<1>7. CallbackInv'
  <2>1. Len(runtime') = Len(runtime)
    BY <1>6
  <2>2. QED
    BY <1>1, <2>1 DEF LayoutInv, CallbackInv
<1>8. LagInv' /\ PlanInv'
  BY <1>1, <1>4 DEF LayoutInv, LagInv, Seen, Removed, PlanInv, PlansDeletion, PlansAppend
<1>9. PassInv'
  BY <1>1, <1>3, <1>4 DEF LayoutInv, PassInv, Begins
<1>10. ASSUME NEW e \in countdown'
       PROVE  \E x \in countdown \cup queue :
                 /\ x.epoch = cb_snap.epoch
                 /\ e.epoch = x.epoch /\ e.index = x.index /\ e.track = x.track
  <2>1. PICK x \in Current : x.due > 0 /\ e = [x EXCEPT !.due = @ - 1]
    BY <1>1, <1>10
  <2>2. x \in countdown \cup queue /\ x.epoch = cb_snap.epoch /\ x \in Event
    BY <2>1 DEF Current, LayoutInv, LayoutTypes
  <2>3. e.epoch = x.epoch /\ e.index = x.index /\ e.track = x.track
    BY <2>1, <2>2, RenderedTypes
  <2>4. QED
    BY <2>2, <2>3
<1>11. EventsInv'
  BY <1>1, <1>4, <1>10 DEF LayoutInv, EventsInv, MeansTheSame
<1>12. CountdownInv'
  BY <1>1, <1>10 DEF CountdownInv
<1>13. RuntimeFollowsTracks'
  BY <1>1, <1>6 DEF LayoutInv, RuntimeFollowsTracks
<1>14. QED
  BY <1>2, <1>5, <1>7, <1>8, <1>9, <1>11, <1>12, <1>13 DEF LayoutInv

LEMMA LayoutInvariant == ASSUME OneTrackAtATime PROVE Spec => []LayoutInv
<1>1. LayoutInv /\ UNCHANGED vars => LayoutInv'
  BY DEF LayoutInv, LayoutTypes, PassIsWhole, PublicationInv, CallbackInv, LagInv, Seen,
         Appended, Removed, PlanInv, PlansDeletion, PlansAppend, PassInv, Begins, EventsInv,
         MeansTheSame, CountdownInv, RuntimeFollowsTracks, vars, edit_vars, ui_vars,
         sched_vars, cb_vars
<1>2. LayoutInv /\ [Next]_vars => LayoutInv'
  BY <1>1, ControlLayout, SchedulerLayout, RefreshKeeps, NoteKeeps, RenderKeeps
     DEF Next, Callback
<1>3. QED
  BY <1>2, InitLayout, PTL DEF Spec

\* The keys held down and the voices kept at an index are those of the track
\* that has the index now: the callback's own index, noted while the edit was
\* under way, and the number of tracks tell it which state to drop.
THEOREM RuntimeMovesWithTracks == ASSUME OneTrackAtATime PROVE Spec => []RuntimeFollowsTracks
<1>1. LayoutInv => RuntimeFollowsTracks
  BY DEF LayoutInv
<1>2. QED
  BY <1>1, LayoutInvariant, PTL

\* An event is played on the track it was scheduled for or not at all: the
\* pattern epoch tells apart any two layouts that disagree on an index, and
\* what is kept past a deletion is moved and stamped anew.
THEOREM EventsKeepTheirTrack == ASSUME OneTrackAtATime PROVE Spec => []PlaysItsTrack
<1>1. ASSUME LayoutInv, NEW e \in countdown \cup queue,
             e.epoch = cb_snap.epoch, e.index \in DOMAIN cb_snap.layout
      PROVE  cb_snap.layout[e.index] = e.track
  <2>1. CASE Appended
    <3>1. PICK t \in Tracks : snap.layout = Append(cb_snap.layout, t)
      BY <2>1 DEF Appended
    <3>2. snap.layout[e.index] = cb_snap.layout[e.index]
      BY <1>1, <3>1, LagShows
    <3>3. QED
      BY <1>1, <2>1, <3>2 DEF LayoutInv, EventsInv, MeansTheSame, Appended
  <2>2. QED
    BY <1>1, <2>1 DEF LayoutInv, EventsInv, MeansTheSame
<1>2. LayoutInv => PlaysItsTrack
  BY <1>1 DEF PlaysItsTrack
<1>3. QED
  BY <1>2, LayoutInvariant, PTL
=============================================================================
