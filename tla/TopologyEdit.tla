---------------------------- MODULE TopologyEdit ----------------------------
(***************************************************************************)
(* Changing the track layout while the transport plays.                    *)
(*                                                                         *)
(* The control thread asks for a boundary (request_track_delete_boundary), *)
(* the scheduler stops extending its lookahead and answers once everything *)
(* it scheduled has been rendered, the control thread edits, publishes and *)
(* completes.  The audio callback meets the new layout in a snapshot and   *)
(* moves its own per-track state along.                                    *)
(*                                                                         *)
(* A layout is a sequence of tracks; code works with indices into it.  An  *)
(* event carries the index it was scheduled for and, as a ghost, the track *)
(* that index meant.  Time is counted in audio blocks: `lead` is how far   *)
(* the scheduling frontier is ahead of the render head, `due` the block in *)
(* which an event sounds.                                                  *)
(***************************************************************************)
EXTENDS Integers, Sequences, SequencesExt, FiniteSets

CONSTANTS
    Tracks,          \* track identities
    InitialLayout,   \* the project's layout at the start
    Kinds,           \* the kinds of command the control thread issues
    CanTimeOut,      \* whether a wait for the boundary may time out
    Lookahead,       \* the lookahead of the scheduler, in blocks
    MaxSwing,        \* how far past the frontier swing delays an event, in blocks
    MaxEvents,       \* bound on the events in flight
    MaxCommands,     \* bound on the commands
    None

ASSUME LayoutAssumption == InitialLayout \in Seq(Tracks) /\ IsInjective(InitialLayout)
ASSUME NoneAssumption   == None \notin Tracks /\ None \notin Nat
ASSUME TimeAssumption   == Lookahead \in Nat \ {0} /\ MaxSwing \in Nat

VARIABLES
    live,        \* live layout, pattern_epoch, topology_epoch, playing
    snap,        \* the published snapshot of the same
    request, ready, applied, kind, edit_track,   \* topology_edit_* atomics
    ui, plan, waits, commands,                   \* the control thread
    sched, pass, \* where the scheduler's pass is, what it has loaded
    last,        \* the scheduler's last_playing, last_pattern_epoch, ...
    lead,        \* scheduled_until_sample - rendered
    queue,       \* ScheduledEventQueue
    cb, cb_snap, last_num_tracks, last_topology_epoch, cb_playing,
    pending_delete,   \* pending_topology_delete_track
    countdown,        \* events the callback holds
    runtime           \* per index: the track whose held keys and engine voices it keeps

edit_vars == <<request, ready, applied, kind, edit_track>>
ui_vars   == <<ui, plan, waits, commands>>
sched_vars == <<sched, pass, last>>
cb_vars == <<cb, cb_snap, last_num_tracks, last_topology_epoch, cb_playing,
             pending_delete, countdown, runtime>>
vars == <<live, snap, edit_vars, ui_vars, sched_vars, lead, queue, cb_vars>>

-----------------------------------------------------------------------------
(* Edits of the layout                                                     *)

RemoveTrack(i) == [op |-> "remove", at |-> i]
AppendTrack(t) == [op |-> "append", track |-> t]
MoveLast(i)    == [op |-> "move", to |-> i]

MoveLastTo(s, i) == InsertAt(Front(s), i, Last(s))

Indices == DOMAIN live.layout
Absent  == Tracks \ {live.layout[i] : i \in Indices}

\* delete-track; a deletion that fails, for the last track always, does so
\* after the wait.
DeleteTrack ==
    {[boundary |-> i, plan |-> <<>>] : i \in Indices} \cup
    {[boundary |-> i, plan |-> <<RemoveTrack(i)>>]
        : i \in {j \in Indices : Len(live.layout) > 1}}

\* delete-tracks waits with the first index and deletes from the last one down.
DeleteTracks ==
    {[boundary |-> b[1], plan |-> <<RemoveTrack(b[2]), RemoveTrack(b[1])>>]
        : b \in {p \in Indices \X Indices : p[1] < p[2] /\ Len(live.layout) > 2}}

\* undo of a track creation and redo of a deletion wait with the cursor's track.
ReplayDeletion ==
    {[boundary |-> b[1], plan |-> <<RemoveTrack(b[2])>>]
        : b \in {p \in Indices \X Indices : Len(live.layout) > 1}}

\* undo of a deletion appends a track and moves it to its place.
ReplayRestore ==
    {[boundary |-> b[1], plan |-> <<AppendTrack(b[2]), MoveLast(b[3])>>]
        : b \in Indices \X Absent \X (1 .. Len(live.layout) + 1)}

Waiting ==
    (IF "delete" \in Kinds THEN DeleteTrack ELSE {}) \cup
    (IF "delete_many" \in Kinds THEN DeleteTracks ELSE {}) \cup
    (IF "replay_deletion" \in Kinds THEN ReplayDeletion ELSE {}) \cup
    (IF "replay_restore" \in Kinds THEN ReplayRestore ELSE {})

\* Between two passes.
NoPass == [snap |-> [layout |-> InitialLayout, epoch |-> 0, topo |-> 0, playing |-> FALSE],
           lead |-> 0, elapsed |-> 0, edit |-> FALSE, request |-> 0, ready |-> 0]

Init ==
    /\ live = [layout |-> InitialLayout, epoch |-> 0, topo |-> 0, playing |-> FALSE]
    /\ snap = live
    /\ request = 0 /\ ready = 0 /\ applied = 0 /\ kind = FALSE /\ edit_track = None
    /\ ui = "idle" /\ plan = <<>> /\ waits = FALSE /\ commands = 0
    /\ sched = "idle" /\ pass = NoPass /\ lead = 0 /\ queue = {}
    /\ last = [playing |-> FALSE, epoch |-> 0, topo |-> 0, tracks |-> Len(InitialLayout)]
    /\ cb = "refresh" /\ cb_snap = live
    /\ last_num_tracks = Len(InitialLayout) /\ last_topology_epoch = 0
    /\ cb_playing = FALSE /\ pending_delete = None
    /\ countdown = {} /\ runtime = InitialLayout

-----------------------------------------------------------------------------
(* The control thread                                                      *)

\* Commands come from a user's hand: blocks are rendered between two of them.
CanStart == ui = "idle" /\ commands < MaxCommands /\ cb_snap = snap

\* start_playback, stop_playback; the publication follows.
TogglePlay ==
    /\ CanStart
    /\ live' = [live EXCEPT !.playing = ~@, !.epoch = @ + 1]
    /\ ui' = "publish"
    /\ commands' = commands + 1
    /\ UNCHANGED <<snap, edit_vars, plan, waits, sched_vars, lead, queue, cb_vars>>

\* An edit that shifts indices: the request is three stores, of which the kind
\* is the last and the one everybody looks at first.
Request(c) ==
    /\ CanStart
    /\ plan' = c.plan /\ waits' = live.playing
    /\ commands' = commands + 1
    /\ IF live.playing
       THEN /\ request' = request + 1 /\ edit_track' = c.boundary /\ kind' = TRUE
            /\ ui' = "wait"
       ELSE /\ UNCHANGED <<request, edit_track, kind>>
            /\ ui' = "edit"
    /\ UNCHANGED <<live, snap, ready, applied, sched_vars, lead, queue, cb_vars>>

\* A new track is appended without a boundary.
AddTrack(t) ==
    /\ "append" \in Kinds
    /\ CanStart
    /\ plan' = <<AppendTrack(t)>> /\ waits' = FALSE /\ ui' = "edit"
    /\ commands' = commands + 1
    /\ UNCHANGED <<live, snap, edit_vars, sched_vars, lead, queue, cb_vars>>

BoundaryReady ==
    /\ ui = "wait" /\ ready >= request
    /\ ui' = "edit"
    /\ UNCHANGED <<live, snap, edit_vars, plan, waits, commands, sched_vars, lead,
                   queue, cb_vars>>

TimeOut ==
    /\ CanTimeOut
    /\ ui = "wait" /\ ready < request
    /\ plan' = <<>> /\ ui' = "edit"
    /\ UNCHANGED <<live, snap, edit_vars, waits, commands, sched_vars, lead, queue,
                   cb_vars>>

\* One edit of the live layout: remove_track and
\* move_appended_track_pattern_lane_to advance the pattern epoch, appending
\* advances the topology epoch only (publish_event_compatible_topology).
Edited(step) ==
    CASE step.op = "remove" -> [live EXCEPT !.layout = RemoveAt(@, step.at), !.epoch = @ + 1]
      [] step.op = "append" -> [live EXCEPT !.layout = Append(@, step.track), !.topo = @ + 1]
      [] step.op = "move"   -> [live EXCEPT !.layout = MoveLastTo(@, step.to), !.epoch = @ + 1]

EditStep ==
    /\ ui = "edit" /\ plan # <<>>
    /\ live' = Edited(Head(plan))
    /\ snap' = live'
    /\ plan' = Tail(plan)
    /\ UNCHANGED <<edit_vars, ui, waits, commands, sched_vars, lead, queue, cb_vars>>

EditDone ==
    /\ ui = "edit" /\ plan = <<>>
    /\ ui' = IF waits THEN "complete" ELSE "idle"
    /\ UNCHANGED <<live, snap, edit_vars, plan, waits, commands, sched_vars, lead,
                   queue, cb_vars>>

\* complete_topology_edit: four stores, none of which a reader sees without
\* the one before it making the others irrelevant.
Complete ==
    /\ ui = "complete"
    /\ live' = [live EXCEPT !.topo = @ + 1]
    /\ applied' = request /\ kind' = FALSE /\ edit_track' = None
    /\ ui' = "publish"
    /\ UNCHANGED <<snap, request, ready, plan, waits, commands, sched_vars, lead,
                   queue, cb_vars>>

Publish ==
    /\ ui = "publish"
    /\ snap' = live
    /\ ui' = "idle"
    /\ UNCHANGED <<live, edit_vars, plan, waits, commands, sched_vars, lead, queue,
                   cb_vars>>

Control ==
    \/ TogglePlay \/ BoundaryReady \/ TimeOut \/ EditStep \/ EditDone \/ Complete \/ Publish
    \/ \E c \in Waiting : Request(c)
    \/ \E t \in Absent : AddTrack(t)

-----------------------------------------------------------------------------
(* The scheduler: one pass of advance loads the render head, the snapshot  *)
(* and the edit ids, then acts on what it loaded.                          *)

Positive(n) == IF n > 0 THEN n ELSE 0

Load ==
    /\ sched = "idle"
    /\ pass' = [pass EXCEPT !.lead = lead] /\ sched' = "snapshot"
    /\ UNCHANGED <<live, snap, edit_vars, ui_vars, last, lead, queue, cb_vars>>

LoadSnapshot ==
    /\ sched = "snapshot"
    /\ pass' = [pass EXCEPT !.snap = snap] /\ sched' = "edit"
    /\ UNCHANGED <<live, snap, edit_vars, ui_vars, last, lead, queue, cb_vars>>

\* (mutant of EditInFlight: the hold ends with the answer)
EditUnanswered == kind /\ ready < request

EditInFlight == kind /\ applied < request

LoadEdit ==
    /\ sched = "edit"
    /\ pass' = [pass EXCEPT !.edit = EditInFlight, !.request = request, !.ready = ready]
    /\ sched' = "act"
    /\ UNCHANGED <<live, snap, edit_vars, ui_vars, last, lead, queue, cb_vars>>

Observed == [playing |-> pass.snap.playing, epoch |-> pass.snap.epoch,
             topo |-> pass.snap.topo, tracks |-> Len(pass.snap.layout)]

\* The transport is stopped: a change of transport, pattern or topology clears
\* the queue, and the frontier is the render head.
PassStopped ==
    /\ sched = "act" /\ ~pass.snap.playing
    /\ queue' = IF last.playing \/ last.epoch # pass.snap.epoch \/ last.topo # pass.snap.topo
                THEN {} ELSE queue
    /\ lead' = 0 /\ last' = Observed /\ pass' = NoPass /\ sched' = "idle"
    /\ UNCHANGED <<live, snap, edit_vars, ui_vars, cb_vars>>

\* (mutant of FrontierDrained: off by one)
FrontierPassed == pass.lead < 0

\* topology_edit_frontier_drained, with the render head of the start of the pass.
FrontierDrained == pass.lead = 0

PassHold ==
    /\ sched = "act" /\ pass.snap.playing /\ pass.edit
    /\ ready' = IF FrontierDrained /\ pass.ready < pass.request THEN pass.request ELSE ready
    /\ pass' = NoPass /\ sched' = "idle"
    /\ UNCHANGED <<live, snap, request, applied, kind, edit_track, ui_vars, last, lead,
                   queue, cb_vars>>

\* The resync chain: what was scheduled before is dropped and scheduled anew
\* from the render head, unless the new topology only adds tracks.
Resync ==
    \/ ~last.playing
    \/ /\ last.topo # pass.snap.topo
       /\ ~(Len(pass.snap.layout) >= last.tracks /\ pass.snap.epoch = last.epoch)
    \/ last.topo = pass.snap.topo /\ last.epoch # pass.snap.epoch

\* An event of index i in a block d blocks after the render head the pass
\* started from, delayed by s; a late one sounds in the next block.
Scheduled(i, d, s) ==
    [due |-> Positive(d + s - pass.elapsed - 1), index |-> i, track |-> pass.snap.layout[i],
     epoch |-> pass.snap.epoch]

PassSchedule ==
    /\ sched = "act" /\ pass.snap.playing /\ ~pass.edit
    /\ LET kept     == IF Resync THEN {} ELSE queue
           frontier == IF Resync THEN 0 ELSE pass.lead
       IN \/ queue' = kept
          \/ /\ Cardinality(queue \cup countdown) < MaxEvents
             /\ \E i \in DOMAIN pass.snap.layout, d \in (frontier + 1) .. Lookahead,
                   s \in 0 .. MaxSwing : queue' = kept \cup {Scheduled(i, d, s)}
    /\ lead' = Positive(Lookahead - pass.elapsed)
    /\ last' = Observed /\ pass' = NoPass /\ sched' = "idle"
    /\ UNCHANGED <<live, snap, edit_vars, ui_vars, cb_vars>>

Scheduler == Load \/ LoadSnapshot \/ LoadEdit \/ PassStopped \/ PassHold \/ PassSchedule

-----------------------------------------------------------------------------
(* The audio callback: one block in three parts                            *)

Fresh == None   \* per-track state that belongs to no track

\* (mutant of Shifted: the index is not moved)
Restamped(e, d) == [e EXCEPT !.epoch = snap.epoch]

\* An index after the deletion of the track at index d.
Shifted(e, d) == [e EXCEPT !.index = IF @ > d THEN @ - 1 ELSE @, !.epoch = snap.epoch]

\* reconcile_event_compatible_topology.
KeepIndices ==
    /\ runtime' = [i \in DOMAIN snap.layout |-> IF i <= last_num_tracks THEN runtime[i] ELSE Fresh]
    /\ UNCHANGED <<countdown, queue>>

\* (mutant of CloseGap: the state of the last index is dropped)
DropLast(d) ==
    /\ runtime' = Front(runtime)
    /\ countdown' = {Shifted(e, d) : e \in {x \in countdown : x.index # d}}
    /\ UNCHANGED queue

\* reconcile_audio_runtime_after_track_delete: survivors move down and what
\* they have pending is stamped with the new epoch.
CloseGap(d) ==
    /\ runtime' = RemoveAt(runtime, d)
    /\ countdown' = {Shifted(e, d) : e \in {x \in countdown : x.index # d}}
    /\ UNCHANGED queue

\* reset_audio_runtime_for_track_topology.
ResetAll ==
    /\ runtime' = [i \in DOMAIN snap.layout |-> Fresh]
    /\ countdown' = {} /\ queue' = {}

TopologyChanged ==
    Len(snap.layout) # last_num_tracks \/ snap.topo # last_topology_epoch

Compacting == Len(snap.layout) < last_num_tracks

DeletedTrack ==
    IF last_num_tracks - Len(snap.layout) = 1 THEN pending_delete ELSE None

Refresh ==
    /\ cb = "refresh"
    /\ cb_snap' = snap
    /\ IF ~TopologyChanged
       THEN UNCHANGED <<runtime, countdown, queue, pending_delete, cb_playing>>
       ELSE /\ IF ~Compacting THEN KeepIndices
               ELSE IF DeletedTrack # None THEN CloseGap(DeletedTrack)
               ELSE ResetAll
            /\ cb_playing' = (cb_playing /\ ~(Compacting /\ DeletedTrack = None))
            /\ pending_delete' = None
    /\ last_num_tracks' = Len(snap.layout) /\ last_topology_epoch' = snap.topo
    /\ cb' = "in_flight"
    /\ UNCHANGED <<live, snap, edit_vars, ui_vars, sched_vars, lead>>

NoteInFlight ==
    /\ cb = "in_flight"
    /\ pending_delete' = IF kind THEN edit_track ELSE pending_delete
    /\ cb' = "render"
    /\ UNCHANGED <<live, snap, edit_vars, ui_vars, sched_vars, lead, queue, cb_snap,
                   last_num_tracks, last_topology_epoch, cb_playing, countdown, runtime>>

Stopping == ~live.playing /\ cb_playing

\* What the callback still has when it collects the block's events: an event
\* of another epoch is dropped, on the way out of the queue or later.
Current == {e \in countdown \cup queue : e.epoch = cb_snap.epoch}

Render ==
    /\ cb = "render"
    /\ cb_playing' = live.playing
    /\ queue' = {}
    /\ countdown' = IF Stopping THEN {}
                    ELSE {[e EXCEPT !.due = @ - 1] : e \in {x \in Current : x.due > 0}}
    /\ runtime' = [i \in DOMAIN runtime |->
                      IF runtime[i] = Fresh THEN cb_snap.layout[i] ELSE runtime[i]]
    /\ lead' = Positive(lead - 1)
    /\ pass' = IF sched = "idle" \/ pass.elapsed > Lookahead + MaxSwing THEN pass
               ELSE [pass EXCEPT !.elapsed = @ + 1]
    /\ cb' = "refresh"
    /\ UNCHANGED <<live, snap, edit_vars, ui_vars, sched, last, cb_snap, last_num_tracks,
                   last_topology_epoch, pending_delete>>

Callback == Refresh \/ NoteInFlight \/ Render

Next == Control \/ Scheduler \/ Callback

Spec == Init /\ [][Next]_vars

\* The device keeps calling back and the scheduler thread keeps polling.
Fairness == WF_vars(Callback) /\ WF_vars(Scheduler)

LiveSpec == Spec /\ Fairness

-----------------------------------------------------------------------------
(* Properties                                                              *)

Epochs == 0 .. 3 * MaxCommands
Views  == [layout : SeqOf(Tracks, Cardinality(Tracks)), epoch : Epochs, topo : Epochs,
           playing : BOOLEAN]
Events == [due : 0 .. Lookahead + MaxSwing, index : 1 .. Cardinality(Tracks),
           track : Tracks, epoch : Epochs]

\* The types; the callback has exactly one slot of runtime per track it knows.
TypeOK ==
    /\ live \in Views /\ snap \in Views /\ cb_snap \in Views
    /\ request \in 0 .. MaxCommands /\ ready \in 0 .. request /\ applied \in 0 .. request
    /\ kind \in BOOLEAN /\ edit_track \in Nat \cup {None}
    /\ ui \in {"idle", "wait", "edit", "complete", "publish"}
    /\ waits \in BOOLEAN /\ commands \in 0 .. MaxCommands
    /\ sched \in {"idle", "snapshot", "edit", "act"}
    /\ lead \in 0 .. Lookahead
    /\ queue \subseteq Events /\ countdown \subseteq Events
    /\ cb \in {"refresh", "in_flight", "render"} /\ cb_playing \in BOOLEAN
    /\ pending_delete \in Nat \cup {None}
    /\ runtime \in SeqOf(Tracks \cup {Fresh}, Cardinality(Tracks))
    /\ Len(runtime) = last_num_tracks

\* An event the callback would play is not played on another track than the
\* one it was scheduled for, whatever happened to the layout since: the pattern
\* epoch or the reindexing takes care of it.  (An index the callback does not
\* know yet is that of a track appended since its snapshot.)
PlaysItsTrack ==
    \A e \in countdown \cup queue :
        e.epoch = cb_snap.epoch /\ e.index \in DOMAIN cb_snap.layout
            => cb_snap.layout[e.index] = e.track

\* Nothing scheduled for the current layout and patterns is thrown away: what
\* the callback drops is of a superseded snapshot.  The code does not do it, and
\* no run checks it: a snapshot published during a block is met by the next
\* one, which drops what the scheduler has already scheduled from it.
NewestIsPlayed ==
    [][cb = "render" /\ ~Stopping =>
          \A e \in queue \cup countdown : e.epoch = snap.epoch => e \in Current]_vars

\* The keys held down, the mono stacks and the engine voices the callback keeps
\* at an index belong to the track that now has the index: they move with their
\* track or are reset.
RuntimeFollowsTracks ==
    \A i \in DOMAIN runtime : runtime[i] \in {Fresh, cb_snap.layout[i]}

\* Between the boundary and the completion nothing is scheduled.
HandoffIsQuiet ==
    [][kind /\ ready >= request => queue' \subseteq queue]_vars

\* A request is answered, unless the control thread gives up first.
BoundaryReached == kind ~> (~kind \/ ready >= request)

=============================================================================
