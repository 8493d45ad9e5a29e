-------------------------- MODULE QuantizedLaunch --------------------------
(***************************************************************************)
(* Launching a scene or a track's clip while the transport plays           *)
(* (quantized_launch.rs, its callers in scheduler/worker.rs,               *)
(* scheduler/lookahead.rs and app/mod.rs).  Two threads:                   *)
(*                                                                         *)
(*  - the control thread sends launches and cancellations over the request *)
(*    channel, receives due launches over the due channel, and MIRRORS a   *)
(*    launch the scheduler already made audible: it publishes a snapshot   *)
(*    with the launched content (no epoch bump) and acknowledges;          *)
(*  - the scheduler receives the requests once per pass, waits for the     *)
(*    launch's beat, and at that beat INSTALLS the launch: chunks are      *)
(*    scheduled from its prebuilt snapshot until the acknowledgement.      *)
(*                                                                         *)
(* Time is counted in beats of the scheduling frontier.  Sessions only:    *)
(* song playback, which owns launches while it runs, is left out.          *)
(***************************************************************************)
EXTENDS Integers, Sequences, FiniteSetsExt, SequencesExt

CONSTANTS Tracks,           \* the tracks
          Scenes,           \* scene indices; a scene stands for its content
          FirstScene,       \* the scene playing at start
          Owners,           \* QuantizedLaunchOwner values
          Transport,        \* the owner of the transport's scene switches
          TracksOf,         \* Owners -> the tracks its launches target
          Commands,         \* which control commands happen
          CanFail,          \* can a mirror fail
          MaxToken,         \* bound: launches submitted
          MaxToggles,       \* bound: play/stop toggles
          MaxBeat,          \* bound: beats scheduled per playback
          Grid,             \* beats of the launch quantization
          Block,            \* beats of one scheduling chunk
          Lookahead,        \* beats the frontier runs ahead of the audio
          RequestCapacity,  \* slots of the request channel (256)
          DueCapacity       \* slots of the due channel (256)

None == 0                   \* no token; no launch installed

ASSUME LaunchAssumption ==
    /\ Scenes \subseteq Nat \ {None} /\ FirstScene \in Scenes
    /\ TracksOf \in [Owners -> (SUBSET Tracks) \ {{}}]
    /\ Transport \in Owners /\ TracksOf[Transport] = Tracks
    /\ {MaxToken, MaxToggles, MaxBeat} \subseteq Nat
    /\ {Grid, Block, Lookahead, RequestCapacity, DueCapacity} \subseteq Nat \ {0}

VARIABLES fate,        \* token -> what became of the launch; "valid" = in valid_tokens
          ownerTok,    \* control: owner -> its valid token, or None
          work,        \* control: what the running handler still has to do
          toggles,     \* transport toggles so far (bounded)
          published,   \* the newest scheduler snapshot
          requests,    \* the request channel
          dues,        \* the due channel
          stage,       \* scheduler: where it is in its pass
          base,        \* scheduler: the snapshot of this pass
          last,        \* scheduler: pattern, epoch, playing of the last pass
          frontier,    \* scheduler: beat scheduled up to
          ahead,       \* scheduler: beats scheduled and not yet rendered
          pending,     \* scheduler: launches the control thread will apply
          boundary,    \* scheduler: launches it will install itself
          owned,       \* scheduler: owner -> the token it replaces, or None
          installed,   \* scheduler: overrides awaiting their mirror
          adopted,     \* scheduler: patterns the mirrors will publish
          backlog,     \* scheduler: dues the channel had no room for
          launched,    \* history: what the last launch installed put on each track
          forgot,      \* history: did a stop or the bound on adoptions drop one
          wiped        \* history: was everything ever cancelled by a live launch

control == <<fate, ownerTok, work, toggles, published, wiped>>
launches == <<pending, boundary, owned, installed, adopted, backlog>>
clock == <<frontier, ahead>>
histories == <<launched, forgot>>
vars == <<control, requests, dues, stage, base, last, clock, launches, histories>>

MaxAdopted == 8             \* MAX_ADOPTED_PATTERNS

Fates == {"unused", "valid", "taken", "mirrored", "applied", "failed", "withdrawn"}
Launch == [token : 1..MaxToken, owner : Owners, scene : Scenes, deadline : Nat]
Request == [token : 1..MaxToken, owner : Owners, scene : Scenes,
            quantized : BOOLEAN, snap : BOOLEAN]
Message == [op : {"schedule"}, req : Request]
    \cup [op : {"mirrored", "cancel"}, token : 1..MaxToken]
    \cup [op : {"cancelOwner"}, owner : Owners] \cup [op : {"cancelAll"}]
Due == [token : 1..MaxToken, owner : Owners, scene : Scenes, applied : BOOLEAN]
Job == [op : {"submit"}, req : Request] \cup [op : {"apply"}, due : Due]
    \cup [op : {"ack", "forget"}, token : 1..MaxToken]
Snapshot == [pattern : Scenes, epoch : Nat, playing : BOOLEAN,
             content : [Tracks -> Scenes]]

\* The types; no channel and no list of adoptions outgrows its capacity.
TypeOK ==
    /\ fate \in [1..MaxToken -> Fates] /\ ownerTok \in [Owners -> 0..MaxToken]
    /\ work \in Seq(Job) /\ toggles \in 0..MaxToggles
    /\ {published, base} \subseteq Snapshot
    /\ requests \in Seq(Message) /\ Len(requests) <= RequestCapacity
    /\ dues \in Seq(Due) /\ Len(dues) <= DueCapacity /\ backlog \in Seq(Due)
    /\ stage \in {"load", "receive", "schedule"}
    /\ last \in [pattern : Scenes, epoch : Nat, playing : BOOLEAN]
    /\ frontier \in 0..MaxBeat /\ ahead \in 0..frontier
    /\ pending \subseteq Launch /\ boundary \subseteq Launch
    /\ owned \in [Owners -> 0..MaxToken]
    /\ installed \in Seq([token : 1..MaxToken, scene : Scenes, tracks : SUBSET Tracks])
    /\ adopted \in Seq([token : 1..MaxToken, pattern : Scenes]) /\ Len(adopted) <= MaxAdopted
    /\ launched \in [Tracks -> Scenes \cup {None}] /\ {wiped, forgot} \subseteq BOOLEAN

\* The elements of a set by their keys, which are natural numbers.
InOrder(set, key) ==
    CHOOSE s \in Bijection(1..Cardinality(set), set) :
        \A i, j \in DOMAIN s : i <= j => key[s[i]] <= key[s[j]]

\* SelectSeq with a set for the test: the elements of s that are in it, in
\* their order.
Kept(s, set) ==
    LET at == InOrder({i \in DOMAIN s : s[i] \in set}, [i \in DOMAIN s |-> i])
    IN  [n \in DOMAIN at |-> s[at[n]]]

Whole(owner) == TracksOf[owner] = Tracks     \* a scene launch, not a track mask
rendered == frontier - ahead
Nothing == [t \in Tracks |-> None]

\* Control thread ----------------------------------------------------------

NextToken == Cardinality({t \in 1..MaxToken : fate[t] # "unused"}) + 1
HasRoom == Len(requests) < RequestCapacity
Withdrawn(tokens) == [t \in DOMAIN fate |-> IF t \in tokens /\ fate[t] = "valid"
                                            THEN "withdrawn" ELSE fate[t]]
\* A message a full channel refuses is lost: every sender but schedule
\* ignores the error.
Send(message) == requests' = IF HasRoom THEN Append(requests, message) ELSE requests

\* A token is taken before the request is known to fit; only a request that
\* was sent replaces its owner's launch.
Submitted(req) ==
    IF HasRoom
    THEN /\ Send([op |-> "schedule", req |-> req])
         /\ fate' = [Withdrawn({ownerTok[req.owner]}) EXCEPT ![req.token] = "valid"]
         /\ ownerTok' = [ownerTok EXCEPT ![req.owner] = req.token]
    ELSE /\ fate' = [fate EXCEPT ![req.token] = "failed"]
         /\ UNCHANGED <<requests, ownerTok>>

\* A quantized launch: a scene macro, the transport's scene switch, a clip.
\* Only a playing transport preflights a snapshot for the scheduler.
Click(owner, scene) ==
    /\ work = <<>> /\ NextToken <= MaxToken /\ owner \in Commands
    /\ Submitted([token |-> NextToken, owner |-> owner, scene |-> scene,
                  quantized |-> TRUE, snap |-> published.playing])
    /\ UNCHANGED <<work, toggles, published, wiped>>

\* A scene macro is released, a track stopped now.  Bound: one such request in
\* the channel at a time.
CancelOwner(owner) ==
    /\ work = <<>> /\ "release" \in Commands /\ owner # Transport
    /\ \A m \in Range(requests) : m.op # "cancelOwner"
    /\ fate' = Withdrawn({ownerTok[owner]})
    /\ ownerTok' = [ownerTok EXCEPT ![owner] = None]
    /\ Send([op |-> "cancelOwner", owner |-> owner])
    /\ UNCHANGED <<work, toggles, published, wiped>>

\* An unquantized scene switch: cancel everything pending, then hand it to the
\* scheduler's frontier, or apply it here when the transport is stopped.  (The
\* code gives the latter no token; here it takes one, which bounds it.)
LiveLaunch(scene) ==
    /\ work = <<>> /\ NextToken <= MaxToken /\ "live" \in Commands
    /\ fate' = [Withdrawn(1..MaxToken) EXCEPT ![NextToken] = "taken"]
    /\ ownerTok' = [o \in Owners |-> None]
    /\ wiped' = TRUE
    /\ Send([op |-> "cancelAll"])
    /\ work' = IF published.playing
               THEN <<[op |-> "submit",
                       req |-> [token |-> NextToken, owner |-> Transport, scene |-> scene,
                                quantized |-> FALSE, snap |-> TRUE]]>>
               ELSE <<[op |-> "apply",
                       due |-> [token |-> NextToken, owner |-> Transport, scene |-> scene,
                                applied |-> FALSE]]>>
    /\ UNCHANGED <<toggles, published>>

\* A live launch the full channel refuses is applied by the control thread.
Submit ==
    /\ work # <<>> /\ Head(work).op = "submit"
    /\ LET req == Head(work).req
       IN  /\ Submitted(req)
           /\ work' = IF HasRoom THEN <<>>
                      ELSE <<[op |-> "apply",
                              due |-> [token |-> req.token, owner |-> req.owner,
                                       scene |-> req.scene, applied |-> FALSE]]>>
    /\ UNCHANGED <<toggles, published, wiped>>

\* drain_valid_due: dues of tokens no longer valid are dropped.
DrainDues ==
    /\ work = <<>> /\ dues # <<>>
    /\ LET mine == Kept(dues, {d \in Range(dues) : fate[d.token] = "valid"})
           taken == {d.token : d \in Range(mine)}
       IN  /\ work' = [i \in DOMAIN mine |-> [op |-> "apply", due |-> mine[i]]]
           /\ fate' = [t \in DOMAIN fate |-> IF t \in taken THEN "taken" ELSE fate[t]]
           /\ ownerTok' = [o \in Owners |-> IF ownerTok[o] \in taken THEN None ELSE ownerTok[o]]
    /\ dues' = <<>>
    /\ UNCHANGED <<toggles, published, requests, wiped>>

\* The launched content becomes the base snapshot's.  A launch the scheduler
\* already made audible is mirrored without an epoch bump.
Apply ==
    /\ work # <<>> /\ Head(work).op = "apply"
    /\ LET d == Head(work).due
       IN  /\ fate' = [fate EXCEPT ![d.token] = IF d.applied THEN "mirrored" ELSE "applied"]
           /\ published' =
                [published EXCEPT
                   !.pattern = IF Whole(d.owner) THEN d.scene ELSE @,
                   !.epoch = IF d.applied THEN @ ELSE @ + 1,
                   !.content = [t \in Tracks |-> IF t \in TracksOf[d.owner] THEN d.scene ELSE @[t]]]
           /\ work' = (IF d.applied THEN <<[op |-> "ack", token |-> d.token]>> ELSE <<>>)
                      \o Tail(work)
    /\ UNCHANGED <<ownerTok, toggles, requests, wiped>>

\* A failed mirror is acknowledged all the same, and its adoption forgotten.
\* (mutant of AfterFailure: the error returns before the acknowledgement)
NothingAfter(due) == <<>>
AfterFailure(due) ==
    IF due.applied THEN <<[op |-> "ack", token |-> due.token],
                          [op |-> "forget", token |-> due.token]>>
    ELSE <<>>

\* The scene or the cell is gone by now: nothing is published.
ApplyFails ==
    /\ CanFail /\ work # <<>> /\ Head(work).op = "apply"
    /\ LET d == Head(work).due
       IN  /\ fate' = [fate EXCEPT ![d.token] = "failed"]
           /\ work' = AfterFailure(d) \o Tail(work)
    /\ UNCHANGED <<ownerTok, toggles, published, requests, wiped>>

Acknowledge ==
    /\ work # <<>> /\ Head(work).op \in {"ack", "forget"}
    /\ Send([op |-> IF Head(work).op = "ack" THEN "mirrored" ELSE "cancel",
             token |-> Head(work).token])
    /\ work' = Tail(work)
    /\ UNCHANGED <<fate, ownerTok, toggles, published, wiped>>

\* Play and stop bump the epoch too.
TogglePlay ==
    /\ work = <<>> /\ toggles < MaxToggles
    /\ toggles' = toggles + 1
    /\ published' = [published EXCEPT !.playing = ~@, !.epoch = @ + 1]
    /\ UNCHANGED <<fate, ownerTok, work, requests, wiped>>

\* Scheduler thread --------------------------------------------------------

\* The next grid beat strictly after the given one.
Deadline(beat, playing, quantized) ==
    IF playing /\ quantized THEN (beat \div Grid) * Grid + Grid ELSE beat

\* The pass's snapshot is loaded before the requests are received.
Load ==
    /\ stage = "load" /\ stage' = "receive"
    /\ base' = published
    /\ UNCHANGED <<last, clock, launches, dues, requests, histories>>

Without(set, tokens) == {l \in set : l.token \notin tokens}
Dropped(seq, tokens) == Kept(seq, {x \in Range(seq) : x.token \notin tokens})

ReceiveSchedule(req) ==
    LET replaced == {owned[req.owner]} \ {None}
        own == base.playing /\ req.snap
        launch == [token |-> req.token, owner |-> req.owner, scene |-> req.scene,
                   deadline |-> Deadline(IF own THEN frontier ELSE rendered,
                                         base.playing, req.quantized)]
    IN  /\ owned' = [owned EXCEPT ![req.owner] = req.token]
        /\ pending' = Without(pending, replaced) \cup (IF own THEN {} ELSE {launch})
        /\ boundary' = Without(boundary, replaced) \cup (IF own THEN {launch} ELSE {})
        /\ UNCHANGED <<installed, adopted, backlog>>

ReceiveCancelToken(token) ==
    /\ owned' = [o \in Owners |->
                   IF owned[o] = token /\ \E l \in pending \cup boundary : l.token = token
                   THEN None ELSE owned[o]]
    /\ pending' = Without(pending, {token})
    /\ boundary' = Without(boundary, {token})
    /\ installed' = Dropped(installed, {token})
    /\ adopted' = Dropped(adopted, {token})
    /\ backlog' = Dropped(backlog, {token})

\* The owner's token is forgotten when its launch is installed, so this
\* cannot find an installed launch.
ReceiveCancelOwner(owner) ==
    LET token == {owned[owner]} \ {None}
    IN  /\ owned' = [owned EXCEPT ![owner] = None]
        /\ pending' = Without(pending, token)
        /\ boundary' = {l \in boundary : l.token \notin token /\ l.owner # owner}
        /\ installed' = Dropped(installed, token)
        /\ adopted' = Dropped(adopted, token)
        /\ backlog' = Kept(backlog, {d \in Range(backlog) : d.owner # owner})

ReceiveCancelAll ==
    /\ pending' = {} /\ boundary' = {} /\ owned' = [o \in Owners |-> None]
    /\ installed' = <<>> /\ adopted' = <<>> /\ backlog' = <<>>

\* (mutant of ReceiveMirrored: the acknowledgement releases the adoption too)
ReleaseAdoption(token) ==
    /\ installed' = Dropped(installed, {token}) /\ adopted' = Dropped(adopted, {token})
    /\ UNCHANGED <<pending, boundary, owned, backlog>>

\* The adoption outlives the override: the mirror it waits for may not be in
\* this pass's snapshot.
ReceiveMirrored(token) ==
    /\ installed' = Dropped(installed, {token})
    /\ UNCHANGED <<pending, boundary, owned, adopted, backlog>>

Receive ==
    /\ stage = "receive" /\ requests # <<>>
    /\ LET m == Head(requests)
       IN  \/ m.op = "schedule" /\ ReceiveSchedule(m.req)
           \/ m.op = "cancel" /\ ReceiveCancelToken(m.token)
           \/ m.op = "cancelOwner" /\ ReceiveCancelOwner(m.owner)
           \/ m.op = "cancelAll" /\ ReceiveCancelAll
           \/ m.op = "mirrored" /\ ReceiveMirrored(m.token)
    /\ requests' = Tail(requests)
    /\ UNCHANGED <<stage, base, last, clock, dues, histories>>

DueOf(l, applied) == [token |-> l.token, owner |-> l.owner, scene |-> l.scene,
                      applied |-> applied]
InTokenOrder(set) == InOrder(set, [l \in set |-> l.token])

\* (mutant of Degraded: a stop forgets what the scheduler was to install)
ForgottenOnStop == {}
\* A stopped transport degrades what the scheduler would have installed to
\* launches the control thread applies.
Degraded ==
    IF base.playing THEN {} ELSE {[l EXCEPT !.deadline = rendered] : l \in boundary}

Fitting(n) == Min({n, DueCapacity - Len(dues)})

\* The rest of process: what is due is reported in token order, as far as the
\* due channel has room.
Report ==
    LET ready == {l \in pending \cup Degraded : l.deadline <= rendered}
        order == InTokenOrder(ready)
        out == backlog \o [i \in DOMAIN order |-> DueOf(order[i], FALSE)]
        sent == Fitting(Len(out))
    IN  /\ pending' = (pending \cup Degraded) \ ready
        /\ boundary' = IF base.playing THEN boundary ELSE {}
        /\ owned' = [o \in Owners |-> IF \E l \in ready : l.token = owned[o] THEN None ELSE owned[o]]
        /\ installed' = IF base.playing THEN installed ELSE <<>>
        /\ dues' = dues \o SubSeq(out, 1, sent)
        /\ backlog' = SubSeq(out, sent + 1, Len(out))

\* What the scheduler remembers of the snapshot it compared against.
Observed == [pattern |-> base.pattern, epoch |-> base.epoch, playing |-> base.playing]
Adoption(pattern) == {i \in DOMAIN adopted : adopted[i].pattern = pattern}

SettleStopped ==
    /\ stage = "receive" /\ requests = <<>> /\ ~base.playing
    /\ Report
    /\ adopted' = <<>> /\ forgot' = (forgot \/ adopted # <<>>)
    /\ frontier' = 0 /\ ahead' = 0 /\ launched' = Nothing
    /\ last' = Observed /\ stage' = "load"
    /\ UNCHANGED <<requests, base>>

PatternSwitched == last.pattern # base.pattern
Adopts == PatternSwitched /\ Adoption(base.pattern) # {}
Resyncs ==
    \/ last.epoch # base.epoch
    \/ PatternSwitched /\ ~Adopts

\* A switch the scheduler adopted is no switch; any other clears the queue
\* and rebuilds the horizon from the rendered beat.
SettlePlaying ==
    /\ stage = "receive" /\ requests = <<>> /\ base.playing
    /\ Report
    /\ adopted' = IF ~PatternSwitched THEN adopted
                  ELSE IF Adopts THEN SubSeq(adopted, Min(Adoption(base.pattern)) + 1, Len(adopted))
                  ELSE <<>>
    /\ IF ~last.playing THEN frontier' = 0 /\ ahead' = 0 /\ launched' = Nothing
       ELSE IF Resyncs THEN frontier' = rendered /\ ahead' = 0 /\ launched' = Nothing
       ELSE UNCHANGED <<clock, launched>>
    /\ stage' = "schedule"
    /\ UNCHANGED <<requests, base, last, forgot>>

\* Launches whose beat the frontier stands on, in the order they are installed:
\* by beat, then by token.
Arrived ==
    LET now == {l \in boundary : l.deadline <= frontier}
    IN  InOrder(now, [l \in now |-> l.deadline * (MaxToken + 1) + l.token])

Override(l) == [token |-> l.token, scene |-> l.scene, tracks |-> TracksOf[l.owner]]
\* A scene launch replaces every track: what was installed before it goes.
Installs(overrides) ==
    LET whole == {i \in DOMAIN overrides : overrides[i].tracks = Tracks}
    IN  IF whole = {} THEN overrides ELSE SubSeq(overrides, Max(whole), Len(overrides))

\* What the newest of some overrides puts on a track, if any.
Newest(overrides, t, otherwise) ==
    LET over == {i \in DOMAIN overrides : t \in overrides[i].tracks}
    IN  IF over = {} THEN otherwise ELSE overrides[Max(over)].scene

\* What a chunk schedules on a track: the newest override of it, or the base.
Plays(overrides, t) == Newest(overrides, t, base.content[t])

\* (mutant of ChunkEnd: the chunk is not clamped at the next launch)
UnclampedEnd(waiting) == Min({frontier + Block, rendered + Lookahead})
\* A chunk never crosses the next launch's beat.
ChunkEnd(waiting) ==
    Min({frontier + Block, rendered + Lookahead} \cup {l.deadline : l \in waiting})

Horizon == Min({rendered + Lookahead, MaxBeat})

ScheduleChunk ==
    /\ stage = "schedule" /\ frontier < Horizon
    /\ LET now == Arrived
           overrides == Installs(installed \o [i \in DOMAIN now |-> Override(now[i])])
           scenes == Kept(now, {l \in Range(now) : Whole(l.owner)})
           adoptions == adopted \o [i \in DOMAIN scenes |->
                                      [token |-> scenes[i].token, pattern |-> scenes[i].scene]]
           waiting == boundary \ Range(now)
           end == Min({ChunkEnd(waiting), MaxBeat})
       IN  /\ boundary' = waiting
           /\ owned' = [o \in Owners |-> IF \E l \in Range(now) : l.token = owned[o]
                                         THEN None ELSE owned[o]]
           /\ installed' = overrides
           /\ adopted' = SubSeq(adoptions, Max({0, Len(adoptions) - MaxAdopted}) + 1,
                                Len(adoptions))
           /\ forgot' = (forgot \/ Len(adoptions) > MaxAdopted)
           /\ backlog' = backlog \o [i \in DOMAIN now |-> DueOf(now[i], TRUE)]
           /\ launched' = [t \in Tracks |-> Newest([i \in DOMAIN now |-> Override(now[i])],
                                                   t, launched[t])]
           /\ frontier' = end /\ ahead' = ahead + (end - frontier)
    /\ UNCHANGED <<requests, dues, stage, base, last, pending>>

PassDone ==
    /\ stage = "schedule" /\ frontier >= Horizon
    /\ last' = Observed /\ stage' = "load"
    /\ UNCHANGED <<requests, dues, base, clock, launches, histories>>

\* Audio: the position moves between two passes; the scheduler reads it once
\* per pass.  An audio thread that outruns the frontier is not modelled.
Render ==
    /\ stage = "load" /\ ahead > 0
    /\ ahead' = ahead - 1
    /\ UNCHANGED <<control, requests, dues, stage, base, last, frontier, launches, histories>>

Init ==
    /\ fate = [t \in 1..MaxToken |-> "unused"]
    /\ ownerTok = [o \in Owners |-> None]
    /\ work = <<>> /\ toggles = 0
    /\ published = [pattern |-> FirstScene, epoch |-> 0, playing |-> FALSE,
                    content |-> [t \in Tracks |-> FirstScene]]
    /\ requests = <<>> /\ dues = <<>>
    /\ stage = "load" /\ base = published
    /\ last = Observed
    /\ frontier = 0 /\ ahead = 0
    /\ pending = {} /\ boundary = {} /\ owned = [o \in Owners |-> None]
    /\ installed = <<>> /\ adopted = <<>> /\ backlog = <<>>
    /\ launched = Nothing /\ wiped = FALSE /\ forgot = FALSE

Control ==
    /\ \/ \E o \in Owners, s \in Scenes : Click(o, s)
       \/ \E s \in Scenes : LiveLaunch(s)
       \/ \E o \in Owners : CancelOwner(o)
       \/ Submit \/ Apply \/ ApplyFails \/ Acknowledge \/ TogglePlay
    /\ UNCHANGED dues

Scheduler ==
    Load \/ Receive \/ SettleStopped \/ SettlePlaying \/ ScheduleChunk \/ PassDone

Next ==
    \/ (Control \/ DrainDues) /\ UNCHANGED <<stage, base, last, clock, launches, histories>>
    \/ Scheduler /\ UNCHANGED control
    \/ Render

Spec == Init /\ [][Next]_vars

\* Properties --------------------------------------------------------------

InTransit(token) == \E d \in Range(backlog \o dues) : d.token = token

\* No launch is lost: while the control thread holds a launch's token valid
\* (and shows it as queued), the launch is still on its way -- in the request
\* channel, waiting for its beat at the scheduler, or reported as due.
ValidIsLive ==
    \A t \in 1..MaxToken : fate[t] = "valid" =>
        \/ \E m \in Range(requests) : m.op = "schedule" /\ m.req.token = t
        \/ \E l \in pending \cup boundary : l.token = t
        \/ InTransit(t)

\* The frontier never passes the beat of a launch the scheduler is to install:
\* the chunk is clamped at it, so the launch starts exactly there.
BoundaryNotPassed == \A l \in boundary : frontier <= l.deadline

\* Somebody still has to release the override of launch t: its due is on the
\* way to a control thread that will mirror it, or is being mirrored, or the
\* message that releases it is in the request channel.
Owed(t) ==
    \/ fate[t] = "valid" /\ InTransit(t)
    \/ \E i \in DOMAIN work : \/ work[i].op = "apply" /\ work[i].due.token = t
                              \/ work[i].op \in {"ack", "forget"} /\ work[i].token = t
    \/ \E m \in Range(requests) : \/ m.op \in {"mirrored", "cancel"} /\ m.token = t
                                  \/ m.op = "cancelAll"

\* An installed override whose launch was not withdrawn is always going to be
\* released, whatever became of its mirror.
OverrideIsOwed ==
    \A i \in DOMAIN installed :
        fate[installed[i].token] # "withdrawn" => Owed(installed[i].token)

Quiet == /\ requests = <<>> /\ work = <<>> /\ dues = <<>>
         /\ pending = {} /\ boundary = {} /\ backlog = <<>>

\* acknowledge_mirror's comment: "so the override never leaks".  With nothing
\* under way any more, no override is left.  One is, when a launch is replaced
\* or its owner cancelled after it was installed: the due of a token no longer
\* valid is dropped without an acknowledgement.  So no run checks this.
OverrideNeverLeaks == Quiet => installed = <<>>

\* No launch was withdrawn, failed, or left to the control thread so far.
Undisturbed ==
    \A t \in 1..MaxToken : fate[t] \notin {"withdrawn", "failed", "applied"}

\* A pattern that changes without an epoch bump is a mirror's, and is adopted:
\* the queue is not cleared for it.
MirrorIsNoSwitch ==
    SettlePlaying /\ last.playing /\ PatternSwitched /\ last.epoch = base.epoch => Adopts

\* adopted_patterns' comment: the adoption is "released when the worker
\* actually observes the published pattern change", so that the resync cannot
\* "fire on the mirror and undo the boundary split".  A live launch cancels
\* everything, the adoption of a launch already mirrored included; a stop
\* forgets the adoptions of launches that are mirrored when it plays again: no
\* run checks this.
MirrorIsNotAResync == [][Undisturbed => MirrorIsNoSwitch]_vars

\* Short of that, and of more launches on their way than adoptions are kept,
\* no mirror makes the scheduler clear the queue of a playing transport,
\* however publications, acknowledgements, stops and the next launches
\* interleave.
OnlyForgottenResyncs == [][Undisturbed /\ ~wiped /\ ~forgot => MirrorIsNoSwitch]_vars

\* A chunk schedules on every track what the last launch put there.
PlaysLaunched ==
    ScheduleChunk => \A t \in Tracks : launched'[t] # None => Plays(installed', t) = launched'[t]

\* BoundaryMirrored's comment: "the base snapshot now carries the launched
\* content".  The base of this pass was loaded before the acknowledgement was
\* received, so it may not: the old scene is scheduled again for a pass, and no
\* run checks this.
NeverTakenBack == [][Undisturbed /\ ~wiped => PlaysLaunched]_vars

\* Nothing else takes a launch back: with an up-to-date base, once a launch is
\* installed on a track only another launch of that track changes what plays.
TakenBackOnlyByStaleBase ==
    [][Undisturbed /\ ~wiped /\ base.content = published.content => PlaysLaunched]_vars

\* The mirror of an installed launch changes nothing one hears: it neither makes
\* the scheduler start over nor takes the launch back.
MirrorIsSilent == OnlyForgottenResyncs /\ TakenBackOnlyByStaleBase
=============================================================================
