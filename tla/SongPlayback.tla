---------------------------- MODULE SongPlayback ----------------------------
(***************************************************************************)
(* Song playback: the control thread compiles the arrangement into an      *)
(* immutable song and hands it to the scheduler worker, which owns the     *)
(* cursor; edits follow as Refresh and Rebuild commands, and the worker    *)
(* answers with a notice for every row it enters, which the control thread *)
(* mirrors into the live grid.                                             *)
(*                                                                         *)
(* Musical time is counted in ticks.  A tempo is a number of ticks per     *)
(* sample, so a beat between two samples is a beat that is no multiple of  *)
(* the tempo.  Songs are played open-ended, as prepare_song_playback       *)
(* always asks.                                                            *)
(***************************************************************************)
EXTENDS Integers, Sequences, Functions, FiniteSets

CONSTANTS
    Arrangements,    \* the layouts the arrangement can be edited into
    Compiled,        \* each layout's rows, end beat and loop flag
    Sources,         \* what a row resolves its lanes to
    Tempos,          \* ticks per sample
    Cursors,         \* beats playback is started from
    Block,           \* scheduler_block_size
    Lookahead,       \* samples a pass schedules ahead of the render head
    MaxLate,         \* bound on the samples rendered past what was scheduled
    CommandCapacity, \* SONG_COMMAND_CAPACITY
    NoticeCapacity,  \* SONG_NOTICE_CAPACITY
    MaxGestures,     \* bound on the starts and the edits taken together
    MaxBeat,         \* bound on the clock, and on the samples since the origin,
                     \* from which on no chunk is planned
    None

ASSUME CompiledAssumption ==
    \A a \in Arrangements :
        LET rows == Compiled[a].rows
            n == Len(rows)
        IN /\ rows \in Seq([start : Nat, source : Sources]) /\ n > 0 /\ rows[1].start = 0
           /\ \A i, j \in 1..n : i < j => rows[i].start < rows[j].start
           /\ Compiled[a].end \in Nat /\ rows[n].start < Compiled[a].end
           /\ Compiled[a].loop \in BOOLEAN
ASSUME TimeAssumption ==
    /\ Tempos \subseteq Nat \ {0} /\ Cursors \subseteq Nat
    /\ {Block, Lookahead, MaxBeat} \subseteq Nat \ {0} /\ MaxLate \in Nat
ASSUME CapacityAssumption ==
    {CommandCapacity, NoticeCapacity} \subseteq Nat \ {0} /\ MaxGestures \in Nat

Maybe(S) == S \cup {None}
Songs == [layout : Arrangements, version : Nat, tempo : Tempos]
Runtimes ==
    [song : Songs, pending : Maybe(Songs), from : Maybe(Sources \cup {"wrap"}),
     tempo : Tempos, startBeat : Nat, initial : Nat \ {0}, row : Nat \ {0}, offset : Nat,
     elapsed : Int, anchor : Nat, started : BOOLEAN, retimed : BOOLEAN,
     missed : BOOLEAN, slipped : BOOLEAN, rewound : BOOLEAN, skewed : BOOLEAN]
Commands ==
    [kind : {"start"}, song : Songs, beat : Nat] \cup [kind : {"refresh", "rebuild"}, song : Songs]
        \cup [kind : {"stop"}]
Notices == [row : Nat \ {0}, wrapped : BOOLEAN, layout : Arrangements]
Transports == [playing : BOOLEAN, tempo : Tempos, play : Nat]
Chunks == [song : Songs, row : Nat \ {0}, frames : 1..Block, beat : Nat,
           wrapped : BOOLEAN, resets : BOOLEAN, rewound : BOOLEAN, skewed : BOOLEAN]

ASSUME NoneAssumption ==
    None \notin Songs \cup Runtimes \cup Chunks \cup Sources \cup {"wrap"} \cup Nat

VARIABLES
    \* control thread
    arrangement, \* the committed layout, and the version of its patterns
    bpm,         \* TransportState.bpm
    active,      \* active_runtime_song
    mirrored,    \* song_mirrored_row
    live,        \* what the live grid was last given to play
    starting,    \* between prepare_song_playback and start_playback
    stopping,    \* between stop_song_playback and the coalesced publication
    \* shared
    published,   \* the scheduler snapshot's transport
    commands,    \* the command channel
    notices,     \* the notice channel
    \* scheduler worker
    pc, snapshot, wasPlaying,
    clock,       \* SnapshotSequencerClock.total_beats
    ahead,       \* scheduled_until_sample less the render head of the pass
    song,        \* lookahead_state.song: SongPlaybackRuntime
    \* ghosts
    chunk,       \* the last chunk planned from this song
    noted,       \* the layout the mirrored ordinal, if any, was renumbered for
    mistaken,    \* the last notice, or the ordinal that suppressed it, was of another layout
    dropped,     \* the last notice found no room
    gestures,    \* starts and edits made
    plays        \* starts made

control_vars == <<arrangement, bpm, active, mirrored, live, starting, stopping>>
spent_vars == <<gestures, plays>>
worker_vars == <<pc, snapshot, wasPlaying, clock, ahead, song, chunk, dropped>>
mirror_vars == <<noted, mistaken>>
vars == <<control_vars, published, commands, notices, worker_vars, mirror_vars, spent_vars>>

-----------------------------------------------------------------------------
(* RuntimeSong and its cursor                                              *)

\* preflight_runtime_song: the song compiled now, at the tempo of now.
Preflight(a) == [layout |-> a.layout, version |-> a.version, tempo |-> bpm]

Rows(s) == Compiled[s.layout].rows
EndBeat(s) == Compiled[s.layout].end
Loops(s) == Compiled[s.layout].loop
RowSource(s, row) == Rows(s)[row].source

RowIndexAtBeat(s, beat) ==
    CHOOSE r \in DOMAIN Rows(s) :
        /\ Rows(s)[r].start <= beat
        /\ \A q \in DOMAIN Rows(s) : Rows(s)[q].start <= beat => q <= r

NormalizeStartBeat(s, beat) == IF Loops(s) THEN beat % EndBeat(s) ELSE beat

Least(a, b) == IF a < b THEN a ELSE b
Most(a, b) == IF a > b THEN a ELSE b

\* ceil(beat * samples_per_quarter)
Frame(beat, tempo) == (beat + tempo - 1) \div tempo

NewRuntime(s, beat, tempo) ==
    LET row == RowIndexAtBeat(s, beat) IN
    [song |-> s, pending |-> None, from |-> None, tempo |-> tempo, startBeat |-> beat,
     initial |-> row, row |-> row, offset |-> beat, elapsed |-> 0,
     anchor |-> Rows(s)[row].start, started |-> FALSE,
     retimed |-> s.tempo # tempo, missed |-> FALSE, slipped |-> FALSE,
     rewound |-> FALSE, skewed |-> FALSE]

Sounding(r) == RowSource(r.song, r.row)
Newest(r) == IF r.pending = None THEN r.song ELSE r.pending
SameLayout(s, t) == s.layout = t.layout

\* replace_song_in_place, which never looks at a rebuild that waits: where one
\* does, its older song is installed over the refreshed one.
Replace(r, s) ==
    IF SameLayout(s, r.song)
    THEN [r EXCEPT !.song = s, !.retimed = @ \/ s.tempo # r.tempo, !.missed = r.pending # None]
    ELSE [r EXCEPT !.missed = TRUE]

\* (mutant of Install: an older rebuild goes on waiting)
InstallKeepsWaiting(r, s, row, atBoundary) ==
    [r EXCEPT !.from = IF atBoundary THEN Sounding(r) ELSE @,
              !.anchor = IF atBoundary THEN Rows(s)[row].start ELSE @,
              !.song = s, !.row = row, !.initial = RowIndexAtBeat(s, r.startBeat),
              !.retimed = @ \/ s.tempo # r.tempo, !.rewound = FALSE]

\* install_rebuild
Install(r, s, row, atBoundary) ==
    [r EXCEPT !.from = IF atBoundary THEN Sounding(r) ELSE @,
              !.anchor = IF atBoundary THEN Rows(s)[row].start ELSE @,
              !.song = s, !.row = row, !.pending = None,
              !.initial = RowIndexAtBeat(s, r.startBeat),
              !.retimed = @ \/ s.tempo # r.tempo, !.rewound = FALSE]

\* (mutant of Rebuild: a row that changes under the playhead is switched at once)
RebuildAtOnce(r, s, beats) ==
    [Install(r, s, RowIndexAtBeat(s, r.offset + beats), FALSE) EXCEPT !.missed = FALSE]

\* rebuild_song: at once where the sounding row stays what it is, past the new
\* end and before the first chunk; else at the sounding row's boundary.
Rebuild(r, s, beats) ==
    LET row == RowIndexAtBeat(s, r.offset + beats)
        pastEnd == r.offset + beats >= EndBeat(s)
        changes == Sounding(r) # RowSource(s, row)
    IN IF ~r.started \/ ~changes \/ pastEnd
       THEN [Install(r, s, row, FALSE) EXCEPT !.missed = FALSE,
                                              !.slipped = @ \/ (r.started /\ changes)]
       ELSE [r EXCEPT !.pending = s, !.missed = FALSE]

\* reset: a rebuild still waiting is forgotten.
Reset(r) ==
    [r EXCEPT !.row = r.initial, !.offset = r.startBeat, !.elapsed = 0,
              !.anchor = Rows(r.song)[r.initial].start, !.pending = None, !.from = None,
              !.started = FALSE, !.slipped = FALSE, !.rewound = FALSE, !.skewed = FALSE,
              !.missed = @ \/ r.pending # None]

\* (mutant of BoundaryElapsed: counted from the song's start, wherever the pass began)
BoundaryFromZero(r, beat) == Frame(beat, r.tempo)

\* The boundary's distance in samples from the origin of the pass.
BoundaryElapsed(r, beat) ==
    IF beat > r.offset THEN Frame(beat, r.tempo) - Frame(r.offset, r.tempo) ELSE 0

IsLastRow(r) == r.row = Len(Rows(r.song))
BoundaryBeat(r) == IF IsLastRow(r) THEN EndBeat(r.song) ELSE Rows(r.song)[r.row + 1].start
Remaining(r) ==
    LET at == BoundaryElapsed(r, BoundaryBeat(r)) IN IF at > r.elapsed THEN at - r.elapsed ELSE 0

-----------------------------------------------------------------------------
(* Control thread                                                          *)

Init ==
    /\ \E a \in Arrangements, t \in Tempos :
        /\ arrangement = [layout |-> a, version |-> 0]
        /\ bpm = t
        /\ live = Compiled[a].rows[1].source
        /\ published = [playing |-> FALSE, tempo |-> t, play |-> 0]
    /\ active = None /\ mirrored = None /\ starting = FALSE /\ stopping = FALSE
    /\ commands = <<>> /\ notices = <<>>
    /\ pc = "load" /\ snapshot = published /\ wasPlaying = FALSE
    /\ clock = 0 /\ ahead = 0 /\ song = None /\ chunk = None
    /\ noted = None /\ mistaken = FALSE /\ dropped = FALSE
    /\ gestures = 0 /\ plays = 0

ControlIdle == ~starting /\ ~stopping

SendFits == Len(commands) < CommandCapacity
Send(command) == commands' = IF SendFits THEN Append(commands, command) ELSE commands

StartCommand(s, beat) == [kind |-> "start", song |-> s, beat |-> beat]
EditCommand(kind, s)  == [kind |-> kind, song |-> s]
StopCommand           == [kind |-> "stop"]

\* song_transport_play up to the mode change: the row at the cursor is applied
\* to the live grid, then the song is sent.  A full channel refuses the start
\* after the row was applied.
Play(cursor) ==
    LET s == Preflight(arrangement)
        beat == NormalizeStartBeat(s, cursor)
        row == RowIndexAtBeat(s, beat)
    IN /\ ControlIdle /\ active = None /\ ~published.playing
       /\ gestures < MaxGestures
       /\ live' = RowSource(s, row)
       /\ Send(StartCommand(s, beat))
       /\ IF SendFits
          THEN active' = s /\ mirrored' = row /\ noted' = s.layout /\ starting' = TRUE
          ELSE UNCHANGED <<active, mirrored, noted, starting>>
       /\ mistaken' = FALSE
       /\ gestures' = gestures + 1 /\ plays' = plays + 1
       /\ UNCHANGED <<arrangement, bpm, stopping, published, notices, worker_vars>>

\* start_playback, in the same handler.
StartPlayback ==
    /\ starting
    /\ starting' = FALSE
    /\ published' = [published EXCEPT !.playing = TRUE, !.play = plays]
    /\ UNCHANGED <<arrangement, bpm, active, mirrored, live, stopping, commands, notices,
                   worker_vars, mirror_vars, spent_vars>>

\* song_playback_stop, whose publication is deferred to the end of its scope.
Stop ==
    /\ ControlIdle /\ active # None
    /\ Send(StopCommand)
    /\ active' = None /\ mirrored' = None /\ stopping' = TRUE
    /\ UNCHANGED <<arrangement, bpm, live, starting, published, notices, worker_vars,
                   mirror_vars, spent_vars>>

\* The publication, after the live grid went back to the current scene.
StopPlayback ==
    /\ stopping
    /\ stopping' = FALSE
    /\ published' = [published EXCEPT !.playing = FALSE]
    /\ UNCHANGED <<arrangement, bpm, active, mirrored, live, starting, commands, notices,
                   worker_vars, mirror_vars, spent_vars>>

MayEdit == ControlIdle /\ gestures < MaxGestures

\* (mutant of MirroredAfterRebuild: the old ordinal goes on suppressing notices)
MirroredKept == mirrored

\* The rows were renumbered: the next notice is mirrored whatever its ordinal.
MirroredAfterRebuild == None

\* An arrangement edit, its undo or redo: rebuild_active_song_after_arrangement_edit.
EditArrangement(a) ==
    /\ MayEdit /\ a # arrangement.layout
    /\ arrangement' = [arrangement EXCEPT !.layout = a]
    /\ IF active = None THEN UNCHANGED <<commands, active, mirrored, noted>>
       ELSE /\ Send(EditCommand("rebuild", Preflight(arrangement')))
            /\ IF SendFits
               THEN active' = Preflight(arrangement') /\ mirrored' = MirroredAfterRebuild /\ noted' = a
               ELSE UNCHANGED <<active, mirrored, noted>>
    /\ gestures' = gestures + 1 /\ UNCHANGED plays
    /\ UNCHANGED <<bpm, live, starting, stopping, published, notices, worker_vars, mistaken>>

\* An edit of a pattern some row plays: invalidate_song_rows_for_pattern.
EditPattern ==
    /\ MayEdit
    /\ arrangement' = [arrangement EXCEPT !.version = @ + 1]
    /\ IF active = None THEN UNCHANGED <<commands, active>>
       ELSE /\ Send(EditCommand("refresh", Preflight(arrangement')))
            /\ active' = IF SendFits THEN Preflight(arrangement') ELSE active
    /\ gestures' = gestures + 1 /\ UNCHANGED plays
    /\ UNCHANGED <<bpm, mirrored, live, starting, stopping, published, notices, worker_vars,
                   mirror_vars>>

\* A tempo edit is published; the song that plays is not told.
EditTempo(t) ==
    /\ MayEdit /\ t # bpm
    /\ bpm' = t
    /\ published' = [published EXCEPT !.tempo = t]
    /\ gestures' = gestures + 1 /\ UNCHANGED plays
    /\ UNCHANGED <<arrangement, active, mirrored, live, starting, stopping, commands,
                   notices, worker_vars, mirror_vars>>

\* mirror_song_row_applied: the ordinal is looked up in the control's own song;
\* the row a start has already applied is skipped, a wrap never.
MirrorSongRow ==
    LET n == Head(notices) IN
    /\ ControlIdle /\ notices # <<>>
    /\ notices' = Tail(notices)
    /\ IF active = None \/ n.row \notin DOMAIN Rows(active)
       THEN UNCHANGED <<live, mirrored, noted>> /\ mistaken' = (mistaken \/ active # None)
       ELSE IF n.wrapped \/ mirrored # n.row
            THEN /\ live' = RowSource(active, n.row)
                 /\ mirrored' = n.row /\ noted' = active.layout
                 /\ mistaken' = (n.layout # active.layout)
            ELSE /\ mistaken' = (n.layout # active.layout \/ noted # active.layout)
                 /\ UNCHANGED <<live, mirrored, noted>>
    /\ UNCHANGED <<arrangement, bpm, active, starting, stopping, published, commands,
                   worker_vars, spent_vars>>

-----------------------------------------------------------------------------
(* Scheduler worker                                                        *)

\* The render head, which the callback has moved since the last pass, perhaps
\* past everything that was scheduled, is read once, and then the snapshot.
LoadSnapshot ==
    /\ pc = "load"
    /\ pc' = "drain" /\ snapshot' = published
    /\ ahead' \in -MaxLate..ahead
    /\ UNCHANGED <<control_vars, published, commands, notices, wasPlaying, clock, song, chunk,
                   mirror_vars, dropped, spent_vars>>

\* What one command makes of the cursor, the clock and the frontier.
Apply(state, c) ==
    CASE c.kind = "start"   ->
            [song |-> NewRuntime(c.song, c.beat, snapshot.tempo), clock |-> 0, ahead |-> 0]
      [] c.kind = "stop"    -> [state EXCEPT !.song = None]
      [] c.kind = "refresh" /\ state.song # None -> [state EXCEPT !.song = Replace(@, c.song)]
      [] c.kind = "rebuild" /\ state.song # None ->
            [state EXCEPT !.song = Rebuild(@, c.song, state.clock)]
      [] OTHER -> state

\* The commands one after the other, from a state s.
After(cs, s) ==
    LET after[i \in 0..Len(cs)] ==
            IF i = 0 THEN s ELSE Apply(after[i - 1], cs[i])
    IN  after[Len(cs)]

Announce(r, wrapped) ==
    IF Len(notices) < NoticeCapacity
    THEN /\ notices' = Append(notices, [row |-> r.row, wrapped |-> wrapped,
                                        layout |-> r.song.layout])
         /\ dropped' = FALSE
    ELSE notices' = notices /\ dropped' = TRUE

\* seek_to_rendered_position and the frontier put back to the render head: the
\* next chunk begins there, at the beat the snapshot's tempo makes of it.  The
\* song is not told: its origin stays, and so does the row it has entered.
Rewound(state) ==
    LET back == Most(state.ahead, 0)
        Seek(r) == [r EXCEPT !.elapsed = @ - state.ahead, !.rewound = @ \/ back > 0,
                             !.skewed = \/ @ \/ state.ahead < 0 \/ back > r.elapsed
                                        \/ back > 0 /\ snapshot.tempo # r.song.tempo]
    IN [song  |-> IF state.song # None /\ state.song.started THEN Seek(state.song)
                  ELSE state.song,
        clock |-> Most(state.clock - back * snapshot.tempo, 0),
        ahead |-> 0]

\* The horizon is not reached; and, a bound, neither is the end of time.
InTime == clock < MaxBeat /\ (song # None => song.elapsed < MaxBeat)
MayPlan == ahead < Lookahead /\ InTime

\* The commands; the seek, where live MIDI-FX notes began or ended since the last
\* pass (or a layout edit invalidated what is queued); and what a stopped or a
\* starting transport makes of the cursor.  A pass whose horizon is reached
\* plans nothing.
DrainCommands(seeks) ==
    LET next == After(commands, [song |-> song, clock |-> clock, ahead |-> ahead])
        stopped == ~snapshot.playing
        sought == IF seeks /\ ~stopped THEN Rewound(next) ELSE next
        reset == stopped \/ ~wasPlaying
    IN /\ pc = "drain" /\ (seeks => InTime)
       /\ commands' = <<>>
       /\ wasPlaying' = snapshot.playing
       /\ clock' = IF reset THEN 0 ELSE sought.clock
       /\ ahead' = IF reset THEN 0 ELSE sought.ahead
       /\ song' = IF stopped /\ next.song # None THEN Reset(next.song) ELSE sought.song
       /\ chunk' = IF song' = None \/ ~song'.started THEN None ELSE chunk
       /\ pc' = IF ~stopped /\ MayPlan' THEN "plan" ELSE "load"
       /\ UNCHANGED <<control_vars, published, notices, snapshot, mirror_vars, dropped, spent_vars>>

\* No song: the chunk is the session's.
PlanSession ==
    /\ pc = "plan" /\ song = None
    /\ pc' \in {"plan", "load"}
    /\ UNCHANGED <<control_vars, published, commands, notices, snapshot, wasPlaying, clock,
                   ahead, song, chunk, mirror_vars, dropped, spent_vars>>

Cross(r, wrapped) ==
    /\ song' = r
    /\ Announce(r, wrapped)
    /\ UNCHANGED <<control_vars, published, commands, pc, snapshot, wasPlaying, ahead, chunk,
                   mirror_vars, spent_vars>>

PlanFirst ==
    /\ pc = "plan" /\ song # None /\ ~song.started
    /\ Cross([song EXCEPT !.started = TRUE], FALSE)
    /\ UNCHANGED clock

AtBoundary == pc = "plan" /\ song # None /\ song.started /\ Remaining(song) = 0

\* The row the beat falls in, under the layout that waited.
InstallAtBoundary ==
    /\ AtBoundary /\ song.pending # None
    /\ Cross(Install(song, song.pending,
                     RowIndexAtBeat(song.pending, song.offset + clock), TRUE), FALSE)
    /\ UNCHANGED clock

\* A wrap rewinds the clock and moves the origin to this sample.
WrapToStart ==
    /\ AtBoundary /\ song.pending = None /\ IsLastRow(song) /\ Loops(song.song)
    /\ Cross([song EXCEPT !.offset = 0, !.elapsed = 0, !.row = 1, !.anchor = 0, !.from = "wrap",
                          !.rewound = FALSE, !.skewed = FALSE], TRUE)
    /\ clock' = 0

EnterNextRow ==
    /\ AtBoundary /\ song.pending = None /\ ~IsLastRow(song)
    /\ Cross([song EXCEPT !.row = @ + 1, !.anchor = Rows(song.song)[song.row + 1].start,
                          !.from = IF @ = None THEN Sounding(song) ELSE @,
                          !.rewound = FALSE], FALSE)
    /\ UNCHANGED clock

\* (mutant of PreviousSource: the row before is looked up in the layout installed since)
PreviousInLayout(r) ==
    IF r.from = None THEN None ELSE RowSource(r.song, IF r.row = 1 THEN 1 ELSE r.row - 1)

\* transition_rows: what the accumulators compare the new row with.
PreviousSource(r) == r.from

\* The chunk ends at the boundary and at the horizon; past the end the last row
\* plays on.
PlanChunk ==
    LET left == Remaining(song)
        most == Least(Lookahead - ahead, Block)
        frames == IF left = 0 THEN most ELSE Least(left, most)
        previous == PreviousSource(song)
    IN /\ pc = "plan" /\ song # None /\ song.started /\ MayPlan
       /\ left = 0 => song.pending = None /\ IsLastRow(song) /\ ~Loops(song.song)
       /\ chunk' = [song |-> song.song, row |-> song.row, frames |-> frames,
                    beat |-> song.offset + clock, wrapped |-> previous = "wrap",
                    resets |-> previous # None /\ previous # Sounding(song),
                    rewound |-> song.rewound, skewed |-> song.skewed]
       /\ clock' = clock + frames * song.song.tempo
       /\ ahead' = ahead + frames
       /\ song' = [song EXCEPT !.elapsed = @ + frames, !.from = None]
       /\ pc' = IF MayPlan' THEN "plan" ELSE "load"
       /\ UNCHANGED <<control_vars, published, commands, notices, snapshot, wasPlaying,
                      mirror_vars, dropped, spent_vars>>

Plan == PlanSession \/ PlanFirst \/ InstallAtBoundary \/ WrapToStart \/ EnterNextRow
            \/ PlanChunk

Control ==
    \/ \E beat \in Cursors : Play(beat)
    \/ StartPlayback \/ Stop \/ StopPlayback
    \/ \E a \in Arrangements : EditArrangement(a)
    \/ EditPattern
    \/ \E t \in Tempos : EditTempo(t)
    \/ MirrorSongRow

Worker == LoadSnapshot \/ (\E seeks \in BOOLEAN : DrainCommands(seeks)) \/ Plan

Next == Control \/ Worker

Spec == Init /\ [][Next]_vars

-----------------------------------------------------------------------------
(* Properties                                                              *)

\* The types of the variables; the cursor and the mirrored ordinal name rows of
\* the song they index, and the channels keep to their capacities.
TypeOK ==
    /\ arrangement \in [layout : Arrangements, version : Nat] /\ bpm \in Tempos
    /\ active \in Maybe(Songs) /\ mirrored \in Maybe(Nat \ {0}) /\ live \in Sources
    /\ starting \in BOOLEAN /\ stopping \in BOOLEAN
    /\ published \in Transports /\ snapshot \in Transports
    /\ commands \in Seq(Commands) /\ Len(commands) <= CommandCapacity
    /\ notices \in Seq(Notices)
    /\ Len(notices) <= NoticeCapacity
    /\ pc \in {"load", "drain", "plan"} /\ wasPlaying \in BOOLEAN
    /\ clock \in Nat /\ ahead \in -MaxLate..Lookahead
    /\ song \in Maybe(Runtimes)
    /\ song # None => {song.row, song.initial} \subseteq DOMAIN Rows(song.song)
    /\ chunk \in Maybe(Chunks)
    /\ noted \in Maybe(Arrangements) /\ mistaken \in BOOLEAN /\ dropped \in BOOLEAN
    /\ gestures \in 0..MaxGestures /\ plays \in 0..MaxGestures

\* A chunk lies in the beats of the row it is planned from, wherever playback
\* began, whatever edits were installed and however often the frontier was taken
\* back: its last sample comes before the next row (or before the end that loops),
\* and it begins no whole sample before the row does.  Two exceptions, for which
\* see the README.  The beats a seek takes back before a row already entered are
\* planned again from that row.  And the boundaries are no longer where the clock
\* is once the rows' tempo is not the one they were laid out with, or once a seek
\* went by another tempo, back over a wrap, or on from a frontier that was late.
RowsSoundInTheirBeats ==
    chunk # None /\ ~song.retimed /\ ~chunk.skewed =>
        LET rows == Rows(chunk.song)
            lastBeat == chunk.beat + (chunk.frames - 1) * chunk.song.tempo
        IN /\ chunk.rewound \/ rows[chunk.row].start < chunk.beat + chunk.song.tempo
           /\ chunk.row < Len(rows) => lastBeat < rows[chunk.row + 1].start
           /\ chunk.row = Len(rows) /\ Loops(chunk.song) => lastBeat < EndBeat(chunk.song)

\* No chunk of a song's own pass is planned without the song: the command that
\* starts it is met before the snapshot that plays.
SongStartsFirst ==
    pc = "plan" /\ song = None => snapshot.play # plays \/ active = None

\* What is planned is the song: none of it before the song is there, and each
\* beat from its own row, but for the beats that are planned again and for a
\* clock that has come apart from the boundaries.
PlansTheSong == RowsSoundInTheirBeats /\ SongStartsFirst

\* With every command taken, what plays or waits to play is the song the
\* control thread believes in.
EditsAreHeard ==
    ControlIdle /\ commands = <<>> /\ active # None /\ song # None => Newest(song) = active

\* The same, for the edits that were not refused, not forgotten by a reset and
\* not refreshed under a rebuild that waits to replace them.
EditsAreHeardUnlessMissed ==
    song # None /\ ~song.missed => EditsAreHeard

\* With commands and notices taken, the live grid was given the row that sounds.
\* The exceptions: a notice read in a layout it was not sent from or dropped;
\* one that is suppressed by an ordinal of another layout, which a refresh brings
\* with it when the full channel refused the rebuild before it; and a row
\* switched past the end of a shortened song, which sends none.
MirrorIsSounding ==
    /\ ControlIdle /\ commands = <<>> /\ notices = <<>> /\ active # None
    /\ song # None /\ song.started /\ ~song.slipped /\ ~mistaken /\ ~dropped
    => live = Sounding(song)

EditKeepsWhatSounds ==
    /\ song # None /\ song.started /\ song' # None /\ song'.started /\ ~song'.slipped
    /\ pc = "drain"
    => Sounding(song') = Sounding(song)
       /\ song'.anchor - song'.offset = song.anchor - song.offset

ResetFollowsSource ==
    /\ chunk # None /\ chunk' # None /\ chunk' # chunk /\ ~song.slipped
    => \/ chunk'.wrapped
       \/ chunk'.resets
             <=> RowSource(chunk'.song, chunk'.row) # RowSource(chunk.song, chunk.row)

\* Only crossing a boundary switches: taking edits changes neither what sounds nor
\* its phase, and accumulators restart where the lanes' source is not what it was
\* in the chunk before, and only there or at a wrap, also when a waiting layout
\* came between.  The exception is the shortened song again.
OnlyBoundariesSwitch == [][EditKeepsWhatSounds /\ ResetFollowsSource]_vars

=============================================================================
