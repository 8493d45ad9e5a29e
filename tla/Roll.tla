-------------------------------- MODULE Roll --------------------------------
(***************************************************************************)
(* Rolling: while roll mode is on, a held grid key repeats its note on     *)
(* every line of the roll grid, and a held sequence-roll source loops the  *)
(* pattern under it.  The control thread turns gestures into commands and  *)
(* owns the held sources; the scheduler worker drains the commands once a  *)
(* pass, keeps the held notes and plans the hits ahead of the audio; and a *)
(* step of the pattern may engage a roll of its own (`roll!`), which arms  *)
(* roll mode for as long as it lasts.                                      *)
(*                                                                         *)
(* Musical time is counted in units since playback started; a roll grid is *)
(* a number of units, and so are a chunk and the lookahead.                *)
(***************************************************************************)
EXTENDS Integers, Sequences, FiniteSets

CONSTANTS
    Notes,       \* (track, transpose) pairs, one grid key each
    Sources,     \* SequenceRollSource
    Grids,       \* Timebase::ROLL_RATES
    Durations,   \* how long a `roll!` may hold
    Block,       \* scheduler_block_size
    Lookahead,   \* lookahead_target_samples
    MaxBeat,     \* bound on the time played in one go
    MaxGestures, \* bound on the number of gestures
    None

ASSUME TimeAssumption ==
    /\ Grids \cup Durations \cup {Block, Lookahead} \subseteq Nat \ {0}
    /\ Grids # {} /\ MaxBeat \in Nat /\ MaxGestures \in Nat

VARIABLES
    \* control thread
    keys,      \* how the press of each grid key was routed
    pending,   \* the command a gesture has decided on and not yet pushed
    \* transport atomics
    mode,      \* roll_mode
    rate,      \* roll_rate
    rolling,   \* sequence_rolling
    \* roll_input, under its mutex
    sources,   \* RollInput.held
    commands,  \* RollInput.commands
    \* the scheduler snapshot: playing, and whether pattern_epoch has moved
    published,
    \* scheduler worker
    pc, snapshot, wasPlaying,
    holding,   \* roll_play_hold
    held,      \* RollState.held
    fresh,     \* RollState.newly_pressed
    windows,   \* RollState.window_start holds a window
    process,   \* RollState.process_roll
    frontier,  \* the clock's total_beats
    seen,      \* the render head as the pass read it
    rendered,  \* the render head
    \* ghosts
    promised,  \* the notes the commands pushed so far leave held
    lost,      \* promised notes that a stop cleared
    dropped,   \* notes whose release found roll mode off
    chosen,    \* what the user last set roll mode to
    retoggled, \* set on while a process roll that armed it was running
    overwritten, \* sequence_rolling stored over a release not yet drained
    hits,      \* hits planned from the pass's render head on, for the present press
    again,     \* hits a seek takes back although they have sounded
    twice,     \* another hit was planned twice for one press
    from,      \* beat from which a held note has to sound every line
    grid,      \* the rate the last chunk rolled at
    gestures

input == <<keys, pending, sources, commands>>
transport == <<mode, rate, rolling>>
worker == <<pc, snapshot, wasPlaying, holding>>
notes == <<held, fresh, windows, process>>
time == <<frontier, seen, rendered>>
promises == <<promised, lost, dropped, chosen, retoggled, overwritten>>
sound == <<hits, again, twice, from, grid>>
vars == <<input, transport, published, worker, notes, time, promises, sound, gestures>>

NoteOn(n) == [kind |-> "NoteOn", note |-> n]
NoteOff(n) == [kind |-> "NoteOff", note |-> n]
SequenceRoll(on) == [kind |-> "SequenceRoll", on |-> on]
SetRate(r) == [kind |-> "SetRate", rate |-> r]
ClearAll == [kind |-> "ClearAll"]
Publication == [kind |-> "Publication"] \* what Stop has left to do after its ClearAll
Commands == {NoteOn(n) : n \in Notes} \cup {NoteOff(n) : n \in Notes}
            \cup {SequenceRoll(on) : on \in BOOLEAN} \cup {SetRate(r) : r \in Grids}
            \cup {ClearAll}

ASSUME NoneAssumption ==
    None \notin Commands \cup {Publication} \cup [until : Nat, armed : BOOLEAN]

Earlier(a, b) == IF a <= b THEN a ELSE b
Later(a, b) == IF a <= b THEN b ELSE a

-----------------------------------------------------------------------------
(* RollState::apply_commands_with_clock_lagged.  ended collects the notes    *)
(* whose press a command has ended.                                          *)

Apply(s, c) ==
    CASE c.kind = "NoteOn" ->
            [s EXCEPT !.held = @ \cup {c.note},
                      !.fresh = IF c.note \in s.held THEN @ ELSE @ \cup {c.note}]
      [] c.kind = "NoteOff" ->
            [s EXCEPT !.held = @ \ {c.note}, !.fresh = @ \ {c.note},
                      !.ended = @ \cup {c.note}]
      [] c.kind = "SequenceRoll" -> [s EXCEPT !.windows = c.on]
      [] c.kind = "SetRate" -> s
      [] c.kind = "ClearAll" ->
            [held |-> {}, fresh |-> {}, windows |-> FALSE, ended |-> Notes]

\* The commands one after the other, from a state s.
After(cs, s) ==
    LET after[i \in 0..Len(cs)] ==
            IF i = 0 THEN s ELSE Apply(after[i - 1], cs[i])
    IN  after[Len(cs)]

Applied(cs, h, f, w) ==
    After(cs, [held |-> h, fresh |-> f, windows |-> w, ended |-> {}])

Has(cs, kind) == \E i \in DOMAIN cs : cs[i].kind = kind

\* cancel_process_roll and clear_sequence_rolling_if_unheld
Cancelled(t, clear) ==
    IF t.process = None THEN t
    ELSE [process |-> None, windows |-> FALSE,
          rolling |-> t.rolling /\ ~(clear /\ sources = {}),
          mode |-> t.mode /\ ~t.process.armed]

\* cancel_process_roll_for_commands
CancelledForCommands(t) ==
    IF Has(commands, "ClearAll") THEN Cancelled(t, TRUE)
    ELSE IF Has(commands, "SequenceRoll") THEN Cancelled(t, FALSE)
    ELSE t

Manual == [process |-> process, windows |-> windows, rolling |-> rolling, mode |-> mode]

-----------------------------------------------------------------------------
Init ==
    /\ keys = [n \in Notes |-> "up"] /\ pending = None
    /\ mode = FALSE /\ rate \in Grids /\ rolling = FALSE
    /\ sources = {} /\ commands = <<>>
    /\ published = [playing |-> FALSE, moved |-> FALSE]
    /\ pc = "poll" /\ snapshot = published /\ wasPlaying = FALSE /\ holding = FALSE
    /\ held = {} /\ fresh = {} /\ windows = FALSE /\ process = None
    /\ frontier = 0 /\ seen = 0 /\ rendered = 0
    /\ promised = {} /\ lost = {} /\ dropped = {} /\ chosen = FALSE
    /\ retoggled = FALSE /\ overwritten = FALSE
    /\ hits = {} /\ again = {} /\ twice = FALSE
    /\ from = [n \in Notes |-> 0] /\ grid = rate
    /\ gestures = 0

-----------------------------------------------------------------------------
(* The control thread.  Reading roll_mode and pushing the command it leads   *)
(* to are two steps.                                                         *)

Gesture == pending = None /\ gestures < MaxGestures /\ gestures' = gestures + 1

\* push_roll_command
Push ==
    /\ pending \notin {None, Publication}
    /\ pending' = None
    /\ commands' = Append(commands, pending)
    /\ promised' = Apply([held |-> promised, fresh |-> {}, windows |-> FALSE,
                          ended |-> {}], pending).held
    /\ IF pending = ClearAll
       THEN sources' = {} /\ rolling' = FALSE /\ overwritten' = FALSE
       ELSE UNCHANGED <<sources, rolling, overwritten>>
    /\ lost' = IF pending.kind = "NoteOn" THEN lost \ {pending.note} ELSE lost \cap promised'
    /\ dropped' = CASE pending.kind \in {"NoteOn", "NoteOff"} -> dropped \ {pending.note}
                    [] pending = ClearAll -> {}
                    [] OTHER -> dropped
    /\ UNCHANGED <<keys, mode, rate, published, worker, notes, time, chosen, retoggled,
                   sound, gestures>>

PressKey(n) ==
    /\ Gesture /\ keys[n] = "up"
    /\ keys' = [keys EXCEPT ![n] = IF mode THEN "rolls" ELSE "sounds"]
    /\ pending' = IF mode THEN NoteOn(n) ELSE None
    /\ UNCHANGED <<sources, commands, transport, published, worker, notes, time, promises,
                   sound>>

\* (mutant of ReleaseCommand: a stopped transport takes keys the normal way)
ReleaseCommandPlaying(n) == IF mode /\ published.playing THEN NoteOff(n) ELSE None

ReleaseCommand(n) == IF mode THEN NoteOff(n) ELSE None

ReleaseKey(n) ==
    /\ Gesture /\ keys[n] # "up"
    /\ keys' = [keys EXCEPT ![n] = "up"]
    /\ pending' = ReleaseCommand(n)
    /\ dropped' = IF ~mode /\ keys[n] = "rolls" THEN dropped \cup {n} ELSE dropped
    /\ UNCHANGED <<sources, commands, transport, published, worker, notes, time, promised,
                   lost, chosen, retoggled, overwritten, sound>>

\* set_sequence_roll_held, and release_midi_sequence_rolls
HoldSource(s, on) ==
    /\ Gesture /\ on # (s \in sources)
    /\ sources' = IF on THEN sources \cup {s} ELSE sources \ {s}
    /\ IF (sources = {}) # (sources' = {})
       THEN /\ rolling' = (sources' # {})
            /\ commands' = Append(commands, SequenceRoll(sources' # {}))
            /\ overwritten' = FALSE
       ELSE UNCHANGED <<rolling, commands, overwritten>>
    /\ UNCHANGED <<keys, pending, mode, rate, published, worker, notes, time, promised, lost,
                   dropped, chosen, retoggled, sound>>

\* set_roll_rate
ChooseRate(r) ==
    /\ Gesture /\ rate # r
    /\ rate' = r /\ commands' = Append(commands, SetRate(r))
    /\ UNCHANGED <<keys, pending, sources, mode, rolling, published, worker, notes, time,
                   promises, sound>>

\* toggle_roll_mode, set_roll_mode
ToggleRollMode ==
    /\ Gesture
    /\ mode' = ~mode /\ chosen' = ~mode
    /\ pending' = IF mode THEN ClearAll ELSE None
    /\ retoggled' = (~mode /\ process # None /\ process.armed)
    /\ UNCHANGED <<keys, sources, commands, rate, rolling, published, worker, notes, time,
                   promised, lost, dropped, overwritten, sound>>

Start ==
    /\ Gesture /\ ~published.playing
    /\ published' = [playing |-> TRUE, moved |-> TRUE]
    /\ UNCHANGED <<input, transport, worker, notes, time, promises, sound>>

\* stop_playback: ClearAll is pushed first and the snapshot published after it
Stop ==
    /\ Gesture /\ published.playing
    /\ pending' = Publication
    /\ commands' = Append(commands, ClearAll)
    /\ sources' = {} /\ rolling' = FALSE
    /\ promised' = {} /\ lost' = {} /\ dropped' = {} /\ overwritten' = FALSE
    /\ UNCHANGED <<keys, mode, rate, published, worker, notes, time, chosen, retoggled, sound>>

PublishStop ==
    /\ pending = Publication
    /\ pending' = None
    /\ published' = [playing |-> FALSE, moved |-> TRUE]
    /\ UNCHANGED <<keys, sources, commands, transport, worker, notes, time, promises, sound,
                   gestures>>

\* an edit that moves pattern_epoch
EditPattern ==
    /\ Gesture /\ published.playing
    /\ published' = [published EXCEPT !.moved = TRUE]
    /\ UNCHANGED <<input, transport, worker, notes, time, promises, sound>>

-----------------------------------------------------------------------------
(* The scheduler worker.                                                     *)

Poll ==
    /\ pc = "poll" /\ pc' = "drain"
    /\ snapshot' = published
    /\ published' = [published EXCEPT !.moved = FALSE]
    /\ seen' = rendered
    /\ hits' = {h \in hits : h.line >= rendered} /\ again' = {}
    /\ from' = [n \in Notes |-> IF n \in held THEN Later(from[n], rendered) ELSE 0]
    /\ UNCHANGED <<input, transport, wasPlaying, holding, notes, frontier, rendered, promises,
                   twice, grid, gestures>>

Sounded(hs) == {h \in hs : h.line < rendered}

\* The queue is cleared and the clock sought back to the render head as the pass
\* read it, over lines the callback has played since.
Seek(hs) == frontier' = seen /\ hits' = Sounded(hs) /\ again' = Sounded(hs)

\* The commands, and the seek where live MIDI-FX notes began or ended since the
\* last pass.
DrainCommands(seeks) ==
    LET t == CancelledForCommands(Manual)
        s == Applied(commands, held, fresh, t.windows)
        present == {h \in hits : h.note \notin s.ended}
    IN
    /\ pc = "drain" /\ pc' = "act"
    /\ commands' = <<>>
    /\ process' = t.process /\ rolling' = t.rolling /\ mode' = t.mode
    /\ held' = s.held /\ fresh' = s.fresh /\ windows' = s.windows
    /\ IF seeks /\ snapshot.playing THEN Seek(present)
       ELSE hits' = present /\ UNCHANGED <<frontier, again>>
    /\ from' = [n \in Notes |->
                  IF n \notin s.held THEN 0
                  ELSE IF n \in held \ s.ended THEN from[n] ELSE seen]
    /\ UNCHANGED <<keys, pending, sources, rate, published, snapshot, wasPlaying, holding,
                   seen, rendered, promises, twice, grid, gestures>>

\* The notes the commands still to be drained make of those that are held.
AfterCommands(h) == Applied(commands, h, {}, FALSE).held

\* (mutant of StopClears: a stop clears whatever is held by now)
StopClearsAll == wasPlaying

\* A sequence roll held since the stop's ClearAll is kept for the next start.
StopClears == wasPlaying /\ sources = {}

\* not playing: what a stop clears, on the first pass that sees it
Parked ==
    LET t == IF wasPlaying THEN Cancelled(Manual, TRUE) ELSE Manual
    IN
    /\ pc = "act" /\ ~snapshot.playing /\ pc' = "poll"
    /\ frontier' = 0 /\ seen' = 0 /\ rendered' = 0
    /\ rolling' = t.rolling /\ mode' = t.mode
    /\ IF StopClears
       THEN /\ held' = {} /\ fresh' = {} /\ windows' = FALSE /\ process' = None
            /\ lost' = promised \ AfterCommands({})
       ELSE /\ windows' = t.windows /\ process' = t.process
            /\ UNCHANGED <<held, fresh, lost>>
    /\ wasPlaying' = FALSE /\ holding' = FALSE
    /\ hits' = {} /\ again' = {} /\ from' = [n \in Notes |-> 0]
    /\ UNCHANGED <<input, rate, published, snapshot, promised, dropped, chosen,
                   retoggled, overwritten, twice, grid, gestures>>

\* ROLL_PLAY_START_HOLD: the first chunk waits for keys pressed with Play
HoldStart ==
    /\ pc = "act" /\ snapshot.playing /\ pc' = "poll"
    /\ holding \/ (~wasPlaying /\ mode)
    /\ holding' = TRUE
    /\ UNCHANGED <<input, transport, published, snapshot, wasPlaying, notes, time, promises,
                   sound, gestures>>

\* A start clears the queue and begins at the render head the pass read, and a
\* move of pattern_epoch takes the frontier back there.
StartChunks ==
    /\ pc = "act" /\ snapshot.playing /\ pc' = "chunks"
    /\ holding \/ wasPlaying \/ ~mode
    /\ holding' = FALSE /\ wasPlaying' = TRUE
    /\ IF ~wasPlaying \/ snapshot.moved THEN Seek(hits)
       ELSE UNCHANGED <<frontier, hits, again>>
    /\ UNCHANGED <<input, transport, published, snapshot, notes, seen, rendered, promises,
                   twice, from, grid, gestures>>

\* release_process_roll_if_due
Released(t) ==
    IF t.process # None /\ frontier >= t.process.until THEN Cancelled(t, TRUE) ELSE t

\* A chunk never straddles a process roll's deadline.
ChunkEnd(t) ==
    LET end == Earlier(frontier + Block, seen + Lookahead)
    IN IF t.process = None THEN end ELSE Earlier(end, t.process.until)

\* (mutant of Engaged: roll mode is taken for off whatever it was)
EngagedArming(t, duration) ==
    IF duration = None \/ t.process # None \/ t.windows THEN t
    ELSE [process |-> [until |-> frontier + duration, armed |-> TRUE],
          windows |-> TRUE, rolling |-> TRUE, mode |-> TRUE]

\* collect_process_roll_requests and engage_process_roll
Engaged(t, duration) ==
    IF duration = None \/ t.process # None \/ t.windows THEN t
    ELSE [process |-> [until |-> frontier + duration, armed |-> ~t.mode],
          windows |-> TRUE, rolling |-> TRUE, mode |-> TRUE]

HitsOf(ns, first, end) ==
    {[note |-> n, line |-> l] : n \in ns, l \in {b \in first..(end - 1) : b % rate = 0}}

\* schedule_roll_hits: the lines the frontier had passed when the key came down
CatchUp == HitsOf(fresh \cap held, seen, frontier)

\* (mutant of Regular: a line at the start of the chunk is left to the last one)
RegularAfterStart(end) == HitsOf(held, frontier + 1, end)

\* schedule_roll_hits: the lines inside the chunk
Regular(end) == HitsOf(held, frontier, end)

Unfinished == frontier < seen + Lookahead /\ frontier < MaxBeat

\* one iteration of schedule_playing_lookahead, in which a step may ask for a roll
PlanChunk(duration) ==
    LET released == Released(Manual)
        end == ChunkEnd(released)
        t == Engaged(released, duration)
        rolls == t.mode /\ held # {}
        new == IF rolls THEN CatchUp \cup Regular(end) ELSE {}
    IN
    /\ pc = "chunks" /\ Unfinished
    /\ process' = t.process /\ windows' = t.windows
    /\ rolling' = t.rolling /\ mode' = t.mode
    /\ overwritten' = IF t.process # released.process
                      THEN sources = {} /\ Has(commands, "SequenceRoll")
                      ELSE overwritten
    /\ fresh' = IF rolls THEN {} ELSE fresh
    /\ hits' = hits \cup new /\ again' = again \ new
    /\ twice' = \/ twice \/ new \cap (hits \ again) # {}
                \/ rolls /\ CatchUp \cap Regular(end) # {}
    /\ from' = [n \in Notes |->
                  IF n \notin held THEN 0
                  ELSE IF ~t.mode THEN end
                  ELSE IF rate # grid /\ n \notin fresh THEN frontier
                  ELSE from[n]]
    /\ grid' = rate
    /\ frontier' = end
    /\ UNCHANGED <<input, rate, published, worker, held, seen, rendered, promised, lost,
                   dropped, chosen, retoggled, gestures>>

EndPass ==
    /\ pc = "chunks" /\ ~Unfinished /\ pc' = "poll"
    /\ UNCHANGED <<input, transport, published, snapshot, wasPlaying, holding, notes, time,
                   promises, sound, gestures>>

\* How far the callback gets: no further than what is planned, or than a pass
\* still has to plan where its seek has taken the frontier back.
Reach == IF pc = "chunks" THEN seen + Lookahead ELSE frontier

\* The audio callback.
Render ==
    /\ published.playing /\ rendered < Reach /\ rendered < MaxBeat
    /\ rendered' = rendered + 1
    /\ UNCHANGED <<input, transport, published, worker, notes, frontier, seen, promises,
                   sound, gestures>>

-----------------------------------------------------------------------------
Control ==
    \/ Push
    \/ \E n \in Notes : PressKey(n) \/ ReleaseKey(n)
    \/ \E s \in Sources, on \in BOOLEAN : HoldSource(s, on)
    \/ \E r \in Grids : ChooseRate(r)
    \/ ToggleRollMode \/ Start \/ Stop \/ PublishStop \/ EditPattern

Worker ==
    \/ Poll \/ (\E seeks \in BOOLEAN : DrainCommands(seeks))
    \/ Parked \/ HoldStart \/ StartChunks
    \/ \E duration \in Durations \cup {None} : PlanChunk(duration)
    \/ EndPass

Next == Control \/ Worker \/ Render
Spec == Init /\ [][Next]_vars

-----------------------------------------------------------------------------
Hits == [note : Notes, line : Nat]

(* Every variable has its type: among others a process roll that runs holds  *)
(* the windows, and a fresh note is held.                                    *)
TypeOK ==
    /\ keys \in [Notes -> {"up", "rolls", "sounds"}]
    /\ pending \in Commands \cup {None, Publication}
    /\ {mode, rolling, chosen, retoggled, overwritten, twice} \subseteq BOOLEAN
    /\ rate \in Grids /\ grid \in Grids
    /\ sources \subseteq Sources /\ commands \in Seq(Commands)
    /\ published \in [playing : BOOLEAN, moved : BOOLEAN]
    /\ pc \in {"poll", "drain", "act", "chunks"} /\ {wasPlaying, holding} \subseteq BOOLEAN
    /\ snapshot \in [playing : BOOLEAN, moved : BOOLEAN]
    /\ held \subseteq Notes /\ fresh \subseteq held /\ windows \in BOOLEAN
    /\ process = None \/ (process \in [until : Nat, armed : BOOLEAN] /\ windows)
    /\ {seen, rendered, frontier} \subseteq Nat
    /\ promised \cup lost \cup dropped \subseteq Notes
    /\ hits \cup again \subseteq Hits /\ from \in [Notes -> Nat]

(* However presses, releases, stops and passes interleave, what the worker   *)
(* holds, once it has drained what is still queued, is what the gestures     *)
(* asked for: the notes pressed and neither released nor cleared since,      *)
(* except those a stop swept away with the roll it ended; and, no process    *)
(* roll running, a window exactly while a sequence-roll source is held.      *)
HoldsFollowGestures ==
    /\ AfterCommands(held) = promised \ lost
    /\ process = None =>
         Applied(commands, held, fresh, windows).windows = (sources # {})

(* With roll mode on, a note the worker holds when nothing is in flight is a *)
(* key that is down and was pressed to roll, unless its release came while   *)
(* roll mode was off.                                                        *)
Quiet == pending = None /\ commands = <<>>
RollingKeysAreDownUnlessDropped ==
    mode /\ Quiet => \A n \in held : keys[n] = "rolls" \/ n \in dropped

(* The same, of every release: "Turning roll mode off always clears stuck    *)
(* rolls" (ui/host_commands/misc.rs).  It fails: the deadline of a process   *)
(* roll turns the mode off and clears nothing.                               *)
RollingKeysAreDown == mode /\ Quiet => \A n \in held : keys[n] = "rolls"

(* A hit is planned once for each press: the lines a fresh press catches up  *)
(* with and the lines of the chunks never meet, through rate changes and     *)
(* through seeks that take the frontier back.  One exception: a line the     *)
(* callback played after the pass read the render head and before the seek   *)
(* cleared the queue is planned, and heard, once more.                       *)
LinesSoundOnce == ~twice

(* And none is missed: every line of the grid, from the render head as the   *)
(* pass that drained the press read it up to the frontier, is planned.       *)
NoLineIsMissed ==
    \A n \in held \ fresh :
        \A l \in from[n]..(frontier - 1) :
            l % grid = 0 => [note |-> n, line |-> l] \in hits

(* A held key sounds on every line of the grid exactly once, but for the     *)
(* lines a seek comes too late to take back.                                 *)
EveryLineSoundsOnce == LinesSoundOnce /\ NoLineIsMissed

(* Once no process roll runs, roll mode is what the user last set it to,     *)
(* unless it was set on again under a roll that had armed it.                *)
RollModeIsRestored == process = None /\ ~retoggled => mode = chosen

(* sequence_rolling tells whether a source is held or a process roll runs,   *)
(* unless a process roll engaged between a release and its drain.            *)
RollingIsMirrored ==
    Quiet /\ ~overwritten => rolling = (sources # {} \/ process # None)

(* A process roll borrows roll mode and the sequence-roll flag: it gives     *)
(* them back however it ends, by its deadline, a gesture, a clear or a stop. *)
ProcessRollGivesBack == RollModeIsRestored /\ RollingIsMirrored
=============================================================================
