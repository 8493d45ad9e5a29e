------------------------------ MODULE MonoVoice ------------------------------
(***************************************************************************)
(* The one voice of a mono, gated custom track, which live keys and        *)
(* sequenced notes share.  Keys are held in order of arrival and the one   *)
(* the priority selects owns the voice; a sequenced note owns it until its *)
(* gate ends, and a note it displaced is fallen back to while that note's  *)
(* own gate still runs.                                                    *)
(*                                                                         *)
(* Time passes in frames, Frames of them to a callback block.  Live keys   *)
(* are handled at the start of a block; gate-offs and steps on a frame.    *)
(***************************************************************************)
EXTENDS Integers, Sequences, SequencesExt, FiniteSets

CONSTANTS
    Keys,         \* live keys: LiveNoteSource
    Pitch,        \* the pitch each key resolves to
    Notes,        \* what sequenced notes may sound
    Gates,        \* gate lengths in frames
    Frames,       \* current_callback_nframes
    HeldCapacity, \* MonoHeldNotes holds the most recent 128
    MaxHolds,     \* SequencedLegatoHolds' MAX_HOLDS
    None

ASSUME NoteAssumption ==
    Keys \cap Notes = {} /\ None \notin Keys \cup Notes /\ Pitch \in [Keys -> Nat]
ASSUME SizeAssumption ==
    Gates \cup {Frames, HeldCapacity, MaxHolds} \subseteq Nat \ {0}

VARIABLES
    down,     \* the keys that are physically down
    playing,  \* the transport as the callback last saw it
    setting,  \* TrackParams.voice_priority
    legato,   \* whether TrackParams.mono_trigger is Legato
    priority, \* MonoHeldNotes.priority, the setting as the last press found it
    held,     \* MonoHeldNotes.notes, oldest first
    current,  \* MonoHeldNotes.current
    owner,    \* the key of the voice's entry in active_keyboard_notes
    active,   \* CustomVoiceSlot.active
    gate,     \* the gate of the voice's GatePitch node
    sounding, \* what its last note-on asked for
    holds,    \* SequencedLegatoHolds.holds, of this voice
    off,      \* the voice's gate-off in the queue of events, if there is one
    pc, frame,
    \* ghosts
    phrase,   \* the notes of the legato phrase whose gates still run
    cut,      \* a key was released and closed the voice under the phrase
    forgot    \* a hold of the phrase was dropped at capacity

live == <<down, priority, held, current, owner>>
voice == <<active, gate, sounding>>
sequenced == <<holds, off, phrase, cut, forgot>>
policy == <<setting, legato>>
vars == <<live, voice, sequenced, policy, playing, pc, frame>>

-----------------------------------------------------------------------------
Priorities == {"last", "high", "low"}

\* VoicePriority::prefers
Prefers(p, a, b) ==
    CASE p = "last" -> TRUE
      [] p = "high" -> a >= b
      [] p = "low" -> a <= b

\* (mutant of Selected: the newest key whatever the priority)
SelectedNewest(p, keys) == keys[Len(keys)]

\* MonoHeldNotes::selected: the newest of the keys that none is preferred to
Selected(p, keys) ==
    LET best == {i \in DOMAIN keys :
                   \A j \in DOMAIN keys : Prefers(p, Pitch[keys[i]], Pitch[keys[j]])}
    IN keys[CHOOSE i \in best : \A j \in best : j <= i]

\* MonoHeldNotes::position, and the removal at it
Position(k) == CHOOSE i \in DOMAIN held : held[i] = k
Without(k) == IF k \in Range(held) THEN RemoveAt(held, Position(k)) ELSE held

\* press_with_priority: a full stack forgets its oldest key
Pressed(k) ==
    LET others == Without(k)
    IN Append(IF Len(others) = HeldCapacity THEN Tail(others) ELSE others, k)

\* schedule_countdown_or_block_event, for a gate-off: at is counted from the
\* start of the block it falls in
GateOffAt(offset) ==
    IF offset < Frames THEN [later |-> FALSE, at |-> offset]
    ELSE [later |-> TRUE, at |-> offset - Frames]

GateOffDue == \E g \in off : ~g.later /\ g.at = frame

\* The retain of the code: the elements of s that are in set, in their order.
Kept(s, set) ==
    LET places == {i \in DOMAIN s : s[i] \in set}
        at == CHOOSE f \in Bijection(1..Cardinality(places), places) :
                  \A n, m \in DOMAIN f : n < m => f[n] < f[m]
    IN  [n \in DOMAIN at |-> s[at[n]]]

Running(hs, now) == Kept(hs, {h \in Range(hs) : h.left > now})
Unended(hs) == Kept(hs, {h \in Range(hs) : h.left >= 0})
Sooner(hs, frames) == [i \in DOMAIN hs |-> [hs[i] EXCEPT !.left = @ - frames]]

-----------------------------------------------------------------------------
Init ==
    /\ down = {} /\ playing = FALSE
    /\ setting \in Priorities /\ legato \in BOOLEAN
    /\ priority = "last" /\ held = <<>> /\ current = None /\ owner = None
    /\ active = FALSE /\ gate = FALSE /\ sounding = None
    /\ holds = <<>> /\ off = {}
    /\ pc = "keys" /\ frame = 0
    /\ phrase = <<>> /\ cut = FALSE /\ forgot = FALSE

-----------------------------------------------------------------------------
(* Live keys.                                                                *)

\* (mutant of SoundKey: the gate-off of a displaced note stays armed)
SoundKeyArmed(k) ==
    /\ active' = TRUE /\ gate' = TRUE /\ sounding' = k
    /\ owner' = k
    /\ holds' = <<>> /\ UNCHANGED off
    /\ phrase' = <<>> /\ cut' = FALSE /\ forgot' = FALSE

\* The note-on of a key: it takes the voice from whatever had it.
SoundKey(k) ==
    /\ active' = TRUE /\ gate' = TRUE /\ sounding' = k
    /\ owner' = k
    /\ off' = {} /\ holds' = <<>>
    /\ phrase' = <<>> /\ cut' = FALSE /\ forgot' = FALSE

\* release_active_keyboard_note, when the key has an entry to release
CloseFor(k) ==
    IF owner = k
    THEN /\ owner' = None /\ active' = FALSE /\ gate' = FALSE
         /\ cut' = (phrase # <<>>)
         /\ UNCHANGED <<sounding, holds, off, phrase, forgot>>
    ELSE UNCHANGED <<owner, voice, sequenced>>

PressKey(k) ==
    LET keys == Pressed(k)
        selected == Selected(setting, keys)
    IN
    /\ pc = "keys" /\ k \notin down
    /\ down' = down \cup {k}
    /\ priority' = setting /\ held' = keys /\ current' = selected
    /\ IF current # selected \/ selected = k
       THEN SoundKey(selected)
       ELSE UNCHANGED <<owner, voice, sequenced>>
    /\ UNCHANGED <<policy, playing, pc, frame>>

\* MonoRelease::Unheld and Last
ReleaseUnheld(k) ==
    /\ k \notin Range(held)
    /\ CloseFor(k) /\ UNCHANGED <<held, current>>

ReleaseLast(k) ==
    /\ held = <<k>> /\ current = k
    /\ held' = <<>> /\ current' = None
    /\ CloseFor(k)

\* MonoRelease::Buried: the key's entry goes and the voice is left alone
ReleaseBuried(k) ==
    /\ k \in Range(held) /\ current # k
    /\ held' = Without(k)
    /\ owner' = IF owner = k THEN None ELSE owner
    /\ UNCHANGED <<current, voice, sequenced>>

\* MonoRelease::Resume: an older key takes the voice over
ReleaseResume(k) ==
    LET rest == Without(k) IN
    /\ k \in Range(held) /\ current = k /\ rest # <<>>
    /\ IF owner = k
       THEN /\ held' = rest /\ current' = Selected(priority, rest)
            /\ SoundKey(Selected(priority, rest))
       ELSE /\ held' = <<>> /\ current' = None
            /\ UNCHANGED <<owner, voice, sequenced>>

ReleaseKey(k) ==
    /\ pc = "keys" /\ k \in down
    /\ down' = down \ {k}
    /\ ReleaseUnheld(k) \/ ReleaseLast(k) \/ ReleaseBuried(k) \/ ReleaseResume(k)
    /\ UNCHANGED <<priority, policy, playing, pc, frame>>

-----------------------------------------------------------------------------
(* The transport, and the block.                                             *)

\* clear_transport_countdown_events keeps the gate-offs, and the holds.
TogglePlay ==
    /\ pc = "keys" /\ playing' = ~playing
    /\ UNCHANGED <<live, voice, sequenced, policy, pc, frame>>

\* an edit of the track's voice settings
EditPolicy ==
    /\ pc = "keys" /\ setting' \in Priorities /\ legato' \in BOOLEAN
    /\ UNCHANGED <<live, voice, sequenced, playing, pc, frame>>

\* collect_due_countdown_events and SequencedLegatoHolds::advance
BeginBlock ==
    /\ pc = "keys" /\ pc' = "events" /\ frame' = 0
    /\ holds' = Unended(Sooner(holds, Frames))
    /\ off' = {GateOffAt(g.at) : g \in off}
    /\ UNCHANGED <<live, voice, policy, playing, phrase, cut, forgot>>

\* resume_on_gate_off_retaining
Displaced ==
    Running(IF holds = <<>> THEN holds ELSE Front(holds), frame)

\* (mutant of ResumedGate: a note that is resumed is not closed again)
ResumedGateNever(left) == {}

\* dispatch_gate_off_event: the rest of the resumed note's duration
ResumedGate(left) == {GateOffAt(left)}

DispatchGateOff ==
    /\ pc = "events" /\ GateOffDue
    /\ holds' = Displaced
    /\ IF Displaced # <<>>
       THEN LET resumed == Displaced[Len(Displaced)] IN
            /\ gate' = TRUE /\ sounding' = resumed.note
            /\ off' = ResumedGate(resumed.left)
            /\ UNCHANGED active
       ELSE /\ gate' = FALSE /\ active' = FALSE /\ off' = {}
            /\ UNCHANGED sounding
    /\ UNCHANGED <<live, policy, playing, pc, frame, phrase, cut, forgot>>

\* (mutant of Stacked: a takeover forgets the note it displaces)
StackedAlone(hold, overlaps) == <<hold>>

\* SequencedLegatoHolds::note_on, whose oldest hold makes room
Stacked(hold, overlaps) ==
    IF ~overlaps THEN <<hold>>
    ELSE Append(IF Len(holds) = MaxHolds THEN Tail(holds) ELSE holds, hold)

\* fire_resolved: a step takes the voice whatever the keyboard's priority
FireStep(note, length) ==
    LET overlaps == legato /\ active \* continues_mono_note
    IN
    /\ pc = "events" /\ playing /\ ~GateOffDue /\ pc' = "fired"
    /\ active' = TRUE /\ gate' = TRUE /\ sounding' = note
    /\ off' = {GateOffAt(frame + length)}
    /\ holds' = Stacked([note |-> note, left |-> frame + length], overlaps)
    /\ phrase' = Append(IF overlaps THEN phrase ELSE <<>>, [note |-> note, left |-> length])
    /\ cut' = FALSE
    /\ forgot' = (overlaps /\ (forgot \/ Len(holds) = MaxHolds))
    /\ UNCHANGED <<live, policy, playing, frame>>

Tick ==
    /\ pc \in {"events", "fired"} /\ ~GateOffDue
    /\ phrase' = Running(Sooner(phrase, 1), 0)
    /\ IF frame + 1 < Frames
       THEN frame' = frame + 1 /\ pc' = "events"
       ELSE frame' = 0 /\ pc' = "keys"
    /\ UNCHANGED <<live, voice, policy, playing, holds, off, cut, forgot>>

-----------------------------------------------------------------------------
Callback == BeginBlock \/ DispatchGateOff \/ Tick

Next ==
    \/ \E k \in Keys : PressKey(k) \/ ReleaseKey(k)
    \/ TogglePlay \/ EditPolicy
    \/ \E note \in Notes, length \in Gates : FireStep(note, length)
    \/ Callback

Spec == Init /\ [][Next]_vars

-----------------------------------------------------------------------------
Timed(times) == [note : Notes, left : times]

(* Every variable has its type: the stack of held keys holds keys that are   *)
(* down, once each, and no more than its capacity.                           *)
TypeOK ==
    /\ down \subseteq Keys /\ {playing, legato, active, gate, cut, forgot} \subseteq BOOLEAN
    /\ {priority, setting} \subseteq Priorities
    /\ held \in BoundedSeq(Keys, HeldCapacity) /\ IsInjective(held)
    /\ Range(held) \subseteq down
    /\ {current, owner} \subseteq Keys \cup {None}
    /\ sounding \in Keys \cup Notes \cup {None}
    /\ holds \in Seq(Timed(Nat)) /\ Len(holds) <= MaxHolds
    /\ off \subseteq [later : BOOLEAN, at : Nat] /\ Cardinality(off) <= 1
    /\ pc \in {"keys", "events", "fired"} /\ frame \in 0..(Frames - 1)
    /\ phrase \in Seq(Timed(Nat \ {0}))

(* A voice whose gate is open has something left to close it: a gate-off     *)
(* that is scheduled, or a key that owns it and is still down.  No order of  *)
(* presses, releases, steps and gate-offs leaves a note hanging.             *)
NoHangingNote == gate => off # {} \/ (owner # None /\ owner \in down)

(* While keys are held, the one the priority of the last press prefers owns  *)
(* the voice, and of equals the newest, however keys were pressed, released, *)
(* buried, evicted or displaced by a step.                                   *)
BestKeyOwnsTheVoice ==
    held # <<>> =>
        /\ owner = current
        /\ \E i \in DOMAIN held :
              /\ held[i] = current
              /\ \A j \in DOMAIN held \ {i} :
                    LET newer == j < i IN
                    CASE priority = "last" -> newer
                      [] priority = "high" ->
                             Pitch[held[j]] < Pitch[current] + (IF newer THEN 1 ELSE 0)
                      [] priority = "low" ->
                             Pitch[held[j]] > Pitch[current] - (IF newer THEN 1 ELSE 0)

(* A sequenced phrase sounds the newest of its notes that is still inside    *)
(* its gate and closes when there is none, unless a released key closed the  *)
(* voice under it or a hold was dropped at capacity.                         *)
NewestRunningNoteSounds ==
    pc # "keys" /\ ~GateOffDue /\ ~cut /\ ~forgot =>
        IF phrase # <<>> THEN gate /\ sounding = phrase[Len(phrase)].note
        ELSE gate => sounding \in Keys

(* A gate closes by the release of its key, or by the gate-off of the       *)
(* sequenced note that sounds: the gate-off of a note that was displaced     *)
(* never closes the key that displaced it, and a key that is turned away,    *)
(* buried or evicted closes nothing when it comes up.                        *)
OnlyItsOwnEndClosesAGate ==
    [][gate /\ ~gate' => \/ sounding \in Notes /\ GateOffDue
                        \/ \E k \in down \ down' : owner = k]_vars

(* What no run checks, as the code does not do it: "A stale stack must never *)
(* survive a transport stop" (docs/legato-mono-spec.md), so that once        *)
(* stopped no displaced note comes back.                                     *)
NothingResumesOnceStopped == [][sounding' # sounding /\ ~playing => sounding' \in Keys]_vars
=============================================================================
