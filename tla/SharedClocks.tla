---------------------------- MODULE SharedClocks ----------------------------
(***************************************************************************)
(* The two clocks the audio callback shares without a lock: the            *)
(* AudioClockStamp (sample and wall time of a block, for the song's        *)
(* playhead) and the RecordClockAnchor (transport beat and wall time of a  *)
(* block, for stamping notes).  Each is a sequence lock over two values.   *)
(* The callback writes the stamp in every block and the anchor while it    *)
(* plays; the control thread reads both, and invalidates the anchor when   *)
(* it stops the transport, so that the anchor has two writers.             *)
(*                                                                         *)
(* Memory is release/acquire memory.  A location keeps every message ever  *)
(* stored in it, and a message carries the view its writer releases with   *)
(* it: how far along each location a reader that acquires it must be.  A   *)
(* load returns any message the thread's own view has not passed.  Values  *)
(* never come out of thin air, and a location's order is that of the       *)
(* stores.  The transport's `playing` is read as last written: a store     *)
(* takes less than a block to reach the callback.                          *)
(*                                                                         *)
(* The clocks share no location, so a behaviour is about one of them.  The *)
(* stamp's frames and rate go with its first sample.  Blocks, stops and    *)
(* tries (4 and 8 in the code) are bounded.                                *)
(***************************************************************************)
EXTENDS Integers, Sequences

CONSTANTS Clocks,        \* which of {"stamp", "anchor"} to model
          MaxBlocks,     \* blocks published
          MaxToggles,    \* stops and starts of the transport
          Tries          \* rounds of a reader

ASSUME ClocksAssumption == Clocks \subseteq {"stamp", "anchor"} /\ Clocks # {}
ASSUME BoundsAssumption == {MaxBlocks, MaxToggles, Tries} \subseteq Nat \ {0}

VARIABLES
  clock,      \* the clock this behaviour is about
  mem,        \* per location, the messages stored in it
  views,      \* per thread, what it has seen, may acquire and has released
  pc,         \* per thread, where it is
  playing,    \* transport.playing
  beats,      \* data.transport_beats, in blocks
  was,        \* data.transport_was_playing
  regs,       \* the reader's locals
  sent,       \* the position published with each block: [block -> position]
  last,       \* the last reading the control thread got, forgotten at a stop
  since,      \* the first block after the last stop
  crossing,   \* the blocks that were publishing at a stop
  toggles     \* stops and starts so far

vars == <<clock, mem, views, pc, playing, beats, was, regs, sent, last, since,
          crossing, toggles>>

Threads == {"audio", "control"}
Locs == {"sequence", "position", "time"}
NoReading == [position |-> 0, time |-> 0]
Idle == [tries |-> 0, before |-> 0, position |-> 0, time |-> 0]

-----------------------------------------------------------------------------
\* Memory.  An operator takes and returns [mem, views] so that they compose.

Larger(a, b) == IF a < b THEN b ELSE a
Join(v, w) == [l \in Locs |-> Larger(v[l], w[l])]
Bottom == [l \in Locs |-> 1]

Memory == [mem |-> mem, views |-> views]

\* Store a message whose view is `released`.
Put(m, t, l, val, released) ==
    LET n == Len(m.mem[l]) + 1
        at == [Bottom EXCEPT ![l] = n]
    IN [mem |-> [m.mem EXCEPT ![l] = Append(@, [val |-> val, view |-> Join(released, at)])],
        views |-> [m.views EXCEPT ![t].seen = Join(@, at), ![t].acquirable = Join(@, at)]]

StoreRelaxed(m, t, l, val) == Put(m, t, l, val, m.views[t].released)

\* A load of the i-th message; an acquire takes its view over at once.
Readable(m, t, l) == m.views[t].seen[l] .. Len(m.mem[l])

LoadRelaxed(m, t, l, i) ==
    LET at == [Bottom EXCEPT ![l] = i]
    IN [m EXCEPT !.views[t].seen = Join(@, at),
                 !.views[t].acquirable = Join(@, m.mem[l][i].view)]

FenceAcquire(m, t) == [m EXCEPT !.views[t].seen = m.views[t].acquirable]

LoadAcquire(m, t, l, i) ==
    LET r == LoadRelaxed(m, t, l, i)
    IN [r EXCEPT !.views[t].seen = Join(@, m.mem[l][i].view)]

FenceRelease(m, t) == [m EXCEPT !.views[t].released = m.views[t].seen]

\* fetch_add(1) reads the last message and carries its view on.
FetchAdd(m, t, l, released) ==
    LET n == Len(m.mem[l])
        r == LoadRelaxed(m, t, l, n)
    IN Put(r, t, l, m.mem[l][n].val + 1, Join(released, m.mem[l][n].view))

FetchAddRelaxed(m, t, l) == FetchAdd(m, t, l, m.views[t].released)
FetchAddRelease(m, t, l) == FetchAdd(m, t, l, m.views[t].seen)

Becomes(m) == mem' = m.mem /\ views' = m.views

-----------------------------------------------------------------------------
Init ==
    /\ clock \in Clocks
    /\ mem = [l \in Locs |-> <<[val |-> 0, view |-> Bottom]>>]
    /\ views = [t \in Threads |->
                   [seen |-> Bottom, acquirable |-> Bottom, released |-> Bottom]]
    /\ pc = [t \in Threads |-> "idle"]
    /\ playing = FALSE /\ beats = 0 /\ was = FALSE
    /\ regs = Idle
    /\ sent = <<>> /\ last = NoReading
    /\ since = 1 /\ crossing = {} /\ toggles = 0

GoTo(t, from, to) == pc[t] = from /\ pc' = [pc EXCEPT ![t] = to]

-----------------------------------------------------------------------------
\* The audio callback.

\* Every block is stamped with its first sample.
BeginStampedBlock ==
    /\ clock = "stamp" /\ Len(sent) < MaxBlocks
    /\ GoTo("audio", "idle", "odd")
    /\ sent' = Append(sent, Len(sent) + 1)
    /\ UNCHANGED <<clock, mem, views, playing, beats, was, regs, last, since,
                   crossing, toggles>>

\* A playing block publishes its beat, which the first one after a stop resets.
BeginPlayingBlock ==
    /\ clock = "anchor" /\ playing /\ Len(sent) < MaxBlocks
    /\ GoTo("audio", "idle", "odd")
    /\ LET beat == IF was THEN beats ELSE 0
       IN sent' = Append(sent, beat) /\ beats' = beat + 1
    /\ was' = TRUE
    /\ UNCHANGED <<clock, mem, views, playing, regs, last, since, crossing, toggles>>

StoppedBlock ==
    /\ clock = "anchor" /\ ~playing /\ was /\ pc["audio"] = "idle"
    /\ beats' = 0 /\ was' = FALSE
    /\ UNCHANGED <<clock, mem, views, pc, playing, regs, sent, last, since,
                   crossing, toggles>>

\* The sequence turns odd: relaxed and fenced for the stamp, a release without
\* a fence for the anchor.
OpenStamp(m, t) == FenceRelease(FetchAddRelaxed(m, t, "sequence"), t)
OpenAnchor(m, t) == FetchAddRelease(m, t, "sequence")

Open ==
    /\ GoTo("audio", "odd", "position")
    /\ Becomes(IF clock = "stamp" THEN OpenStamp(Memory, "audio")
                                  ELSE OpenAnchor(Memory, "audio"))
    /\ UNCHANGED <<clock, playing, beats, was, regs, sent, last, since, crossing, toggles>>

WritePosition ==
    /\ GoTo("audio", "position", "time")
    /\ Becomes(StoreRelaxed(Memory, "audio", "position", sent[Len(sent)]))
    /\ UNCHANGED <<clock, playing, beats, was, regs, sent, last, since, crossing, toggles>>

WriteTime ==
    /\ GoTo("audio", "time", "even")
    /\ Becomes(StoreRelaxed(Memory, "audio", "time", Len(sent)))
    /\ UNCHANGED <<clock, playing, beats, was, regs, sent, last, since, crossing, toggles>>

Close ==
    /\ GoTo("audio", "even", "idle")
    /\ Becomes(FetchAddRelease(Memory, "audio", "sequence"))
    /\ UNCHANGED <<clock, playing, beats, was, regs, sent, last, since, crossing, toggles>>

-----------------------------------------------------------------------------
\* The control thread's transport.  Stopping invalidates the anchor.

Play ==
    /\ clock = "anchor" /\ pc["control"] = "idle"
    /\ ~playing /\ toggles < MaxToggles
    /\ playing' = TRUE /\ toggles' = toggles + 1
    /\ UNCHANGED <<clock, mem, views, pc, beats, was, regs, sent, last, since, crossing>>

Stop ==
    /\ clock = "anchor" /\ playing /\ toggles < MaxToggles
    /\ GoTo("control", "idle", "odd")
    /\ playing' = FALSE /\ toggles' = toggles + 1
    /\ since' = Len(sent) + 1 /\ last' = NoReading
    /\ crossing' = IF pc["audio"] = "idle" THEN crossing ELSE crossing \union {Len(sent)}
    /\ UNCHANGED <<clock, mem, views, beats, was, regs, sent>>

InvalidateOpen ==
    /\ GoTo("control", "odd", "no time")
    /\ Becomes(FetchAddRelease(Memory, "control", "sequence"))
    /\ UNCHANGED <<clock, playing, beats, was, regs, sent, last, since, crossing, toggles>>

\* (mutant of InvalidateTime: the timestamp is left alone)
InvalidateNothing ==
    /\ GoTo("control", "no time", "no position")
    /\ UNCHANGED <<clock, mem, views, playing, beats, was, regs, sent, last, since,
                   crossing, toggles>>

InvalidateTime ==
    /\ GoTo("control", "no time", "no position")
    /\ Becomes(StoreRelaxed(Memory, "control", "time", 0))
    /\ UNCHANGED <<clock, playing, beats, was, regs, sent, last, since, crossing, toggles>>

InvalidatePosition ==
    /\ GoTo("control", "no position", "even")
    /\ Becomes(StoreRelaxed(Memory, "control", "position", 0))
    /\ UNCHANGED <<clock, playing, beats, was, regs, sent, last, since, crossing, toggles>>

InvalidateClose ==
    /\ GoTo("control", "even", "idle")
    /\ Becomes(FetchAddRelease(Memory, "control", "sequence"))
    /\ UNCHANGED <<clock, playing, beats, was, regs, sent, last, since, crossing, toggles>>

-----------------------------------------------------------------------------
\* The control thread's reader: `sample_at` of the stamp, `sample` of the anchor.

StartReading ==
    /\ GoTo("control", "idle", "before")
    /\ regs' = Idle
    /\ UNCHANGED <<clock, mem, views, playing, beats, was, sent, last, since,
                   crossing, toggles>>

\* A round is over without a reading; after the last one the reader gives up.
NextRound ==
    LET more == regs.tries + 1 < Tries
    IN /\ pc' = [pc EXCEPT !["control"] = IF more THEN "before" ELSE "idle"]
       /\ regs' = IF more THEN [Idle EXCEPT !.tries = regs.tries + 1] ELSE Idle

Finish(reading) ==
    /\ pc' = [pc EXCEPT !["control"] = "idle"]
    /\ regs' = Idle /\ last' = reading

\* A sequence of zero means to the stamp that there was no callback yet.
LoadBefore ==
    /\ pc["control"] = "before"
    /\ \E i \in Readable(Memory, "control", "sequence") :
         LET before == mem["sequence"][i].val
         IN /\ Becomes(LoadAcquire(Memory, "control", "sequence", i))
            /\ \/ clock = "stamp" /\ before = 0 /\ Finish(last)
               \/ before % 2 = 1 /\ NextRound /\ UNCHANGED last
               \/ /\ before % 2 = 0 /\ (clock = "stamp" => before # 0)
                  /\ pc' = [pc EXCEPT !["control"] = "position"]
                  /\ regs' = [regs EXCEPT !.before = before]
                  /\ UNCHANGED last
    /\ UNCHANGED <<clock, playing, beats, was, sent, since, crossing, toggles>>

LoadPosition ==
    /\ GoTo("control", "position", "time")
    /\ \E i \in Readable(Memory, "control", "position") :
         /\ Becomes(LoadRelaxed(Memory, "control", "position", i))
         /\ regs' = [regs EXCEPT !.position = mem["position"][i].val]
    /\ UNCHANGED <<clock, playing, beats, was, sent, last, since, crossing, toggles>>

LoadTime ==
    /\ GoTo("control", "time", "after")
    /\ \E i \in Readable(Memory, "control", "time") :
         /\ Becomes(LoadRelaxed(Memory, "control", "time", i))
         /\ regs' = [regs EXCEPT !.time = mem["time"][i].val]
    /\ UNCHANGED <<clock, playing, beats, was, sent, last, since, crossing, toggles>>

\* (mutant of Fenced: the sequence's load acquires instead, as the anchor's does)
Unfenced(m, t) == m

\* The stamp's reader fences before it looks at the sequence again.
Fenced(m, t) == IF clock = "stamp" THEN FenceAcquire(m, t) ELSE m

\* The anchor's reader takes a timestamp of zero for an invalidated anchor.
LoadAfter ==
    /\ pc["control"] = "after"
    /\ LET m == Fenced(Memory, "control")
       IN \E i \in Readable(m, "control", "sequence") :
            /\ Becomes(IF clock = "stamp" THEN LoadRelaxed(m, "control", "sequence", i)
                                          ELSE LoadAcquire(m, "control", "sequence", i))
            /\ \/ mem["sequence"][i].val # regs.before /\ NextRound /\ UNCHANGED last
               \/ /\ mem["sequence"][i].val = regs.before
                  /\ IF clock = "anchor" /\ regs.time = 0
                     THEN Finish(last)
                     ELSE Finish([position |-> regs.position, time |-> regs.time])
    /\ UNCHANGED <<clock, playing, beats, was, sent, since, crossing, toggles>>

-----------------------------------------------------------------------------
Callback == \/ BeginStampedBlock \/ BeginPlayingBlock \/ StoppedBlock
            \/ Open \/ WritePosition \/ WriteTime \/ Close

Transport == \/ Play \/ Stop
             \/ InvalidateOpen \/ InvalidateTime \/ InvalidatePosition \/ InvalidateClose

Reader == StartReading \/ LoadBefore \/ LoadPosition \/ LoadTime \/ LoadAfter

Next == Callback \/ Transport \/ Reader

Spec == Init /\ [][Next]_vars

-----------------------------------------------------------------------------
View == [Locs -> Nat \ {0}]
Message == [val : Nat, view : View]
ThreadViews == [seen : View, acquirable : View, released : View]

TypeOK ==
    /\ clock \in Clocks
    /\ mem \in [Locs -> Seq(Message)] /\ views \in [Threads -> ThreadViews]
    /\ pc \in [Threads -> {"idle", "odd", "position", "time", "even", "no time",
                           "no position", "before", "after"}]
    /\ pc["audio"] \in {"idle", "odd", "position", "time", "even"}
    /\ pc["control"] \in {"idle", "odd", "no time", "no position", "even",
                          "before", "position", "time", "after"}
    /\ playing \in BOOLEAN /\ was \in BOOLEAN /\ beats \in 0 .. MaxBlocks
    /\ regs \in [tries : 0 .. Tries - 1, before : Nat, position : Nat, time : Nat]
    /\ sent \in Seq(Nat) /\ Len(sent) <= MaxBlocks
    /\ last \in [position : Nat, time : Nat]
    /\ since \in 1 .. MaxBlocks + 1 /\ crossing \subseteq 1 .. MaxBlocks
    /\ toggles \in 0 .. MaxToggles

\* The stamp never pairs one block's sample with another block's start time,
\* and never hands out an older block than before, so that the playhead drawn
\* from it does not go back.
StampReadsAreWhole ==
    [][clock = "stamp" /\ last' # last
       => last'.position = sent'[last'.time] /\ last'.time > last.time]_vars

\* After a stop the control thread gets no anchor of a block from before it,
\* unless that block was publishing at the stop.
AnchorIsOfThisRunUnlessCrossed ==
    clock = "anchor" /\ last # NoReading
    => last.time >= since \/ last.time \in crossing

\* The same without the exception, which is what `invalidate` is for.  It fails:
\* a block that read `playing` before the stop may publish after the
\* invalidation, and its anchor stays.
AnchorIsOfThisRun ==
    clock = "anchor" /\ last # NoReading => last.time >= since

\* The anchor's "readers retry rather than observing a mixed beat/timestamp
\* pair".  It fails: neither side has a fence, and two writers that overlap
\* leave a sequence that is even and a pair of which each wrote a half.
AnchorReadsAreWhole ==
    clock = "anchor" /\ last # NoReading => last.position = sent[last.time]

=============================================================================
