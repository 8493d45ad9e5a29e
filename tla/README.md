# eseq in TLA+

eseq is a live sequencer and audio engine: a control thread edits a project and
launches scenes, a scheduler thread turns the project into timed events a few
blocks ahead, and a realtime audio callback plays them. These modules model the
places where the three meet, because that is where an unlucky interleaving is
audible and a unit test does not reach it, and the two sequential parts whose
long sequences of legal calls are as hard to test: undo history and the held
notes of a voice.

Source paths are relative to `crates/sequencer/src/` unless they start at the
repository root.

| question | module | runs | proofs |
|---|---|---|---|
| Can an event be lost, freed on the audio thread, or overflow its ring? | `ScheduledEventQueue` | `event_queue` | `SnapshotHandoff_proofs` |
| Does the callback always get the newest project, and never free one? | `SnapshotHandoff` (implements `LatestValue`) | `handoff` | `SnapshotHandoff_proofs` |
| Does what is published describe the live state? | `SnapshotPublication` | `publication` | `SnapshotHandoff_proofs` |
| May the track layout change under scheduled events? | `TopologyEdit` | `topology_safety`, `topology_live` | `TopologyEdit_proofs` |
| Does a scene launch start on its beat, once, and stay? | `QuantizedLaunch` | `launch` | `QuantizedLaunch_proofs` |
| Does a song play its rows while it is edited? | `SongPlayback` | `song`, `song_edit` | `SongPlayback_proofs` |
| Does a held key sound on every grid line, and stop? | `Roll` | `roll` | `Roll_proofs` |
| Which note owns a mono voice, and does it end? | `MonoVoice` | `voice` | `MonoVoice_proofs` |
| Can a reader of the audio clocks get a mixture or a stale clock? | `SharedClocks` | `clocks` | `SharedClocks_proofs` |
| Do undo, drags, transactions and saves tell one story? | `History` | `history` | `History_proofs` |

Each `MC*` module gives the constants of one module their values; each `.cfg` is
one run. Eleven runs pass and one is expected to find a violation;
see *Divergences*.

## 1. Inventory

### Threads

* **control thread** (`ui/event_loop.rs`, `app/`): the UI, the editor, undo and
  redo, host commands. Owns the live project state (`sequencer/state`).
* **scheduler thread** (`scheduler/worker.rs`): polls every 1-2 ms, keeps a
  lookahead of four blocks filled. Runs user Lisp for accumulators and effects.
* **audio callback** (`audio/callback.rs`): one block every few milliseconds;
  must not lock, allocate or free.
* **note audition** pushes preview events next to the scheduler.
* workers for MIDI input, recording, learning, bouncing and agents.

### Components on the event path

**Scheduled event queue** (`scheduler/scheduled_event.rs`). State: a lock-free
ring of `Arc` events and a mutexed vector `retained` with a second `Arc` of each.
Operations: `push`, `pop`, `clear`. The producer reclaims an event when its
strong count is one; admission counts `retained`, so that a ring slot is always
free. *Hard*: the scan runs while the callback pops and drops. *Correct when*: no
admitted event panics the push, the callback never runs a destructor, spent
events are reclaimed.

**Snapshot publication** (`sequencer/state/sequencer_state/publish.rs`). State:
the published `Arc<SequencerSnapshot>` under a mutex, a version counter, the depth
of coalescing scopes and a pending flag. Operations: publish in full, one track
or the transport only; `coalesce_publishes`. *Hard*: publishing from the
scheduler's Lisp VM while the UI has a scope open. *Correct when*: no edit stays
unpublished, and a scope is one publication.

**Snapshot handoff** (`sequencer/state/snapshot_handoff.rs`, the last part of
`publish.rs`, `audio/session.rs`). State: a ring of versions toward the callback
and a ring of retired snapshots back. Operations: `publish`, `refresh`
(`take_latest`, swap, `retire`), `drain_retired`. *Hard*: superseding and taking
race on one ring; the retire ring has several producers and consumers; the
stream opens between a store and its version bump. *Correct when*: the callback
ends up with the newest publication, never goes back, never frees.

**Topology edits** (`sequencer/state/sequencer_state/topology.rs`, `app/edit.rs`,
`ui/host_commands/tracks.rs`, the topology parts of `scheduler/worker.rs`,
`audio/callback.rs` and `audio/voices/runtime.rs`). State: the layout, a pattern
epoch and a topology epoch, four atomics for an edit request, and per-index
runtime in the callback. Operations: request, answer, time out, edit, complete;
deletion of one and of several tracks, their undo and redo, appending. *Hard*:
every thread has its own idea of what index 3 means. *Correct when*: an event
sounds on the track it was scheduled for, and runtime follows its track.

**Quantized launches** (`quantized_launch.rs`, `app/mod.rs`, `app/effect_params.rs`,
`scheduler/lookahead.rs`, `scheduler/worker.rs`). State: two channels, valid
tokens and owners on the control side; pending, boundary, installed and adopted
launches on the scheduler side. Operations: schedule, cancel (a token, an owner,
everything), become due, install, mirror, acknowledge. *Hard*: the launch is
audible before the control thread knows, its mirror is published, acknowledged
and observed at three times, and cancellations overtake all of them. *Correct
when*: no launch is lost, it starts on its beat, its mirror neither clears the
queue nor brings back the old scene, and no override outlives its launch.

**Scheduler worker and lookahead** (`scheduler/worker.rs`, `lookahead.rs`,
`clock.rs`). State: the frontier, the clock, what it saw last (playing, pattern,
epochs, tracks), roll and graph runtimes. One pass loads, receives, compares,
resyncs or schedules. Modelled from four sides, in `TopologyEdit`,
`QuantizedLaunch`, `SongPlayback` and `Roll`.

**Audio callback and voices** (`audio/callback.rs`, `audio/events.rs`,
`audio/voices/`). State: its snapshot, countdown events, voice pools, mono
stacks, legato holds. Modelled where it meets the queue, the handoff and the
layout, and for one mono voice.

**Song playback** (`sequencer/state/song_runtime.rs`, `app/song_transport.rs`,
`app/arr_edit.rs`, the song part of `scheduler/worker.rs` and `lookahead.rs`).
State: the compiled song and the ordinal last mirrored (control thread), a cursor
with a layout that waits for a boundary (scheduler), two bounded channels.
Operations: start, stop, refresh (a pattern edit), rebuild (a layout edit),
boundary, wrap, mirror. *Hard*: the song travels on a channel and `playing` in a
snapshot; edits, stops and notices cross; boundaries fall between samples.
*Correct when*: a beat sounds from its row, an edit is heard, what sounds goes on
to its boundary, and the live grid shows it.

**Rolls** (`scheduler/roll.rs`, `sequencer/state/sequencer_state/roll_input.rs`,
`ui/input.rs`). State: the gesture side's keys, sources and command queue;
roll mode, rate and `sequence_rolling` as atomics; held and fresh notes, windows
and a process roll on the scheduler. *Hard*: the mode is read when a key goes down
and again when it comes up, a process roll writes it in between; stop and start
clear on both sides. *Correct when*: what rolls is what is held, every line once,
and a process roll gives back what it took.

**Voice allocation and held notes** (`audio/voices/mono.rs`, `legato.rs`,
`audio/events.rs`, `audio/callback.rs`). State: held keys in order, the key in
`active_keyboard_notes`, pending gate-offs, the holds of displaced notes. *Hard*:
keys and steps take the same voice from one another, each with its own way to
end. *Correct when*: no gate stays open, and the note that should sound does.

**Undo history and saving** (`app/history.rs`, `app/edit.rs`, `app/project_save.rs`,
`app/projects.rs`, `ui/event_loop.rs`). State: two stacks of patches with
revisions, an open gesture with what it has staged, the saved revision, saves in
flight. *Hard*: an edit lands beside a drag of the same device, a transaction is
squashed or rolled back across evictions, a save lands after further edits.
*Correct when*: the stacks lead from the document to where they say, a
transaction is one step or none, and clean means saved.

**Shared clocks** (`sequencer/state/audio_clock.rs`, `RecordClockAnchor` in
`core.rs`). State: two sequence locks, each over a position and a wall time, and
what the callback remembers of the transport. Operations: `stamp`, `publish`,
`invalidate`, `sample_at`, `sample`. *Hard*: relaxed memory, and an anchor written
by two threads. *Correct when*: a reading is of one block, not older than the one
before, and an anchor does not survive a stop.

### Other components

**Take recording** (`app/take_recording.rs`, `audio_tap.rs`, `recorder.rs`) is
stateful and concurrent too, and not modelled yet. **Process graphs and generators** (`runtime/`),
**effects, instruments and DSP**, **groove**, **bounce**, **MIDI
devices**, the **UI**, the **Lisp runtime** (`crates/eseqlisp`), the **agent
harness**, the **C graph engine** (`crates/sequencer/audiograph`), plugin formats
and content are not modelled: numeric, sequential, I/O or vendored code.
`PROJECT.json` lists each with its reason, and under `hazards` what is hard to
test, with the properties that cover it.

### How they interact

```
 control thread --edit, publish--> scheduler_snapshot (mutex) --load--> scheduler
      |   ^                              |                                 |
      |   |                       handoff rings                     event queue
      |   |                              v                                 v
      |   +--- due channel ---      audio callback <-----------------------+
      +------ request channel, topology_edit_* atomics ------> scheduler
```

`SnapshotPublication` looks inside the first arrow, `SnapshotHandoff` inside the
rings, `ScheduledEventQueue` inside the queue. `TopologyEdit` and
`QuantizedLaunch` take all three as single steps, as the other modules justify:
publication is one atomic replacement and the callback's view moves forward only
(`RegisterSafe`), an admitted event stays valid until the
callback is done with it (`OutstandingIsRetained`).

## 2. The modules

### ScheduledEventQueue

The variables are the two containers, the mutex, and per producer the program
counter, the event in hand and the part of `retained` that `Vec::retain` has not
inspected. `push` is five actions (`PushLock`, `PushScan` per entry, `PushReject`
or `PushRetain`, `PushPublish`), because the callback runs between any two of
them. An event is the *address* of a payload: an address may be reused once
nobody owns it, which makes aliasing expressible. `Arc::strong_count` is derived
from who holds the address (`Shared`), not counted. `leased` is everything the
callback holds, in its countdown or its block scratch.

### SnapshotHandoff and LatestValue

A snapshot is its version. Each `while let Some(..) = pop()` is one action per
pop. The publisher's store, version bump and ring operations are separate because
the opening stream (`OpenVersion`, `OpenSnapshot`) reads between them; the mutex is
the variable `lock`. `retired_inline` counts retirements that find the ring full,
which is the free on the audio thread the design is about. `LatestValue` is the
promise without rings or locks: versions are published one after the other, the
reader jumps forward to a published one, and does not stay behind.
`Register == INSTANCE LatestValue WITH latest <- version, seen <- current`.

### SnapshotPublication

The live state is a set of parts (tracks and the transport); the content of a part
is how often it was edited, so that "the snapshot is current" is equality. A
publication clones and captures part by part. The depth check, the deferral, the
scope's decrement and its swap are separate steps. Any number of threads publish;
the code has two, the UI, which opens the scopes, and a Lisp native on the
scheduler's VM. Three ghosts name what they do to one another, and each is an
exception of one property: `overwritten`, the parts a publication put back to an
older content, with a snapshot it had cloned or captured before the other one
published; `late`, a deferral recorded when the exit of its scope had already
looked, for which the next scope pays; `early`, the threads past their look at the
depth when the outermost scope was opened.

### TopologyEdit

A layout is a sequence of track identities. An event carries the index it was
scheduled for and, as a ghost, the track the index meant; `runtime[i]` is the track
whose held keys and voices the callback keeps at `i`. Time is relative: `lead` is
how many blocks the frontier is ahead of the render head, `due` the blocks until an
event sounds, which makes the state finite without bounding playback. The scheduler's
pass loads the render head, the snapshot and the edit ids in three steps and then
acts on them, while blocks go by (`pass.elapsed`). A block of the callback is
three steps: refresh with one of the three reconciliations, the reading of the
edit request, and the rendering.

`Kinds` selects the commands: `delete`, `append`, `delete_many`,
`replay_deletion` (undo of a creation, redo of a deletion) and `replay_restore`
(undo of a deletion). The module asks that a block with the newest snapshot goes
by before the next command starts (`CanStart`): commands come from a hand, but two
edits between two blocks are thereby left out.

### QuantizedLaunch

`fate` says what became of each launch, `work` what the control thread's handler
still has to do (apply, acknowledge, forget), so that every message it sends is a
step of its own. The scheduler's pass is `Load`, `Receive` per message,
`SettlePlaying` or `SettleStopped`, `ScheduleChunk` per chunk, `PassDone`. A scene
stands for its content. `InOrder` is a sort by a key (the code's `sort_unstable`
and `min_by`), `Kept` what `retain` leaves; both are defined by what they return,
which is what the proofs use. `launched`, `wiped` and `forgot` are history variables
for the properties. Time is counted in beats of one playback, up to `MaxBeat`.
Left out: song playback (which suppresses launches while it runs), the per-kind
content of a launch, scene-macro faders other than their launches.

### SongPlayback

A layout is a model value whose rows, end and loop flag `Compiled` gives; a song
is a layout, the version of its patterns and the tempo it was compiled at. Time is
in ticks and a tempo is a number of ticks per sample, so that a row may begin
between two samples and the rounding of `Frame` matters. The control thread's
`Play` and `StartPlayback`, `Stop` and `StopPlayback` are two steps each, because
the command and the publication are. The scheduler's pass is `LoadSnapshot`,
`DrainCommands`, then one action per kind of chunk: `PlanFirst`,
`InstallAtBoundary`, `WrapToStart`, `EnterNextRow` (which send the notice) and
`PlanChunk`. `After(cs, s)` is the cursor, the clock and the frontier once each of the
commands `cs` was applied. `ahead` is how far the frontier is ahead of the render head
the pass read, negative where the callback has overtaken it. A pass in which live
MIDI-FX notes begin or end (`scheduler/worker.rs:575-594`; the `seeks` of
`DrainCommands`) takes the clock back to that render head, during a song as well, and
tells the song nothing: `Rewound` leaves the row and the origin where they are. The
seek of a layout edit that invalidates what is queued
(`reconcile_playing_topology_change`, `scheduler/worker.rs:56-70`) does the same and
is one of `seeks`. `chunk` is the last chunk planned; `missed`, `slipped`, `retimed`,
`rewound`, `skewed`, `noted`, `mistaken` and `dropped` are history that names the
exceptions of the properties. A song is `rewound` from such a seek to its next row. It is
`skewed` when the seek parted the clock from the boundaries for good: it went by
another tempo than the rows were planned with, back over a wrap, or on from a frontier
the callback had overtaken. `noted` is the layout the mirrored ordinal was last set or renumbered
for: a notice that is suppressed by an ordinal of another layout is an exception of
`MirrorIsSounding`, and needs a rebuild that a full channel refused, so that
`song_mirrored_row` was not cleared (`app/arr_edit.rs:1390`), and a refresh after
it. Left out: manual latches, arrangement takes and their capture, the end
of a song that was asked to stop there (`prepare_song_playback` never asks), the
accumulators a destructive layout edit restarts with its seek, passes held for such
an edit, the shared position for the playhead, floating-point time.

### Roll

Time is in units since playback started; a grid is a number of units. A gesture
that reads the mode and pushes a command is two steps (`PressKey`, `Push`), as are
`Stop` and `PublishStop`. The scheduler's pass is `Poll`, `DrainCommands`, then
`Parked`, `HoldStart` or `StartChunks`, a `PlanChunk` per chunk, `EndPass`.
`After(cs, s)` is what the held notes, sources, rate and process roll are once
each of the commands `cs` was applied, a recursive function over the commands.
`PlanChunk` takes the duration of a `roll!` the chunk may contain. `hits` are the
lines planned for the present press of a note, from the render head of the pass on;
`promised`, `lost`, `dropped` say what the gestures asked for. `Poll` reads the
render head once (`scheduler/worker.rs:949`), and the callback goes on while the pass
lasts. A start, a move of `pattern_epoch` (`scheduler/worker.rs:832-850`) and live
MIDI-FX notes that begin or end (`scheduler/worker.rs:575-594`) clear the queue and
`Seek` the frontier back to the render head *as read*, over lines that may have sounded
since: those stay in `hits`, and `again` says that the seek is going to plan them a
second time. Between two passes the audio does not overtake the frontier, and during
one it does not overtake the lookahead (`Reach`). Left out: the positions of the windows a sequence roll loops, and
their remapping and recapture on a rate change; grooves; the recording of what was
heard; a full event queue in the middle of a chunk.

### MonoVoice

The callback's block is `BeginBlock`, then on each frame `DispatchGateOff`,
`FireStep` and `Tick`; keys and settings change between blocks, where the callback
drains them. `held`, `current` and `priority` are `MonoHeldNotes`; `owner` is the
voice's entry in `active_keyboard_notes`; `holds` and `off` are the legato holds
and the voice's gate-off. A release is four actions, one per `MonoRelease`.
`phrase` keeps, without any capacity, which notes of the legato phrase still run:
it is what the holds are compared with. Left out: polyphony and stealing, other
tracks' holds in the same vector, samplers, racks, free patches, retrigs, ungated
instruments, auditions and pressure.

### SharedClocks

`mem` keeps every message stored in a location, with the view its writer releases
with it; `views` is what each thread has seen, what an acquire fence would show it,
and what its last release fence published. The memory operators
(`StoreRelaxed`, `LoadAcquire`, `FetchAddRelease`, `FenceAcquire`, ...) stand for the
accesses the code names, and each atomic access is an action, but for the stamp's
first `fetch_add`, which goes with the fence after it, and its last load, which goes
with the fence before it. `clock` picks the clock a behaviour is about: they share
no location. `sent`, `since` and `crossing` are history. Left out: values out of
thin air; stores that enter a location's order before a later one's; a callback
that reads a `playing` older than the last store, as it would with a store that
takes longer than a block; the extrapolation from a reading.

### History

The document is one device, a value per parameter; a patch is a pair of whole
snapshots of it, as `DeviceValuesPatch` is. `history` is the `UndoManager` field by
field, with the budget's eviction (by entries; the byte budget is left out) in
every operation that appends. `EditBeside` is `apply_beside_gesture` with its
rebase, conflict and split. `TransactionFails` may stop in the middle, because the
undo of a command may fail. A save is captured and marked in `BeginSave`, written
by `WriteFile` (which may fail) in the order the workers wait for one another, and
noticed by `ApplyOutcomes`. `fits` turns off what is claimed once a rollback did
not restore the document; TLC does not follow such states. Left out: the other
kinds of patches (those of the track layout are in `TopologyEdit`); opening a file
that a worker is about to replace.

## 3. The runs

| run | states | what it shows |
|---|---|---|
| `event_queue` | 7 K | `AdmittedEventHasRoom`: the `expect` in `push` cannot fire. `OutstandingIsRetained`, `FreedOnlyByProducer`: the callback's drop is never the last. `EventuallyReclaimed`: spent events are reclaimed while playback pushes. |
| `handoff` | 307 K | `NeverFreedInline`, `NewestIsReachable`, `OnePublicationInFlight` (the eviction loop is dead code, as its comment says), and the refinement `RegisterSafe`, `RegisterLive`. |
| `publication` | 5.3 M | With two publishing threads and nested scopes: no edit is forgotten but what the other thread put back or deferred too late (`PublishedIsCurrent`), any other deferral is owed by an open scope (`DeferralIsOwed`), nothing is published inside a scope but by a thread already past its look at the depth (`ScopesAreSilent`). |
| `topology_safety` | 1.3 M | `PlaysItsTrack`, `RuntimeFollowsTracks`, `HandoffIsQuiet` for deletions (also failing and timed-out ones) and appends around play and stop. |
| `topology_live` | 0.3 M | `BoundaryReached`: whatever the command, the scheduler answers. |
| `launch` | 2.2 M | `ValidIsLive`: no launch is lost. `BoundaryNotPassed`: it starts on its beat. `OverrideIsOwed`: short of a withdrawal, somebody will release the override. `MirrorIsSilent`: nothing but the divergences below clears the queue on a mirror or brings back the old scene. |
| `song` | 1.8 M | `PlansTheSong`: every sample from the row of its beat, through seeks back to the render head, and none before the song is there. `EditsAreHeardUnlessMissed`, `MirrorIsSounding`, `OnlyBoundariesSwitch`: edits, notices and accumulators follow the sounding row, with the exceptions the properties name. |
| `song_edit` | | finds the edit that `EditsAreHeard` misses. |
| `roll` | 1.7 M | `HoldsFollowGestures`: what rolls is what the gestures left held. `EveryLineSoundsOnce`, through seeks back to the render head the pass read, but for lines played since. `ProcessRollGivesBack`. `RollingKeysAreDownUnlessDropped`: the only notes that roll with no key down are those released while the mode was off. |
| `voice` | 620 K | `NoHangingNote`, `OnlyItsOwnEndClosesAGate`: every gate ends, by its own end. `BestKeyOwnsTheVoice`: the stack agrees with the priority, computed from scratch. `NewestRunningNoteSounds`: the holds agree with the unbounded phrase. |
| `clocks` | 498 K | `StampReadsAreWhole`: the stamp is never a mixture of two blocks and never goes back. `AnchorIsOfThisRunUnlessCrossed`: after a stop no earlier anchor is read, but one of a block that was publishing at the stop. |
| `history` | 480 K | `HistoryDescribesDocument`: the stacks are one walk through documents that meets the live one. `CleanMeansSaved`: what is shown as clean is on disk or being written. `TransactionIsAtomic`. |

A type invariant is stated in every module. `event_queue` and `handoff`
check theirs, and both are proved, as are those of `SharedClocks`,
`QuantizedLaunch`, `SongPlayback`, `Roll`, `MonoVoice` and `History`; the others'
`TypeOK` holds in their runs too when it is added to the `.cfg`.

### Bounds

* `event_queue`: two slots, four addresses, two producers. Two slots are the
  smallest ring that is neither full nor empty; four addresses let both producers
  have one in hand while the ring is full. Proved for every size.
* `handoff`: `MaxVersion` 8, rings of 2 (4 in the code) and 5 (64 in the code).
  Five is the least the proof asks for with two publishers, so that the run sits
  on the edge; eight publications let every slot turn over. Proved for every size
  and every number of publications.
* `publication`: two threads, one of which opens scopes, up to two nested; two tracks,
  two edits of each part. Two edits let a stale capture be older than a publication
  that is itself not the newest. With both threads opening scopes the properties hold
  too.
* `topology_safety`: three tracks (one before, one at, one after a deletion), three
  commands (start, edit, and one more), lookahead of two blocks, one event in
  flight that swing may delay by one block. `topology_live` starts
  from two tracks and takes two commands of every kind without swing. An event interacts with indices and
  epochs but not with other events, so one is enough.
* `launch`: two launches, two scenes, two tracks, three transport toggles,
  `MaxBeat` 4 with a grid of one beat and chunks of two, so that launches fall
  inside a chunk. The due channel holds one (256 in the code), so that the backlog
  is used; the request channel holds six and is never full, so the loss of a
  message on a full channel is *not* covered by the run. It is by the proofs, which
  hold for every size of the channels.
* `song`, `song_edit`: a layout of two rows that does not loop and a shorter one of
  one row that does, whose only row sounds like the other's second; so an edit may
  change the sounding row or not, shorten the song under the playhead, and turn an
  end into a wrap. Tempos of 2 and 3 ticks put row starts between samples. Three
  starts and edits, channels of two, blocks and a lookahead of two samples, of which the
  callback may overtake the frontier by one; no chunk is planned from tick 6 on. A seek may
  thus go back over the only boundary between two rows, and over a wrap. The layout that waits
  for a boundary is always the longer one here: the first pass already plans up to the
  longer one's boundary.
* `roll`: one key and one source, grids of one and three units,
  `roll!` for two, chunks of two, a lookahead of three, five units of time, four
  gestures. Two grids that do not divide the chunk put lines at its start, inside
  it and past its end. Keys do not interact but through the mode.
* `voice`: three keys, two of the same pitch, and room for two of them; two notes,
  two holds; gates shorter than, as long as and longer than a block of two frames.
* `clocks`: four blocks, four stops and starts, two tries. Two blocks make a
  mixture and three a reader that meets the next one; two runs and a stop between
  them make a stale anchor; a second try is one after a reading that failed.
* `history`: two parameters of two values, one of them dragged by a slice
  gesture; two entries, five revisions, two saves, one more project. Two entries
  are the least in which a squash, an eviction and an insertion below the top all
  happen.

`CHECK_DEADLOCK FALSE` is set where a bounded counter (versions, commands, tokens,
edits, revisions) lets a run end; `event_queue`, `song`, `roll` and `voice` have
something to do for ever and are checked.

### Fairness

* The device calls the callback again and again: weak fairness of its steps. In
  `event_queue` also of each drop, since the callback's countdown runs out.
* The scheduler loop polls without end (`worker.rs`): weak fairness of its passes
  and of its drain.
* A thread inside `push`, `clear` or a publication goes on: weak fairness of those
  steps, not of starting one. Nothing obliges anybody to publish, edit or launch.
* `SongPlayback`, `Roll`, `MonoVoice`, `SharedClocks` and `History` state safety only and assume no
  fairness.
* `EventuallyReclaimed` alone needs more: spent events are reclaimed by later
  pushes only, so it assumes strong fairness of `PushLock`, i.e. a transport that
  keeps playing. Without it the last events of a session are never reclaimed,
  and the code does not claim otherwise.

## 4. The proofs

`SnapshotHandoff_proofs`, assuming finitely many publishers and a retire ring with
three more slots than publishers (the code has 64 and two): `TypeCorrect`,
`NoInlineFree`, `NewestNeverLost`, `AtMostOnePublication`,
`Refines` (`Spec => RegisterSafe`). The heart is `CountInv`: the number of
snapshots retired, or on the way to be retired (in the ring, in a hand, with the
callback, about to be published), stays within the publishers plus four. Retiring
moves one unit from one place to another; only a publisher adds one, and only
after it has seen the retire ring empty. `VersionInv` and `CallbackInv` order the
versions in the different places, `LockInv` ties the mutex to the critical section.
Each action has a lemma; `NextIInv` puts them together.

The second part of the module, about `SnapshotPublication`, is for any finite set of
publishing threads, of which any may open scopes, and any tracks, number of edits and
depth of scopes: `NoEditForgotten`, `DeferralPaid`, `NothingPublishedInScope`, each with
the exceptions its property names (without them all three are false, see
*Divergences*). `ScopeInv`: the depth is the number of scopes that are open, counted as
pairs of a thread and a level (`OpenScopes`), and a publication is past its look at it
only when there is none or in `early`. `CaptureInv`: nothing is ahead of the live
state, and what the published snapshot lacks is owed by a deferral, is to be captured
or was captured as it is by a publication under way, or was put back.

The third part of the module, about `ScheduledEventQueue`, assumes a capacity of at
least two and finitely many events: `QueueTypeCorrect`, `Retained`,
`PushNeverPanics`, `CallbackNeverFrees`. The properties are not inductive, because
the ring's length is bounded by the cardinality of `retained` only if no event is
twice in the ring, and an entry may be forgotten only if no producer holds it.
`QueueInv` adds where the mutex is (`RetainedLockInv`), what a hand may hold
(`HandInv`) and that an event sits in one place (`NoAliasing`). `PushNeverPanics` is
then a counting argument: the event in hand is retained and not in the ring, so the
ring draws from one event fewer than are retained.

`TopologyEdit_proofs`: `NothingScheduledInHandoff` (`HandoffIsQuiet`) for every kind
of edit: the boundary is answered at the end of a pass, and every later pass loads
an edit in flight (`HandoffInv`). `RuntimeMovesWithTracks` and `EventsKeepTheirTrack`
for edits that add or remove one track (`OneTrackAtATime`: with the other kinds both
properties are false, see *Divergences*). Their invariant `LayoutInv` says how far the
callback's layout may lag behind (`LagInv`: it is the published one, or that before
one append or one removal, which it was told of), what the rest of the command is
going to do to the layout (`PlanInv`), and that two views with one epoch agree on
every index both have (`MeansTheSame`, in `PassInv`, `EventsInv`, `CountdownInv`).

`QuantizedLaunch_proofs`, for any tracks, scenes, owners, numbers of launches and
capacities, in four layers:

* `TypeCorrect` and `LaunchesStartOnTheirBeat`. The order lemmas come first: that a
  finite set can be sorted by a key is an induction over the subsets for which it is
  false, of which there would be a least (`LeastSubset`, `SortedExists`), so that the
  `CHOOSE` of `InOrder` chooses. `BoundaryNotPassed` is then inductive with the
  types: a chunk ends at the earliest deadline that it does not install, and a new
  launch gets a deadline at or after the frontier.
* `NoLaunchIsLost`. `TokenInv`: tokens are taken in order and never become valid
  again. `LiveAll`: a launch that is still valid is the one its owner shows
  (`OwnInv`), it is in the request channel, at the scheduler or reported
  (`LiveInv`), and no request behind it in the channel drops it (`FifoInv`). The last
  one makes it inductive: a cancellation is sent when the launch is withdrawn, and
  the channel keeps the order.
* `OverridesAreReleased`. `ReleaseInv`: a token is asked for, waiting or reported
  at one place only (`EarlyInv`, `OnceInv`), the reports and jobs of an installed launch
  are marked as applied (`AppliedInv`), and somebody owes the release (`OwedInv`). The
  theorem assumes that an acknowledgement finds room (`[][Acknowledge =>
  HasRoom]_vars`): `acknowledge_mirror` ignores a refused send (`quantized_launch.rs:781`),
  and with `RequestCapacity = 1` TLC finds `OverrideIsOwed` violated in the `launch`
  run. The code leaves it to a channel of 256. The theorems above need no such
  assumption: a launch that finds no room is refused, and a cancellation that is
  lost cancels nothing.
* `MirrorsAreSilent`, the longest proof of the project, under the same assumption. The
  launches the scheduler installed are on their way to it again through its backlog, the
  due channel, the control thread's jobs and the request channel. `RankInv`: some
  ranking of the tokens increases along that whole line (`InLine`), along the overrides
  and along the adoptions (`Ranked`); a batch that arrives gets the next ranks
  (`NewRank`), and every other step only thins the line out (`Thinner`). On that line,
  `Follows` cuts the adoptions in two places: up to the first they lead to the snapshot
  the scheduler knows, from there to the second to the one that is published, and what
  is still to be mirrored comes later. So a pattern that changed is an adopted one
  (`SwitchAdopts`). `LastOn` says which launch is the last of a track, and that it is
  installed there, or the published content has it (`LastPlays`). `QuietInv` and
  `TakenInv` hold as long as no live launch cancels everything: what is under way is
  then never dropped, and every report is of a valid launch.

`MonoVoice_proofs`, for any keys, pitches, notes, gate lengths, block length and
capacities:

* `NothingHangs`, `BestKeyHasTheVoice`. `NoHangingNote` needs that the key that owns the
  voice is held (`OwnerInv`), which is also most of `BestKeyOwnsTheVoice`. What
  `selected` returns is read off its definition with the least and the greatest of a
  set of numbers, and a removal or a press is followed key by key (`WithoutKeeps`,
  `PressedKeeps`).
* `NewestNoteSounds`, `GatesCloseInTime`. `ClockInv`: the one gate-off is that of the
  newest hold, whose note is the one that sounds. `PhraseInv`: the phrase is the holds
  that run past `Now`, in their order, with what is left of each (`Traces`). The code
  drops ended holds at two places and at other frames than the phrase does, so the
  two lists are never filtered together: `Lists` states the order of a selection by an
  increasing function of places, `ListExists` that every selection has one (so that the
  `CHOOSE` of `Kept` chooses), and `TracesKept`, `TracesTick` and `TracesAppend` follow
  it through the holds that are dropped, the frame that passes and the note that
  starts. `GateInv` adds when the gate is open; two increasing lists of one set end in
  the same place (`ListEnds`), so the last of the phrase is the newest hold.
* `TypeCorrect`, last, because that there is one gate-off at most is `ClockInv` and the
  size of the held keys is `PressedFits`.

`SharedClocks_proofs`, for any number of blocks, stops and tries, in release/acquire
memory: `TypeCorrect`, `OldAnchorsAreHidden`, `StampIsWhole`. The first part gives each
memory operator its effect (`Stored`, `Loaded`, `Learns`), so that the rest never opens
a view. `AnchorInv`: every timestamp the control thread may still load is of this run,
invalid, or of a block that crossed the stop; its views only grow, so what it may load
only shrinks. `StampInv`: the n-th round stores its values in order (`RoundsInv`); an
even sequence carries the values of its round and a value carries the odd
sequence before it (`CarriedInv`), which is what the two fences are for; so a reader that
finds the sequence unchanged has no value of a later round (`ReaderInv`).

`History_proofs`, for any device, names, budgets and bounds: `TypeCorrect`,
`DescribesTheDocument`, `Atomicity`, `SavedIsKept`. Both stacks are seen as one trail of entries, the
undo stack followed by the redo stack backwards, in which undo and redo move only the
place where the document stands (`Trail`, `TrailStays`). The stacks alone are not
inductive, because the code finds its way by revisions: `enforce_budget` keeps "the
entry of the protected revision", and a transaction is over when the revision is the
one it began with. `Ordered` therefore says that entries meet in a revision nothing
else starts from, `Walks` and `Describes` that they meet in a document, with the frames
of an unfinished drag taken away (`SettledAt`), and `Inside` what a transaction may have
done since its checkpoint: entries on the same undo stack, or a redo stack that is
empty. The `CHOOSE` of `EnforceBudget` is resolved by `LeastNatural`; each history
operator has a lemma of what it keeps (`BudgetKeeps`, `CommitKeeps`, `FinishKeeps`,
`UndoKeeps`, `RollbackKeeps`, `SquashKeeps`, ...), and each action one that composes
them in the order of the code. `Atomicity` states both halves: a transaction that fails
restores the document, one that succeeds is one entry.
`SavedIsKept` (`CleanMeansSaved`) adds `SaveInv`: a revision that is saved, or on its way
to be, stands for the document that was written and for no other (`Means`, in
`MeaningInv`). That survives because a step only ever knows the revisions it knew, of
the documents they had, or new ones (`Continues`), including the revision a split
puts below the newest entry and the ones a squash forgets. `GenerationInv` and
`QueueInv` order the saves: they are written in the order of their projects, so that an
older project's save cannot replace the file of the open one, which rests on the guard
with which a project is opened; `SavesOutside` says that nothing is marked as saved between a
transaction's checkpoint and its end, so a squash cannot forget a saved revision.

`Roll_proofs`, for any notes, sources, grids, durations, block and lookahead:
`TypeCorrect`, `HoldsFollow`, `RollingKeysAreDownOrDropped`, `LinesSound`,
`ProcessRollReturns`. `After` is recursive, and the library's induction cannot be used
here, so `RunExists` finds a run of intermediate values for every batch from the least
length for which there would be none; `AfterRuns` and `EachCommand` read `After` off
that run one command at a time. `AppliedFollows` then says who is held after a batch (the
last command about a note decides, unless a clear comes later), which `HoldInv`
compares with what the gestures promised, command by command as they are pushed.
`KeyInv` and `PendingInv` tie a gesture that has read the mode to the command it is going
to push, `ModeInv` and `RollingInv` say who armed roll mode and `sequence_rolling`
and is going to give them back, and `LineInv` that the lines planned for a press are
those between its start and the frontier, with those `again` above it, which is what
makes the catch-up of a fresh key and the regular scan meet without a gap or an overlap.
`TimeInv` keeps the render head the pass read, the render head and the frontier within a
lookahead of one another, and in this order between two passes.

`SongPlayback_proofs`, for any layouts, tempos, cursors, block size and capacities and
any number of edits: `TypeCorrect`, `PlansCorrectly`, `EditsArrive`, `MirrorFollows`,
`SwitchesOnlyAtBoundaries`. The invariant has one part for each promise:

* `CursorInv`: the row is one of the song's, the clock is the samples planned times the
  tempo, and, unless a seek took it back, it is not a whole sample before the row's start
  (`InStep`). A chunk then ends before the boundary because `Frame` rounds up
  (`FrameBounds`, `ChunkEnds`), and a boundary with no samples left has been reached
  (`BoundaryReached`), also where a pass began between two rows. All of this holds
  only while the rows have the tempo the boundaries were laid out with, hence
  `retimed`, and while every seek moved the clock as far as the song's own count of
  samples, hence `skewed`.
* `SentInv`: the last command carries the song the control thread believes in, and a
  song is there once the commands are taken (`SongComes`); `PlayInv`: a start is in the
  channel before the snapshot that plays is published. `After` is read off a run of
  intermediate cursors (`RunExists`, `AfterRuns`), as in `Roll_proofs`, of which
  `AfterDoes` says what one command after the other leaves: an edit moves nothing that
  has begun (`Follows`, `Continues`), and the last one is what is newest.
* `ChunkInv`: the source remembered with a crossing is the last chunk's, also when a
  layout was installed in between.
* `MirrorInv`: the last notice is of the row that sounds, and the mirrored ordinal is
  of the row the live grid plays, in the layout it was noted for. The proof failed at
  a suppressed notice until `noted` was added, and TLC then found the refused rebuild
  with a channel of one and five starts and edits.

Only model-checked is every liveness property (`EventuallyReclaimed`, `RegisterLive`,
`BoundaryReached`): TLAPS does not reason about fairness and ENABLED here.

## 5. Divergences

One run refutes a statement of a comment in the code.

* `song_edit`: "rows the playhead has not reached pick up the edit"
  (`scheduler/worker.rs:285`). A refresh is compared with the layout that sounds
  (`song_runtime.rs:541`) and refused while another one waits for its boundary; the
  one that waits is then installed with the pattern as it was. It is also installed
  over a refresh that was taken, when the arrangement has come back to the layout
  that sounds.

The modules state fifteen more that no run checks, or that a run checks with a named
exception. Each has a counterexample, found by checking the named formula in the run
of its module, with the change given here.

* `SnapshotPublication.DeferralIsOwed` without `~late`:
  "let the scope's exit pay for one capture" (`publish.rs:422`). A second publisher
  that looked at the depth in time sets the flag after the exit has swapped it. The
  next scope pays, whenever there is one.
* `SnapshotPublication.PublishedIsCurrent` with `Parts` for `Parts \ overwritten`: a
  partial publication clones the snapshot and stores it back without a lock in between
  (`publish.rs:485`), over what another thread published meanwhile; a full one
  captures part by part.
* `SnapshotPublication.ScopesAreSilent` without `early`: a thread that looked at the
  depth before a scope was opened publishes inside of it. (No comment denies
  these last two.)
* `TopologyEdit.PlaysItsTrack` with `Kinds = {"replay_deletion"}`: "reindex survivors"
  (`audio/voices/runtime.rs:889`). Undo of a track creation announces the cursor's
  track (`app/edit.rs:11959`), and the callback reindexes around that one.
  `{"delete_many"}` announces its first track and deletes from the last, with the
  same outcome; `{"delete", "replay_restore"}` violates `RuntimeFollowsTracks`.
* `TopologyEdit.NewestIsPlayed`: "the audio callback rejects events against the live
  atomic epoch" (`app/graph/track_create.rs:1018`). It uses its snapshot's
  (`audio/callback.rs:778`), so an event of the newest epoch may be dropped in the
  block in which the snapshot is published.
* `QuantizedLaunch.OverrideNeverLeaks`: "so the override never leaks"
  (`quantized_launch.rs:775`). The due of a launch that was withdrawn after its
  installation is dropped without an acknowledgement.
* `QuantizedLaunch.NeverTakenBack`: "the base snapshot now carries the launched
  content" (`quantized_launch.rs:128`). Not the one loaded at the start of the pass.
* `QuantizedLaunch.MirrorIsNotAResync`: the adoption is "released when the worker
  actually observes the published pattern change" (`quantized_launch.rs:215`).
  `CancelAll` releases it earlier; a stop clears the list while mirrors are on their
  way, and so does a ninth launch with its oldest entry.
* `Roll.RollingKeysAreDown`: "Turning roll mode off always clears stuck rolls"
  (`ui/host_commands/misc.rs:29`). The deadline of a process roll that armed the
  mode turns it off without a clear, and a key released after it sends no
  `NoteOff`. The note rolls by itself the next time the mode is on.
* `Roll.LinesSoundOnce` with `new \cap hits` for `new \cap (hits \ again)` in `PlanChunk`:
  a seek goes back to the render head as the pass read it
  (`scheduler/worker.rs:842-844`, `575-577`), so that a line the callback played between that
  and the clearing of the queue is planned, and heard, a second time.
* `SongPlayback.PlansTheSong` without `chunk.rewound`: "events strictly before it come
  from the old row, events at/after from the new row" (`scheduler/lookahead.rs:597`). Live
  MIDI-FX notes that begin or end just after a row was entered take the clock back before
  its boundary and not the song's cursor (`scheduler/worker.rs:575-594`), so that the beats
  before the boundary are planned again from the row after it. Without
  `~chunk.skewed` it fails too: a seek by a new tempo, back over a wrap or on from a late
  frontier leaves the boundaries off the beat until the song is next wrapped or started.
* `SharedClocks.AnchorReadsAreWhole`: "readers retry rather than observing a mixed
  beat/timestamp pair" (`sequencer/state/core.rs:248`). The anchor's writer has no fence after the
  odd sequence and its reader none before the second look, so that on a weakly
  ordered machine a reader may see half of the next block. The second writer does
  it without any reordering: a stop between the writes of a block makes the
  sequence even twice.
* `SharedClocks.AnchorIsOfThisRun`: `sample` returns nothing from a stop "until the
  audio callback publishes a fresh one" (`sequencer/state/core.rs:259`). A block that read `playing`
  before the stop publishes after the invalidation.
* `History.RollbackAlwaysRestores`: the test
  `failed_authoring_request_rolls_back_and_preserves_prior_history`
  (`app/edit.rs:15616`) says so of a request; one that begins while a drag is open
  undoes the drag, and restores a history in which it is still open.
* `MonoVoice.NothingResumesOnceStopped`: "A stale stack must never survive a transport
  stop" (`docs/legato-mono-spec.md`). Stop keeps gate-offs and holds
  (`audio/events.rs:883`), so a displaced note may come back after it, and ends.

And one the models do not state: `docs/song-mode-spec.md:489` has a song follow
tempo edits, while `scheduler/worker.rs:253` lays its boundaries out with the tempo
at Start. `PlansTheSong` excuses a playback whose tempo changed under it.

## 6. Plan

1. Compositions: `QuantizedLaunch` over `SnapshotHandoff` (launch, publication and
   the callback's epoch check in one model), `TopologyEdit` with launches pending,
   `SongPlayback` with the launches it suppresses.
2. Proofs: those of the compositions, by the invariants of their parts. Every safety
   property that a run checks has its theorem; for
   `TopologyEdit` under the restrictions section 4 names. A new module keeps its
   invariants as named conjuncts and uses recursive functions (`After`), no `RECURSIVE`
   operators.
