------------------------- MODULE SongPlayback_proofs -------------------------
(***************************************************************************)
(* Proofs about SongPlayback, for any layouts, tempos, cursors, block,     *)
(* channels and number of edits: first what the rows and the commands do,  *)
(* then the invariant, one part for each promise, and the theorems.        *)
(***************************************************************************)
EXTENDS SongPlayback, SequenceTheorems, WellFoundedInduction, TLAPS

-----------------------------------------------------------------------------
(* The rows of a layout                                                    *)

\* A set of natural numbers has a least one.
LEMMA LeastNatural ==
    ASSUME NEW T, T \subseteq Nat, T # {}
    PROVE  \E x \in T : \A y \in T : x <= y
<1> DEFINE R == OpToRel(<, Nat)
<1>1. IsWellFoundedOn(R, Nat)
  BY NatLessThanWellFounded
<1>2. \A x, y \in Nat : x < y => <<x, y>> \in R
  BY DEF OpToRel
<1> HIDE DEF R
<1>3. PICK x \in T : \A y \in T : <<y, x>> \notin R
  BY <1>1, WFMin
<1>4. \A y \in T : ~(y < x)
  BY <1>2, <1>3, Zenon
<1>5. QED
  BY <1>4

\* A bounded set of natural numbers has a greatest one.
LEMMA GreatestNatural ==
    ASSUME NEW n \in Nat, NEW T, T \subseteq 0 .. n, T # {}
    PROVE  \E x \in T : \A y \in T : y <= x
<1> DEFINE gaps == {n - x : x \in T}
<1>1. gaps \subseteq Nat /\ gaps # {}
  <2>1. \A x \in T : n - x \in Nat
    OBVIOUS
  <2>2. QED
    BY <2>1
<1>2. PICK g \in gaps : \A h \in gaps : g <= h
  <2> HIDE DEF gaps
  <2>1. QED
    BY <1>1, LeastNatural
<1>3. PICK x \in T : g = n - x
  OBVIOUS
<1>4. ASSUME NEW y \in T PROVE y <= x
  <2>1. n - y \in gaps /\ x \in Nat /\ y \in Nat
    OBVIOUS
  <2>2. n - x <= n - y
    <3> HIDE DEF gaps
    <3>1. QED
      BY <1>2, <1>3, <2>1
  <2>3. QED
    BY <2>1, <2>2
<1>5. QED
  BY <1>4

\* What a song's layout gives it.
LEMMA SongRows ==
    ASSUME NEW s \in Songs
    PROVE  /\ s.layout \in Arrangements /\ s.tempo \in Tempos /\ s.tempo \in Nat \ {0}
           /\ s # None
           /\ Len(Rows(s)) \in Nat \ {0} /\ DOMAIN Rows(s) = 1 .. Len(Rows(s))
           /\ \A i \in DOMAIN Rows(s) : /\ Rows(s)[i].start \in Nat
                                        /\ Rows(s)[i].source \in Sources
                                        /\ Rows(s)[i].start < EndBeat(s)
           /\ Rows(s)[1].start = 0
           /\ EndBeat(s) \in Nat \ {0} /\ Loops(s) \in BOOLEAN
<1>1. s.layout \in Arrangements /\ s.tempo \in Tempos /\ s.tempo \in Nat \ {0} /\ s # None
  BY TimeAssumption, NoneAssumption DEF Songs
<1>2. Rows(s) \in Seq([start : Nat, source : Sources])
  BY <1>1, CompiledAssumption DEF Rows
<1>3. /\ Len(Rows(s)) \in Nat /\ DOMAIN Rows(s) = 1 .. Len(Rows(s))
      /\ \A i \in DOMAIN Rows(s) : Rows(s)[i].start \in Nat /\ Rows(s)[i].source \in Sources
  <2>1. /\ Len(Rows(s)) \in Nat /\ DOMAIN Rows(s) = 1 .. Len(Rows(s))
        /\ \A i \in DOMAIN Rows(s) : Rows(s)[i] \in [start : Nat, source : Sources]
    BY <1>2, LenProperties, ElementOfSeq
  <2>2. QED
    BY <2>1
<1>4. /\ Len(Rows(s)) > 0 /\ Rows(s)[1].start = 0
      /\ \A i, j \in 1 .. Len(Rows(s)) : i < j => Rows(s)[i].start < Rows(s)[j].start
      /\ EndBeat(s) \in Nat /\ Rows(s)[Len(Rows(s))].start < EndBeat(s)
      /\ Loops(s) \in BOOLEAN
  BY <1>1, CompiledAssumption DEF Rows, EndBeat, Loops
<1>5. ASSUME NEW i \in DOMAIN Rows(s) PROVE Rows(s)[i].start < EndBeat(s)
  BY <1>3, <1>4
<1>6. EndBeat(s) # 0
  BY <1>3, <1>4
<1>7. QED
  BY <1>1, <1>3, <1>4, <1>5, <1>6

\* A beat falls in a row that starts at or before it.
LEMMA RowAtBeat ==
    ASSUME NEW s \in Songs, NEW beat \in Nat
    PROVE  /\ RowIndexAtBeat(s, beat) \in DOMAIN Rows(s)
           /\ RowIndexAtBeat(s, beat) \in Nat \ {0}
           /\ Rows(s)[RowIndexAtBeat(s, beat)].start <= beat
<1> DEFINE T == {r \in DOMAIN Rows(s) : Rows(s)[r].start <= beat}
           Right(r) == /\ Rows(s)[r].start <= beat
                       /\ \A q \in DOMAIN Rows(s) : Rows(s)[q].start <= beat => q <= r
<1>1. DOMAIN Rows(s) = 1 .. Len(Rows(s)) /\ Len(Rows(s)) \in Nat \ {0} /\ Rows(s)[1].start = 0
  BY SongRows
<1>2. 1 \in T /\ T \subseteq 0 .. Len(Rows(s))
  BY <1>1
<1>3. PICK r \in T : \A q \in T : q <= r
  <2> HIDE DEF T
  <2>1. QED
    BY <1>1, <1>2, GreatestNatural
<1>4. r \in DOMAIN Rows(s) /\ Right(r)
  BY <1>3
<1>5. /\ RowIndexAtBeat(s, beat) \in DOMAIN Rows(s)
      /\ Rows(s)[RowIndexAtBeat(s, beat)].start <= beat
  BY <1>4 DEF RowIndexAtBeat
<1>6. QED
  BY <1>1, <1>5

LEMMA ProductGrows ==
    ASSUME NEW a \in Nat, NEW b \in Nat, NEW t \in Nat, a <= b
    PROVE  a * t <= b * t
<1> DEFINE d == b - a
<1>1. d \in Nat /\ b = a + d
  OBVIOUS
<1> HIDE DEF d
<1>2. (a + d) * t = a * t + d * t /\ d * t \in Nat /\ a * t \in Nat
  BY <1>1
<1>3. QED
  BY <1>1, <1>2

LEMMA SumTimes ==
    ASSUME NEW a \in Nat, NEW b \in Nat, NEW t \in Nat
    PROVE  (a + b) * t = a * t + b * t /\ a * t \in Nat /\ b * t \in Nat
OBVIOUS

\* The sample of a beat is the first at or after it.
LEMMA FrameBounds ==
    ASSUME NEW beat \in Nat, NEW tempo \in Nat \ {0}
    PROVE  /\ Frame(beat, tempo) \in Nat
           /\ beat <= Frame(beat, tempo) * tempo
           /\ Frame(beat, tempo) * tempo < beat + tempo
<1> DEFINE n == beat + tempo - 1
           q == n \div tempo
<1>1. n \in Nat /\ tempo \in Nat /\ tempo > 0
  OBVIOUS
<1>2. q \in Nat /\ n = tempo * q + (n % tempo) /\ n % tempo \in 0 .. tempo - 1
  <2> HIDE DEF n
  <2>1. QED
    BY <1>1
<1>3. tempo * q = q * tempo /\ q * tempo \in Nat
  <2> HIDE DEF q
  <2>1. QED
    BY <1>1, <1>2
<1>4. beat <= q * tempo /\ q * tempo < beat + tempo
  <2> DEFINE p == q * tempo
             m == n % tempo
  <2>1. p \in Nat /\ m \in 0 .. tempo - 1 /\ beat + tempo - 1 = p + m
    BY <1>2, <1>3
  <2> HIDE DEF p, m
  <2>2. beat <= p /\ p < beat + tempo
    BY <2>1
  <2>3. QED
    BY <2>2 DEF p
<1>5. QED
  BY <1>2, <1>4 DEF Frame
-----------------------------------------------------------------------------
(* The inductive invariant, one part for each promise                      *)

\* The clock counts the samples and, but for the beats a seek took back, is not
\* a whole sample before its row.
InStep(r, beats) ==
    /\ r.elapsed \in Nat /\ beats = r.elapsed * r.tempo
    /\ ~r.rewound => Rows(r.song)[r.row].start < r.offset + beats + r.tempo

\* The cursor: its row is one of its song's, it has not moved before its first
\* chunk and it is in step with the clock, as long as the rows have the tempo the
\* boundaries were laid out with and no seek has parted the two.
CursorInv(r, beats) ==
    /\ r.row \in DOMAIN Rows(r.song) /\ r.initial \in DOMAIN Rows(r.song)
    /\ Rows(r.song)[r.initial].start <= r.startBeat
    /\ ~r.started => beats = 0 /\ r.elapsed = 0
    /\ ~r.retimed => r.song.tempo = r.tempo
    /\ ~r.retimed /\ ~r.skewed => InStep(r, beats)

\* Rows are planned only while the transport plays, and a crossing is
\* remembered only until the next chunk.
SongInv ==
    /\ song # None => CursorInv(song, clock)
    /\ song # None /\ song.started => wasPlaying
    /\ song # None /\ song.from # None => pc = "plan" /\ song.pending = None
    /\ pc = "plan" => wasPlaying

IsStart(c) == c.kind = "start"
IsStop(c)  == c.kind = "stop"

\* A song is there once the commands are taken: it is and stays, or it starts.
SongComes ==
    \/ song # None /\ \A i \in DOMAIN commands : ~IsStop(commands[i])
    \/ \E i \in DOMAIN commands :
          IsStart(commands[i]) /\ \A j \in DOMAIN commands : j > i => ~IsStop(commands[j])

\* What the control thread's last command carries is what it believes in.
SentInv ==
    active # None =>
        /\ SongComes
        /\ commands # <<>> => /\ ~IsStop(commands[Len(commands)])
                              /\ commands[Len(commands)].song = active
        /\ commands = <<>> /\ song # None /\ ~song.missed => Newest(song) = active

\* A start is sent before the snapshot that plays it is published: a worker
\* that has loaded that snapshot and drained the channel has taken it.
PlayInv ==
    /\ plays <= gestures /\ published.play <= plays /\ snapshot.play <= published.play
    /\ pc # "drain" /\ snapshot.play = plays => \A i \in DOMAIN commands : ~IsStart(commands[i])

\* The last chunk, and the crossings since.
ChunkInv ==
    chunk # None =>
        /\ song # None /\ song.started /\ RowsSoundInTheirBeats
        /\ ~song.slipped =>
              IF song.from = None THEN Sounding(song) = RowSource(chunk.song, chunk.row)
              ELSE song.from \in {"wrap", RowSource(chunk.song, chunk.row)}

NoticeSource(n) == Compiled[n.layout].rows[n.row].source

\* The mirrored ordinal is of the row the live grid plays, and the last notice
\* is of the row that sounds.
MirrorInv ==
    /\ active = None => mirrored = None
    /\ mirrored # None => live = Compiled[noted].rows[mirrored].source
    /\ active # None /\ (\A i \in DOMAIN commands : ~IsStart(commands[i]))
       /\ song # None /\ song.started /\ ~song.slipped /\ ~dropped
       => IF notices # <<>> THEN NoticeSource(notices[Len(notices)]) = Sounding(song)
          ELSE mistaken \/ live = Sounding(song)

IInv == TypeOK /\ SongInv /\ SentInv /\ PlayInv /\ ChunkInv /\ MirrorInv

-----------------------------------------------------------------------------
(* What one command does to the cursor                                     *)

Cursor == [song : Maybe(Runtimes), clock : Nat, ahead : -MaxLate .. Lookahead]

\* The frontier may be at the render head.
LEMMA Frontiers ==
    /\ Block \in Nat \ {0} /\ Lookahead \in Nat \ {0} /\ MaxLate \in Nat
    /\ 0 \in -MaxLate .. Lookahead
    /\ \A a \in -MaxLate .. Lookahead :
          a \in Int /\ a <= Lookahead /\ \A b \in -MaxLate .. a : b \in -MaxLate .. Lookahead
<1>1. Block \in Nat \ {0} /\ Lookahead \in Nat \ {0} /\ MaxLate \in Nat
  BY TimeAssumption
<1>2. QED
  BY <1>1

\* A runtime is no None.
LEMMA RuntimeIsSomething ==
    ASSUME NEW r \in Runtimes
    PROVE  r # None
BY NoneAssumption

\* A start's runtime.
LEMMA NewRuntimeDoes ==
    ASSUME NEW s \in Songs, NEW beat \in Nat, NEW tempo \in Tempos
    PROVE  LET q == NewRuntime(s, beat, tempo) IN
           /\ q \in Runtimes /\ CursorInv(q, 0)
           /\ q.song = s /\ q.pending = None /\ q.from = None /\ ~q.started
<1> DEFINE row == RowIndexAtBeat(s, beat)
           q == NewRuntime(s, beat, tempo)
<1>1. row \in DOMAIN Rows(s) /\ row \in Nat \ {0} /\ Rows(s)[row].start <= beat
  BY RowAtBeat
<1>2. Rows(s)[row].start \in Nat /\ tempo \in Nat \ {0}
  BY <1>1, SongRows, TimeAssumption
<1>3. q = [song |-> s, pending |-> None, from |-> None, tempo |-> tempo, startBeat |-> beat,
           initial |-> row, row |-> row, offset |-> beat, elapsed |-> 0,
           anchor |-> Rows(s)[row].start, started |-> FALSE,
           retimed |-> s.tempo # tempo, missed |-> FALSE, slipped |-> FALSE,
           rewound |-> FALSE, skewed |-> FALSE]
  BY DEF NewRuntime
<1> HIDE DEF row, q
<1>4. q \in Runtimes
  BY <1>1, <1>2, <1>3 DEF Runtimes, Maybe
<1>5. /\ q.song = s /\ q.pending = None /\ q.from = None /\ ~q.started
      /\ q.row = row /\ q.initial = row /\ q.startBeat = beat /\ q.offset = beat
      /\ q.elapsed = 0 /\ q.tempo = tempo /\ (~q.retimed => s.tempo = tempo)
  BY <1>3
<1>6. CursorInv(q, 0)
  <2>1. 0 * tempo = 0 /\ Rows(s)[row].start < beat + 0 + tempo
    BY <1>1, <1>2
  <2>2. QED
    BY <1>1, <1>5, <2>1 DEF CursorInv, InStep
<1>7. QED
  BY <1>4, <1>5, <1>6 DEF q

\* What an edit that is taken while q's cursor is at r leaves as it was.
Follows(q, r) ==
    /\ (q.started <=> r.started) /\ (r.retimed => q.retimed) /\ (r.slipped => q.slipped)
    /\ q.from = r.from /\ q.anchor = r.anchor /\ q.offset = r.offset
    /\ r.started /\ ~q.slipped => Sounding(q) = Sounding(r)

\* A refresh, in the layout that sounds or refused.
LEMMA ReplaceDoes ==
    ASSUME NEW r \in Runtimes, NEW s \in Songs, NEW beats \in Nat, CursorInv(r, beats)
    PROVE  LET q == Replace(r, s) IN
           /\ q \in Runtimes /\ CursorInv(q, beats) /\ Follows(q, r)
           /\ ~q.missed => Newest(q) = s
<1> DEFINE q == Replace(r, s)
<1>1. CASE ~SameLayout(s, r.song)
  <2>1. q = [r EXCEPT !.missed = TRUE]
    BY <1>1 DEF Replace
  <2> HIDE DEF q
  <2>2. /\ q \in Runtimes /\ q.missed /\ q.song = r.song /\ q.row = r.row
        /\ q.initial = r.initial /\ q.startBeat = r.startBeat /\ q.started = r.started
        /\ q.elapsed = r.elapsed /\ q.retimed = r.retimed /\ q.tempo = r.tempo
        /\ q.offset = r.offset /\ q.slipped = r.slipped /\ q.from = r.from
        /\ q.anchor = r.anchor /\ q.rewound = r.rewound /\ q.skewed = r.skewed
    BY <2>1 DEF Runtimes
  <2>3. CursorInv(q, beats)
    BY <2>2 DEF CursorInv, InStep
  <2>4. Follows(q, r)
    BY <2>2 DEF Follows, Sounding
  <2>5. QED
    BY <2>2, <2>3, <2>4 DEF q
<1>2. CASE SameLayout(s, r.song)
  <2> DEFINE again == r.retimed \/ s.tempo # r.tempo
             over == r.pending # None
  <2>1. again \in BOOLEAN /\ over \in BOOLEAN
    OBVIOUS
  <2>2. q = [r EXCEPT !.song = s, !.retimed = again, !.missed = over]
    BY <1>2 DEF Replace, Runtimes
  <2> HIDE DEF q, again, over
  <2>3. /\ q \in Runtimes /\ q.missed = over /\ q.song = s /\ q.row = r.row
        /\ q.initial = r.initial /\ q.startBeat = r.startBeat /\ q.started = r.started
        /\ q.elapsed = r.elapsed /\ q.retimed = again /\ q.tempo = r.tempo
        /\ q.offset = r.offset /\ q.slipped = r.slipped /\ q.from = r.from
        /\ q.anchor = r.anchor /\ q.pending = r.pending
        /\ q.rewound = r.rewound /\ q.skewed = r.skewed
    BY <2>1, <2>2 DEF Runtimes
  <2>4. Rows(s) = Rows(r.song) /\ Sounding(q) = Sounding(r)
    BY <1>2, <2>3 DEF SameLayout, Rows, Sounding, RowSource
  <2>5. (r.retimed => again) /\ (~again => ~r.retimed /\ s.tempo = r.tempo)
    BY DEF again
  <2>6. CursorInv(q, beats)
    BY <2>3, <2>4, <2>5 DEF CursorInv, InStep
  <2>7. Follows(q, r)
    BY <2>3, <2>4, <2>5 DEF Follows
  <2>8. ~q.missed => Newest(q) = s
    BY <2>3 DEF Newest, over
  <2>9. QED
    BY <2>3, <2>6, <2>7, <2>8 DEF q
<1>3. QED
  BY <1>1, <1>2

\* What an installation does, at once or at a boundary.
Installed(q, r, s, row) ==
    /\ q.song = s /\ q.row = row /\ q.pending = None
    /\ q.initial = RowIndexAtBeat(s, r.startBeat) /\ q.startBeat = r.startBeat
    /\ q.started = r.started /\ q.elapsed = r.elapsed /\ q.tempo = r.tempo
    /\ q.offset = r.offset /\ q.slipped = r.slipped /\ q.missed = r.missed
    /\ q.skewed = r.skewed
    /\ (r.retimed => q.retimed) /\ (~q.retimed => ~r.retimed /\ s.tempo = r.tempo)

\* The row starts no later than the beat it is installed at.
LEMMA InstalledKeeps ==
    ASSUME NEW r \in Runtimes, NEW s \in Songs, NEW beats \in Nat, CursorInv(r, beats),
           NEW row \in DOMAIN Rows(s), Rows(s)[row].start <= r.offset + beats,
           NEW q \in Runtimes, Installed(q, r, s, row)
    PROVE  CursorInv(q, beats)
<1>1. r.startBeat \in Nat /\ r.offset \in Nat /\ r.tempo \in Nat \ {0}
  BY TimeAssumption DEF Runtimes
<1>2. /\ q.initial \in DOMAIN Rows(q.song)
      /\ Rows(q.song)[q.initial].start <= q.startBeat
  BY <1>1, RowAtBeat DEF Installed
<1>3. Rows(s)[row].start < r.offset + beats + r.tempo
  BY <1>1, SongRows
<1>4. QED
  BY <1>2, <1>3 DEF CursorInv, InStep, Installed

LEMMA InstallAtOnce ==
    ASSUME NEW r \in Runtimes, NEW s \in Songs, NEW row \in Nat \ {0}
    PROVE  LET q == Install(r, s, row, FALSE) IN
           q \in Runtimes /\ Installed(q, r, s, row) /\ q.anchor = r.anchor /\ q.from = r.from
<1> DEFINE q == Install(r, s, row, FALSE)
           again == r.retimed \/ s.tempo # r.tempo
           initial == RowIndexAtBeat(s, r.startBeat)
<1>1. again \in BOOLEAN /\ initial \in Nat \ {0}
  BY RowAtBeat DEF Runtimes
<1>2. q = [r EXCEPT !.from = r.from, !.anchor = r.anchor, !.song = s, !.row = row,
                    !.pending = None, !.initial = initial, !.retimed = again,
                    !.rewound = FALSE]
  BY DEF Install, Runtimes
<1>3. (r.retimed => again) /\ (~again => ~r.retimed /\ s.tempo = r.tempo)
  OBVIOUS
<1> HIDE DEF q, again, initial
<1>4. q \in Runtimes
  BY <1>1, <1>2 DEF Runtimes, Maybe
<1>5. /\ q.song = s /\ q.row = row /\ q.pending = None
      /\ q.initial = initial /\ q.startBeat = r.startBeat
      /\ q.started = r.started /\ q.elapsed = r.elapsed /\ q.tempo = r.tempo
      /\ q.offset = r.offset /\ q.anchor = r.anchor /\ q.from = r.from
      /\ q.slipped = r.slipped /\ q.missed = r.missed /\ q.retimed = again
      /\ q.skewed = r.skewed
  BY <1>2 DEF Runtimes
<1>6. Installed(q, r, s, row)
  BY <1>3, <1>5 DEF Installed, initial
<1>7. QED
  BY <1>4, <1>5, <1>6 DEF q

LEMMA InstallAtBeat ==
    ASSUME NEW r \in Runtimes, NEW s \in Songs, NEW row \in Nat \ {0}, row \in DOMAIN Rows(s),
           Sounding(r) \in Sources
    PROVE  LET q == Install(r, s, row, TRUE) IN
           q \in Runtimes /\ Installed(q, r, s, row) /\ q.from = Sounding(r)
<1> DEFINE q == Install(r, s, row, TRUE)
           again == r.retimed \/ s.tempo # r.tempo
           initial == RowIndexAtBeat(s, r.startBeat)
           anchor == Rows(s)[row].start
           from == Sounding(r)
<1>1. again \in BOOLEAN /\ initial \in Nat \ {0} /\ anchor \in Nat
  BY RowAtBeat, SongRows DEF Runtimes
<1>2. q = [r EXCEPT !.from = from, !.anchor = anchor, !.song = s, !.row = row,
                    !.pending = None, !.initial = initial, !.retimed = again,
                    !.rewound = FALSE]
  BY DEF Install, Runtimes
<1>3. (r.retimed => again) /\ (~again => ~r.retimed /\ s.tempo = r.tempo)
  OBVIOUS
<1>4. from \in Sources
  OBVIOUS
<1> HIDE DEF q, again, initial, anchor, from
<1>5. q \in Runtimes
  BY <1>1, <1>2, <1>4 DEF Runtimes, Maybe
<1>6. /\ q.song = s /\ q.row = row /\ q.pending = None
      /\ q.initial = initial /\ q.startBeat = r.startBeat
      /\ q.started = r.started /\ q.elapsed = r.elapsed /\ q.tempo = r.tempo
      /\ q.offset = r.offset /\ q.from = from
      /\ q.slipped = r.slipped /\ q.missed = r.missed /\ q.retimed = again
      /\ q.skewed = r.skewed
  BY <1>2 DEF Runtimes
<1>7. Installed(q, r, s, row)
  BY <1>3, <1>6 DEF Installed, initial
<1>8. QED
  BY <1>5, <1>6, <1>7 DEF q, from

\* A rebuild, taken at once or left to wait.
LEMMA RebuildDoes ==
    ASSUME NEW r \in Runtimes, NEW s \in Songs, NEW beats \in Nat, CursorInv(r, beats)
    PROVE  LET q == Rebuild(r, s, beats) IN
           /\ q \in Runtimes /\ CursorInv(q, beats) /\ Follows(q, r) /\ Newest(q) = s
<1> DEFINE q == Rebuild(r, s, beats)
           row == RowIndexAtBeat(s, r.offset + beats)
           changes == Sounding(r) # RowSource(s, row)
           now == ~r.started \/ ~changes \/ r.offset + beats >= EndBeat(s)
<1>1. r.offset + beats \in Nat
  BY DEF Runtimes
<1>2. row \in DOMAIN Rows(s) /\ row \in Nat \ {0} /\ Rows(s)[row].start <= r.offset + beats
  BY <1>1, RowAtBeat
<1>3. CASE now
  <2> DEFINE p == Install(r, s, row, FALSE)
             slipped == r.slipped \/ (r.started /\ changes)
  <2>1. p \in Runtimes /\ Installed(p, r, s, row) /\ p.anchor = r.anchor /\ p.from = r.from
    BY <1>2, InstallAtOnce, Zenon
  <2>2. q = [p EXCEPT !.missed = FALSE, !.slipped = slipped]
    <3>1. q = [p EXCEPT !.missed = FALSE, !.slipped = p.slipped \/ (r.started /\ changes)]
      BY <1>3, <2>1 DEF Rebuild, Runtimes
    <3>2. QED
      BY <2>1, <3>1 DEF Installed
  <2>3. slipped \in BOOLEAN
    OBVIOUS
  <2>4. (r.slipped => slipped) /\ (r.started /\ ~slipped => ~changes)
    OBVIOUS
  <2> HIDE DEF p, q, slipped
  <2>5. /\ q \in Runtimes /\ q.song = p.song /\ q.row = p.row /\ q.pending = p.pending
        /\ q.initial = p.initial /\ q.startBeat = p.startBeat
        /\ q.started = p.started /\ q.elapsed = p.elapsed /\ q.tempo = p.tempo
        /\ q.offset = p.offset /\ q.anchor = p.anchor /\ q.from = p.from
        /\ q.slipped = slipped /\ q.retimed = p.retimed
        /\ q.rewound = p.rewound /\ q.skewed = p.skewed
    BY <2>1, <2>2, <2>3 DEF Runtimes
  <2>6. CursorInv(p, beats)
    BY <1>2, <2>1, InstalledKeeps
  <2>7. CursorInv(q, beats)
    BY <2>5, <2>6 DEF CursorInv, InStep
  <2>8. q.song = s /\ q.row = row /\ Sounding(q) = RowSource(s, row)
    BY <2>1, <2>5 DEF Sounding, Installed
  <2>9. Follows(q, r)
    BY <2>1, <2>4, <2>5, <2>8 DEF Follows, Installed
  <2>10. Newest(q) = s
    BY <2>1, <2>5 DEF Newest, Installed
  <2>11. QED
    BY <2>5, <2>7, <2>9, <2>10 DEF q
<1>4. CASE ~now
  <2>1. q = [r EXCEPT !.pending = s, !.missed = FALSE]
    BY <1>4 DEF Rebuild
  <2> HIDE DEF q
  <2>2. /\ q \in Runtimes /\ q.song = r.song /\ q.row = r.row /\ q.pending = s
        /\ q.initial = r.initial /\ q.startBeat = r.startBeat /\ q.started = r.started
        /\ q.elapsed = r.elapsed /\ q.retimed = r.retimed /\ q.tempo = r.tempo
        /\ q.offset = r.offset /\ q.slipped = r.slipped /\ q.from = r.from
        /\ q.anchor = r.anchor /\ q.rewound = r.rewound /\ q.skewed = r.skewed
    BY <2>1 DEF Runtimes, Maybe
  <2>3. CursorInv(q, beats)
    BY <2>2 DEF CursorInv, InStep
  <2>4. Follows(q, r)
    BY <2>2 DEF Follows, Sounding
  <2>5. Newest(q) = s
    BY <2>2, SongRows DEF Newest
  <2>6. QED
    BY <2>2, <2>3, <2>4, <2>5 DEF q
<1>5. QED
  BY <1>3, <1>4

\* A reset takes the cursor back to where it began, before its first chunk.
LEMMA ResetDoes ==
    ASSUME NEW r \in Runtimes, NEW beats \in Nat, CursorInv(r, beats)
    PROVE  LET q == Reset(r) IN
           /\ q \in Runtimes /\ CursorInv(q, 0) /\ ~q.started /\ q.from = None
           /\ ~q.missed => Newest(q) = Newest(r) /\ ~r.missed
<1> DEFINE q == Reset(r)
           anchor == Rows(r.song)[r.initial].start
           missed == r.missed \/ r.pending # None
<1>1. r.song \in Songs /\ r.initial \in DOMAIN Rows(r.song) /\ r.initial \in Nat \ {0}
  BY DEF CursorInv, Runtimes
<1>2. anchor \in Nat /\ missed \in BOOLEAN
  BY <1>1, SongRows
<1>3. q = [r EXCEPT !.row = r.initial, !.offset = r.startBeat, !.elapsed = 0, !.anchor = anchor,
                    !.pending = None, !.from = None, !.started = FALSE, !.slipped = FALSE,
                    !.rewound = FALSE, !.skewed = FALSE, !.missed = missed]
  BY DEF Reset, Runtimes
<1>4. missed \/ (~r.missed /\ r.pending = None)
  OBVIOUS
<1>5. anchor <= r.startBeat
  BY DEF CursorInv
<1> HIDE DEF q, missed
<1>6. /\ q \in Runtimes
      /\ q.song = r.song /\ q.row = r.initial /\ q.initial = r.initial /\ q.offset = r.startBeat /\ q.startBeat = r.startBeat /\ q.elapsed = 0
      /\ q.pending = None /\ q.from = None /\ ~q.started /\ q.missed = missed
      /\ q.tempo = r.tempo /\ q.retimed = r.retimed
  <2> HIDE DEF anchor
  <2>1. /\ r.initial \in Nat \ {0} /\ r.startBeat \in Nat /\ 0 \in Int
        /\ None \in Maybe(Songs) /\ None \in Maybe(Sources \cup {"wrap"})
    BY DEF Runtimes, Maybe
  <2>2. QED
    BY <1>2, <1>3, <2>1 DEF Runtimes
<1>7. CursorInv(q, 0)
  <2>1. r.tempo \in Nat \ {0} /\ r.startBeat \in Nat
    BY TimeAssumption DEF Runtimes
  <2>2. 0 * r.tempo = 0 /\ anchor < r.startBeat + 0 + r.tempo
    BY <1>2, <1>5, <2>1
  <2>3. ~q.retimed => q.song.tempo = q.tempo
    BY <1>6 DEF CursorInv
  <2>4. QED
    BY <1>1, <1>5, <1>6, <2>2, <2>3 DEF CursorInv, InStep
<1>8. ~q.missed => Newest(q) = Newest(r) /\ ~r.missed
  BY <1>4, <1>6 DEF Newest
<1>9. QED
  BY <1>6, <1>7, <1>8 DEF q

\* A cursor that may be at a song or at none.
Good(x) == x \in Cursor /\ (x.song # None => CursorInv(x.song, x.clock))

\* What plays after a command, played before it: nothing that has begun moves.
Continues(y, x) ==
    y.song # None /\ y.song.started =>
        x.song # None /\ y.clock = x.clock /\ Follows(y.song, x.song)

\* No crossing waits for its chunk.
NothingCrossed(x) == x.song # None => x.song.from = None

\* What the control thread may assume of a command that was taken.
Taken(y, x, c) ==
    /\ IsStart(c) => y.song # None /\ ~y.song.started
    /\ ~IsStop(c) /\ x.song # None => y.song # None
    /\ ~IsStop(c) /\ y.song # None /\ ~y.song.missed => Newest(y.song) = c.song

CommandSteps(y, x, c) ==
    Good(y) /\ Continues(y, x) /\ (NothingCrossed(x) => NothingCrossed(y)) /\ Taken(y, x, c)

LEMMA ApplyDoes ==
    ASSUME NEW x, Good(x), NEW c \in Commands, snapshot.tempo \in Tempos
    PROVE  CommandSteps(Apply(x, c), x, c)
<1> DEFINE y == Apply(x, c)
<1>0. x \in Cursor /\ x.clock \in Nat /\ x.song \in Maybe(Runtimes)
  BY DEF Good, Cursor
<1>1. CASE c \in [kind : {"start"}, song : Songs, beat : Nat]
  <2> DEFINE q == NewRuntime(c.song, c.beat, snapshot.tempo)
  <2>1. c.kind = "start" /\ c.song \in Songs /\ c.beat \in Nat
    BY <1>1
  <2>2. /\ q \in Runtimes /\ CursorInv(q, 0)
        /\ q.song = c.song /\ q.pending = None /\ q.from = None /\ ~q.started
    BY <2>1, NewRuntimeDoes
  <2>3. y = [song |-> q, clock |-> 0, ahead |-> 0]
    BY <2>1 DEF Apply
  <2> HIDE DEF q, y
  <2>4. y.song = q /\ y.clock = 0 /\ y.song # None
    BY <2>2, <2>3, RuntimeIsSomething
  <2>5. Good(y)
    BY <2>2, <2>3, <2>4, TimeAssumption DEF Good, Cursor, Maybe
  <2>6. Continues(y, x) /\ NothingCrossed(y)
    BY <2>2, <2>4 DEF Continues, NothingCrossed
  <2>7. Taken(y, x, c)
    BY <2>2, <2>4 DEF Taken, Newest
  <2>8. QED
    BY <2>5, <2>6, <2>7 DEF CommandSteps, y
<1>2. CASE c \in [kind : {"stop"}]
  <2>1. c.kind = "stop" /\ y = [x EXCEPT !.song = None]
    BY <1>2 DEF Apply
  <2>2. y \in Cursor /\ y.song = None
    BY <1>0, <2>1 DEF Cursor, Maybe
  <2> HIDE DEF y
  <2>3. QED
    BY <2>1, <2>2
       DEF CommandSteps, Good, Continues, NothingCrossed, Taken, IsStart, IsStop, y
<1>3. ASSUME c \in [kind : {"refresh", "rebuild"}, song : Songs], x.song = None
      PROVE  CommandSteps(y, x, c)
  <2>1. c.kind \in {"refresh", "rebuild"}
    BY <1>3
  <2>2. y = x
    BY <1>3, <2>1 DEF Apply
  <2> HIDE DEF y
  <2>3. QED
    BY <1>0, <1>3, <2>1, <2>2
       DEF CommandSteps, Good, Continues, NothingCrossed, Taken, IsStart, IsStop
<1>4. ASSUME c \in [kind : {"refresh", "rebuild"}, song : Songs], x.song # None
      PROVE  CommandSteps(y, x, c)
  <2>1. c.kind \in {"refresh", "rebuild"} /\ c.song \in Songs
    BY <1>4
  <2>2. x.song \in Runtimes /\ CursorInv(x.song, x.clock)
    BY <1>0, <1>4 DEF Maybe, Good
  <2> DEFINE q == IF c.kind = "refresh" THEN Replace(x.song, c.song)
                  ELSE Rebuild(x.song, c.song, x.clock)
  <2>3. y = [x EXCEPT !.song = q]
    BY <1>0, <1>4, <2>1 DEF Apply, Cursor
  <2>4. /\ q \in Runtimes /\ CursorInv(q, x.clock) /\ Follows(q, x.song)
        /\ ~q.missed => Newest(q) = c.song
    <3>1. CASE c.kind = "refresh"
      <4>1. q = Replace(x.song, c.song)
        BY <3>1
      <4> HIDE DEF q
      <4>2. QED
        BY <1>0, <2>1, <2>2, <4>1, ReplaceDoes
    <3>2. CASE c.kind = "rebuild"
      <4>1. q = Rebuild(x.song, c.song, x.clock)
        BY <3>2
      <4> HIDE DEF q
      <4>2. QED
        BY <1>0, <2>1, <2>2, <4>1, RebuildDoes
    <3>3. QED
      BY <2>1, <3>1, <3>2
  <2> HIDE DEF q, y
  <2>5. y \in Cursor /\ y.song = q /\ y.clock = x.clock /\ q # None
    BY <1>0, <2>3, <2>4, RuntimeIsSomething DEF Cursor, Maybe
  <2>6. Good(y)
    BY <2>4, <2>5 DEF Good
  <2>7. Continues(y, x)
    BY <1>4, <2>4, <2>5 DEF Continues
  <2>8. NothingCrossed(x) => NothingCrossed(y)
    BY <1>4, <2>4, <2>5 DEF NothingCrossed, Follows
  <2>9. Taken(y, x, c)
    BY <2>1, <2>4, <2>5 DEF Taken, IsStart, IsStop
  <2>10. QED
    BY <2>6, <2>7, <2>8, <2>9 DEF CommandSteps, y
<1>5. QED
  BY <1>1, <1>2, <1>3, <1>4 DEF Commands

-----------------------------------------------------------------------------
(* What a list of commands does to the cursor                              *)

\* r is the states from s on, one for each command.
Runs(r, cs, s) ==
    r = [i \in 0 .. Len(cs) |-> IF i = 0 THEN s ELSE Apply(r[i - 1], cs[i])]

\* What begins a run can be continued to its end: if not to some number of
\* commands, then there is a least such number.
LEMMA RunExists ==
    ASSUME NEW cs, NEW s, Len(cs) \in Nat
    PROVE  \E r : Runs(r, cs, s)
<1> DEFINE Begins(r, k) == r = [i \in 0 .. k |-> IF i = 0 THEN s ELSE Apply(r[i - 1], cs[i])]
           bad == {k \in Nat : ~\E r : Begins(r, k)}
<1>1. SUFFICES ASSUME bad # {} PROVE FALSE
  BY DEF Runs
<1>2. PICK k \in bad : \A j \in bad : k <= j
  <2>1. bad \subseteq Nat
    OBVIOUS
  <2> HIDE DEF bad
  <2>2. QED
    BY <1>1, <2>1, LeastNatural
<1>3. k \in Nat /\ ~\E r : Begins(r, k)
  BY <1>2
<1>4. k # 0
  <2>1. Begins([i \in 0 .. 0 |-> s], 0)
    OBVIOUS
  <2>2. QED
    BY <1>3, <2>1
<1>5. k - 1 \in Nat /\ k - 1 \notin bad
  <2>1. k - 1 \in Nat /\ ~(k <= k - 1)
    BY <1>3, <1>4
  <2> HIDE DEF bad
  <2>2. QED
    BY <1>2, <2>1
<1>6. PICK r : Begins(r, k - 1)
  BY <1>5
<1> DEFINE q == [i \in 0 .. k |-> IF i = k THEN Apply(r[k - 1], cs[k]) ELSE r[i]]
<1>7. Begins(q, k)
  <2>1. \A i \in 0 .. k : q[i] = IF i = 0 THEN s ELSE Apply(q[i - 1], cs[i])
    <3>1. TAKE i \in 0 .. k
    <3>2. CASE i = k
      <4>1. i # 0 /\ k - 1 \in 0 .. k /\ k - 1 # k
        BY <1>3, <1>4, <3>2
      <4>2. q[k - 1] = r[k - 1]
        BY <4>1
      <4>3. QED
        BY <3>2, <4>1, <4>2
    <3>3. CASE i # k
      <4>1. i \in 0 .. k - 1 /\ (i # 0 => i - 1 \in 0 .. k /\ i - 1 # k)
        BY <1>3, <3>3
      <4>2. r[i] = IF i = 0 THEN s ELSE Apply(r[i - 1], cs[i])
        <5> HIDE DEF q
        <5>1. QED
          BY <1>6, <4>1
      <4>3. QED
        BY <3>3, <4>1, <4>2
    <3>4. QED
      BY <3>2, <3>3
  <2>2. QED
    BY <2>1
<1>8. QED
  BY <1>3, <1>7

\* The state after all the commands is the last of a run.
LEMMA AfterRuns ==
    ASSUME NEW cs, NEW s, Len(cs) \in Nat
    PROVE  \E r : Runs(r, cs, s) /\ After(cs, s) = r[Len(cs)]
<1> DEFINE r == CHOOSE r : Runs(r, cs, s)
<1>1. Runs(r, cs, s)
  BY RunExists
<1>2. After(cs, s) = r[Len(cs)]
  BY DEF After, Runs
<1>3. QED
  BY <1>1, <1>2

\* What holds before the first command and is kept by each holds after all.
LEMMA EachCommand ==
    ASSUME NEW N \in Nat, NEW good, 0 \in good, \A i \in 1 .. N : i - 1 \in good => i \in good
    PROVE  \A i \in 0 .. N : i \in good
<1> DEFINE bad == {i \in 0 .. N : i \notin good}
<1>1. SUFFICES ASSUME bad # {} PROVE FALSE
  OBVIOUS
<1>2. PICK i \in bad : \A j \in bad : i <= j
  <2>1. bad \subseteq Nat
    OBVIOUS
  <2> HIDE DEF bad
  <2>2. QED
    BY <1>1, <2>1, LeastNatural
<1>3. i \in 0 .. N /\ i \notin good
  BY <1>2
<1>4. i # 0
  BY <1>3
<1>5. i \in 1 .. N /\ i - 1 \in 0 .. N /\ ~(i <= i - 1)
  BY <1>3, <1>4
<1>6. i - 1 \notin bad
  <2> HIDE DEF bad
  <2>1. QED
    BY <1>2, <1>5
<1>7. i - 1 \in good
  BY <1>5, <1>6
<1>8. QED
  BY <1>3, <1>5, <1>7

LEMMA ContinuesOn ==
    ASSUME NEW x, NEW y, NEW z, Continues(y, x), Continues(z, y)
    PROVE  Continues(z, x)
BY DEF Continues, Follows

\* The states of a run, and how each comes from the one before.
LEMMA RunSteps ==
    ASSUME NEW cs \in Seq(Commands), NEW x, Good(x), snapshot.tempo \in Tempos,
           NEW r, Runs(r, cs, x)
    PROVE  /\ r[0] = x
           /\ \A i \in 0 .. Len(cs) : Good(r[i])
           /\ \A i \in 1 .. Len(cs) : CommandSteps(r[i], r[i - 1], cs[i])
<1>1. Len(cs) \in Nat /\ \A i \in 1 .. Len(cs) : cs[i] \in Commands
  OBVIOUS
<1>2. \A i \in 0 .. Len(cs) : r[i] = IF i = 0 THEN x ELSE Apply(r[i - 1], cs[i])
  BY DEF Runs
<1>3. r[0] = x
  BY <1>1, <1>2
<1>4. \A i \in 1 .. Len(cs) : r[i] = Apply(r[i - 1], cs[i])
  BY <1>1, <1>2
<1> DEFINE good == {i \in 0 .. Len(cs) : Good(r[i])}
<1>5. 0 \in good
  BY <1>1, <1>3
<1>6. ASSUME NEW i \in 1 .. Len(cs), i - 1 \in good PROVE i \in good
  <2>1. CommandSteps(r[i], r[i - 1], cs[i])
    BY <1>1, <1>4, <1>6, ApplyDoes
  <2>2. QED
    BY <1>1, <2>1 DEF CommandSteps
<1>7. \A i \in 0 .. Len(cs) : i \in good
  <2> HIDE DEF good
  <2>1. QED
    BY <1>1, <1>5, <1>6, EachCommand
<1>8. ASSUME NEW i \in 1 .. Len(cs) PROVE CommandSteps(r[i], r[i - 1], cs[i])
  <2>1. i - 1 \in 0 .. Len(cs)
    BY <1>1
  <2>2. QED
    BY <1>1, <1>4, <1>7, <2>1, ApplyDoes
<1>9. QED
  BY <1>3, <1>7, <1>8

\* What began before the commands goes on, and none of them was a start.
LEMMA RunContinues ==
    ASSUME NEW cs \in Seq(Commands), NEW x, Good(x), snapshot.tempo \in Tempos,
           NEW r, Runs(r, cs, x)
    PROVE  \A i \in 0 .. Len(cs) :
              /\ Continues(r[i], x) /\ (NothingCrossed(x) => NothingCrossed(r[i]))
              /\ r[i].song # None /\ r[i].song.started =>
                    \A j \in 1 .. Len(cs) : j <= i => ~IsStart(cs[j])
<1> DEFINE Unstarted(i) == r[i].song # None /\ r[i].song.started =>
                              \A j \in 1 .. Len(cs) : j <= i => ~IsStart(cs[j])
           good == {i \in 0 .. Len(cs) : /\ Continues(r[i], x)
                                         /\ NothingCrossed(x) => NothingCrossed(r[i])
                                         /\ Unstarted(i)}
<1>1. Len(cs) \in Nat /\ r[0] = x
  BY RunSteps
<1>2. \A i \in 1 .. Len(cs) : CommandSteps(r[i], r[i - 1], cs[i])
  BY RunSteps
<1>3. 0 \in good
  <2>1. Continues(x, x)
    BY DEF Continues, Follows
  <2>2. QED
    BY <1>1, <2>1
<1>4. ASSUME NEW i \in 1 .. Len(cs), i - 1 \in good PROVE i \in good
  <2>1. CommandSteps(r[i], r[i - 1], cs[i])
    BY <1>2
  <2>2. Continues(r[i], r[i - 1]) /\ Continues(r[i - 1], x)
    BY <1>4, <2>1 DEF CommandSteps
  <2>3. Continues(r[i], x)
    BY <2>2, ContinuesOn
  <2>4. NothingCrossed(x) => NothingCrossed(r[i])
    BY <1>4, <2>1 DEF CommandSteps
  <2>5. Unstarted(i)
    <3>1. SUFFICES ASSUME r[i].song # None, r[i].song.started, NEW j \in 1 .. Len(cs), j <= i
                   PROVE  ~IsStart(cs[j])
      OBVIOUS
    <3>2. CASE j = i
      BY <2>1, <3>1, <3>2 DEF CommandSteps, Taken
    <3>3. CASE j # i
      <4>1. j <= i - 1
        BY <1>1, <3>1, <3>3
      <4>2. r[i - 1].song # None /\ r[i - 1].song.started
        BY <2>2, <3>1 DEF Continues, Follows
      <4>3. Unstarted(i - 1)
        BY <1>4
      <4>4. QED
        BY <4>1, <4>2, <4>3
    <3>4. QED
      BY <3>2, <3>3
  <2>6. QED
    BY <1>1, <2>3, <2>4, <2>5
<1>5. \A i \in 0 .. Len(cs) : i \in good
  <2> HIDE DEF good
  <2>1. QED
    BY <1>1, <1>3, <1>4, EachCommand
<1>6. QED
  BY <1>5

\* A song that is there stays until a stop.
LEMMA RunKeepsSong ==
    ASSUME NEW cs \in Seq(Commands), NEW x, Good(x), snapshot.tempo \in Tempos,
           NEW r, Runs(r, cs, x), NEW k \in 0 .. Len(cs), r[k].song # None,
           \A j \in 1 .. Len(cs) : j > k => ~IsStop(cs[j])
    PROVE  r[Len(cs)].song # None
<1> DEFINE good == {i \in 0 .. Len(cs) : i >= k => r[i].song # None}
<1>1. Len(cs) \in Nat
  OBVIOUS
<1>2. \A i \in 1 .. Len(cs) : CommandSteps(r[i], r[i - 1], cs[i])
  BY RunSteps
<1>3. 0 \in good
  BY <1>1
<1>4. ASSUME NEW i \in 1 .. Len(cs), i - 1 \in good PROVE i \in good
  <2>1. SUFFICES ASSUME i >= k PROVE r[i].song # None
    BY <1>1
  <2>2. CASE i = k
    BY <2>2
  <2>3. CASE i # k
    <3>1. i > k /\ i - 1 >= k
      BY <1>1, <2>1, <2>3
    <3>2. r[i - 1].song # None /\ ~IsStop(cs[i])
      BY <1>4, <3>1
    <3>3. QED
      BY <1>2, <3>2 DEF CommandSteps, Taken
  <2>4. QED
    BY <2>2, <2>3
<1>5. \A i \in 0 .. Len(cs) : i \in good
  <2> HIDE DEF good
  <2>1. QED
    BY <1>1, <1>3, <1>4, EachCommand
<1>6. QED
  BY <1>1, <1>5

\* All of it, for the commands a pass drains.
LEMMA AfterDoes ==
    ASSUME NEW cs \in Seq(Commands), NEW x, Good(x), snapshot.tempo \in Tempos
    PROVE  LET y == After(cs, x) IN
           /\ Good(y) /\ Continues(y, x) /\ (NothingCrossed(x) => NothingCrossed(y))
           /\ y.song # None /\ y.song.started => \A i \in DOMAIN cs : ~IsStart(cs[i])
           /\ \/ x.song # None /\ \A i \in DOMAIN cs : ~IsStop(cs[i])
              \/ \E i \in DOMAIN cs :
                    IsStart(cs[i]) /\ \A j \in DOMAIN cs : j > i => ~IsStop(cs[j])
              => y.song # None
           /\ cs = <<>> => y = x
           /\ cs # <<>> /\ ~IsStop(cs[Len(cs)]) /\ y.song # None /\ ~y.song.missed
              => Newest(y.song) = cs[Len(cs)].song
<1> DEFINE n == Len(cs)
           y == After(cs, x)
<1>1. n \in Nat /\ DOMAIN cs = 1 .. n /\ n \in 0 .. n
  OBVIOUS
<1>2. PICK r : Runs(r, cs, x) /\ y = r[n]
  BY <1>1, AfterRuns
<1>3. /\ r[0] = x /\ Good(r[n])
      /\ \A i \in 1 .. n : CommandSteps(r[i], r[i - 1], cs[i])
  BY <1>1, <1>2, RunSteps
<1> HIDE DEF y
<1>4. /\ Continues(y, x) /\ (NothingCrossed(x) => NothingCrossed(y))
      /\ y.song # None /\ y.song.started => \A i \in DOMAIN cs : ~IsStart(cs[i])
  BY <1>1, <1>2, RunContinues
<1>5. ASSUME x.song # None, \A i \in DOMAIN cs : ~IsStop(cs[i]) PROVE y.song # None
  BY <1>1, <1>2, <1>3, <1>5, RunKeepsSong
<1>6. ASSUME NEW i \in DOMAIN cs, IsStart(cs[i]),
             \A j \in DOMAIN cs : j > i => ~IsStop(cs[j])
      PROVE  y.song # None
  <2>1. i \in 1 .. n /\ i \in 0 .. n
    BY <1>1
  <2>2. r[i].song # None
    BY <1>3, <1>6, <2>1 DEF CommandSteps, Taken
  <2>3. QED
    BY <1>1, <1>2, <1>6, <2>1, <2>2, RunKeepsSong
<1>7. cs = <<>> => y = x
  BY <1>2, <1>3
<1>8. ASSUME cs # <<>>, ~IsStop(cs[n]), y.song # None, ~y.song.missed
      PROVE  Newest(y.song) = cs[n].song
  <2>1. n \in 1 .. n
    BY <1>1, <1>8
  <2>2. QED
    BY <1>2, <1>3, <1>8, <2>1 DEF CommandSteps, Taken
<1>9. QED
  BY <1>2, <1>3, <1>4, <1>5, <1>6, <1>7, <1>8 DEF y

-----------------------------------------------------------------------------
(* The control thread's steps keep the invariant                           *)

\* The control thread leaves the worker's state alone.
LEMMA ControlKeeps ==
    ASSUME IInv, UNCHANGED worker_vars
    PROVE  SongInv' /\ ChunkInv'
BY DEF IInv, SongInv, ChunkInv, worker_vars, RowsSoundInTheirBeats

\* What a send does to the channel.
LEMMA SendDoes ==
    ASSUME NEW c \in Commands, Send(c), commands \in Seq(Commands),
           Len(commands) <= CommandCapacity
    PROVE  /\ commands' \in Seq(Commands) /\ Len(commands') <= CommandCapacity
           /\ ~SendFits => commands' = commands
           /\ SendFits => /\ Len(commands') = Len(commands) + 1 /\ commands' # <<>>
                          /\ commands'[Len(commands')] = c
                          /\ \A i \in DOMAIN commands :
                                i \in DOMAIN commands' /\ commands'[i] = commands[i]
<1>1. Len(commands) \in Nat /\ CommandCapacity \in Nat
  BY CapacityAssumption
<1>2. CASE SendFits
  <2>1. commands' = Append(commands, c)
    BY <1>2 DEF Send
  <2>2. QED
    BY <1>1, <1>2, <2>1, AppendProperties DEF SendFits
<1>3. CASE ~SendFits
  BY <1>3 DEF Send
<1>4. QED
  BY <1>2, <1>3

\* A refresh or a rebuild that is sent is the last command and starts nothing.
LEMMA EditIsSent ==
    ASSUME IInv, active # None, NEW s \in Songs, NEW kind \in {"refresh", "rebuild"},
           Send(EditCommand(kind, s)), UNCHANGED song
    PROVE  /\ commands' \in Seq(Commands) /\ Len(commands') <= CommandCapacity
           /\ SongComes'
           /\ ~SendFits => commands' = commands
           /\ SendFits => /\ commands' # <<>> /\ ~IsStop(commands'[Len(commands')])
                          /\ commands'[Len(commands')].song = s
           /\ (\A i \in DOMAIN commands : ~IsStart(commands[i]))
                  <=> (\A i \in DOMAIN commands' : ~IsStart(commands'[i]))
<1> DEFINE c == EditCommand(kind, s)
<1>1. c \in Commands /\ ~IsStop(c) /\ ~IsStart(c) /\ c.song = s
  BY DEF EditCommand, Commands, IsStop, IsStart
<1>2. commands \in Seq(Commands) /\ Len(commands) <= CommandCapacity /\ SongComes
  BY DEF IInv, TypeOK, SentInv
<1> HIDE DEF c
<1>3. /\ commands' \in Seq(Commands) /\ Len(commands') <= CommandCapacity
      /\ ~SendFits => commands' = commands
      /\ SendFits => /\ Len(commands') = Len(commands) + 1 /\ commands' # <<>>
                     /\ commands'[Len(commands')] = c
                     /\ \A i \in DOMAIN commands :
                           i \in DOMAIN commands' /\ commands'[i] = commands[i]
  BY <1>1, <1>2, SendDoes DEF c
<1>4. CASE ~SendFits
  BY <1>2, <1>3, <1>4 DEF SongComes
<1>5. CASE SendFits
  <2>1. \A i \in DOMAIN commands' :
           \/ i \in DOMAIN commands /\ commands'[i] = commands[i]
           \/ i \notin DOMAIN commands /\ commands'[i] = c
    <3>1. /\ DOMAIN commands' = 1 .. Len(commands') /\ DOMAIN commands = 1 .. Len(commands)
          /\ Len(commands) \in Nat
      BY <1>2, <1>3
    <3>2. QED
      BY <1>3, <1>5, <3>1
  <2>2. SongComes'
    BY <1>1, <1>2, <1>3, <1>5, <2>1 DEF SongComes
  <2>3. (\A i \in DOMAIN commands : ~IsStart(commands[i]))
            <=> (\A i \in DOMAIN commands' : ~IsStart(commands'[i]))
    BY <1>1, <1>3, <1>5, <2>1
  <2>4. QED
    BY <1>1, <1>3, <1>5, <2>2, <2>3
<1>6. QED
  BY <1>4, <1>5

\* What is compiled is a song.
LEMMA PreflightIsSong ==
    ASSUME NEW a \in [layout : Arrangements, version : Nat], bpm \in Tempos
    PROVE  Preflight(a) \in Songs /\ Preflight(a).layout = a.layout /\ Preflight(a) # None
BY SongRows DEF Preflight, Songs

LEMMA StartBeatIsBeat ==
    ASSUME NEW s \in Songs, NEW cursor \in Cursors
    PROVE  NormalizeStartBeat(s, cursor) \in Nat
<1>1. cursor \in Nat /\ EndBeat(s) \in Nat \ {0}
  BY SongRows, TimeAssumption
<1>2. cursor % EndBeat(s) \in Nat
  BY <1>1
<1>3. QED
  BY <1>1, <1>2 DEF NormalizeStartBeat

LEMMA PlayStep ==
    ASSUME IInv, NEW cursor \in Cursors, Play(cursor)
    PROVE  IInv'
<1> DEFINE s == Preflight(arrangement)
           beat == NormalizeStartBeat(s, cursor)
           row == RowIndexAtBeat(s, beat)
           c == StartCommand(s, beat)
<1>0. TypeOK /\ SentInv /\ PlayInv /\ MirrorInv
  BY DEF IInv
<1>1. s \in Songs /\ s # None /\ s.layout \in Arrangements
  BY <1>0, PreflightIsSong DEF TypeOK
<1>2. beat \in Nat
  BY <1>1, StartBeatIsBeat
<1> HIDE DEF s, beat
<1>3. row \in DOMAIN Rows(s) /\ row \in Nat \ {0} /\ RowSource(s, row) \in Sources
  BY <1>1, <1>2, RowAtBeat, SongRows DEF RowSource
<1>4. c \in Commands /\ IsStart(c) /\ ~IsStop(c) /\ c.song = s
  BY <1>1, <1>2 DEF StartCommand, Commands, IsStart, IsStop
<1> HIDE DEF row, c
<1>5. /\ active = None /\ mirrored = None /\ gestures < MaxGestures
      /\ live' = RowSource(s, row) /\ Send(c)
      /\ IF SendFits
         THEN active' = s /\ mirrored' = row /\ noted' = s.layout /\ starting' = TRUE
         ELSE UNCHANGED <<active, mirrored, noted, starting>>
      /\ mistaken' = FALSE /\ gestures' = gestures + 1 /\ plays' = plays + 1
      /\ UNCHANGED <<arrangement, bpm, stopping, published, notices, worker_vars>>
  BY <1>0 DEF Play, s, beat, row, c, MirrorInv
<1>6. /\ commands' \in Seq(Commands) /\ Len(commands') <= CommandCapacity
      /\ SendFits => /\ commands' # <<>> /\ commands'[Len(commands')] = c
                     /\ Len(commands') \in DOMAIN commands'
                     /\ \A j \in DOMAIN commands' : ~(j > Len(commands'))
  <2>1. /\ commands' \in Seq(Commands) /\ Len(commands') <= CommandCapacity
        /\ SendFits => commands' # <<>> /\ commands'[Len(commands')] = c
    BY <1>0, <1>4, <1>5, SendDoes DEF TypeOK
  <2>2. QED
    BY <2>1
<1>7. gestures + 1 \in 0 .. MaxGestures /\ plays + 1 \in 0 .. MaxGestures /\ plays + 1 <= gestures + 1
  BY <1>0, <1>5, CapacityAssumption DEF TypeOK, PlayInv
<1>8. TypeOK'
  BY <1>0, <1>1, <1>3, <1>5, <1>6, <1>7 DEF TypeOK, Maybe, worker_vars
<1>9. SentInv'
  <2>1. ASSUME SendFits PROVE SongComes'
    BY <1>4, <1>6, <2>1 DEF SongComes
  <2>2. QED
    BY <1>4, <1>5, <1>6, <2>1 DEF SentInv
<1>10. PlayInv'
  BY <1>0, <1>5, <1>7 DEF PlayInv, TypeOK, Transports, worker_vars
<1>11. MirrorInv'
  <2>1. CASE SendFits
    BY <1>1, <1>4, <1>5, <1>6, <2>1 DEF MirrorInv, RowSource, Rows
  <2>2. CASE ~SendFits
    BY <1>5, <2>2 DEF MirrorInv
  <2>3. QED
    BY <2>1, <2>2
<1>12. SongInv' /\ ChunkInv'
  BY <1>5, ControlKeeps
<1>13. QED
  BY <1>8, <1>9, <1>10, <1>11, <1>12 DEF IInv

LEMMA StartStep ==
    ASSUME IInv, StartPlayback
    PROVE  IInv'
<1>0. TypeOK /\ SentInv /\ PlayInv /\ MirrorInv
  BY DEF IInv
<1>1. TypeOK'
  <2>1. plays \in Nat /\ published' = [published EXCEPT !.playing = TRUE, !.play = plays]
    BY <1>0, CapacityAssumption DEF StartPlayback, TypeOK
  <2>2. published' \in Transports
    BY <1>0, <2>1 DEF TypeOK, Transports
  <2>3. QED
    BY <1>0, <2>2 DEF StartPlayback, TypeOK, worker_vars, mirror_vars, spent_vars
<1>2. SentInv'
  BY <1>0 DEF StartPlayback, SentInv, SongComes, worker_vars
<1>3. PlayInv'
  <2>1. published'.play = plays
    BY <1>0 DEF StartPlayback, TypeOK, Transports
  <2>2. QED
    BY <1>0, <2>1 DEF StartPlayback, PlayInv, TypeOK, Transports, worker_vars, spent_vars
<1>4. MirrorInv'
  BY <1>0 DEF StartPlayback, MirrorInv, worker_vars, mirror_vars
<1>5. SongInv' /\ ChunkInv'
  BY ControlKeeps DEF StartPlayback
<1>6. QED
  BY <1>1, <1>2, <1>3, <1>4, <1>5 DEF IInv

LEMMA StopStep ==
    ASSUME IInv, Stop
    PROVE  IInv'
<1>0. TypeOK /\ SentInv /\ PlayInv /\ MirrorInv
  BY DEF IInv
<1>1. StopCommand \in Commands /\ ~IsStart(StopCommand) /\ Send(StopCommand)
  BY DEF StopCommand, Commands, IsStart, Stop
<1>2. /\ commands' \in Seq(Commands) /\ Len(commands') <= CommandCapacity
      /\ (\A i \in DOMAIN commands : ~IsStart(commands[i]))
            => (\A i \in DOMAIN commands' : ~IsStart(commands'[i]))
  <2>1. /\ commands' \in Seq(Commands) /\ Len(commands') <= CommandCapacity
        /\ ~SendFits => commands' = commands
        /\ SendFits => /\ Len(commands') = Len(commands) + 1 /\ commands' # <<>>
                       /\ commands'[Len(commands')] = StopCommand
                       /\ \A i \in DOMAIN commands :
                             i \in DOMAIN commands' /\ commands'[i] = commands[i]
    BY <1>0, <1>1, SendDoes DEF TypeOK
  <2>2. /\ DOMAIN commands' = 1 .. Len(commands') /\ DOMAIN commands = 1 .. Len(commands)
        /\ Len(commands) \in Nat
    BY <1>0, <2>1 DEF TypeOK
  <2>3. \A i \in DOMAIN commands' :
           \/ i \in DOMAIN commands /\ commands'[i] = commands[i]
           \/ commands'[i] = StopCommand
    <3>1. CASE SendFits
      BY <2>1, <2>2, <3>1
    <3>2. CASE ~SendFits
      BY <2>1, <3>2
    <3>3. QED
      BY <3>1, <3>2
  <2>4. ASSUME \A i \in DOMAIN commands : ~IsStart(commands[i])
        PROVE  \A i \in DOMAIN commands' : ~IsStart(commands'[i])
    <3>1. TAKE i \in DOMAIN commands'
    <3>2. QED
      BY <1>1, <2>3, <2>4, Zenon
  <2>5. QED
    BY <2>1, <2>4
<1>3. TypeOK'
  BY <1>0, <1>2 DEF Stop, TypeOK, Maybe, worker_vars, mirror_vars, spent_vars
<1>4. SentInv' /\ MirrorInv'
  BY <1>0 DEF Stop, SentInv, MirrorInv
<1>5. PlayInv'
  BY <1>0, <1>2 DEF Stop, PlayInv, worker_vars, spent_vars
<1>6. SongInv' /\ ChunkInv'
  BY ControlKeeps DEF Stop
<1>7. QED
  BY <1>3, <1>4, <1>5, <1>6 DEF IInv

LEMMA StopPlaybackStep ==
    ASSUME IInv, StopPlayback
    PROVE  IInv'
<1>0. TypeOK /\ SentInv /\ PlayInv /\ MirrorInv
  BY DEF IInv
<1>1. TypeOK'
  <2>1. published' \in Transports
    BY <1>0 DEF StopPlayback, TypeOK, Transports
  <2>2. QED
    BY <1>0, <2>1 DEF StopPlayback, TypeOK, worker_vars, mirror_vars, spent_vars
<1>2. SentInv'
  BY <1>0 DEF StopPlayback, SentInv, SongComes, worker_vars
<1>3. PlayInv'
  <2>1. published'.play = published.play
    BY <1>0 DEF StopPlayback, TypeOK, Transports
  <2>2. QED
    BY <1>0, <2>1 DEF StopPlayback, PlayInv, worker_vars, spent_vars
<1>4. MirrorInv'
  BY <1>0 DEF StopPlayback, MirrorInv, worker_vars, mirror_vars
<1>5. SongInv' /\ ChunkInv'
  BY ControlKeeps DEF StopPlayback
<1>6. QED
  BY <1>1, <1>2, <1>3, <1>4, <1>5 DEF IInv

LEMMA EditTempoStep ==
    ASSUME IInv, NEW t \in Tempos, EditTempo(t)
    PROVE  IInv'
<1>0. TypeOK /\ SentInv /\ PlayInv /\ MirrorInv
  BY DEF IInv
<1>1. TypeOK'
  <2>1. published' \in Transports
    BY <1>0 DEF EditTempo, TypeOK, Transports
  <2>2. gestures' \in 0 .. MaxGestures
    BY <1>0, CapacityAssumption DEF EditTempo, MayEdit, TypeOK
  <2>3. QED
    BY <1>0, <2>1, <2>2 DEF EditTempo, TypeOK, worker_vars, mirror_vars
<1>2. SentInv'
  BY <1>0 DEF EditTempo, SentInv, SongComes, worker_vars
<1>3. PlayInv'
  <2>1. published'.play = published.play
    BY <1>0 DEF EditTempo, TypeOK, Transports
  <2>2. QED
    BY <1>0, <2>1 DEF EditTempo, PlayInv, TypeOK, worker_vars
<1>4. MirrorInv'
  BY <1>0 DEF EditTempo, MirrorInv, worker_vars, mirror_vars
<1>5. SongInv' /\ ChunkInv'
  BY ControlKeeps DEF EditTempo
<1>6. QED
  BY <1>1, <1>2, <1>3, <1>4, <1>5 DEF IInv

LEMMA EditPatternStep ==
    ASSUME IInv, EditPattern
    PROVE  IInv'
<1> DEFINE s == Preflight(arrangement')
<1>0. TypeOK /\ SentInv /\ PlayInv /\ MirrorInv
  BY DEF IInv
<1>1. arrangement' \in [layout : Arrangements, version : Nat]
  BY <1>0 DEF TypeOK, EditPattern
<1>2. s \in Songs /\ s # None
  BY <1>0, <1>1, PreflightIsSong DEF TypeOK
<1>3. gestures' \in 0 .. MaxGestures /\ gestures' >= gestures /\ plays' = plays
  BY <1>0, CapacityAssumption DEF EditPattern, MayEdit, TypeOK
<1>4. /\ UNCHANGED <<bpm, mirrored, live, starting, stopping, published, notices, worker_vars,
                     mirror_vars>>
      /\ active = None => UNCHANGED <<commands, active>>
      /\ active # None => /\ Send(EditCommand("refresh", s))
                          /\ active' = IF SendFits THEN s ELSE active
  BY DEF EditPattern
<1> HIDE DEF s
<1>5. active # None =>
        /\ commands' \in Seq(Commands) /\ Len(commands') <= CommandCapacity
        /\ SongComes'
        /\ ~SendFits => commands' = commands
        /\ SendFits => /\ commands' # <<>> /\ ~IsStop(commands'[Len(commands')])
                       /\ commands'[Len(commands')].song = s
        /\ (\A i \in DOMAIN commands : ~IsStart(commands[i]))
               <=> (\A i \in DOMAIN commands' : ~IsStart(commands'[i]))
  BY <1>2, <1>4, EditIsSent DEF worker_vars
<1>6. TypeOK'
  BY <1>0, <1>1, <1>2, <1>3, <1>4, <1>5 DEF TypeOK, Maybe, worker_vars, mirror_vars
<1>7. SentInv'
  BY <1>0, <1>4, <1>5 DEF SentInv, worker_vars, Newest
<1>8. PlayInv'
  <2>1. (\A i \in DOMAIN commands : ~IsStart(commands[i]))
           => (\A i \in DOMAIN commands' : ~IsStart(commands'[i]))
    BY <1>4, <1>5
  <2>2. plays' <= gestures'
    BY <1>0, <1>3 DEF PlayInv, TypeOK
  <2>3. QED
    BY <1>0, <1>3, <1>4, <2>1, <2>2 DEF PlayInv, worker_vars
<1>9. MirrorInv'
  BY <1>0, <1>2, <1>4, <1>5 DEF MirrorInv, worker_vars, mirror_vars
<1>10. SongInv' /\ ChunkInv'
  BY <1>4, ControlKeeps
<1>11. QED
  BY <1>6, <1>7, <1>8, <1>9, <1>10 DEF IInv

LEMMA EditArrangementStep ==
    ASSUME IInv, NEW a \in Arrangements, EditArrangement(a)
    PROVE  IInv'
<1> DEFINE s == Preflight(arrangement')
<1>0. TypeOK /\ SentInv /\ PlayInv /\ MirrorInv
  BY DEF IInv
<1>1. arrangement' \in [layout : Arrangements, version : Nat]
  BY <1>0 DEF TypeOK, EditArrangement
<1>2. s \in Songs /\ s # None
  BY <1>0, <1>1, PreflightIsSong DEF TypeOK
<1>3. gestures' \in 0 .. MaxGestures /\ gestures' >= gestures /\ plays' = plays
  BY <1>0, CapacityAssumption DEF EditArrangement, MayEdit, TypeOK
<1>4. /\ UNCHANGED <<bpm, live, starting, stopping, published, notices, worker_vars, mistaken>>
      /\ active = None => UNCHANGED <<commands, active, mirrored, noted>>
      /\ active # None => /\ Send(EditCommand("rebuild", s))
                          /\ SendFits => active' = s /\ mirrored' = None /\ noted' = a
                          /\ ~SendFits => UNCHANGED <<active, mirrored, noted>>
  BY DEF EditArrangement, MirroredAfterRebuild
<1> HIDE DEF s
<1>5. active # None =>
        /\ commands' \in Seq(Commands) /\ Len(commands') <= CommandCapacity
        /\ SongComes'
        /\ ~SendFits => commands' = commands
        /\ SendFits => /\ commands' # <<>> /\ ~IsStop(commands'[Len(commands')])
                       /\ commands'[Len(commands')].song = s
        /\ (\A i \in DOMAIN commands : ~IsStart(commands[i]))
               <=> (\A i \in DOMAIN commands' : ~IsStart(commands'[i]))
  BY <1>2, <1>4, EditIsSent DEF worker_vars
<1>6. TypeOK'
  <2>1. active' \in Maybe(Songs) /\ mirrored' \in Maybe(Nat \ {0}) /\ noted' \in Maybe(Arrangements)
    BY <1>0, <1>2, <1>4 DEF TypeOK, Maybe
  <2>2. commands' \in Seq(Commands) /\ Len(commands') <= CommandCapacity
    BY <1>0, <1>4, <1>5 DEF TypeOK
  <2>3. QED
    BY <1>0, <1>1, <1>3, <1>4, <2>1, <2>2 DEF TypeOK, worker_vars
<1>7. SentInv'
  BY <1>0, <1>4, <1>5 DEF SentInv, worker_vars, Newest
<1>8. PlayInv'
  <2>1. (\A i \in DOMAIN commands : ~IsStart(commands[i]))
           => (\A i \in DOMAIN commands' : ~IsStart(commands'[i]))
    BY <1>4, <1>5
  <2>2. plays' <= gestures'
    BY <1>0, <1>3 DEF PlayInv, TypeOK
  <2>3. QED
    BY <1>0, <1>3, <1>4, <2>1, <2>2 DEF PlayInv, worker_vars
<1>9. MirrorInv'
  BY <1>0, <1>2, <1>4, <1>5 DEF MirrorInv, worker_vars
<1>10. SongInv' /\ ChunkInv'
  BY <1>4, ControlKeeps
<1>11. QED
  BY <1>6, <1>7, <1>8, <1>9, <1>10 DEF IInv

LEMMA MirrorStep ==
    ASSUME IInv, MirrorSongRow
    PROVE  IInv'
<1> DEFINE n == Head(notices)
           skipped == active = None \/ n.row \notin DOMAIN Rows(active)
           given == ~skipped /\ (n.wrapped \/ mirrored # n.row)
<1>0. TypeOK /\ SentInv /\ PlayInv /\ MirrorInv
  BY DEF IInv
<1>1. notices # <<>> /\ notices \in Seq(Notices) /\ notices' = Tail(notices) /\ n \in Notices
  BY <1>0 DEF MirrorSongRow, TypeOK
<1>2. /\ notices' \in Seq(Notices) /\ Len(notices') <= NoticeCapacity
      /\ notices' # <<>> => notices'[Len(notices')] = notices[Len(notices)]
      /\ notices' = <<>> => notices[Len(notices)] = n
  <2>1. /\ Len(notices) \in Nat \ {0} /\ Len(notices) <= NoticeCapacity
        /\ n = notices[1] /\ notices' \in Seq(Notices) /\ Len(notices') = Len(notices) - 1
        /\ \A i \in 1 .. Len(notices') : notices'[i] = notices[i + 1]
    BY <1>0, <1>1, EmptySeq, LenProperties, HeadTailProperties DEF TypeOK
  <2>2. Len(notices') <= NoticeCapacity
    BY <2>1, CapacityAssumption
  <2>3. ASSUME notices' # <<>> PROVE notices'[Len(notices')] = notices[Len(notices)]
    <3>1. Len(notices') \in 1 .. Len(notices')
      BY <2>1, <2>3
    <3>2. notices'[Len(notices')] = notices[Len(notices') + 1]
      BY <2>1, <3>1
    <3>3. QED
      BY <2>1, <3>2
  <2>4. notices' = <<>> => Len(notices) = 1
    BY <2>1
  <2>5. QED
    BY <2>1, <2>2, <2>3, <2>4
<1>3. /\ UNCHANGED <<arrangement, bpm, active, starting, stopping, published, commands,
                     worker_vars, spent_vars>>
      /\ skipped => UNCHANGED <<live, mirrored, noted>> /\ mistaken' = (mistaken \/ active # None)
      /\ given => /\ live' = RowSource(active, n.row) /\ mirrored' = n.row
                  /\ noted' = active.layout /\ mistaken' = (n.layout # active.layout)
      /\ ~skipped /\ ~given =>
            /\ mistaken' = (n.layout # active.layout \/ noted # active.layout)
            /\ UNCHANGED <<live, mirrored, noted>>
  BY DEF MirrorSongRow
<1>4. ~skipped => /\ active \in Songs /\ n.row \in DOMAIN Rows(active)
                  /\ RowSource(active, n.row) \in Sources /\ n.row \in Nat \ {0}
                  /\ active.layout \in Arrangements
                  /\ RowSource(active, n.row) = Compiled[active.layout].rows[n.row].source
  <2>1. ~skipped => active \in Songs /\ n.row \in DOMAIN Rows(active)
    BY <1>0 DEF TypeOK, Maybe
  <2>2. n.row \in Nat \ {0}
    BY <1>1 DEF Notices
  <2> HIDE DEF skipped, n
  <2>3. QED
    BY <2>1, <2>2, SongRows DEF RowSource, Rows
<1> HIDE DEF n
<1>5. TypeOK'
  <2>1. /\ live' \in Sources /\ mirrored' \in Maybe(Nat \ {0}) /\ noted' \in Maybe(Arrangements)
        /\ mistaken' \in BOOLEAN
    <3>1. CASE skipped
      <4> HIDE DEF skipped, given
      <4>1. QED
        BY <1>0, <1>3, <3>1 DEF TypeOK
    <3>2. CASE ~skipped /\ given
      <4> HIDE DEF skipped, given
      <4>1. QED
        BY <1>0, <1>3, <1>4, <3>2 DEF TypeOK, Maybe
    <3>3. CASE ~skipped /\ ~given
      <4> HIDE DEF skipped, given
      <4>1. QED
        BY <1>0, <1>3, <3>3 DEF TypeOK
    <3>4. QED
      BY <3>1, <3>2, <3>3
  <2>2. QED
    BY <1>0, <1>2, <1>3, <2>1 DEF TypeOK, worker_vars, spent_vars
<1>6. SentInv' /\ PlayInv'
  BY <1>0, <1>3 DEF SentInv, PlayInv, SongComes, worker_vars, spent_vars
<1>7. MirrorInv'
  <2>1. active' = None => mirrored' = None
    BY <1>0, <1>3 DEF MirrorInv
  <2>2. mirrored' # None => live' = Compiled[noted'].rows[mirrored'].source
    BY <1>0, <1>3, <1>4 DEF MirrorInv
  <2>3. ASSUME active' # None, \A i \in DOMAIN commands' : ~IsStart(commands'[i]),
               song' # None, song'.started, ~song'.slipped, ~dropped'
        PROVE  IF notices' # <<>> THEN NoticeSource(notices'[Len(notices')]) = Sounding(song')
               ELSE mistaken' \/ live' = Sounding(song')
    <3>1. NoticeSource(notices[Len(notices)]) = Sounding(song)
      BY <1>0, <1>1, <1>3, <2>3 DEF MirrorInv, worker_vars
    <3>2. song' = song
      BY <1>3 DEF worker_vars
    <3>3. CASE notices' # <<>>
      BY <1>2, <3>1, <3>2, <3>3
    <3>4. CASE notices' = <<>>
      <4>1. NoticeSource(n) = Sounding(song)
        BY <1>2, <3>1, <3>4
      <4>2. ASSUME skipped, ~mistaken' PROVE FALSE
        <5>1. active # None /\ mistaken' = (mistaken \/ active # None)
          BY <1>3, <2>3, <4>2
        <5>2. QED
          BY <4>2, <5>1, Zenon
      <4>3. ASSUME given, ~mistaken' PROVE live' = Sounding(song')
        <5>1. n.layout = active.layout /\ live' = RowSource(active, n.row) /\ ~skipped
          BY <1>3, <4>3
        <5> HIDE DEF skipped, given
        <5>2. QED
          BY <1>4, <3>2, <4>1, <5>1 DEF NoticeSource
      <4>4. ASSUME ~skipped, ~given, ~mistaken' PROVE live' = Sounding(song')
        <5>1. n.layout = active.layout /\ noted = active.layout /\ mirrored = n.row
          BY <1>3, <4>4
        <5>2. mirrored # None
          BY <1>4, <4>4, <5>1, NoneAssumption
        <5>3. live = Compiled[noted].rows[mirrored].source
          BY <1>0, <5>2 DEF MirrorInv
        <5>4. QED
          BY <1>3, <3>2, <4>1, <4>4, <5>1, <5>3 DEF NoticeSource
      <4>5. QED
        BY <3>4, <4>2, <4>3, <4>4
    <3>5. QED
      BY <3>3, <3>4
  <2>4. QED
    BY <2>1, <2>2, <2>3 DEF MirrorInv
<1>8. SongInv' /\ ChunkInv'
  BY <1>3, ControlKeeps
<1>9. QED
  BY <1>5, <1>6, <1>7, <1>8 DEF IInv

-----------------------------------------------------------------------------
(* The worker's steps keep the invariant                                   *)

LEMMA LoadStep ==
    ASSUME IInv, LoadSnapshot
    PROVE  IInv'
<1>0. TypeOK /\ SongInv /\ SentInv /\ PlayInv /\ ChunkInv /\ MirrorInv
  BY DEF IInv
<1>1. TypeOK'
  <2>1. ahead' \in -MaxLate .. Lookahead
    BY <1>0, Frontiers DEF LoadSnapshot, TypeOK
  <2>2. QED
    BY <1>0, <2>1 DEF LoadSnapshot, TypeOK, control_vars, mirror_vars, spent_vars
<1>2. SongInv' /\ ChunkInv'
  BY <1>0 DEF LoadSnapshot, SongInv, ChunkInv, RowsSoundInTheirBeats
<1>3. SentInv'
  BY <1>0 DEF LoadSnapshot, SentInv, SongComes, control_vars
<1>4. PlayInv'
  BY <1>0 DEF LoadSnapshot, PlayInv, TypeOK, Transports, spent_vars
<1>5. MirrorInv'
  BY <1>0 DEF LoadSnapshot, MirrorInv, control_vars, mirror_vars
<1>6. QED
  BY <1>1, <1>2, <1>3, <1>4, <1>5 DEF IInv

\* A seek moves the clock and the samples back together, as long as it parts
\* neither from the other, and touches nothing else of the song.
LEMMA RewoundDoes ==
    ASSUME NEW x, Good(x), snapshot.tempo \in Tempos
    PROVE  LET y == Rewound(x) IN
           /\ y \in Cursor /\ (x.song = None <=> y.song = None)
           /\ x.song # None => /\ y.song \in Runtimes /\ CursorInv(y.song, y.clock)
                               /\ Follows(y.song, x.song) /\ Newest(y.song) = Newest(x.song)
                               /\ y.song.missed = x.song.missed
                               /\ (~x.song.started => y.song = x.song)
<1> DEFINE r == x.song
           t == snapshot.tempo
           back == Most(x.ahead, 0)
           clock0 == Most(x.clock - back * t, 0)
           skewed == \/ r.skewed \/ x.ahead < 0 \/ back > r.elapsed
                     \/ back > 0 /\ t # r.song.tempo
           rewound == r.rewound \/ back > 0
           elapsed == r.elapsed - x.ahead
           q == [r EXCEPT !.elapsed = elapsed, !.rewound = rewound, !.skewed = skewed]
           y == Rewound(x)
<1>1. /\ x.song \in Maybe(Runtimes) /\ x.clock \in Nat /\ x.ahead \in -MaxLate .. Lookahead
      /\ r # None => r \in Runtimes /\ CursorInv(r, x.clock)
  BY DEF Good, Cursor, Maybe
<1>2. /\ t \in Nat \ {0} /\ MaxLate \in Nat /\ Lookahead \in Nat /\ x.ahead \in Int
      /\ 0 \in -MaxLate .. Lookahead
  <2>1. t \in Nat \ {0}
    BY TimeAssumption
  <2>2. QED
    BY <1>1, <2>1, Frontiers
<1>3. back \in Nat /\ back >= x.ahead /\ (x.ahead >= 0 => back = x.ahead)
  BY <1>2 DEF Most
<1> HIDE DEF back
<1>4. back * t \in Nat
  BY <1>2, <1>3, SumTimes
<1>5. clock0 \in Nat /\ (x.clock - back * t \in Nat => clock0 = x.clock - back * t)
      /\ (x.clock = 0 => clock0 = 0)
  <2> DEFINE p == back * t
  <2>1. p \in Nat /\ clock0 = Most(x.clock - p, 0)
    BY <1>4
  <2> HIDE DEF p, clock0
  <2>2. clock0 \in Nat /\ (x.clock - p \in Nat => clock0 = x.clock - p)
        /\ (x.clock = 0 => clock0 = 0)
    BY <1>1, <2>1 DEF Most
  <2>3. QED
    BY <2>2 DEF p
<1>6. y = [song |-> IF r # None /\ r.started
                    THEN [r EXCEPT !.elapsed = @ - x.ahead, !.rewound = @ \/ back > 0,
                                   !.skewed = \/ @ \/ x.ahead < 0 \/ back > r.elapsed
                                              \/ back > 0 /\ t # r.song.tempo]
                    ELSE r,
           clock |-> clock0, ahead |-> 0]
  BY DEF Rewound, back
<1> HIDE DEF clock0, y
<1>7. CASE r = None \/ ~r.started
  <2>1. y = [song |-> r, clock |-> clock0, ahead |-> 0]
    BY <1>6, <1>7
  <2>2. y \in Cursor /\ y.song = r /\ y.clock = clock0
    BY <1>1, <1>2, <1>5, <2>1 DEF Cursor
  <2>3. r # None => x.clock = 0 /\ y.clock = x.clock
    BY <1>1, <1>5, <1>7, <2>2 DEF CursorInv
  <2>4. QED
    BY <1>1, <2>2, <2>3 DEF Follows, y
<1>8. CASE r # None /\ r.started
  <2>1. r \in Runtimes /\ r.elapsed \in Int /\ r.tempo \in Nat \ {0}
    BY <1>1, <1>8, TimeAssumption DEF Runtimes
  <2>2. elapsed \in Int /\ rewound \in BOOLEAN /\ skewed \in BOOLEAN
    BY <1>2, <2>1
  <2>3. y = [song |-> q, clock |-> clock0, ahead |-> 0]
    BY <1>6, <1>8, <2>1 DEF Runtimes
  <2>4. ~skewed => /\ ~r.skewed /\ x.ahead >= 0 /\ back <= r.elapsed
                   /\ back = 0 \/ t = r.song.tempo
    BY <1>2, <1>3, <2>1
  <2>5. ~rewound => ~r.rewound /\ back = 0
    BY <1>3
  <2> DEFINE e == elapsed
             f == rewound
             g == skewed
  <2>6. q = [r EXCEPT !.elapsed = e, !.rewound = f, !.skewed = g]
    OBVIOUS
  <2>7. e = r.elapsed - x.ahead
    OBVIOUS
  <2> HIDE DEF rewound, skewed, elapsed, q, e, f, g
  <2>8. /\ q \in Runtimes /\ q.song = r.song /\ q.row = r.row /\ q.initial = r.initial
        /\ q.startBeat = r.startBeat /\ q.started = r.started /\ q.elapsed = elapsed
        /\ q.retimed = r.retimed /\ q.tempo = r.tempo /\ q.offset = r.offset
        /\ q.slipped = r.slipped /\ q.from = r.from /\ q.anchor = r.anchor
        /\ q.pending = r.pending /\ q.missed = r.missed
        /\ q.rewound = rewound /\ q.skewed = skewed
    BY <2>1, <2>2, <2>6 DEF Runtimes, e, f, g
  <2>9. q # None
    BY <2>8, RuntimeIsSomething
  <2>10. y \in Cursor /\ y.song = q /\ y.clock = clock0
    BY <1>2, <1>5, <2>3, <2>8 DEF Cursor, Maybe
  <2>11. ASSUME ~r.retimed, ~skewed
         PROVE  /\ elapsed \in Nat /\ clock0 = elapsed * r.tempo
                /\ ~rewound => Rows(r.song)[r.row].start < r.offset + clock0 + r.tempo
    <3>1. /\ r.song.tempo = r.tempo /\ r.elapsed \in Nat /\ x.clock = r.elapsed * r.tempo
          /\ ~r.rewound => Rows(r.song)[r.row].start < r.offset + x.clock + r.tempo
      BY <1>1, <1>8, <2>4, <2>11 DEF CursorInv, InStep
    <3>2. elapsed = r.elapsed - back /\ elapsed \in Nat
      BY <1>2, <1>3, <2>4, <2>7, <2>11, <3>1 DEF e
    <3>3. CASE back = 0
      <4>1. back * t = 0
        BY <1>2, <3>3
      <4>2. clock0 = x.clock /\ elapsed = r.elapsed
        BY <1>1, <1>5, <3>1, <3>2, <3>3, <4>1
      <4>3. QED
        BY <2>5, <3>1, <3>2, <4>2
    <3>4. CASE back # 0
      <4>1. t = r.tempo /\ rewound
        BY <2>4, <2>5, <2>11, <3>1, <3>4, <1>3 DEF rewound
      <4>2. r.elapsed * t = elapsed * t + back * t /\ elapsed * t \in Nat
        <5>1. r.elapsed = elapsed + back
          BY <1>3, <3>1, <3>2
        <5>2. QED
          BY <1>2, <1>3, <3>2, <5>1, SumTimes
      <4>3. x.clock - back * t = elapsed * t
        <5> DEFINE p == elapsed * t
                   b == back * t
        <5>1. p \in Nat /\ b \in Nat /\ x.clock = p + b
          BY <1>4, <3>1, <4>1, <4>2
        <5> HIDE DEF p, b
        <5>2. x.clock - b = p
          BY <5>1
        <5>3. QED
          BY <5>2 DEF p, b
      <4>4. QED
        BY <1>5, <3>2, <4>1, <4>2, <4>3
    <3>5. QED
      BY <3>3, <3>4
  <2>12. CursorInv(q, clock0)
    BY <1>1, <1>8, <2>8, <2>11 DEF CursorInv, InStep
  <2>13. Follows(q, r) /\ Newest(q) = Newest(r)
    BY <2>8 DEF Follows, Newest, Sounding
  <2>14. QED
    BY <1>8, <2>8, <2>9, <2>10, <2>12, <2>13 DEF y
<1>9. QED
  BY <1>7, <1>8

\* What draining makes of the cursor.
LEMMA DrainDoes ==
    ASSUME IInv, NEW seeks \in BOOLEAN, DrainCommands(seeks)
    PROVE  /\ song' \in Maybe(Runtimes) /\ clock' \in Nat /\ ahead' \in -MaxLate .. Lookahead
           /\ song' # None => CursorInv(song', clock') /\ song'.from = None
           /\ song' # None /\ song'.started =>
                 /\ snapshot.playing /\ \A i \in DOMAIN commands : ~IsStart(commands[i])
                 /\ song # None /\ Follows(song', song)
           /\ active # None => /\ song' # None
                               /\ ~song'.missed => Newest(song') = active
<1> DEFINE x == [song |-> song, clock |-> clock, ahead |-> ahead]
           y == After(commands, x)
           z == IF seeks /\ snapshot.playing THEN Rewound(y) ELSE y
<1>0. TypeOK /\ SongInv /\ SentInv /\ pc = "drain"
  BY DEF IInv, DrainCommands
<1>1. commands \in Seq(Commands) /\ snapshot.tempo \in Tempos /\ snapshot.playing \in BOOLEAN
  BY <1>0 DEF TypeOK, Transports
<1>2. x.song = song /\ x.clock = clock /\ Good(x) /\ NothingCrossed(x)
  BY <1>0 DEF TypeOK, SongInv, Good, Cursor, NothingCrossed
<1>3. /\ clock' = IF ~snapshot.playing \/ ~wasPlaying THEN 0 ELSE z.clock
      /\ ahead' = IF ~snapshot.playing \/ ~wasPlaying THEN 0 ELSE z.ahead
      /\ song' = IF ~snapshot.playing /\ y.song # None THEN Reset(y.song) ELSE z.song
  BY DEF DrainCommands
<1> HIDE DEF x
<1>4. /\ Good(y) /\ Continues(y, x) /\ NothingCrossed(y)
      /\ y.song # None /\ y.song.started => \A i \in DOMAIN commands : ~IsStart(commands[i])
      /\ \/ x.song # None /\ \A i \in DOMAIN commands : ~IsStop(commands[i])
         \/ \E i \in DOMAIN commands :
               IsStart(commands[i]) /\ \A j \in DOMAIN commands : j > i => ~IsStop(commands[j])
         => y.song # None
      /\ commands = <<>> => y = x
      /\ commands # <<>> /\ ~IsStop(commands[Len(commands)]) /\ y.song # None /\ ~y.song.missed
         => Newest(y.song) = commands[Len(commands)].song
  BY <1>1, <1>2, AfterDoes
<1> HIDE DEF y
<1>5. /\ y \in Cursor /\ y.song \in Maybe(Runtimes) /\ y.clock \in Nat
      /\ y.song # None => /\ y.song \in Runtimes /\ CursorInv(y.song, y.clock)
                          /\ y.song.from = None
  BY <1>4 DEF Good, Cursor, Maybe, NothingCrossed
<1>6. /\ z \in Cursor /\ (y.song = None <=> z.song = None)
      /\ y.song # None => /\ z.song \in Runtimes /\ CursorInv(z.song, z.clock)
                          /\ Follows(z.song, y.song) /\ Newest(z.song) = Newest(y.song)
                          /\ z.song.missed = y.song.missed
                          /\ (~y.song.started => z.song = y.song)
  <2>1. CASE seeks /\ snapshot.playing
    <3>1. z = Rewound(y)
      BY <2>1
    <3> HIDE DEF z
    <3>2. QED
      BY <1>1, <1>4, <1>5, <3>1, RewoundDoes
  <2>2. CASE ~(seeks /\ snapshot.playing)
    <3>1. z = y
      BY <2>2
    <3> HIDE DEF z
    <3>2. QED
      BY <1>5, <3>1 DEF Follows
  <2>3. QED
    BY <2>1, <2>2
<1> HIDE DEF z
<1>7. active # None => /\ y.song # None
                       /\ ~y.song.missed => Newest(y.song) = active
  <2>1. SUFFICES ASSUME active # None
                 PROVE  y.song # None /\ (~y.song.missed => Newest(y.song) = active)
    OBVIOUS
  <2>2. y.song # None
    BY <1>0, <1>2, <1>4, <2>1 DEF SentInv, SongComes
  <2>3. CASE commands = <<>>
    BY <1>0, <1>2, <1>4, <2>1, <2>2, <2>3 DEF SentInv
  <2>4. CASE commands # <<>>
    BY <1>0, <1>4, <2>1, <2>2, <2>4 DEF SentInv
  <2>5. QED
    BY <2>2, <2>3, <2>4
<1>8. ASSUME y.song # None, y.song.started
      PROVE  song # None /\ wasPlaying /\ Follows(y.song, song)
  BY <1>0, <1>2, <1>4, <1>8 DEF Continues, SongInv, Follows
<1>9. CASE snapshot.playing
  <2>1. song' = z.song
    BY <1>3, <1>9
  <2>2. clock' \in Nat /\ ahead' \in -MaxLate .. Lookahead /\ song' \in Maybe(Runtimes)
    BY <1>3, <1>6, <2>1, Frontiers DEF Cursor
  <2>3. song' # None => CursorInv(song', clock') /\ song'.from = None
    <3>1. SUFFICES ASSUME song' # None PROVE CursorInv(song', clock') /\ song'.from = None
      OBVIOUS
    <3>2. CursorInv(z.song, z.clock) /\ song'.from = None /\ y.song # None
      BY <1>5, <1>6, <2>1, <3>1 DEF Follows
    <3>3. CASE wasPlaying
      BY <1>3, <1>9, <2>1, <3>2, <3>3
    <3>4. CASE ~wasPlaying
      <4>1. ~z.song.started /\ clock' = 0
        BY <1>3, <1>8, <1>6, <3>2, <3>4 DEF Follows
      <4>2. z.clock = 0
        BY <3>2, <4>1 DEF CursorInv
      <4>3. QED
        BY <2>1, <3>2, <4>1, <4>2
    <3>5. QED
      BY <3>3, <3>4
  <2>4. ASSUME song' # None, song'.started
        PROVE  /\ \A i \in DOMAIN commands : ~IsStart(commands[i])
               /\ song # None /\ Follows(song', song)
    <3>1. y.song # None /\ y.song.started /\ Follows(z.song, y.song)
      BY <1>6, <2>1, <2>4 DEF Follows
    <3>2. QED
      BY <1>4, <1>8, <2>1, <3>1 DEF Follows
  <2>5. active # None => song' # None /\ (~song'.missed => Newest(song') = active)
    BY <1>7, <1>6, <2>1
  <2>6. QED
    BY <1>9, <2>2, <2>3, <2>4, <2>5
<1>10. CASE ~snapshot.playing /\ y.song = None
  BY <1>3, <1>7, <1>10, <1>6, Frontiers DEF Maybe
<1>11. CASE ~snapshot.playing /\ y.song # None
  <2>1. song' = Reset(y.song) /\ clock' = 0 /\ ahead' = 0
    BY <1>3, <1>11
  <2>2. /\ song' \in Runtimes /\ CursorInv(song', 0) /\ ~song'.started /\ song'.from = None
        /\ ~song'.missed => Newest(song') = Newest(y.song) /\ ~y.song.missed
    BY <1>5, <1>11, <2>1, ResetDoes
  <2>3. song' # None
    BY <2>2, RuntimeIsSomething
  <2>4. QED
    BY <1>7, <2>1, <2>2, <2>3, TimeAssumption DEF Maybe
<1>12. QED
  BY <1>9, <1>10, <1>11

LEMMA DrainStep ==
    ASSUME IInv, NEW seeks \in BOOLEAN, DrainCommands(seeks)
    PROVE  IInv'
<1>0. TypeOK /\ SongInv /\ SentInv /\ PlayInv /\ ChunkInv /\ MirrorInv /\ pc = "drain"
  BY DEF IInv, DrainCommands
<1>1. /\ song' \in Maybe(Runtimes) /\ clock' \in Nat /\ ahead' \in -MaxLate .. Lookahead
      /\ song' # None => CursorInv(song', clock') /\ song'.from = None
      /\ song' # None /\ song'.started =>
            /\ snapshot.playing /\ \A i \in DOMAIN commands : ~IsStart(commands[i])
            /\ song # None /\ Follows(song', song)
      /\ active # None => /\ song' # None
                          /\ ~song'.missed => Newest(song') = active
  BY DrainDoes
<1>2. /\ commands' = <<>> /\ wasPlaying' = snapshot.playing
      /\ chunk' = IF song' = None \/ ~song'.started THEN None ELSE chunk
      /\ pc' \in IF ~snapshot.playing THEN {"load"} ELSE {"plan", "load"}
      /\ UNCHANGED <<control_vars, published, notices, snapshot, mirror_vars, dropped, spent_vars>>
  BY DEF DrainCommands
<1>3. TypeOK'
  <2>1. commands' \in Seq(Commands) /\ Len(commands') <= CommandCapacity
    BY <1>2, CapacityAssumption
  <2>2. chunk' \in Maybe(Chunks) /\ pc' \in {"load", "drain", "plan"} /\ wasPlaying' \in BOOLEAN
    BY <1>0, <1>2 DEF TypeOK, Maybe, Transports
  <2>3. song' # None => {song'.row, song'.initial} \subseteq DOMAIN Rows(song'.song)
    BY <1>1 DEF CursorInv
  <2>4. QED
    BY <1>0, <1>1, <1>2, <2>1, <2>2, <2>3 DEF TypeOK, control_vars, mirror_vars, spent_vars
<1>4. SongInv'
  BY <1>1, <1>2 DEF SongInv
<1>5. SentInv'
  BY <1>1, <1>2 DEF SentInv, SongComes, control_vars
<1>6. PlayInv'
  BY <1>0, <1>2 DEF PlayInv, spent_vars
<1>7. ChunkInv'
  <2>1. SUFFICES ASSUME chunk' # None PROVE ChunkInv'
    BY DEF ChunkInv
  <2>2. song' # None /\ song'.started /\ chunk' = chunk
    BY <1>2, <2>1
  <2>3. song # None /\ Follows(song', song) /\ song.started
    BY <1>1, <2>2 DEF Follows
  <2>4. RowsSoundInTheirBeats'
    BY <1>0, <2>1, <2>2, <2>3 DEF ChunkInv, RowsSoundInTheirBeats, Follows
  <2>5. ~song'.slipped => ~song.slipped /\ Sounding(song') = Sounding(song)
    BY <2>3 DEF Follows
  <2>6. song.from = None /\ song'.from = None
    BY <1>1, <2>2, <2>3 DEF Follows
  <2>7. QED
    BY <1>0, <2>1, <2>2, <2>4, <2>5, <2>6 DEF ChunkInv
<1>8. MirrorInv'
  <2>1. /\ active' = active /\ mirrored' = mirrored /\ live' = live /\ noted' = noted
        /\ mistaken' = mistaken /\ dropped' = dropped /\ notices' = notices
    BY <1>2 DEF control_vars, mirror_vars
  <2>2. ASSUME active' # None, song' # None, song'.started, ~song'.slipped, ~dropped'
        PROVE  IF notices' # <<>> THEN NoticeSource(notices'[Len(notices')]) = Sounding(song')
               ELSE mistaken' \/ live' = Sounding(song')
    <3>1. /\ song # None /\ song.started /\ ~song.slipped /\ Sounding(song') = Sounding(song)
          /\ \A i \in DOMAIN commands : ~IsStart(commands[i])
      BY <1>1, <2>2 DEF Follows
    <3>2. IF notices # <<>> THEN NoticeSource(notices[Len(notices)]) = Sounding(song)
          ELSE mistaken \/ live = Sounding(song)
      BY <1>0, <2>1, <2>2, <3>1 DEF MirrorInv
    <3>3. QED
      BY <2>1, <3>1, <3>2
  <2>3. QED
    BY <1>0, <2>1, <2>2 DEF MirrorInv
<1>9. QED
  BY <1>3, <1>4, <1>5, <1>6, <1>7, <1>8 DEF IInv

LEMMA PlanSessionStep ==
    ASSUME IInv, PlanSession
    PROVE  IInv'
<1>0. TypeOK /\ SongInv /\ SentInv /\ PlayInv /\ ChunkInv /\ MirrorInv
  BY DEF IInv
<1>1. TypeOK'
  BY <1>0 DEF PlanSession, TypeOK, control_vars, mirror_vars, spent_vars
<1>2. SongInv' /\ ChunkInv'
  BY <1>0 DEF PlanSession, SongInv, ChunkInv, RowsSoundInTheirBeats
<1>3. SentInv'
  BY <1>0 DEF PlanSession, SentInv, SongComes, control_vars
<1>4. PlayInv'
  BY <1>0 DEF PlanSession, PlayInv, spent_vars
<1>5. MirrorInv'
  BY <1>0 DEF PlanSession, MirrorInv, control_vars, mirror_vars
<1>6. QED
  BY <1>1, <1>2, <1>3, <1>4, <1>5 DEF IInv

-----------------------------------------------------------------------------
(* Boundaries                                                              *)

\* A boundary that is reached lies less than a sample after the clock.
LEMMA BoundaryReached ==
    ASSUME NEW t \in Nat \ {0}, NEW origin \in Nat, NEW beat \in Nat, NEW elapsed \in Nat,
           NEW beats \in Nat, beats = elapsed * t,
           (IF beat > origin THEN Frame(beat, t) - Frame(origin, t) ELSE 0) <= elapsed
    PROVE  beat < origin + beats + t
<1> DEFINE f == Frame(beat, t)
           g == Frame(origin, t)
<1>1. /\ f \in Nat /\ g \in Nat /\ beat <= f * t /\ g * t < origin + t
      /\ f * t \in Nat /\ g * t \in Nat
  BY FrameBounds, SumTimes
<1>2. CASE beat <= origin
  BY <1>2
<1>3. CASE beat > origin
  <2>1. f <= g + elapsed /\ g + elapsed \in Nat
    BY <1>1, <1>3
  <2> HIDE DEF f, g
  <2>2. f * t <= (g + elapsed) * t
    BY <1>1, <2>1, ProductGrows
  <2>3. (g + elapsed) * t = g * t + elapsed * t
    BY <1>1, SumTimes
  <2> DEFINE p == f * t
             q == g * t
             r == elapsed * t
  <2>4. p \in Nat /\ q \in Nat /\ r \in Nat /\ beat <= p /\ q < origin + t /\ p <= q + r
        /\ beats = r
    BY <1>1, <1>3, <2>2, <2>3, SumTimes
  <2> HIDE DEF p, q, r
  <2>5. QED
    BY <2>4
<1>4. QED
  BY <1>2, <1>3

\* A chunk that ends no later than a boundary has its last sample before it.
LEMMA ChunkEnds ==
    ASSUME NEW t \in Nat \ {0}, NEW origin \in Nat, NEW beat \in Nat, NEW elapsed \in Nat,
           NEW beats \in Nat, NEW frames \in Nat \ {0}, beats = elapsed * t,
           beat > origin, elapsed + frames <= Frame(beat, t) - Frame(origin, t)
    PROVE  origin + beats + (frames - 1) * t < beat
<1> DEFINE f == Frame(beat, t)
           g == Frame(origin, t)
           m == frames - 1
<1>1. /\ f \in Nat /\ g \in Nat /\ f * t < beat + t /\ origin <= g * t
      /\ f * t \in Nat /\ g * t \in Nat
  BY FrameBounds, SumTimes
<1>2. m \in Nat /\ g + elapsed + m + 1 <= f /\ g + elapsed + m + 1 \in Nat
  BY <1>1
<1> HIDE DEF f, g, m
<1>3. (g + elapsed + m + 1) * t <= f * t
  BY <1>1, <1>2, ProductGrows
<1>4. (g + elapsed + m + 1) * t = g * t + elapsed * t + m * t + t
  <2>1. (g + elapsed + m + 1) * t = (g + elapsed + m) * t + 1 * t
    BY <1>1, <1>2, SumTimes
  <2>2. (g + elapsed + m) * t = (g + elapsed) * t + m * t
    BY <1>1, <1>2, SumTimes
  <2>3. (g + elapsed) * t = g * t + elapsed * t
    BY <1>1, <1>2, SumTimes
  <2>4. QED
    BY <2>1, <2>2, <2>3
<1> DEFINE p == f * t
           q == g * t
           r == elapsed * t
           s == m * t
<1>5. p \in Nat /\ q \in Nat /\ r \in Nat /\ s \in Nat /\ p < beat + t /\ origin <= q
      /\ beats = r /\ q + r + s + t <= p
  BY <1>1, <1>2, <1>3, <1>4, SumTimes
<1> HIDE DEF p, q, r, s
<1>6. origin + beats + s < beat
  BY <1>5
<1>7. QED
  BY <1>6 DEF s, m

\* What the notices are after one is sent, or dropped.
LEMMA AnnounceDoes ==
    ASSUME NEW r \in Runtimes, NEW w \in BOOLEAN, Announce(r, w),
           notices \in Seq(Notices), Len(notices) <= NoticeCapacity
    PROVE  /\ notices' \in Seq(Notices) /\ Len(notices') <= NoticeCapacity
           /\ dropped' \in BOOLEAN
           /\ ~dropped' => /\ notices' # <<>>
                           /\ NoticeSource(notices'[Len(notices')]) = Sounding(r)
<1> DEFINE n == [row |-> r.row, wrapped |-> w, layout |-> r.song.layout]
<1>1. n \in Notices /\ NoticeSource(n) = Sounding(r)
  BY DEF Notices, Runtimes, Songs, NoticeSource, Sounding, RowSource, Rows
<1>2. Announce(r, w) => IF Len(notices) < NoticeCapacity
                        THEN notices' = Append(notices, n) /\ dropped' = FALSE
                        ELSE notices' = notices /\ dropped' = TRUE
  BY DEF Announce
<1>3. Len(notices) \in Nat /\ NoticeCapacity \in Nat
  BY CapacityAssumption
<1> HIDE DEF n
<1>4. CASE Len(notices) < NoticeCapacity
  <2>1. notices' = Append(notices, n) /\ dropped' = FALSE
    BY <1>2, <1>4
  <2>2. /\ notices' \in Seq(Notices) /\ Len(notices') = Len(notices) + 1
        /\ notices'[Len(notices')] = n /\ notices' # <<>>
    BY <1>1, <1>3, <2>1, AppendProperties
  <2>3. Len(notices') <= NoticeCapacity
    BY <1>3, <1>4, <2>2
  <2>4. dropped' \in BOOLEAN
    BY <2>1
  <2>5. NoticeSource(notices'[Len(notices')]) = Sounding(r)
    BY <1>1, <2>2
  <2>6. QED
    BY <2>2, <2>3, <2>4, <2>5
<1>5. CASE ~(Len(notices) < NoticeCapacity)
  BY <1>2, <1>5
<1>6. QED
  BY <1>4, <1>5

\* A crossing that has not been planned from yet is from the chunk's source.
FromChunk(r) ==
    IF r.from = None THEN Sounding(r) = RowSource(chunk.song, chunk.row)
    ELSE r.from \in {"wrap", RowSource(chunk.song, chunk.row)}

\* Entering a row: the cursor fits the clock, the newest song stays the newest
\* and the crossing is remembered.
LEMMA CrossStep ==
    ASSUME IInv, pc = "plan", song # None, NEW q \in Runtimes, NEW w \in BOOLEAN, Cross(q, w),
           clock' \in Nat, CursorInv(q, clock'), q.started, q.pending = None \/ q.from = None,
           Newest(q) = Newest(song), q.missed = song.missed,
           chunk # None => /\ song.retimed => q.retimed
                           /\ ~q.slipped => FromChunk(q)
    PROVE  IInv'
<1>0. TypeOK /\ SongInv /\ SentInv /\ PlayInv /\ ChunkInv /\ MirrorInv
  BY DEF IInv
<1>1. /\ song' = q /\ Announce(q, w)
      /\ UNCHANGED <<control_vars, published, commands, pc, snapshot, wasPlaying, ahead, chunk,
                     mirror_vars, spent_vars>>
  BY DEF Cross
<1>2. /\ notices' \in Seq(Notices) /\ Len(notices') <= NoticeCapacity /\ dropped' \in BOOLEAN
      /\ ~dropped' => /\ notices' # <<>>
                      /\ NoticeSource(notices'[Len(notices')]) = Sounding(q)
  BY <1>0, <1>1, AnnounceDoes DEF TypeOK
<1>3. q # None
  BY RuntimeIsSomething
<1>4. TypeOK'
  <2>1. song' \in Maybe(Runtimes)
        /\ (song' # None => {song'.row, song'.initial} \subseteq DOMAIN Rows(song'.song))
    BY <1>1 DEF Maybe, CursorInv
  <2>2. QED
    BY <1>0, <1>1, <1>2, <2>1 DEF TypeOK, control_vars, mirror_vars, spent_vars
<1>5. SongInv'
  BY <1>0, <1>1 DEF SongInv
<1>6. SentInv'
  BY <1>0, <1>1, <1>3 DEF SentInv, SongComes, control_vars
<1>7. PlayInv'
  BY <1>0, <1>1 DEF PlayInv, spent_vars
<1>8. ChunkInv'
  <2>1. SUFFICES ASSUME chunk' # None PROVE ChunkInv'
    BY DEF ChunkInv
  <2>2. chunk' = chunk /\ (song.retimed => q.retimed) /\ (~q.slipped => FromChunk(q))
    BY <1>1, <2>1
  <2>3. RowsSoundInTheirBeats'
    BY <1>0, <1>1, <2>1, <2>2 DEF ChunkInv, RowsSoundInTheirBeats
  <2>4. QED
    BY <1>1, <1>3, <2>2, <2>3 DEF ChunkInv, FromChunk
<1>9. MirrorInv'
  BY <1>0, <1>1, <1>2 DEF MirrorInv, control_vars, mirror_vars
<1>10. QED
  BY <1>4, <1>5, <1>6, <1>7, <1>8, <1>9 DEF IInv

\* The song the worker plays from, while it plans.
LEMMA Planning ==
    ASSUME IInv, song # None
    PROVE  /\ song \in Runtimes /\ song.song \in Songs /\ CursorInv(song, clock)
           /\ song.row \in DOMAIN Rows(song.song) /\ Sounding(song) \in Sources
           /\ song.tempo \in Nat \ {0} /\ song.offset \in Nat /\ song.elapsed \in Int
           /\ clock \in Nat
           /\ chunk # None => /\ song.started /\ RowsSoundInTheirBeats
                              /\ ~song.slipped => FromChunk(song)
<1>1. song \in Runtimes /\ CursorInv(song, clock) /\ clock \in Nat
  BY DEF IInv, TypeOK, SongInv, Maybe
<1>2. /\ song.song \in Songs /\ song.tempo \in Nat \ {0} /\ song.offset \in Nat
      /\ song.elapsed \in Int
  BY <1>1, TimeAssumption DEF Runtimes
<1>3. song.row \in DOMAIN Rows(song.song) /\ Sounding(song) \in Sources
  BY <1>1, <1>2, SongRows DEF CursorInv, Sounding, RowSource
<1>4. chunk # None => /\ song.started /\ RowsSoundInTheirBeats
                      /\ ~song.slipped => FromChunk(song)
  BY DEF IInv, ChunkInv, FromChunk
<1>5. QED
  BY <1>1, <1>2, <1>3, <1>4, TimeAssumption

LEMMA PlanFirstStep ==
    ASSUME IInv, PlanFirst
    PROVE  IInv'
<1> DEFINE q == [song EXCEPT !.started = TRUE]
<1>1. /\ pc = "plan" /\ song # None /\ ~song.started /\ clock' = clock
      /\ \E w \in BOOLEAN : Cross(q, w)
  BY DEF PlanFirst
<1>2. song \in Runtimes /\ CursorInv(song, clock) /\ clock \in Nat /\ chunk = None
  BY <1>1, Planning
<1>3. /\ q \in Runtimes /\ q.song = song.song /\ q.row = song.row /\ q.initial = song.initial
      /\ q.startBeat = song.startBeat /\ q.elapsed = song.elapsed /\ q.retimed = song.retimed
      /\ q.tempo = song.tempo /\ q.offset = song.offset /\ q.started
      /\ q.pending = song.pending /\ q.missed = song.missed /\ q.from = song.from
      /\ q.rewound = song.rewound /\ q.skewed = song.skewed
  BY <1>2 DEF Runtimes
<1> HIDE DEF q
<1>4. CursorInv(q, clock)
  BY <1>2, <1>3 DEF CursorInv, InStep
<1>5. Newest(q) = Newest(song)
  BY <1>3 DEF Newest
<1>6. q.pending = None \/ q.from = None
  BY <1>1, <1>3 DEF IInv, SongInv
<1>7. QED
  BY <1>1, <1>2, <1>3, <1>4, <1>5, <1>6, CrossStep

LEMMA InstallStep ==
    ASSUME IInv, InstallAtBoundary
    PROVE  IInv'
<1> DEFINE s == song.pending
           row == RowIndexAtBeat(s, song.offset + clock)
           q == Install(song, s, row, TRUE)
<1>1. /\ pc = "plan" /\ song # None /\ song.started /\ clock' = clock /\ s # None
      /\ \E w \in BOOLEAN : Cross(q, w)
  BY DEF InstallAtBoundary, AtBoundary
<1>2. /\ song \in Runtimes /\ CursorInv(song, clock) /\ clock \in Nat
      /\ song.offset \in Nat /\ Sounding(song) \in Sources
      /\ chunk # None /\ ~song.slipped => FromChunk(song)
  BY <1>1, Planning
<1>3. s \in Songs
  BY <1>1, <1>2 DEF Runtimes, Maybe
<1>4. /\ row \in DOMAIN Rows(s) /\ row \in Nat \ {0} /\ song.offset + clock \in Nat
      /\ Rows(s)[row].start <= song.offset + clock
  BY <1>2, <1>3, RowAtBeat
<1> HIDE DEF s, row
<1>5. q \in Runtimes /\ Installed(q, song, s, row) /\ q.from = Sounding(song)
  BY <1>2, <1>3, <1>4, InstallAtBeat, Zenon
<1> HIDE DEF q
<1>6. CursorInv(q, clock)
  BY <1>2, <1>3, <1>4, <1>5, InstalledKeeps
<1>7. /\ q.started /\ q.pending = None /\ q.missed = song.missed /\ (song.retimed => q.retimed)
      /\ q.slipped = song.slipped
  BY <1>1, <1>5 DEF Installed
<1>8. Newest(q) = Newest(song)
  BY <1>1, <1>5 DEF Newest, Installed, s
<1>9. chunk # None /\ ~q.slipped => FromChunk(q)
  <2>1. song.from = None
    BY <1>1 DEF IInv, SongInv, s
  <2>2. q.from # None
    BY <1>2, <1>5, NoneAssumption
  <2>3. QED
    BY <1>2, <1>5, <1>7, <2>1, <2>2 DEF FromChunk
<1>10. QED
  BY <1>1, <1>2, <1>5, <1>6, <1>7, <1>8, <1>9, CrossStep

LEMMA WrapStep ==
    ASSUME IInv, WrapToStart
    PROVE  IInv'
<1> DEFINE q == [song EXCEPT !.offset = 0, !.elapsed = 0, !.row = 1, !.anchor = 0, !.from = "wrap",
                             !.rewound = FALSE, !.skewed = FALSE]
<1>1. /\ pc = "plan" /\ song # None /\ song.started /\ song.pending = None /\ clock' = 0
      /\ \E w \in BOOLEAN : Cross(q, w)
  BY DEF WrapToStart, AtBoundary
<1>2. song \in Runtimes /\ song.song \in Songs /\ CursorInv(song, clock) /\ song.tempo \in Nat \ {0}
  BY <1>1, Planning
<1>3. /\ q \in Runtimes /\ q.song = song.song /\ q.row = 1 /\ q.initial = song.initial
      /\ q.startBeat = song.startBeat /\ q.elapsed = 0 /\ q.retimed = song.retimed
      /\ q.tempo = song.tempo /\ q.offset = 0 /\ q.started
      /\ q.pending = None /\ q.missed = song.missed /\ q.from = "wrap"
  <2> DEFINE wrap == "wrap"
             froms == Maybe(Sources \cup {"wrap"})
  <2>1. wrap \in froms
    BY DEF Maybe
  <2>2. q = [song EXCEPT !.offset = 0, !.elapsed = 0, !.row = 1, !.anchor = 0, !.from = wrap,
                         !.rewound = FALSE, !.skewed = FALSE]
    OBVIOUS
  <2>3. song \in [song : Songs, pending : Maybe(Songs), from : froms,
                  tempo : Tempos, startBeat : Nat, initial : Nat \ {0}, row : Nat \ {0},
                  offset : Nat, elapsed : Int, anchor : Nat, started : BOOLEAN,
                  retimed : BOOLEAN, missed : BOOLEAN, slipped : BOOLEAN,
                  rewound : BOOLEAN, skewed : BOOLEAN]
    BY <1>2 DEF Runtimes
  <2>4. q \in Runtimes
    <3>1. 0 \in Nat /\ 0 \in Int /\ 1 \in Nat \ {0}
      OBVIOUS
    <3> HIDE DEF wrap, q, froms
    <3>2. q \in [song : Songs, pending : Maybe(Songs), from : froms,
                 tempo : Tempos, startBeat : Nat, initial : Nat \ {0}, row : Nat \ {0},
                 offset : Nat, elapsed : Int, anchor : Nat, started : BOOLEAN,
                 retimed : BOOLEAN, missed : BOOLEAN, slipped : BOOLEAN,
                 rewound : BOOLEAN, skewed : BOOLEAN]
      BY <2>1, <2>2, <2>3, <3>1
    <3>3. QED
      BY <3>2 DEF Runtimes, froms
  <2> HIDE DEF froms
  <2>5. QED
    BY <1>1, <1>2, <2>3, <2>4
<1> HIDE DEF q
<1>4. CursorInv(q, 0)
  <2>1. 1 \in DOMAIN Rows(song.song) /\ Rows(song.song)[1].start = 0
    BY <1>2, SongRows
  <2>2. 0 * song.tempo = 0 /\ 0 < 0 + 0 + song.tempo
    BY <1>2
  <2>3. QED
    BY <1>2, <1>3, <2>1, <2>2 DEF CursorInv, InStep
<1>5. Newest(q) = Newest(song)
  BY <1>1, <1>3 DEF Newest
<1>6. FromChunk(q)
  BY <1>3, NoneAssumption DEF FromChunk
<1>7. QED
  BY <1>1, <1>3, <1>4, <1>5, <1>6, CrossStep

LEMMA EnterStep ==
    ASSUME IInv, EnterNextRow
    PROVE  IInv'
<1> DEFINE start == Rows(song.song)[song.row + 1].start
           from == IF song.from = None THEN Sounding(song) ELSE song.from
           q == [song EXCEPT !.row = song.row + 1, !.anchor = start, !.from = from,
                             !.rewound = FALSE]
<1>1. /\ pc = "plan" /\ song # None /\ song.started /\ song.pending = None /\ clock' = clock
      /\ Remaining(song) = 0 /\ ~IsLastRow(song)
  BY DEF EnterNextRow, AtBoundary
<1>2. /\ song \in Runtimes /\ song.song \in Songs /\ CursorInv(song, clock)
      /\ song.row \in DOMAIN Rows(song.song) /\ Sounding(song) \in Sources
      /\ song.tempo \in Nat \ {0} /\ song.offset \in Nat /\ song.elapsed \in Int
      /\ clock \in Nat
      /\ chunk # None /\ ~song.slipped => FromChunk(song)
  BY <1>1, Planning
<1>3. \E w \in BOOLEAN : Cross(q, w)
  <2>1. q = [song EXCEPT !.row = @ + 1, !.anchor = Rows(song.song)[song.row + 1].start,
                         !.from = IF @ = None THEN Sounding(song) ELSE @,
                         !.rewound = FALSE]
    BY <1>2 DEF Runtimes
  <2>2. QED
    BY <2>1 DEF EnterNextRow
<1>4. song.row + 1 \in DOMAIN Rows(song.song) /\ song.row + 1 \in Nat \ {0}
  BY <1>1, <1>2, SongRows DEF IsLastRow
<1>5. start \in Nat
  BY <1>2, <1>4, SongRows
<1>6. from \in Sources \cup {"wrap"} /\ from # None
  BY <1>2, NoneAssumption DEF Runtimes, Maybe
<1>7. start < song.offset + clock + song.tempo \/ song.retimed \/ song.skewed
  <2>1. SUFFICES ASSUME ~song.retimed, ~song.skewed
                 PROVE  start < song.offset + clock + song.tempo
    OBVIOUS
  <2>2. song.elapsed \in Nat /\ clock = song.elapsed * song.tempo
    BY <1>2, <2>1 DEF CursorInv, InStep
  <2>3. BoundaryElapsed(song, start) <= song.elapsed
    <3>1. BoundaryElapsed(song, start) \in Int
      <4>1. Frame(start, song.tempo) \in Nat /\ Frame(song.offset, song.tempo) \in Nat
        BY <1>2, <1>5, FrameBounds
      <4> HIDE DEF start
      <4>2. QED
        BY <4>1 DEF BoundaryElapsed
    <3>2. QED
      BY <1>1, <1>2, <3>1 DEF Remaining, BoundaryBeat
  <2>4. (IF start > song.offset THEN Frame(start, song.tempo) - Frame(song.offset, song.tempo)
         ELSE 0) <= song.elapsed
    BY <2>3 DEF BoundaryElapsed
  <2> HIDE DEF start
  <2>5. QED
    BY <1>2, <1>5, <2>2, <2>4, BoundaryReached
<1> HIDE DEF start, from
<1>8. /\ q \in Runtimes /\ q.song = song.song /\ q.row = song.row + 1 /\ q.initial = song.initial
      /\ q.startBeat = song.startBeat /\ q.elapsed = song.elapsed /\ q.retimed = song.retimed
      /\ q.tempo = song.tempo /\ q.offset = song.offset /\ q.started
      /\ q.pending = None /\ q.missed = song.missed /\ q.from = from /\ q.slipped = song.slipped
      /\ q.skewed = song.skewed
  BY <1>1, <1>2, <1>4, <1>5, <1>6 DEF Runtimes, Maybe
<1> HIDE DEF q
<1>9. CursorInv(q, clock)
  <2>1. Rows(q.song)[q.row].start = start
    BY <1>8 DEF start
  <2>2. QED
    BY <1>1, <1>2, <1>4, <1>7, <1>8, <2>1 DEF CursorInv, InStep
<1>10. Newest(q) = Newest(song)
  BY <1>1, <1>8 DEF Newest
<1>11. chunk # None /\ ~q.slipped => FromChunk(q)
  BY <1>2, <1>6, <1>8 DEF FromChunk, from
<1>12. QED
  BY <1>1, <1>2, <1>3, <1>8, <1>9, <1>10, <1>11, CrossStep

LEMMA PlanChunkStep ==
    ASSUME IInv, PlanChunk
    PROVE  IInv'
<1> DEFINE r == song
           s == song.song
           left == Remaining(song)
           most == Least(Lookahead - ahead, Block)
           frames == IF left = 0 THEN most ELSE Least(left, most)
           elapsed == song.elapsed + frames
           beats == clock + frames * s.tempo
           boundary == BoundaryBeat(song)
           reached == BoundaryElapsed(song, boundary)
<1>0. TypeOK /\ SongInv /\ SentInv /\ PlayInv /\ ChunkInv /\ MirrorInv
  BY DEF IInv
<1>1. /\ pc = "plan" /\ song # None /\ song.started /\ ahead < Lookahead
      /\ left = 0 => IsLastRow(song) /\ ~Loops(s)
      /\ chunk' = [song |-> s, row |-> song.row, frames |-> frames,
                   beat |-> song.offset + clock, wrapped |-> song.from = "wrap",
                   resets |-> song.from # None /\ song.from # Sounding(song),
                   rewound |-> song.rewound, skewed |-> song.skewed]
      /\ clock' = beats /\ ahead' = ahead + frames /\ song' = [song EXCEPT !.elapsed = elapsed, !.from = None]
      /\ pc' \in {"plan", "load"}
      /\ UNCHANGED <<control_vars, published, commands, notices, snapshot, wasPlaying,
                     mirror_vars, dropped, spent_vars>>
  <2>1. song # None
    BY DEF PlanChunk
  <2>2. song \in Runtimes
    BY <2>1, Planning
  <2>3. song' = [song EXCEPT !.elapsed = elapsed, !.from = None]
    BY <2>2 DEF PlanChunk, Runtimes
  <2>4. ahead < Lookahead
    BY DEF PlanChunk, MayPlan
  <2>5. pc' \in {"plan", "load"}
    BY DEF PlanChunk
  <2>6. QED
    BY <2>3, <2>4, <2>5 DEF PlanChunk, PreviousSource
<1>2. /\ song \in Runtimes /\ s \in Songs /\ CursorInv(song, clock)
      /\ song.row \in DOMAIN Rows(s) /\ song.row \in Nat \ {0} /\ Sounding(song) \in Sources
      /\ song.tempo \in Nat \ {0} /\ song.offset \in Nat /\ song.elapsed \in Int
      /\ clock \in Nat /\ s.tempo \in Nat \ {0}
  BY <1>1, Planning, SongRows DEF Runtimes
<1>3. /\ boundary \in Nat
      /\ boundary = IF song.row = Len(Rows(s)) THEN EndBeat(s) ELSE Rows(s)[song.row + 1].start
  <2>1. song.row # Len(Rows(s)) => song.row + 1 \in DOMAIN Rows(s)
    BY <1>2, SongRows
  <2>2. QED
    BY <1>2, <2>1, SongRows DEF BoundaryBeat, IsLastRow
<1>4. /\ reached \in Int
      /\ reached = IF boundary > song.offset
                   THEN Frame(boundary, song.tempo) - Frame(song.offset, song.tempo) ELSE 0
  <2> HIDE DEF boundary
  <2>1. Frame(boundary, song.tempo) \in Nat /\ Frame(song.offset, song.tempo) \in Nat
    BY <1>2, <1>3, FrameBounds
  <2>2. QED
    BY <2>1 DEF BoundaryElapsed
<1>5. left \in Nat /\ left = IF reached > song.elapsed THEN reached - song.elapsed ELSE 0
  <2>1. left = IF reached > song.elapsed THEN reached - song.elapsed ELSE 0
    BY DEF Remaining
  <2> HIDE DEF reached, left
  <2>2. QED
    BY <1>2, <1>4, <2>1
<1> HIDE DEF left, boundary, reached
<1>6. /\ frames \in 1 .. Block /\ frames \in Nat \ {0} /\ (left # 0 => frames <= left)
      /\ ahead + frames \in -MaxLate .. Lookahead
  <2>1. ahead \in -MaxLate .. Lookahead /\ Lookahead \in Nat /\ MaxLate \in Nat /\ Block \in Nat \ {0}
    BY <1>0, Frontiers DEF TypeOK
  <2>2. most \in 1 .. Block /\ ahead + most <= Lookahead
    BY <1>1, <2>1 DEF Least
  <2> HIDE DEF most
  <2>3. frames \in 1 .. most /\ (left # 0 => frames <= left)
    BY <1>5, <2>2 DEF Least
  <2> HIDE DEF frames
  <2>4. QED
    BY <2>1, <2>2, <2>3
<1> HIDE DEF frames
<1>7. frames * s.tempo \in Nat
  BY <1>2, <1>6, SumTimes
<1>8. elapsed \in Int /\ beats \in Nat /\ clock <= beats
  <2> DEFINE p == frames * s.tempo
  <2> HIDE DEF p
  <2>1. p \in Nat /\ beats = clock + p
    BY <1>7 DEF p
  <2> HIDE DEF beats
  <2>2. QED
    BY <1>2, <1>6, <2>1
<1> HIDE DEF elapsed, beats
<1>9. /\ song' \in Runtimes /\ song' # None /\ song'.elapsed = elapsed /\ song'.from = None
      /\ song'.song = s /\ song'.row = song.row /\ song'.initial = song.initial
      /\ song'.startBeat = song.startBeat /\ song'.started = song.started
      /\ song'.retimed = song.retimed /\ song'.tempo = song.tempo /\ song'.offset = song.offset
      /\ song'.pending = song.pending /\ song'.missed = song.missed
      /\ song'.slipped = song.slipped
      /\ song'.rewound = song.rewound /\ song'.skewed = song.skewed
  <2>1. song' \in Runtimes
    BY <1>1, <1>2, <1>8 DEF Runtimes, Maybe
  <2>2. QED
    BY <1>1, <1>2, <2>1, RuntimeIsSomething DEF Runtimes
<1>10. CursorInv(song', clock')
  <2>1. ASSUME ~song.retimed, ~song.skewed
        PROVE  /\ elapsed \in Nat /\ beats = elapsed * song.tempo
               /\ ~song.rewound => Rows(s)[song.row].start < song.offset + beats + song.tempo
    <3>1. /\ s.tempo = song.tempo /\ song.elapsed \in Nat /\ clock = song.elapsed * song.tempo
          /\ ~song.rewound => Rows(s)[song.row].start < song.offset + clock + song.tempo
      BY <1>2, <2>1 DEF CursorInv, InStep
    <3>2. elapsed \in Nat /\ beats = elapsed * song.tempo
      BY <1>2, <1>6, <3>1, SumTimes DEF elapsed, beats
    <3>3. Rows(s)[song.row].start \in Nat
      BY <1>2, SongRows
    <3>4. ~song.rewound => Rows(s)[song.row].start < song.offset + beats + song.tempo
      BY <1>2, <1>8, <3>1, <3>3
    <3>5. QED
      BY <3>2, <3>4
  <2>2. song.initial \in DOMAIN Rows(s) /\ Rows(s)[song.initial].start <= song.startBeat
    BY <1>2 DEF CursorInv
  <2>3. ~song.retimed => s.tempo = song.tempo
    BY <1>2 DEF CursorInv
  <2>4. QED
    BY <1>1, <1>2, <1>9, <2>1, <2>2, <2>3 DEF CursorInv, InStep
<1>11. /\ chunk' # None /\ chunk' \in Chunks /\ chunk'.song = s /\ chunk'.row = song.row
       /\ chunk'.frames = frames /\ chunk'.beat = song.offset + clock
       /\ chunk'.rewound = song.rewound /\ chunk'.skewed = song.skewed
  <2> DEFINE wrapped == song.from = "wrap"
             resets == song.from # None /\ song.from # Sounding(song)
  <2>1. wrapped \in BOOLEAN /\ resets \in BOOLEAN /\ song.offset + clock \in Nat
    BY <1>2
  <2>2. chunk' = [song |-> s, row |-> song.row, frames |-> frames,
                  beat |-> song.offset + clock, wrapped |-> wrapped, resets |-> resets,
                  rewound |-> song.rewound, skewed |-> song.skewed]
    BY <1>1
  <2> HIDE DEF wrapped, resets
  <2>3. chunk' \in Chunks
    BY <1>2, <1>6, <2>1, <2>2 DEF Chunks, Runtimes
  <2>4. QED
    BY <2>2, <2>3, NoneAssumption
<1>12. TypeOK'
  <2>1. song' \in Maybe(Runtimes) /\ chunk' \in Maybe(Chunks) /\ clock' \in Nat
        /\ ahead' \in -MaxLate .. Lookahead
    BY <1>1, <1>6, <1>8, <1>9, <1>11 DEF Maybe
  <2>2. {song'.row, song'.initial} \subseteq DOMAIN Rows(song'.song)
    BY <1>10 DEF CursorInv
  <2>3. QED
    BY <1>0, <1>1, <2>1, <2>2 DEF TypeOK, control_vars, mirror_vars, spent_vars
<1>13. SongInv'
  BY <1>0, <1>1, <1>9, <1>10 DEF SongInv
<1>14. SentInv'
  <2>1. Newest(song') = Newest(song)
    BY <1>9 DEF Newest
  <2>2. QED
    BY <1>0, <1>1, <1>9, <2>1 DEF SentInv, SongComes, control_vars
<1>15. PlayInv'
  BY <1>0, <1>1 DEF PlayInv, spent_vars
<1>16. ASSUME ~song.retimed, ~song.skewed
       PROVE  /\ ~song.rewound => Rows(s)[song.row].start < song.offset + clock + s.tempo
              /\ left # 0 => song.offset + clock + (frames - 1) * s.tempo < boundary
  <2>1. /\ s.tempo = song.tempo /\ song.elapsed \in Nat /\ clock = song.elapsed * song.tempo
        /\ ~song.rewound => Rows(s)[song.row].start < song.offset + clock + song.tempo
    BY <1>2, <1>16 DEF CursorInv, InStep
  <2>2. ASSUME left # 0 PROVE song.offset + clock + (frames - 1) * s.tempo < boundary
    <3>1. /\ boundary > song.offset
          /\ reached = Frame(boundary, song.tempo) - Frame(song.offset, song.tempo)
          /\ song.elapsed + frames <= reached
      BY <1>2, <1>3, <1>4, <1>5, <1>6, <2>1, <2>2
    <3>2. QED
      BY <1>2, <1>3, <1>6, <2>1, <3>1, ChunkEnds
  <2>3. QED
    BY <2>1, <2>2
<1>17. ChunkInv'
  <2>1. RowsSoundInTheirBeats'
    <3> DEFINE last == song.offset + clock + (frames - 1) * s.tempo
    <3>1. SUFFICES ASSUME ~song.retimed, ~song.skewed
                   PROVE  /\ song.rewound \/ Rows(s)[song.row].start < song.offset + clock + s.tempo
                          /\ song.row < Len(Rows(s)) => last < Rows(s)[song.row + 1].start
                          /\ song.row = Len(Rows(s)) /\ Loops(s) => last < EndBeat(s)
      BY <1>9, <1>11 DEF RowsSoundInTheirBeats
    <3>2. /\ song.rewound \/ Rows(s)[song.row].start < song.offset + clock + s.tempo
          /\ left # 0 => last < boundary
      BY <1>16, <3>1
    <3>3. left = 0 => song.row = Len(Rows(s)) /\ ~Loops(s)
      BY <1>1 DEF IsLastRow
    <3>4. song.row \in Nat /\ Len(Rows(s)) \in Nat
      BY <1>2, SongRows
    <3> HIDE DEF last
    <3>5. QED
      BY <1>3, <3>2, <3>3, <3>4
  <2>2. Sounding(song') = RowSource(chunk'.song, chunk'.row)
    BY <1>9, <1>11 DEF Sounding
  <2>3. QED
    BY <1>1, <1>9, <2>1, <2>2 DEF ChunkInv
<1>18. MirrorInv'
  <2>1. Sounding(song') = Sounding(song)
    BY <1>9 DEF Sounding
  <2>2. QED
    BY <1>0, <1>1, <1>9, <2>1 DEF MirrorInv, control_vars, mirror_vars
<1>19. QED
  BY <1>12, <1>13, <1>14, <1>15, <1>17, <1>18 DEF IInv

-----------------------------------------------------------------------------
(* The invariant is inductive                                              *)

LEMMA InitIInv == Init => IInv
<1> SUFFICES ASSUME Init PROVE IInv
  OBVIOUS
<1>1. PICK a \in Arrangements, t \in Tempos :
         /\ arrangement = [layout |-> a, version |-> 0] /\ bpm = t
         /\ live = Compiled[a].rows[1].source
         /\ published = [playing |-> FALSE, tempo |-> t, play |-> 0]
  BY DEF Init
<1>2. /\ active = None /\ mirrored = None /\ starting = FALSE /\ stopping = FALSE
      /\ commands = <<>> /\ notices = <<>> /\ pc = "load" /\ snapshot = published
      /\ wasPlaying = FALSE /\ clock = 0 /\ ahead = 0 /\ song = None /\ chunk = None /\ noted = None
      /\ mistaken = FALSE /\ dropped = FALSE /\ gestures = 0 /\ plays = 0
  BY DEF Init
<1>3. Compiled[a].rows[1].source \in Sources
  <2> DEFINE rows == Compiled[a].rows
  <2>1. rows \in Seq([start : Nat, source : Sources]) /\ Len(rows) > 0
    BY CompiledAssumption
  <2> HIDE DEF rows
  <2>2. 1 \in 1 .. Len(rows)
    BY <2>1
  <2>3. rows[1] \in [start : Nat, source : Sources]
    BY <2>1, <2>2, ElementOfSeq
  <2>4. QED
    BY <2>3 DEF rows
<1>4. TypeOK
  <2>1. /\ commands \in Seq(Commands) /\ Len(commands) <= CommandCapacity
        /\ notices \in Seq(Notices) /\ Len(notices) <= NoticeCapacity
        /\ gestures \in 0 .. MaxGestures /\ plays \in 0 .. MaxGestures
    BY <1>2, CapacityAssumption
  <2>2. /\ arrangement \in [layout : Arrangements, version : Nat] /\ bpm \in Tempos
        /\ published \in Transports /\ snapshot \in Transports /\ live \in Sources
    BY <1>1, <1>2, <1>3 DEF Transports
  <2>3. clock \in Nat /\ ahead \in -MaxLate .. Lookahead
    BY <1>2, Frontiers
  <2>4. QED
    BY <1>2, <2>1, <2>2, <2>3 DEF TypeOK, Maybe
<1>5. SongInv /\ SentInv /\ ChunkInv /\ MirrorInv
  BY <1>2 DEF SongInv, SentInv, ChunkInv, MirrorInv
<1>6. PlayInv
  BY <1>1, <1>2 DEF PlayInv
<1>7. QED
  BY <1>4, <1>5, <1>6 DEF IInv

LEMMA NextIInv == IInv /\ [Next]_vars => IInv'
<1> SUFFICES ASSUME IInv, [Next]_vars PROVE IInv'
  OBVIOUS
<1>1. CASE \E beat \in Cursors : Play(beat)
  BY <1>1, PlayStep
<1>2. CASE StartPlayback
  BY <1>2, StartStep
<1>3. CASE Stop
  BY <1>3, StopStep
<1>4. CASE StopPlayback
  BY <1>4, StopPlaybackStep
<1>5. CASE \E a \in Arrangements : EditArrangement(a)
  BY <1>5, EditArrangementStep
<1>6. CASE EditPattern
  BY <1>6, EditPatternStep
<1>7. CASE \E t \in Tempos : EditTempo(t)
  BY <1>7, EditTempoStep
<1>8. CASE MirrorSongRow
  BY <1>8, MirrorStep
<1>9. CASE LoadSnapshot
  BY <1>9, LoadStep
<1>10. CASE \E seeks \in BOOLEAN : DrainCommands(seeks)
  BY <1>10, DrainStep
<1>11. CASE PlanSession
  BY <1>11, PlanSessionStep
<1>12. CASE PlanFirst
  BY <1>12, PlanFirstStep
<1>13. CASE InstallAtBoundary
  BY <1>13, InstallStep
<1>14. CASE WrapToStart
  BY <1>14, WrapStep
<1>15. CASE EnterNextRow
  BY <1>15, EnterStep
<1>16. CASE PlanChunk
  BY <1>16, PlanChunkStep
<1>17. CASE UNCHANGED vars
  <2>1. UNCHANGED <<control_vars, published, commands, notices, worker_vars, mirror_vars,
                    spent_vars>>
    BY <1>17 DEF vars
  <2>2. UNCHANGED <<pc, snapshot, wasPlaying, clock, ahead, song, chunk, dropped>>
    BY <2>1 DEF worker_vars
  <2>3. TypeOK'
    BY <2>1, <2>2 DEF IInv, TypeOK, control_vars, mirror_vars, spent_vars
  <2>4. SongInv' /\ ChunkInv'
    BY <2>1, ControlKeeps
  <2>5. SentInv' /\ PlayInv'
    BY <2>1, <2>2 DEF IInv, SentInv, SongComes, PlayInv, control_vars, spent_vars
  <2>6. MirrorInv'
    BY <2>1, <2>2 DEF IInv, MirrorInv, control_vars, mirror_vars
  <2>7. QED
    BY <2>3, <2>4, <2>5, <2>6 DEF IInv
<1>18. QED
  BY <1>1, <1>2, <1>3, <1>4, <1>5, <1>6, <1>7, <1>8, <1>9, <1>10, <1>11, <1>12, <1>13,
     <1>14, <1>15, <1>16, <1>17 DEF Next, Control, Worker, Plan

-----------------------------------------------------------------------------
(* The theorems                                                            *)

\* Everything the worker and the control thread may rely on, at every step.
THEOREM Invariant == Spec => []IInv
BY InitIInv, NextIInv, PTL DEF Spec

\* The variables keep their types, the cursor names a row of its song and the
\* channels keep to their capacities.
THEOREM TypeCorrect == Spec => []TypeOK
<1>1. IInv => TypeOK
  BY DEF IInv
<1>2. QED
  BY <1>1, Invariant, PTL

LEMMA PlansFromInvariant == IInv => PlansTheSong
<1> SUFFICES ASSUME IInv PROVE PlansTheSong
  OBVIOUS
<1>1. RowsSoundInTheirBeats
  BY DEF IInv, ChunkInv, RowsSoundInTheirBeats
<1>2. SongStartsFirst
  <2>1. SUFFICES ASSUME pc = "plan", song = None, active # None, snapshot.play = plays
                 PROVE  FALSE
    BY DEF SongStartsFirst
  <2>2. \E i \in DOMAIN commands : IsStart(commands[i])
    BY <2>1 DEF IInv, SentInv, SongComes
  <2>3. \A i \in DOMAIN commands : ~IsStart(commands[i])
    BY <2>1 DEF IInv, PlayInv
  <2>4. QED
    BY <2>2, <2>3
<1>3. QED
  BY <1>1, <1>2 DEF PlansTheSong

\* What the worker plans is the song: none of the session between a start and
\* its song, and every chunk within the beats of the row it is planned from
\* (SongRuntime::next_chunk), for every layout, tempo, cursor and block size.
THEOREM PlansCorrectly == Spec => []PlansTheSong
BY Invariant, PlansFromInvariant, PTL

\* Once its commands are taken the worker plays, or waits to play, the song the
\* control thread believes in, unless an edit was lost in one of the three ways
\* the ghost records.
THEOREM EditsArrive == Spec => []EditsAreHeardUnlessMissed
<1>1. IInv => EditsAreHeardUnlessMissed
  BY DEF IInv, SentInv, EditsAreHeardUnlessMissed, EditsAreHeard
<1>2. QED
  BY <1>1, Invariant, PTL

\* Once commands and notices are taken the live grid was given the row that
\* sounds, apart from the exceptions MirrorIsSounding names.
THEOREM MirrorFollows == Spec => []MirrorIsSounding
<1>1. ASSUME IInv PROVE MirrorIsSounding
  <2>1. SUFFICES ASSUME commands = <<>>, notices = <<>>, active # None, song # None,
                        song.started, ~song.slipped, ~mistaken, ~dropped
                 PROVE  live = Sounding(song)
    BY DEF MirrorIsSounding
  <2>2. \A i \in DOMAIN commands : ~IsStart(commands[i])
    BY <2>1
  <2>3. QED
    BY <1>1, <2>1, <2>2 DEF IInv, MirrorInv
<1>2. QED
  BY <1>1, Invariant, PTL

\* The steps that leave the cursor and the last chunk alone.
LEMMA OtherStepsKeep ==
    ASSUME Control \/ LoadSnapshot \/ PlanSession \/ UNCHANGED vars
    PROVE  song' = song /\ chunk' = chunk
BY DEF Control, Play, StartPlayback, Stop, StopPlayback, EditArrangement, EditPattern, EditTempo,
       MirrorSongRow, LoadSnapshot, PlanSession, vars, worker_vars

LEMMA CrossingsKeepChunk ==
    ASSUME PlanFirst \/ InstallAtBoundary \/ WrapToStart \/ EnterNextRow
    PROVE  pc = "plan" /\ chunk' = chunk
BY DEF PlanFirst, InstallAtBoundary, WrapToStart, EnterNextRow, AtBoundary, Cross

\* A chunk planned from a song in phase resets where its source is another than
\* the chunk's before.
LEMMA ChunkResets ==
    ASSUME IInv, PlanChunk
    PROVE  pc = "plan" /\ ResetFollowsSource
<1>1. /\ pc = "plan" /\ song # None
      /\ chunk'.song = song.song /\ chunk'.row = song.row
      /\ chunk'.wrapped <=> song.from = "wrap"
      /\ chunk'.resets <=> song.from # None /\ song.from # Sounding(song)
  BY DEF PlanChunk, PreviousSource
<1>2. SUFFICES ASSUME chunk # None, ~song.slipped, song.from # "wrap"
               PROVE  chunk'.resets <=> RowSource(chunk'.song, chunk'.row)
                                            # RowSource(chunk.song, chunk.row)
  BY <1>1 DEF ResetFollowsSource
<1>3. FromChunk(song)
  BY <1>1, <1>2, Planning
<1>4. RowSource(chunk'.song, chunk'.row) = Sounding(song)
  BY <1>1 DEF Sounding
<1>5. CASE song.from = None
  BY <1>1, <1>3, <1>4, <1>5 DEF FromChunk
<1>6. CASE song.from # None
  <2>1. song.from = RowSource(chunk.song, chunk.row)
    BY <1>2, <1>3, <1>6 DEF FromChunk
  <2>2. QED
    BY <1>1, <1>4, <1>6, <2>1
<1>7. QED
  BY <1>5, <1>6

\* Taking edits moves neither what sounds nor its phase.
LEMMA DrainKeepsWhatSounds ==
    ASSUME IInv, NEW seeks \in BOOLEAN, DrainCommands(seeks)
    PROVE  EditKeepsWhatSounds /\ chunk' \in {chunk, None}
<1>1. chunk' \in {chunk, None}
  BY DEF DrainCommands
<1>2. ASSUME song # None, song.started, song' # None, song'.started, ~song'.slipped
      PROVE  Sounding(song') = Sounding(song) /\ song'.anchor = song.anchor
             /\ song'.offset = song.offset
  BY <1>2, DrainDoes DEF Follows
<1>3. QED
  BY <1>1, <1>2 DEF EditKeepsWhatSounds

\* Only a boundary switches what sounds or restarts the lanes' accumulators
\* (apply_song_commands against next_chunk and transition_rows): edits taken in
\* the middle of a row keep its source and its phase, and a chunk resets its
\* accumulators exactly where its source is another than the last chunk's.
THEOREM SwitchesOnlyAtBoundaries == Spec => OnlyBoundariesSwitch
<1>1. ASSUME IInv, [Next]_vars
      PROVE  [EditKeepsWhatSounds /\ ResetFollowsSource]_vars
  <2>1. CASE Control \/ LoadSnapshot \/ PlanSession \/ UNCHANGED vars
    <3>1. song' = song /\ chunk' = chunk
      BY <2>1, OtherStepsKeep
    <3>2. QED
      BY <3>1 DEF EditKeepsWhatSounds, ResetFollowsSource, Sounding
  <2>2. CASE \E seeks \in BOOLEAN : DrainCommands(seeks)
    BY <1>1, <2>2, DrainKeepsWhatSounds DEF ResetFollowsSource
  <2>3. CASE PlanFirst \/ InstallAtBoundary \/ WrapToStart \/ EnterNextRow
    BY <2>3, CrossingsKeepChunk DEF EditKeepsWhatSounds, ResetFollowsSource
  <2>4. CASE PlanChunk
    BY <1>1, <2>4, ChunkResets DEF EditKeepsWhatSounds
  <2>5. QED
    BY <1>1, <2>1, <2>2, <2>3, <2>4 DEF Next, Worker, Plan
<1>2. QED
  BY <1>1, Invariant, PTL DEF Spec, OnlyBoundariesSwitch
=============================================================================
