----------------------------- MODULE Roll_proofs -----------------------------
(***************************************************************************)
(* Proofs about Roll, for any notes, sources, grids, durations, block and  *)
(* lookahead: first what a list of commands does, then the invariant, one  *)
(* part for each promise, and the theorems.                                *)
(***************************************************************************)
EXTENDS Roll, SequenceTheorems, WellFoundedInduction, TLAPS

KeyCommands == {NoteOn(n) : n \in Notes} \cup {NoteOff(n) : n \in Notes} \cup {ClearAll}

\* Only the commands of a key or a clear wait to be pushed.
PendingInv == pending \in KeyCommands \cup {None, Publication}

\* Commands wait that settle the window, whatever it was.
Steers == Has(commands, "ClearAll") \/ Has(commands, "SequenceRoll")

\* What the worker holds follows the gestures.  The last command to steer the
\* window says whether a source is held; where none waits, the window does, or
\* a process roll has it and no source is held.
HoldInv ==
    /\ AfterCommands(held) = promised \ lost
    /\ Steers => Applied(commands, {}, {}, FALSE).windows = (sources # {})
    /\ ~Steers => IF process = None THEN windows = (sources # {}) ELSE sources = {}

\* A note that is promised is one of a key, dropped, or about to be released.
KeyInv ==
    /\ \A n \in promised : keys[n] = "rolls" \/ n \in dropped \/ pending = NoteOff(n)
    /\ \A n \in Notes : pending = NoteOn(n) => keys[n] = "rolls"

\* A process roll that armed roll mode will turn it off, as it was.
ModeInv ==
    ~retoggled => IF process # None /\ process.armed THEN ~chosen ELSE mode = chosen

\* sequence_rolling is right now, or will be once the process roll that the
\* commands cancel is cancelled.
RollingInv ==
    ~overwritten =>
        /\ sources # {} => rolling
        /\ rolling => \/ sources # {}
                      \/ process # None /\ (Has(commands, "SequenceRoll")
                                              => Has(commands, "ClearAll"))
        /\ process # None /\ ~Steers => rolling

\* Where a pass read the render head is behind the render head and behind the
\* frontier, and neither is further ahead of it than the lookahead.  A pass that
\* ends leaves the frontier ahead of the render head again.
TimeInv ==
    /\ seen <= rendered /\ seen <= frontier
    /\ frontier <= seen + Lookahead /\ rendered <= seen + Lookahead
    /\ rendered <= MaxBeat
    /\ pc = "poll" => rendered <= frontier
    /\ ~wasPlaying => frontier = 0 /\ rendered = 0 /\ pc # "chunks"
    /\ holding => ~wasPlaying

\* What is planned is of a press that was served, and below the frontier unless
\* a seek took it back too late, and it is all of the grid from where the
\* press, or the grid, began.
LineInv ==
    /\ ~twice
    /\ \A h \in hits : h.note \in held \ fresh /\ (h.line < frontier \/ h \in again)
    /\ \A h \in again : h.line < rendered
    /\ \A n \in held : from[n] >= seen
    /\ NoLineIsMissed

IInv ==
    /\ TypeOK /\ PendingInv /\ HoldInv /\ KeyInv /\ ModeInv /\ RollingInv
    /\ TimeInv /\ LineInv
-----------------------------------------------------------------------------
(* What a list of commands does                                            *)

\* A set of natural numbers has a least one.
LEMMA LeastNatural ==
    ASSUME NEW T, T \subseteq Nat, T # {}
    PROVE  \E x \in T : \A y \in T : x <= y
<1> DEFINE R == OpToRel(<, Nat)
<1>1. IsWellFoundedOn(R, Nat)
  BY NatLessThanWellFounded
<1>2. \A x, y \in Nat : x < y => <<x, y>> \in R
  BY DEF OpToRel
<1> HIDE DEF R
<1>3. PICK x \in T : \A y \in T : <<y, x>> \notin R
  BY <1>1, WFMin
<1>4. \A y \in T : ~(y < x)
  BY <1>2, <1>3, Zenon
<1>5. QED
  BY <1>4

\* r is the states from s on, one for each command.
Runs(r, cs, s) ==
    r = [i \in 0 .. Len(cs) |-> IF i = 0 THEN s ELSE Apply(r[i - 1], cs[i])]

\* What begins a run can be continued to its end: if not to some number of
\* commands, then there is a least such number.
LEMMA RunExists ==
    ASSUME NEW cs, NEW s, Len(cs) \in Nat
    PROVE  \E r : Runs(r, cs, s)
<1> DEFINE Begins(r, k) == r = [i \in 0 .. k |-> IF i = 0 THEN s ELSE Apply(r[i - 1], cs[i])]
           bad == {k \in Nat : ~\E r : Begins(r, k)}
<1>1. SUFFICES ASSUME bad # {} PROVE FALSE
  BY DEF Runs
<1>2. PICK k \in bad : \A j \in bad : k <= j
  <2>1. bad \subseteq Nat
    OBVIOUS
  <2> HIDE DEF bad
  <2>2. QED
    BY <1>1, <2>1, LeastNatural
<1>3. k \in Nat /\ ~\E r : Begins(r, k)
  BY <1>2
<1>4. k # 0
  <2>1. Begins([i \in 0 .. 0 |-> s], 0)
    OBVIOUS
  <2>2. QED
    BY <1>3, <2>1
<1>5. k - 1 \in Nat /\ k - 1 \notin bad
  <2>1. k - 1 \in Nat /\ ~(k <= k - 1)
    BY <1>3, <1>4
  <2> HIDE DEF bad
  <2>2. QED
    BY <1>2, <2>1
<1>6. PICK r : Begins(r, k - 1)
  BY <1>5
<1> DEFINE q == [i \in 0 .. k |-> IF i = k THEN Apply(r[k - 1], cs[k]) ELSE r[i]]
<1>7. Begins(q, k)
  <2>1. \A i \in 0 .. k : q[i] = IF i = 0 THEN s ELSE Apply(q[i - 1], cs[i])
    <3>1. TAKE i \in 0 .. k
    <3>2. CASE i = k
      <4>1. i # 0 /\ k - 1 \in 0 .. k /\ k - 1 # k
        BY <1>3, <1>4, <3>2
      <4>2. q[k - 1] = r[k - 1]
        BY <4>1
      <4>3. QED
        BY <3>2, <4>1, <4>2
    <3>3. CASE i # k
      <4>1. i \in 0 .. k - 1 /\ (i # 0 => i - 1 \in 0 .. k /\ i - 1 # k)
        BY <1>3, <3>3
      <4>2. r[i] = IF i = 0 THEN s ELSE Apply(r[i - 1], cs[i])
        <5> HIDE DEF q
        <5>1. QED
          BY <1>6, <4>1
      <4>3. QED
        BY <3>3, <4>1, <4>2
    <3>4. QED
      BY <3>2, <3>3
  <2>2. QED
    BY <2>1
<1>8. QED
  BY <1>3, <1>7

\* The state after all the commands is the last of a run.
LEMMA AfterRuns ==
    ASSUME NEW cs, NEW s, Len(cs) \in Nat
    PROVE  \E r : Runs(r, cs, s) /\ After(cs, s) = r[Len(cs)]
<1> DEFINE r == CHOOSE r : Runs(r, cs, s)
<1>1. Runs(r, cs, s)
  BY RunExists
<1>2. After(cs, s) = r[Len(cs)]
  BY DEF After, Runs
<1>3. QED
  BY <1>1, <1>2

\* What holds before the first command and is kept by each holds after all.
LEMMA EachCommand ==
    ASSUME NEW N \in Nat, NEW good, 0 \in good, \A i \in 1 .. N : i - 1 \in good => i \in good
    PROVE  \A i \in 0 .. N : i \in good
<1> DEFINE bad == {i \in 0 .. N : i \notin good}
<1>1. SUFFICES ASSUME bad # {} PROVE FALSE
  OBVIOUS
<1>2. PICK i \in bad : \A j \in bad : i <= j
  <2>1. bad \subseteq Nat
    OBVIOUS
  <2> HIDE DEF bad
  <2>2. QED
    BY <1>1, <2>1, LeastNatural
<1>3. i \in 0 .. N /\ i \notin good
  BY <1>2
<1>4. i # 0
  BY <1>3
<1>5. i \in 1 .. N /\ i - 1 \in 0 .. N /\ ~(i <= i - 1)
  BY <1>3, <1>4
<1>6. i - 1 \notin bad
  <2> HIDE DEF bad
  <2>1. QED
    BY <1>2, <1>5
<1>7. i - 1 \in good
  BY <1>5, <1>6
<1>8. QED
  BY <1>3, <1>5, <1>7

\* The effect of each command.
State == [held : SUBSET Notes, fresh : SUBSET Notes, windows : BOOLEAN, ended : SUBSET Notes]

Pressed(s, t, n) ==
    /\ t.held = s.held \cup {n} /\ t.windows = s.windows /\ t.ended = s.ended
    /\ t.fresh = IF n \in s.held THEN s.fresh ELSE s.fresh \cup {n}
Unpressed(s, t, n) ==
    /\ t.held = s.held \ {n} /\ t.windows = s.windows /\ t.ended = s.ended \cup {n}
    /\ t.fresh = s.fresh \ {n}
Steered(s, t, on) ==
    t.held = s.held /\ t.fresh = s.fresh /\ t.windows = on /\ t.ended = s.ended
Cleared(t) == t.held = {} /\ t.fresh = {} /\ t.windows = FALSE /\ t.ended = Notes

Effect(c, s, t) ==
    /\ c.kind \in {"NoteOn", "NoteOff", "SequenceRoll", "SetRate", "ClearAll"}
    /\ c.kind = "NoteOn" => c.note \in Notes /\ Pressed(s, t, c.note)
    /\ c.kind = "NoteOff" => c.note \in Notes /\ Unpressed(s, t, c.note)
    /\ c.kind = "SequenceRoll" => c.on \in BOOLEAN /\ Steered(s, t, c.on)
    /\ c.kind = "SetRate" => t = s
    /\ c.kind = "ClearAll" => Cleared(t)

LEMMA ApplyDoes ==
    ASSUME NEW s \in State, NEW c \in Commands
    PROVE  Apply(s, c) \in State /\ Effect(c, s, Apply(s, c))
<1>1. CASE \E n \in Notes : c = NoteOn(n)
  <2>1. PICK n \in Notes : c = NoteOn(n)
    BY <1>1
  <2>2. Apply(s, c) = [s EXCEPT !.held = @ \cup {n},
                                !.fresh = IF n \in s.held THEN @ ELSE @ \cup {n}]
    BY <2>1 DEF Apply, NoteOn
  <2>3. Apply(s, c) \in State /\ Pressed(s, Apply(s, c), n)
    <3> DEFINE f == IF n \in s.held THEN s.fresh ELSE s.fresh \cup {n}
    <3>1. f \in SUBSET Notes
      BY DEF State
    <3>2. Apply(s, c) = [s EXCEPT !.held = s.held \cup {n}, !.fresh = f]
      BY <2>2 DEF State
    <3>3. /\ Apply(s, c) \in State
          /\ Apply(s, c).held = s.held \cup {n} /\ Apply(s, c).fresh = f
          /\ Apply(s, c).windows = s.windows /\ Apply(s, c).ended = s.ended
      <4> HIDE DEF f
      <4>1. QED
        BY <3>1, <3>2 DEF State
    <3>4. QED
      BY <3>3 DEF Pressed
  <2>4. QED
    BY <2>1, <2>3 DEF Effect, NoteOn
<1>2. CASE \E n \in Notes : c = NoteOff(n)
  <2>1. PICK n \in Notes : c = NoteOff(n)
    BY <1>2
  <2>2. Apply(s, c) = [s EXCEPT !.held = @ \ {n}, !.fresh = @ \ {n}, !.ended = @ \cup {n}]
    BY <2>1 DEF Apply, NoteOff
  <2>3. Apply(s, c) \in State /\ Unpressed(s, Apply(s, c), n)
    BY <2>2 DEF State, Unpressed
  <2>4. QED
    BY <2>1, <2>3 DEF Effect, NoteOff
<1>3. CASE \E on \in BOOLEAN : c = SequenceRoll(on)
  <2>1. PICK on \in BOOLEAN : c = SequenceRoll(on)
    BY <1>3
  <2>2. Apply(s, c) = [s EXCEPT !.windows = on]
    BY <2>1 DEF Apply, SequenceRoll
  <2>3. Apply(s, c) \in State /\ Steered(s, Apply(s, c), on)
    BY <2>2 DEF State, Steered
  <2>4. QED
    BY <2>1, <2>3 DEF Effect, SequenceRoll
<1>4. CASE \E r \in Grids : c = SetRate(r)
  BY <1>4 DEF Apply, SetRate, Effect
<1>5. CASE c = ClearAll
  <2>1. Apply(s, c) = [held |-> {}, fresh |-> {}, windows |-> FALSE, ended |-> Notes]
    BY <1>5 DEF Apply, ClearAll
  <2>2. Apply(s, c) \in State /\ Cleared(Apply(s, c))
    BY <2>1 DEF State, Cleared
  <2>3. c.kind = "ClearAll"
    BY <1>5 DEF ClearAll
  <2>4. QED
    BY <2>2, <2>3 DEF Effect
<1>6. QED
  BY <1>1, <1>2, <1>3, <1>4, <1>5 DEF Commands

\* The states of a run, and how each comes from the one before.
LEMMA RunSteps ==
    ASSUME NEW cs \in Seq(Commands), NEW s \in State, NEW r, Runs(r, cs, s)
    PROVE  /\ r[0] = s
           /\ \A i \in 0 .. Len(cs) : r[i] \in State
           /\ \A i \in 1 .. Len(cs) : Effect(cs[i], r[i - 1], r[i])
<1>1. Len(cs) \in Nat /\ \A i \in 1 .. Len(cs) : cs[i] \in Commands
  OBVIOUS
<1>2. r[0] = s /\ \A i \in 1 .. Len(cs) : r[i] = Apply(r[i - 1], cs[i])
  BY <1>1 DEF Runs
<1> DEFINE good == {i \in 0 .. Len(cs) : r[i] \in State}
<1>3. 0 \in good
  BY <1>1, <1>2
<1>4. \A i \in 1 .. Len(cs) : i - 1 \in good => i \in good
  BY <1>1, <1>2, ApplyDoes
<1>5. \A i \in 0 .. Len(cs) : i \in good
  <2> HIDE DEF good
  <2>1. QED
    BY <1>1, <1>3, <1>4, EachCommand
<1>6. \A i \in 1 .. Len(cs) : Effect(cs[i], r[i - 1], r[i])
  <2>1. TAKE i \in 1 .. Len(cs)
  <2>2. r[i - 1] \in State
    BY <1>1, <1>5
  <2>3. QED
    BY <1>1, <1>2, <2>1, <2>2, ApplyDoes
<1>7. QED
  BY <1>2, <1>5, <1>6

\* A fresh note is one whose press the worker had not served: it was pressed
\* since, or again.  And a note held before is held, or its press has ended.
Follows(t, h, f) ==
    /\ t.fresh = {n \in t.held : n \in t.ended \/ n \notin h \/ n \in f}
    /\ \A n \in h : n \in t.held \/ n \in t.ended

LEMMA FollowsKept ==
    ASSUME NEW s \in State, NEW t \in State, NEW c, NEW h \in SUBSET Notes, NEW f,
           Effect(c, s, t), Follows(s, h, f)
    PROVE  Follows(t, h, f)
<1>1. CASE \E n \in Notes : Pressed(s, t, n)
  BY <1>1 DEF Pressed, Follows, State
<1>2. CASE \E n \in Notes : Unpressed(s, t, n)
  BY <1>2 DEF Unpressed, Follows, State
<1>3. CASE (\E on \in BOOLEAN : Steered(s, t, on)) \/ t = s
  BY <1>3 DEF Steered, Follows
<1>4. CASE Cleared(t)
  BY <1>4 DEF Cleared, Follows, State
<1>5. QED
  BY <1>1, <1>2, <1>3, <1>4 DEF Effect

Before(h, f, w) == [held |-> h, fresh |-> f, windows |-> w, ended |-> {}]

LEMMA AppliedFollows ==
    ASSUME NEW cs \in Seq(Commands),
           NEW h \in SUBSET Notes, NEW f \in SUBSET h, NEW w \in BOOLEAN
    PROVE  /\ Applied(cs, h, f, w) \in State
           /\ Follows(Applied(cs, h, f, w), h, f)
           /\ ~Has(cs, "ClearAll") /\ ~Has(cs, "SequenceRoll") =>
                Applied(cs, h, f, w).windows = w
<1> DEFINE s == Before(h, f, w)
<1>1. Len(cs) \in Nat /\ DOMAIN cs = 1 .. Len(cs)
  OBVIOUS
<1>2. s \in State /\ Follows(s, h, f) /\ s.windows = w
  BY DEF Before, State, Follows
<1>3. Applied(cs, h, f, w) = After(cs, s)
  BY DEF Applied, Before
<1> HIDE DEF s
<1>4. PICK r : Runs(r, cs, s) /\ After(cs, s) = r[Len(cs)]
  BY <1>1, AfterRuns
<1>5. /\ r[0] = s /\ \A i \in 0 .. Len(cs) : r[i] \in State
      /\ \A i \in 1 .. Len(cs) : Effect(cs[i], r[i - 1], r[i])
  BY <1>2, <1>4, RunSteps
<1>6. Follows(r[Len(cs)], h, f)
  <2> DEFINE good == {i \in 0 .. Len(cs) : Follows(r[i], h, f)}
  <2>1. 0 \in good
    BY <1>1, <1>2, <1>5
  <2>2. \A i \in 1 .. Len(cs) : i - 1 \in good => i \in good
    <3>1. SUFFICES ASSUME NEW i \in 1 .. Len(cs), Follows(r[i - 1], h, f)
                   PROVE  Follows(r[i], h, f)
      BY <1>1
    <3>2. r[i - 1] \in State /\ r[i] \in State
      BY <1>1, <1>5
    <3>3. QED
      BY <1>5, <3>1, <3>2, FollowsKept
  <2>3. \A i \in 0 .. Len(cs) : i \in good
    <3> HIDE DEF good
    <3>1. QED
      BY <1>1, <2>1, <2>2, EachCommand
  <2>4. QED
    BY <1>1, <2>3
<1>7. ASSUME ~Has(cs, "ClearAll"), ~Has(cs, "SequenceRoll")
      PROVE  r[Len(cs)].windows = w
  <2> DEFINE good == {i \in 0 .. Len(cs) : r[i].windows = w}
  <2>1. 0 \in good
    BY <1>1, <1>2, <1>5
  <2>2. \A i \in 1 .. Len(cs) : i - 1 \in good => i \in good
    <3>1. SUFFICES ASSUME NEW i \in 1 .. Len(cs), r[i - 1].windows = w
                   PROVE  r[i].windows = w
      BY <1>1
    <3>2. cs[i].kind # "ClearAll" /\ cs[i].kind # "SequenceRoll"
      BY <1>1, <1>7 DEF Has
    <3>3. Effect(cs[i], r[i - 1], r[i])
      BY <1>5
    <3>4. QED
      BY <3>1, <3>2, <3>3 DEF Effect, Pressed, Unpressed
  <2>3. \A i \in 0 .. Len(cs) : i \in good
    <3> HIDE DEF good
    <3>1. QED
      BY <1>1, <2>1, <2>2, EachCommand
  <2>4. QED
    BY <1>1, <2>3
<1>8. QED
  BY <1>1, <1>3, <1>4, <1>5, <1>6, <1>7

\* The commands leave more held where more was, and a command that steers the
\* window settles it whatever it was.
Agree(cs, a, b) ==
    /\ a.held \subseteq b.held
    /\ Has(cs, "ClearAll") \/ Has(cs, "SequenceRoll") => a.windows = b.windows

LEMMA AppliedAgrees ==
    ASSUME NEW cs \in Seq(Commands),
           NEW h \in SUBSET Notes, NEW f \in SUBSET Notes, NEW w \in BOOLEAN,
           NEW g \in SUBSET Notes, NEW e \in SUBSET Notes, NEW v \in BOOLEAN, g \subseteq h
    PROVE  Agree(cs, Applied(cs, g, e, v), Applied(cs, h, f, w))
<1> DEFINE s == Before(h, f, w)
           u == Before(g, e, v)
<1>1. Len(cs) \in Nat /\ DOMAIN cs = 1 .. Len(cs)
  OBVIOUS
<1>2. s \in State /\ u \in State /\ u.held \subseteq s.held
  BY DEF Before, State
<1>3. Applied(cs, h, f, w) = After(cs, s) /\ Applied(cs, g, e, v) = After(cs, u)
  BY DEF Applied, Before
<1> HIDE DEF s, u
<1>4. PICK r : Runs(r, cs, s) /\ After(cs, s) = r[Len(cs)]
  BY <1>1, AfterRuns
<1>5. PICK q : Runs(q, cs, u) /\ After(cs, u) = q[Len(cs)]
  BY <1>1, AfterRuns
<1>6. /\ r[0] = s /\ \A i \in 0 .. Len(cs) : r[i] \in State
      /\ \A i \in 1 .. Len(cs) : Effect(cs[i], r[i - 1], r[i])
  BY <1>2, <1>4, RunSteps
<1>7. /\ q[0] = u /\ \A i \in 0 .. Len(cs) : q[i] \in State
      /\ \A i \in 1 .. Len(cs) : Effect(cs[i], q[i - 1], q[i])
  BY <1>2, <1>5, RunSteps
<1> DEFINE good == {i \in 0 .. Len(cs) :
                      /\ q[i].held \subseteq r[i].held
                      /\ (\E j \in 1 .. i : cs[j].kind \in {"ClearAll", "SequenceRoll"}) =>
                           q[i].windows = r[i].windows}
<1>8. 0 \in good
  BY <1>1, <1>2, <1>6, <1>7
<1>9. \A i \in 1 .. Len(cs) : i - 1 \in good => i \in good
  <2>1. SUFFICES ASSUME NEW i \in 1 .. Len(cs), i - 1 \in good
                 PROVE  i \in good
    OBVIOUS
  <2>2. Effect(cs[i], r[i - 1], r[i]) /\ Effect(cs[i], q[i - 1], q[i])
    BY <1>6, <1>7
  <2>3. q[i].held \subseteq r[i].held
    BY <2>1, <2>2 DEF Effect, Pressed, Unpressed, Steered, Cleared
  <2>4. cs[i].kind \in {"ClearAll", "SequenceRoll"} => q[i].windows = r[i].windows
    BY <2>2 DEF Effect, Steered, Cleared
  <2>5. cs[i].kind \notin {"ClearAll", "SequenceRoll"} =>
          q[i].windows = q[i - 1].windows /\ r[i].windows = r[i - 1].windows
    BY <2>2 DEF Effect, Pressed, Unpressed
  <2>6. ASSUME NEW j \in 1 .. i, cs[j].kind \in {"ClearAll", "SequenceRoll"}, j # i
        PROVE  j \in 1 .. (i - 1)
    BY <1>1, <2>6
  <2>7. (\E j \in 1 .. i : cs[j].kind \in {"ClearAll", "SequenceRoll"}) =>
          q[i].windows = r[i].windows
    BY <2>1, <2>4, <2>5, <2>6
  <2>8. QED
    BY <1>1, <2>3, <2>7
<1>10. \A i \in 0 .. Len(cs) : i \in good
  <2> HIDE DEF good
  <2>1. QED
    BY <1>1, <1>8, <1>9, EachCommand
<1>11. Len(cs) \in good
  BY <1>1, <1>10
<1>12. QED
  BY <1>1, <1>3, <1>4, <1>5, <1>11 DEF Agree, Has

COROLLARY HeldAgrees ==
    ASSUME NEW cs \in Seq(Commands),
           NEW h \in SUBSET Notes, NEW f \in SUBSET Notes, NEW w \in BOOLEAN,
           NEW g \in SUBSET Notes, NEW e \in SUBSET Notes, NEW v \in BOOLEAN, g \subseteq h
    PROVE  Applied(cs, g, e, v).held \subseteq Applied(cs, h, f, w).held
<1>1. Agree(cs, Applied(cs, g, e, v), Applied(cs, h, f, w))
  BY AppliedAgrees
<1>2. QED
  BY <1>1 DEF Agree

COROLLARY WindowsAgree ==
    ASSUME NEW cs \in Seq(Commands), Has(cs, "ClearAll") \/ Has(cs, "SequenceRoll"),
           NEW h \in SUBSET Notes, NEW f \in SUBSET Notes, NEW w \in BOOLEAN,
           NEW g \in SUBSET Notes, NEW e \in SUBSET Notes, NEW v \in BOOLEAN, g \subseteq h
    PROVE  Applied(cs, g, e, v).windows = Applied(cs, h, f, w).windows
<1>1. Agree(cs, Applied(cs, g, e, v), Applied(cs, h, f, w))
  BY AppliedAgrees
<1>2. QED
  BY <1>1 DEF Agree

\* What the commands leave held does not hang on what was fresh, nor on the
\* window.
COROLLARY HeldAfter ==
    ASSUME NEW cs \in Seq(Commands),
           NEW h \in SUBSET Notes, NEW f \in SUBSET h, NEW w \in BOOLEAN
    PROVE  Applied(cs, h, {}, FALSE).held = Applied(cs, h, f, w).held
<1>1. /\ Applied(cs, h, {}, FALSE).held \subseteq Applied(cs, h, f, w).held
      /\ Applied(cs, h, f, w).held \subseteq Applied(cs, h, {}, FALSE).held
  BY HeldAgrees
<1>2. QED
  BY <1>1

\* No command does nothing, and the last command is applied last.
LEMMA NoCommand ==
    ASSUME NEW h \in SUBSET Notes, NEW f \in SUBSET h, NEW w \in BOOLEAN
    PROVE  Applied(<<>>, h, f, w) = Before(h, f, w)
<1>1. PICK r : Runs(r, <<>>, Before(h, f, w)) /\ After(<<>>, Before(h, f, w)) = r[0]
  BY AfterRuns
<1>2. QED
  BY <1>1 DEF Runs, Applied, Before

LEMMA OneMoreCommand ==
    ASSUME NEW cs \in Seq(Commands), NEW c \in Commands,
           NEW h \in SUBSET Notes, NEW f \in SUBSET h, NEW w \in BOOLEAN
    PROVE  Applied(Append(cs, c), h, f, w) = Apply(Applied(cs, h, f, w), c)
<1> DEFINE s == Before(h, f, w)
           ds == Append(cs, c)
<1>1. Len(cs) \in Nat /\ Len(ds) = Len(cs) + 1 /\ ds[Len(ds)] = c
  OBVIOUS
<1>2. \A i \in 1 .. Len(cs) : ds[i] = cs[i]
  OBVIOUS
<1> HIDE DEF s, ds
<1>3. PICK r : Runs(r, cs, s) /\ After(cs, s) = r[Len(cs)]
  BY <1>1, AfterRuns
<1>4. PICK q : Runs(q, ds, s) /\ After(ds, s) = q[Len(ds)]
  BY <1>1, AfterRuns
<1>5. \A i \in 0 .. Len(cs) : r[i] = IF i = 0 THEN s ELSE Apply(r[i - 1], cs[i])
  BY <1>3 DEF Runs
<1>6. \A i \in 0 .. Len(ds) : q[i] = IF i = 0 THEN s ELSE Apply(q[i - 1], ds[i])
  BY <1>4 DEF Runs
<1> DEFINE good == {i \in 0 .. Len(cs) : q[i] = r[i]}
<1>7. 0 \in good
  BY <1>1, <1>5, <1>6
<1>8. \A i \in 1 .. Len(cs) : i - 1 \in good => i \in good
  <2>1. SUFFICES ASSUME NEW i \in 1 .. Len(cs), q[i - 1] = r[i - 1]
                 PROVE  q[i] = r[i]
    BY <1>1
  <2>2. i \in 0 .. Len(cs) /\ i \in 0 .. Len(ds) /\ i # 0
    BY <1>1
  <2>3. QED
    BY <1>2, <1>5, <1>6, <2>1, <2>2
<1>9. \A i \in 0 .. Len(cs) : i \in good
  <2> HIDE DEF good
  <2>1. QED
    BY <1>1, <1>7, <1>8, EachCommand
<1>10. q[Len(cs)] = r[Len(cs)]
  BY <1>1, <1>9
<1>11. q[Len(ds)] = Apply(q[Len(ds) - 1], ds[Len(ds)])
  BY <1>1, <1>6
<1>12. q[Len(ds)] = Apply(r[Len(cs)], c)
  BY <1>1, <1>10, <1>11
<1>13. QED
  BY <1>3, <1>4, <1>12 DEF Applied, Before, s, ds

LEMMA HasOneMore ==
    ASSUME NEW cs \in Seq(Commands), NEW c \in Commands, NEW kind
    PROVE  Has(Append(cs, c), kind) <=> Has(cs, kind) \/ c.kind = kind
<1>1. Append(cs, c) \in Seq(Commands) /\ DOMAIN cs = 1 .. Len(cs)
  OBVIOUS
<1>2. DOMAIN Append(cs, c) = 1 .. (Len(cs) + 1) /\ Append(cs, c)[Len(cs) + 1] = c
  OBVIOUS
<1>3. \A i \in DOMAIN cs : i \in DOMAIN Append(cs, c) /\ Append(cs, c)[i] = cs[i]
  OBVIOUS
<1>4. \A i \in DOMAIN Append(cs, c) : i \in DOMAIN cs \/ i = Len(cs) + 1
  BY <1>1, <1>2
<1>5. QED
  BY <1>2, <1>3, <1>4 DEF Has

LEMMA HasNone == \A kind : ~Has(<<>>, kind)
  BY DEF Has

\* The same, of held notes none of which is fresh, with no window.
LEMMA NothingHeld ==
    ASSUME NEW h \in SUBSET Notes
    PROVE  Applied(<<>>, h, {}, FALSE).held = h
<1>1. \A f \in SUBSET h, w \in BOOLEAN : Applied(<<>>, h, f, w).held = h
  BY NoCommand DEF Before
<1>2. {} \in SUBSET h /\ FALSE \in BOOLEAN
  OBVIOUS
<1>3. QED
  BY <1>1, <1>2, Zenon

LEMMA HeldOneMore ==
    ASSUME NEW cs \in Seq(Commands), NEW c \in Commands, NEW h \in SUBSET Notes
    PROVE  Applied(Append(cs, c), h, {}, FALSE) = Apply(Applied(cs, h, {}, FALSE), c)
<1>1. \A f \in SUBSET h, w \in BOOLEAN :
        Applied(Append(cs, c), h, f, w) = Apply(Applied(cs, h, f, w), c)
  BY OneMoreCommand
<1>2. {} \in SUBSET h /\ FALSE \in BOOLEAN
  OBVIOUS
<1>3. QED
  BY <1>1, <1>2, Zenon

-----------------------------------------------------------------------------
(* The types                                                               *)

ProcessRolls == [until : Nat, armed : BOOLEAN]

\* What a process roll takes and gives back, as Manual has it.
Rolling(t) ==
    /\ {t.windows, t.rolling, t.mode} \subseteq BOOLEAN
    /\ t.process = None \/ (t.process \in ProcessRolls /\ t.windows)

LEMMA NotNone ==
    /\ \A c \in Commands : c # None
    /\ Publication # None /\ \A p \in ProcessRolls : p # None
  BY NoneAssumption DEF ProcessRolls

LEMMA ManualTypes ==
    ASSUME TypeOK
    PROVE  /\ Rolling(Manual)
           /\ Manual.process = process /\ Manual.windows = windows
           /\ Manual.rolling = rolling /\ Manual.mode = mode
  BY DEF TypeOK, Manual, Rolling, ProcessRolls

\* A roll that is cancelled is gone, its window with it, and the mode it armed.
LEMMA CancelledDoes ==
    ASSUME TypeOK
    PROVE  /\ Rolling(Cancelled(Manual, TRUE)) /\ Rolling(Cancelled(Manual, FALSE))
           /\ process = None => /\ Cancelled(Manual, TRUE) = Manual
                                /\ Cancelled(Manual, FALSE) = Manual
           /\ process # None =>
                /\ Cancelled(Manual, TRUE).process = None
                /\ Cancelled(Manual, FALSE).process = None
                /\ Cancelled(Manual, TRUE).windows = FALSE
                /\ Cancelled(Manual, FALSE).windows = FALSE
                /\ Cancelled(Manual, TRUE).rolling = (rolling /\ sources # {})
                /\ Cancelled(Manual, FALSE).rolling = rolling
                /\ Cancelled(Manual, TRUE).mode = (mode /\ ~process.armed)
                /\ Cancelled(Manual, FALSE).mode = (mode /\ ~process.armed)
<1>1. CASE process = None
  BY <1>1, ManualTypes DEF Cancelled
<1>2. CASE process # None
  <2>1. /\ Cancelled(Manual, TRUE) =
             [process |-> None, windows |-> FALSE,
              rolling |-> rolling /\ ~(TRUE /\ sources = {}),
              mode |-> mode /\ ~process.armed]
        /\ Cancelled(Manual, FALSE) =
             [process |-> None, windows |-> FALSE,
              rolling |-> rolling /\ ~(FALSE /\ sources = {}),
              mode |-> mode /\ ~process.armed]
    BY <1>2, ManualTypes DEF Cancelled
  <2> DEFINE gone(b, m) == [process |-> None, windows |-> FALSE, rolling |-> b, mode |-> m]
  <2>2. \A b, m \in BOOLEAN :
          /\ Rolling(gone(b, m)) /\ gone(b, m).process = None /\ gone(b, m).windows = FALSE
          /\ gone(b, m).rolling = b /\ gone(b, m).mode = m
    BY DEF Rolling
  <2>3. /\ Cancelled(Manual, TRUE) = gone(rolling /\ sources # {}, mode /\ ~process.armed)
        /\ Cancelled(Manual, FALSE) = gone(rolling, mode /\ ~process.armed)
    BY <2>1 DEF TypeOK
  <2>4. rolling \in BOOLEAN /\ (rolling /\ sources # {}) \in BOOLEAN
        /\ (mode /\ ~process.armed) \in BOOLEAN
    BY DEF TypeOK
  <2> HIDE DEF gone
  <2>5. QED
    BY <1>2, <2>2, <2>3, <2>4
<1>3. QED
  BY <1>1, <1>2

LEMMA CancelledForCommandsDoes ==
    ASSUME TypeOK
    PROVE  LET t == CancelledForCommands(Manual) IN
           /\ Rolling(t)
           /\ process = None \/ ~Steers => t = Manual
           /\ process # None /\ Steers =>
                /\ t.process = None /\ t.windows = FALSE
                /\ Has(commands, "ClearAll") => t.rolling = (rolling /\ sources # {})
                /\ ~Has(commands, "ClearAll") => t.rolling = rolling
                /\ t.mode = (mode /\ ~process.armed)
<1> DEFINE t == CancelledForCommands(Manual)
<1>1. CASE ~Steers
  BY <1>1, ManualTypes DEF CancelledForCommands, Steers
<1>2. CASE Has(commands, "ClearAll")
  <2>1. t = Cancelled(Manual, TRUE)
    BY <1>2 DEF CancelledForCommands
  <2>2. Steers
    BY <1>2 DEF Steers
  <2> HIDE DEF t
  <2>3. QED
    BY <1>2, <2>1, <2>2, ManualTypes, CancelledDoes DEF t
<1>3. CASE ~Has(commands, "ClearAll") /\ Has(commands, "SequenceRoll")
  <2>1. t = Cancelled(Manual, FALSE)
    BY <1>3 DEF CancelledForCommands
  <2>2. Steers
    BY <1>3 DEF Steers
  <2> HIDE DEF t
  <2>3. QED
    BY <1>3, <2>1, <2>2, ManualTypes, CancelledDoes DEF t
<1>4. QED
  BY <1>1, <1>2, <1>3 DEF Steers

LEMMA ReleasedDoes ==
    ASSUME TypeOK
    PROVE  LET t == Released(Manual) IN
           /\ Rolling(t)
           /\ t.process # None => t = Manual /\ frontier < process.until
           /\ \/ t = Manual
              \/ /\ process # None /\ t.process = None /\ t.windows = FALSE
                 /\ t.rolling = (rolling /\ sources # {})
                 /\ t.mode = (mode /\ ~process.armed)
<1> DEFINE t == Released(Manual)
<1>1. CASE process = None \/ ~(frontier >= process.until)
  <2>1. t = Manual
    BY <1>1, ManualTypes DEF Released
  <2>2. process # None => process.until \in Nat /\ frontier \in Nat
    BY DEF TypeOK
  <2>3. QED
    BY <1>1, <2>1, <2>2, ManualTypes
<1>2. CASE process # None /\ frontier >= process.until
  <2>1. t = Cancelled(Manual, TRUE)
    BY <1>2, ManualTypes DEF Released
  <2>2. /\ Rolling(t) /\ t.process = None /\ t.windows = FALSE
        /\ t.rolling = (rolling /\ sources # {})
        /\ t.mode = (mode /\ ~process.armed)
    <3> HIDE DEF t
    <3>1. QED
      BY <1>2, <2>1, ManualTypes, CancelledDoes
  <2>3. QED
    BY <1>2, <2>2
<1>3. QED
  BY <1>1, <1>2

LEMMA EngagedDoes ==
    ASSUME TypeOK, NEW t, Rolling(t), NEW duration \in Durations \cup {None}
    PROVE  LET u == Engaged(t, duration) IN
           /\ Rolling(u)
           /\ \/ u = t
              \/ /\ t.process = None /\ ~t.windows
                 /\ u.process \in ProcessRolls /\ u.process # None
                 /\ u.process.armed = ~t.mode
                 /\ u.windows = TRUE /\ u.rolling = TRUE /\ u.mode = TRUE
<1> DEFINE u == Engaged(t, duration)
<1>1. CASE duration = None \/ t.process # None \/ t.windows
  BY <1>1 DEF Engaged
<1>2. CASE ~(duration = None \/ t.process # None \/ t.windows)
  <2>1. u = [process |-> [until |-> frontier + duration, armed |-> ~t.mode],
             windows |-> TRUE, rolling |-> TRUE, mode |-> TRUE]
    BY <1>2 DEF Engaged
  <2>2. frontier + duration \in Nat
    BY <1>2, TimeAssumption DEF TypeOK
  <2>3. [until |-> frontier + duration, armed |-> ~t.mode] \in ProcessRolls
    BY <2>2 DEF ProcessRolls, Rolling
  <2>4. QED
    BY <1>2, <2>1, <2>3, NotNone DEF Rolling
<1>3. QED
  BY <1>1, <1>2

\* A chunk is never empty: a process roll whose deadline has passed is gone.
LEMMA ChunkEndBounds ==
    ASSUME TypeOK, Unfinished
    PROVE  LET end == ChunkEnd(Released(Manual)) IN
           end \in Nat /\ frontier <= end /\ end <= seen + Lookahead
<1> DEFINE t == Released(Manual)
<1>1. frontier \in Nat /\ seen \in Nat /\ Block \in Nat /\ Lookahead \in Nat
  BY TimeAssumption DEF TypeOK
<1>2. t.process # None => t.process.until \in Nat /\ frontier < t.process.until
  BY ReleasedDoes, ManualTypes DEF Rolling, ProcessRolls
<1>3. Earlier(frontier + Block, seen + Lookahead) \in Nat
      /\ frontier <= Earlier(frontier + Block, seen + Lookahead)
      /\ Earlier(frontier + Block, seen + Lookahead) <= seen + Lookahead
  BY <1>1 DEF Earlier, Unfinished
<1> HIDE DEF t
<1>4. ChunkEnd(t) \in Nat /\ frontier <= ChunkEnd(t) /\ ChunkEnd(t) <= seen + Lookahead
  BY <1>1, <1>2, <1>3 DEF ChunkEnd, Earlier
<1>5. QED
  BY <1>4 DEF t

LEMMA TypesInit == Init => TypeOK
<1>1. SUFFICES ASSUME Init PROVE TypeOK
  OBVIOUS
<1>2. commands = <<>> /\ from = [n \in Notes |-> 0] /\ keys = [n \in Notes |-> "up"]
      /\ published = [playing |-> FALSE, moved |-> FALSE] /\ snapshot = published
  BY <1>1 DEF Init
<1>3. commands \in Seq(Commands) /\ from \in [Notes -> Nat]
  BY <1>2
<1>4. keys \in [Notes -> {"up", "rolls", "sounds"}]
      /\ published \in [playing : BOOLEAN, moved : BOOLEAN]
      /\ snapshot \in [playing : BOOLEAN, moved : BOOLEAN]
  BY <1>2
<1>5. /\ pending \in Commands \cup {None, Publication}
      /\ mode \in BOOLEAN /\ rolling \in BOOLEAN /\ chosen \in BOOLEAN
      /\ retoggled \in BOOLEAN /\ overwritten \in BOOLEAN /\ twice \in BOOLEAN
      /\ wasPlaying \in BOOLEAN /\ holding \in BOOLEAN /\ windows \in BOOLEAN
      /\ rate \in Grids /\ grid \in Grids /\ sources \subseteq Sources
  BY <1>1 DEF Init
<1>6. /\ pc = "poll" /\ held = {} /\ fresh = {} /\ process = None
      /\ frontier = 0 /\ seen = 0 /\ rendered = 0
      /\ promised = {} /\ lost = {} /\ dropped = {} /\ hits = {} /\ again = {}
  BY <1>1 DEF Init
<1>7. QED
  BY <1>3, <1>4, <1>5, <1>6 DEF TypeOK

LEMMA HitsTypes ==
    ASSUME TypeOK, NEW ns \in SUBSET Notes, NEW first \in Nat, NEW end
    PROVE  /\ HitsOf(ns, first, end) \subseteq Hits
           /\ \A n \in ns, l \in first .. (end - 1) :
                l % rate = 0 => [note |-> n, line |-> l] \in HitsOf(ns, first, end)
           /\ \A h \in HitsOf(ns, first, end) :
                h.note \in ns /\ h.line \in first .. (end - 1)
  BY DEF HitsOf, Hits

\* The gestures keep the types.
LEMMA ControlTypes ==
    ASSUME TypeOK, Control
    PROVE  TypeOK'
<1>1. promised' \subseteq Notes /\ lost' \subseteq Notes /\ dropped' \subseteq Notes
  <2>1. promised \subseteq Notes /\ lost \subseteq Notes /\ dropped \subseteq Notes
    BY DEF TypeOK
  <2>2. CASE Push
    <3> DEFINE p == [held |-> promised, fresh |-> {}, windows |-> FALSE, ended |-> {}]
    <3>1. p \in State /\ pending \in Commands
      BY <2>1, <2>2 DEF State, Push, TypeOK
    <3>2. promised' = Apply(p, pending).held
      BY <2>2 DEF Push
    <3>3. Apply(p, pending) \in State
      <4> HIDE DEF p
      <4>1. QED
        BY <3>1, ApplyDoes
    <3>4. promised' \subseteq Notes
      BY <3>2, <3>3 DEF State
    <3>5. lost' \subseteq Notes
      BY <2>1, <2>2, <3>4 DEF Push
    <3>6. dropped' \subseteq Notes
      BY <2>1, <2>2 DEF Push
    <3>7. QED
      BY <3>4, <3>5, <3>6
  <2>3. CASE \E n \in Notes : ReleaseKey(n)
    BY <2>1, <2>3 DEF ReleaseKey
  <2>4. CASE Stop
    BY <2>4 DEF Stop
  <2>5. CASE ToggleRollMode \/ Start \/ PublishStop \/ EditPattern
             \/ (\E n \in Notes : PressKey(n)) \/ (\E r \in Grids : ChooseRate(r))
             \/ \E s \in Sources, on \in BOOLEAN : HoldSource(s, on)
    BY <2>1, <2>5
    DEF ToggleRollMode, Start, PublishStop, EditPattern, PressKey, ChooseRate, HoldSource,
        promises
  <2>6. QED
    BY <2>2, <2>3, <2>4, <2>5 DEF Control
<1>2. commands' \in Seq(Commands)
  <2>1. commands' = commands \/ \E c \in Commands : commands' = Append(commands, c)
    BY DEF Control, Push, PressKey, ReleaseKey, HoldSource, ChooseRate, ToggleRollMode, Start,
           Stop, PublishStop, EditPattern, input, Commands, TypeOK
  <2>2. commands \in Seq(Commands)
    BY DEF TypeOK
  <2>3. QED
    BY <2>1, <2>2
<1>3. keys' \in [Notes -> {"up", "rolls", "sounds"}]
  <2>1. keys' = keys \/ \E n \in Notes, k \in {"up", "rolls", "sounds"} :
                          keys' = [keys EXCEPT ![n] = k]
    BY DEF Control, Push, PressKey, ReleaseKey, HoldSource, ChooseRate, ToggleRollMode, Start,
           Stop, PublishStop, EditPattern, input
  <2>2. QED
    BY <2>1 DEF TypeOK
<1>4. pending' \in Commands \cup {None, Publication}
  <2>1. ClearAll \in Commands /\ \A n \in Notes : NoteOn(n) \in Commands /\ NoteOff(n) \in Commands
    BY DEF Commands
  <2>2. \/ pending' \in {pending, None, Publication, ClearAll}
        \/ \E n \in Notes : pending' \in {NoteOn(n), NoteOff(n)}
    BY DEF Control, Push, PressKey, ReleaseKey, HoldSource, ChooseRate, ToggleRollMode, Start,
           Stop, PublishStop, EditPattern, input, ReleaseCommand
  <2>3. QED
    BY <2>1, <2>2 DEF TypeOK
<1>5. /\ rate' \in Grids /\ sources' \subseteq Sources
      /\ published' \in [playing : BOOLEAN, moved : BOOLEAN]
  <2>1. /\ rate' = rate \/ rate' \in Grids
        /\ sources' \in {sources, {}} \/ \E s \in Sources : sources' \subseteq sources \cup {s}
        /\ \/ published' = published
           \/ \E playing \in BOOLEAN : published' = [playing |-> playing, moved |-> TRUE]
           \/ published' = [published EXCEPT !.moved = TRUE]
    <3>1. CASE \E s \in Sources, on \in BOOLEAN : HoldSource(s, on)
      BY <3>1 DEF HoldSource
    <3>2. CASE ~\E s \in Sources, on \in BOOLEAN : HoldSource(s, on)
      BY <3>2
      DEF Control, Push, PressKey, ReleaseKey, ChooseRate, ToggleRollMode, Start, Stop,
          PublishStop, EditPattern, input, transport
    <3>3. QED
      BY <3>1, <3>2
  <2>2. rate' \in Grids /\ sources' \subseteq Sources
    BY <2>1 DEF TypeOK
  <2>3. published' \in [playing : BOOLEAN, moved : BOOLEAN]
    <3>1. published \in [playing : BOOLEAN, moved : BOOLEAN]
      BY DEF TypeOK
    <3>2. [published EXCEPT !.moved = TRUE] \in [playing : BOOLEAN, moved : BOOLEAN]
      BY <3>1
    <3>3. \A playing \in BOOLEAN :
            [playing |-> playing, moved |-> TRUE] \in [playing : BOOLEAN, moved : BOOLEAN]
      OBVIOUS
    <3>4. QED
      BY <2>1, <3>1, <3>2, <3>3
  <2>4. QED
    BY <2>2, <2>3
<1>6. {mode', rolling', chosen', retoggled', overwritten', twice'} \subseteq BOOLEAN
  <2>1. /\ mode' \in {mode, ~mode} /\ chosen' \in {chosen, ~mode} /\ twice' = twice
        /\ rolling' \in {rolling, sources' # {}, FALSE}
        /\ retoggled' \in {retoggled, ~mode /\ process # None /\ process.armed}
        /\ overwritten' \in {overwritten, FALSE}
    BY DEF Control, Push, PressKey, ReleaseKey, HoldSource, ChooseRate, ToggleRollMode, Start,
           Stop, PublishStop, EditPattern, transport, promises, sound
  <2>2. QED
    BY <2>1 DEF TypeOK
<1>7. UNCHANGED <<worker, notes, time, sound>>
  BY DEF Control, Push, PressKey, ReleaseKey, HoldSource, ChooseRate, ToggleRollMode, Start,
         Stop, PublishStop, EditPattern
<1>8. QED
  BY <1>1, <1>2, <1>3, <1>4, <1>5, <1>6, <1>7 DEF TypeOK, worker, notes, time, sound, Hits

\* What drains keeps the fresh notes among the held ones.
LEMMA Drained ==
    ASSUME TypeOK
    PROVE  LET t == CancelledForCommands(Manual)
               s == Applied(commands, held, fresh, t.windows) IN
           s \in State /\ Follows(s, held, fresh)
<1> DEFINE t == CancelledForCommands(Manual)
<1>1. t.windows \in BOOLEAN
  BY CancelledForCommandsDoes DEF Rolling
<1>2. commands \in Seq(Commands) /\ held \in SUBSET Notes /\ fresh \in SUBSET held
  BY DEF TypeOK
<1> HIDE DEF t
<1>3. QED
  BY <1>1, <1>2, AppliedFollows DEF t

LEMMA DrainTypes ==
    ASSUME TypeOK, NEW seeks \in BOOLEAN, DrainCommands(seeks)
    PROVE  TypeOK'
<1> DEFINE t == CancelledForCommands(Manual)
           s == Applied(commands, held, fresh, t.windows)
<1>1. s \in State /\ Follows(s, held, fresh)
  BY Drained
<1>2. Rolling(t) /\ (t.process # None => t = Manual)
  BY CancelledForCommandsDoes, ManualTypes
<1>3. /\ process' = t.process /\ rolling' = t.rolling /\ mode' = t.mode
      /\ held' = s.held /\ fresh' = s.fresh /\ windows' = s.windows
      /\ commands' = <<>> /\ pc' = "act"
  BY DEF DrainCommands
<1>4. hits' \subseteq hits /\ again' \subseteq hits \cup again /\ frontier' \in {frontier, seen}
  BY DEF DrainCommands, Seek, Sounded
<1>5. from' \in [Notes -> Nat]
  BY DEF DrainCommands, TypeOK
<1>6. held' \subseteq Notes /\ fresh' \subseteq held' /\ windows' \in BOOLEAN
  <2> HIDE DEF s
  <2>1. QED
    BY <1>1, <1>3 DEF State, Follows
<1>7. process' = None \/ (process' \in ProcessRolls /\ windows')
  <2>1. CASE t.process = None
    BY <1>3, <2>1
  <2>2. CASE t.process # None
    <3>1. t = Manual /\ process # None /\ windows /\ process \in ProcessRolls
      BY <1>2, <2>2, ManualTypes DEF Rolling
    <3>2. ~Steers
      BY <2>2, <3>1, CancelledForCommandsDoes
    <3>3. s.windows = t.windows
      <4>1. commands \in Seq(Commands) /\ held \in SUBSET Notes /\ fresh \in SUBSET held
        BY DEF TypeOK
      <4>2. t.windows \in BOOLEAN
        BY <1>2 DEF Rolling
      <4> HIDE DEF t
      <4>3. QED
        BY <3>2, <4>1, <4>2, AppliedFollows DEF Steers
    <3>4. QED
      BY <1>3, <3>1, <3>3, ManualTypes
  <2>3. QED
    BY <2>1, <2>2
<1>8. mode' \in BOOLEAN /\ rolling' \in BOOLEAN
  BY <1>2, <1>3 DEF Rolling
<1>9. commands' \in Seq(Commands)
  BY <1>3
<1>10. UNCHANGED <<keys, pending, sources, rate, published, snapshot, wasPlaying, holding,
                   seen, rendered, promised, lost, dropped, chosen, retoggled, overwritten,
                   twice, grid>>
  BY DEF DrainCommands, promises
<1> HIDE DEF t, s
<1>11. QED
  BY <1>3, <1>4, <1>5, <1>6, <1>7, <1>8, <1>9, <1>10 DEF TypeOK, ProcessRolls, Hits

LEMMA ParkedTypes ==
    ASSUME TypeOK, Parked
    PROVE  TypeOK'
<1> DEFINE t == IF wasPlaying THEN Cancelled(Manual, TRUE) ELSE Manual
<1>1. Rolling(t)
  BY ManualTypes, CancelledDoes
<1>2. /\ rolling' = t.rolling /\ mode' = t.mode
      /\ \/ held' = {} /\ fresh' = {} /\ windows' = FALSE /\ process' = None
            /\ lost' \subseteq promised
         \/ windows' = t.windows /\ process' = t.process /\ UNCHANGED <<held, fresh, lost>>
  BY DEF Parked
<1>3. /\ pc' = "poll" /\ frontier' = 0 /\ seen' = 0 /\ rendered' = 0
      /\ wasPlaying' = FALSE /\ holding' = FALSE /\ hits' = {} /\ again' = {}
      /\ from' = [n \in Notes |-> 0]
      /\ UNCHANGED <<keys, pending, sources, commands, rate, published, snapshot, promised,
                     dropped, chosen, retoggled, overwritten, twice, grid>>
  BY DEF Parked, input
<1>4. from' \in [Notes -> Nat]
  BY <1>3
<1>5. mode' \in BOOLEAN /\ rolling' \in BOOLEAN /\ windows' \in BOOLEAN
      /\ (process' = None \/ (process' \in ProcessRolls /\ windows'))
      /\ held' \subseteq Notes /\ fresh' \subseteq held' /\ lost' \subseteq Notes
  <2> HIDE DEF t
  <2>1. QED
    BY <1>1, <1>2 DEF Rolling, TypeOK
<1>6. {seen', rendered', frontier'} \subseteq Nat
  BY <1>3
<1>7. (hits \cup again)' \subseteq Hits
  BY <1>3
<1> HIDE DEF t
<1>8. QED
  BY <1>3, <1>4, <1>5, <1>6, <1>7 DEF TypeOK, ProcessRolls, Hits

LEMMA ChunkTypes ==
    ASSUME TypeOK, NEW duration \in Durations \cup {None}, PlanChunk(duration)
    PROVE  TypeOK'
<1> DEFINE released == Released(Manual)
           end == ChunkEnd(released)
           t == Engaged(released, duration)
<1>1. Rolling(t)
  <2>1. Rolling(released)
    BY ReleasedDoes
  <2> HIDE DEF released
  <2>2. QED
    BY <2>1, EngagedDoes
<1>2. end \in Nat /\ frontier <= end
  BY ChunkEndBounds DEF PlanChunk
<1>3. CatchUp \subseteq Hits /\ Regular(end) \subseteq Hits
  <2>1. fresh \cap held \in SUBSET Notes /\ held \in SUBSET Notes
        /\ seen \in Nat /\ frontier \in Nat
    BY DEF TypeOK
  <2> HIDE DEF end
  <2>2. QED
    BY <2>1, HitsTypes DEF CatchUp, Regular
<1> HIDE DEF released, end, t
<1>4. /\ process' = t.process /\ windows' = t.windows /\ rolling' = t.rolling /\ mode' = t.mode
      /\ frontier' = end /\ grid' = rate
      /\ UNCHANGED <<keys, pending, sources, commands, rate, published, pc, snapshot,
                     wasPlaying, holding, held, seen, rendered, promised, lost, dropped,
                     chosen, retoggled>>
  BY DEF PlanChunk, released, end, t, input, worker
<1>5. overwritten' \in BOOLEAN
  BY DEF PlanChunk, TypeOK, Has
<1>6. fresh' = {} \/ fresh' = fresh
  BY DEF PlanChunk
<1>7. hits' \subseteq hits \cup CatchUp \cup Regular(end) /\ again' \subseteq again
  BY DEF PlanChunk, end, released
<1>8. twice' \in BOOLEAN
  BY DEF PlanChunk, TypeOK
<1>9. from' \in [Notes -> Nat]
  <2>1. frontier \in Nat /\ from \in [Notes -> Nat]
    BY DEF TypeOK
  <2>2. from' = [n \in Notes |->
                  IF n \notin held THEN 0
                  ELSE IF ~t.mode THEN end
                  ELSE IF rate # grid /\ n \notin fresh THEN frontier
                  ELSE from[n]]
    BY DEF PlanChunk, released, end, t
  <2>3. QED
    BY <1>2, <2>1, <2>2
<1>10. mode' \in BOOLEAN /\ rolling' \in BOOLEAN /\ windows' \in BOOLEAN
       /\ (process' = None \/ (process' \in ProcessRolls /\ windows'))
  BY <1>1, <1>4 DEF Rolling
<1>11. QED
  BY <1>2, <1>3, <1>4, <1>5, <1>6, <1>7, <1>8, <1>9, <1>10 DEF TypeOK, ProcessRolls, Hits

LEMMA TypesKept == TypeOK /\ [Next]_vars => TypeOK'
<1> SUFFICES ASSUME TypeOK, [Next]_vars PROVE TypeOK'
  OBVIOUS
<1>1. CASE Control
  BY <1>1, ControlTypes
<1>2. CASE Poll
  <2>1. published' = [published EXCEPT !.moved = FALSE] /\ snapshot' = published
    BY <1>2 DEF Poll
  <2>2. published' \in [playing : BOOLEAN, moved : BOOLEAN]
        /\ snapshot' \in [playing : BOOLEAN, moved : BOOLEAN]
    BY <2>1 DEF TypeOK
  <2>3. seen' \in Nat /\ hits' \subseteq hits /\ again' = {}
    BY <1>2 DEF Poll, TypeOK
  <2>4. from' \in [Notes -> Nat]
    BY <1>2 DEF Poll, TypeOK, Later
  <2>5. pc' = "drain" /\ UNCHANGED <<input, transport, wasPlaying, holding, notes, frontier,
                                     rendered, promises, twice, grid>>
    BY <1>2 DEF Poll
  <2>6. QED
    BY <2>2, <2>3, <2>4, <2>5 DEF TypeOK, input, transport, notes, promises, Hits
<1>3. ASSUME NEW seeks \in BOOLEAN, DrainCommands(seeks)
      PROVE  TypeOK'
  BY <1>3, DrainTypes
<1>4. CASE Parked
  BY <1>4, ParkedTypes
<1>5. CASE HoldStart
  BY <1>5 DEF HoldStart, TypeOK, input, transport, notes, time, promises, sound, Hits
<1>6. CASE StartChunks
  <2>1. frontier' \in {frontier, seen} /\ hits' \subseteq hits /\ again' \subseteq hits \cup again
    BY <1>6 DEF StartChunks, Seek, Sounded
  <2>2. pc' = "chunks" /\ wasPlaying' = TRUE /\ holding' = FALSE
        /\ UNCHANGED <<input, transport, published, snapshot, notes, seen, rendered, promises,
                       twice, from, grid>>
    BY <1>6 DEF StartChunks
  <2>3. QED
    BY <2>1, <2>2 DEF TypeOK, input, transport, notes, promises, Hits
<1>7. ASSUME NEW duration \in Durations \cup {None}, PlanChunk(duration)
      PROVE  TypeOK'
  BY <1>7, ChunkTypes
<1>8. CASE EndPass
  BY <1>8 DEF EndPass, TypeOK, input, transport, notes, time, promises, sound, Hits
<1>9. CASE Render
  <2>1. rendered' \in Nat
        /\ UNCHANGED <<input, transport, published, worker, notes, frontier, seen, promises, sound>>
    BY <1>9 DEF Render, TypeOK
  <2>2. QED
    BY <2>1 DEF TypeOK, input, transport, worker, notes, promises, sound, Hits
<1>10. CASE UNCHANGED vars
  BY <1>10 DEF vars, TypeOK, input, transport, worker, notes, time, promises, sound, Hits
<1>11. QED
  BY <1>1, <1>2, <1>3, <1>4, <1>5, <1>6, <1>7, <1>8, <1>9, <1>10 DEF Next, Worker

-----------------------------------------------------------------------------
(* What the worker holds follows the gestures                              *)

LEMMA PendingKept == PendingInv /\ [Next]_vars => PendingInv'
<1> SUFFICES ASSUME PendingInv, [Next]_vars PROVE PendingInv'
  OBVIOUS
<1>1. \/ pending' \in {pending, None, Publication, ClearAll}
      \/ \E n \in Notes : pending' \in {NoteOn(n), NoteOff(n)}
  BY DEF Next, Control, Worker, vars, input, Push, PressKey, ReleaseKey, HoldSource, ChooseRate,
         ToggleRollMode, Start, Stop, PublishStop, EditPattern, ReleaseCommand, Poll,
         DrainCommands, Parked, HoldStart, StartChunks, PlanChunk, EndPass, Render
<1>2. ClearAll \in KeyCommands /\ \A n \in Notes : {NoteOn(n), NoteOff(n)} \subseteq KeyCommands
  BY DEF KeyCommands
<1>3. QED
  BY <1>1, <1>2 DEF PendingInv

\* The actions that leave what HoldInv speaks of as it is.
LEMMA HoldStays ==
    ASSUME HoldInv, UNCHANGED <<commands, held, windows, promised, lost, process, sources>>
    PROVE  HoldInv'
  BY DEF HoldInv, Steers, AfterCommands, Has

\* One more command, from the state in which the worker will have served all
\* that are queued.
LEMMA QueuedCommand ==
    ASSUME TypeOK, NEW c \in Commands
    PROVE  LET s == Applied(commands, held, {}, FALSE)
               t == Applied(Append(commands, c), held, {}, FALSE)
               u == Applied(commands, {}, {}, FALSE)
               v == Applied(Append(commands, c), {}, {}, FALSE) IN
           Effect(c, s, t) /\ Effect(c, u, v)
<1>1. commands \in Seq(Commands) /\ held \in SUBSET Notes
  BY DEF TypeOK
<1>2. Applied(commands, held, {}, FALSE) \in State /\ Applied(commands, {}, {}, FALSE) \in State
  BY <1>1, AppliedFollows
<1>3. \A h \in SUBSET Notes : Applied(Append(commands, c), h, {}, FALSE)
                                = Apply(Applied(commands, h, {}, FALSE), c)
  BY <1>1, HeldOneMore
<1>4. QED
  BY <1>1, <1>2, <1>3, ApplyDoes

\* A command that steers the window, and one that does not.
LEMMA SteeringCommand ==
    ASSUME TypeOK, NEW c \in Commands, commands' = Append(commands, c)
    PROVE  Steers' <=> Steers \/ c.kind \in {"ClearAll", "SequenceRoll"}
<1>1. commands \in Seq(Commands)
  BY DEF TypeOK
<1>2. \A kind : Has(commands', kind) <=> Has(commands, kind) \/ c.kind = kind
  BY <1>1, HasOneMore
<1>3. QED
  BY <1>2 DEF Steers

LEMMA PushHolds ==
    ASSUME TypeOK, PendingInv, HoldInv, Push
    PROVE  HoldInv'
<1> DEFINE s == Applied(commands, held, {}, FALSE)
           t == Applied(commands', held, {}, FALSE)
           u == Applied(commands, {}, {}, FALSE)
           v == Applied(commands', {}, {}, FALSE)
           p == [held |-> promised, fresh |-> {}, windows |-> FALSE, ended |-> {}]
<1>1. pending \in Commands /\ commands' = Append(commands, pending)
      /\ UNCHANGED <<held, windows, process>>
  BY DEF Push, TypeOK, notes
<1>2. Effect(pending, s, t) /\ Effect(pending, u, v)
  BY <1>1, QueuedCommand
<1>3. p \in State /\ Effect(pending, p, Apply(p, pending)) /\ promised' = Apply(p, pending).held
  <2>1. p \in State
    BY DEF TypeOK, State
  <2>2. promised' = Apply(p, pending).held
    BY DEF Push
  <2> HIDE DEF p
  <2>3. QED
    BY <1>1, <2>1, <2>2, ApplyDoes
<1>4. Steers' <=> Steers \/ pending.kind \in {"ClearAll", "SequenceRoll"}
  BY <1>1, SteeringCommand
<1>5. s.held = promised \ lost
      /\ (AfterCommands(held))' = t.held
      /\ (Applied(commands, {}, {}, FALSE))' = v
  BY <1>1 DEF HoldInv, AfterCommands
<1>6. p.held = promised
  OBVIOUS
<1>7. lost' = IF pending.kind = "NoteOn" THEN lost \ {pending.note} ELSE lost \cap promised'
  BY DEF Push
<1> HIDE DEF s, t, u, v, p
<1>8. CASE \E n \in Notes : pending = NoteOn(n)
  <2>1. pending.kind = "NoteOn" /\ pending # ClearAll
    BY <1>8 DEF NoteOn, ClearAll
  <2>2. /\ t.held = s.held \cup {pending.note} /\ v.windows = u.windows
        /\ promised' = promised \cup {pending.note}
    BY <1>2, <1>3, <1>6, <2>1 DEF Effect, Pressed
  <2>3. sources' = sources /\ (Steers' <=> Steers)
    BY <1>4, <2>1 DEF Push
  <2>4. QED
    BY <1>1, <1>5, <1>7, <2>1, <2>2, <2>3 DEF HoldInv, u
<1>9. CASE \E n \in Notes : pending = NoteOff(n)
  <2>1. pending.kind = "NoteOff" /\ pending # ClearAll
    BY <1>9 DEF NoteOff, ClearAll
  <2>2. /\ t.held = s.held \ {pending.note} /\ v.windows = u.windows
        /\ promised' = promised \ {pending.note}
    BY <1>2, <1>3, <1>6, <2>1 DEF Effect, Unpressed
  <2>3. sources' = sources /\ (Steers' <=> Steers)
    BY <1>4, <2>1 DEF Push
  <2>4. QED
    BY <1>1, <1>5, <1>7, <2>1, <2>2, <2>3 DEF HoldInv, u
<1>10. CASE pending = ClearAll
  <2>1. pending.kind = "ClearAll"
    BY <1>10 DEF ClearAll
  <2>2. t.held = {} /\ v.windows = FALSE /\ promised' = {}
    BY <1>2, <1>3, <2>1 DEF Effect, Cleared
  <2>3. sources' = {} /\ Steers'
    BY <1>4, <1>10, <2>1 DEF Push
  <2>4. QED
    BY <1>5, <2>2, <2>3 DEF HoldInv
<1>11. QED
  BY <1>8, <1>9, <1>10 DEF Push, PendingInv, KeyCommands

LEMMA SourcesHold ==
    ASSUME TypeOK, HoldInv, NEW s \in Sources, NEW on \in BOOLEAN, HoldSource(s, on)
    PROVE  HoldInv'
<1>1. UNCHANGED <<held, windows, process, promised, lost>>
  BY DEF HoldSource, notes
<1>2. CASE (sources = {}) # (sources' = {})
  <2> DEFINE c == SequenceRoll(sources' # {})
  <2>1. c \in Commands /\ c.kind = "SequenceRoll" /\ c.on = (sources' # {})
    BY DEF Commands, SequenceRoll
  <2>2. commands' = Append(commands, c)
    BY <1>2 DEF HoldSource
  <2> HIDE DEF c
  <2>3. /\ Effect(c, Applied(commands, held, {}, FALSE), Applied(commands', held, {}, FALSE))
        /\ Effect(c, Applied(commands, {}, {}, FALSE), Applied(commands', {}, {}, FALSE))
    BY <2>1, <2>2, QueuedCommand
  <2>4. /\ Applied(commands', held, {}, FALSE).held = Applied(commands, held, {}, FALSE).held
        /\ Applied(commands', {}, {}, FALSE).windows = (sources' # {})
    BY <2>1, <2>3 DEF Effect, Steered
  <2>5. Steers'
    BY <2>1, <2>2, SteeringCommand
  <2>6. (AfterCommands(held))' = promised \ lost
    BY <1>1, <2>4 DEF HoldInv, AfterCommands
  <2>7. QED
    BY <1>1, <2>4, <2>5, <2>6 DEF HoldInv
<1>3. CASE (sources = {}) <=> (sources' = {})
  <2>1. commands' = commands
    BY <1>3 DEF HoldSource
  <2>2. QED
    BY <1>1, <1>3, <2>1 DEF HoldInv, Steers, Has, AfterCommands
<1>4. QED
  BY <1>2, <1>3

LEMMA RatesHold ==
    ASSUME TypeOK, HoldInv, NEW r \in Grids, ChooseRate(r)
    PROVE  HoldInv'
<1>1. commands' = Append(commands, SetRate(r))
      /\ UNCHANGED <<held, windows, process, promised, lost, sources>>
  BY DEF ChooseRate, notes, promises
<1>2. SetRate(r) \in Commands /\ SetRate(r).kind = "SetRate"
  BY DEF Commands, SetRate
<1>3. /\ Applied(commands', held, {}, FALSE) = Applied(commands, held, {}, FALSE)
      /\ Applied(commands', {}, {}, FALSE) = Applied(commands, {}, {}, FALSE)
  BY <1>1, <1>2, QueuedCommand DEF Effect
<1>4. Steers' <=> Steers
  BY <1>1, <1>2, SteeringCommand
<1>5. QED
  BY <1>1, <1>3, <1>4 DEF HoldInv, AfterCommands

LEMMA StopHolds ==
    ASSUME TypeOK, HoldInv, Stop
    PROVE  HoldInv'
<1>1. /\ commands' = Append(commands, ClearAll)
      /\ promised' = {} /\ lost' = {} /\ sources' = {} /\ held' = held
  BY DEF Stop, notes
<1>2. ClearAll \in Commands /\ ClearAll.kind = "ClearAll"
  BY DEF Commands, ClearAll
<1>3. /\ Applied(commands', held, {}, FALSE).held = {}
      /\ Applied(commands', {}, {}, FALSE).windows = FALSE
  BY <1>1, <1>2, QueuedCommand DEF Effect, Cleared
<1>4. Steers'
  BY <1>1, <1>2, SteeringCommand
<1>5. QED
  BY <1>1, <1>3, <1>4 DEF HoldInv, AfterCommands

\* The window after the queued commands, whatever is held, is the one they
\* settle, or the one there was.
LEMMA WindowAfter ==
    ASSUME TypeOK, NEW h \in SUBSET Notes, NEW f \in SUBSET h, NEW w \in BOOLEAN
    PROVE  /\ Steers => Applied(commands, h, f, w).windows
                          = Applied(commands, {}, {}, FALSE).windows
           /\ ~Steers => Applied(commands, h, f, w).windows = w
<1>1. commands \in Seq(Commands)
  BY DEF TypeOK
<1>2. \A v \in BOOLEAN : Steers => Applied(commands, {}, {}, v).windows
                                     = Applied(commands, h, f, w).windows
  <2>1. {} \in SUBSET Notes /\ {} \subseteq h /\ f \in SUBSET Notes
    OBVIOUS
  <2>2. QED
    BY <1>1, <2>1, WindowsAgree DEF Steers
<1>3. Steers => Applied(commands, {}, {}, FALSE).windows = Applied(commands, h, f, w).windows
  BY <1>2
<1>4. ~Steers => Applied(commands, h, f, w).windows = w
  BY <1>1, AppliedFollows DEF Steers
<1>5. QED
  BY <1>3, <1>4

LEMMA DrainHolds ==
    ASSUME TypeOK, HoldInv, NEW seeks \in BOOLEAN, DrainCommands(seeks)
    PROVE  HoldInv'
<1> DEFINE t == CancelledForCommands(Manual)
           s == Applied(commands, held, fresh, t.windows)
<1>1. Rolling(t)
      /\ (process = None \/ ~Steers => t = Manual)
      /\ (process # None /\ Steers => t.process = None)
  BY CancelledForCommandsDoes
<1>2. commands \in Seq(Commands) /\ held \in SUBSET Notes /\ fresh \in SUBSET held
      /\ t.windows \in BOOLEAN
  BY <1>1 DEF TypeOK, Rolling
<1>3. /\ process' = t.process /\ held' = s.held /\ windows' = s.windows
      /\ commands' = <<>> /\ UNCHANGED <<promised, lost, sources>>
  BY DEF DrainCommands, promises
<1>4. Manual.process = process /\ Manual.windows = windows
  BY ManualTypes
<1>5. s \in State
  BY Drained
<1> HIDE DEF t
<1>6. s.held = AfterCommands(held)
  BY <1>2, HeldAfter DEF AfterCommands
<1>7. (AfterCommands(held))' = held'
  <2>1. s.held \in SUBSET Notes
    BY <1>5 DEF State
  <2>2. Applied(<<>>, s.held, {}, FALSE).held = s.held
    BY <2>1, NothingHeld
  <2>3. QED
    BY <1>3, <2>2 DEF AfterCommands
<1>8. ~Steers'
  BY <1>3, HasNone DEF Steers
<1>9. /\ Steers => s.windows = Applied(commands, {}, {}, FALSE).windows
      /\ ~Steers => s.windows = t.windows
  BY <1>2, WindowAfter
<1> HIDE DEF s
<1>10. CASE process' = None
  <2>1. windows' = (sources # {})
    BY <1>1, <1>3, <1>4, <1>9, <1>10 DEF HoldInv
  <2>2. QED
    BY <1>3, <1>6, <1>7, <1>8, <1>10, <2>1 DEF HoldInv
<1>11. CASE process' # None
  <2>1. sources = {}
    BY <1>1, <1>3, <1>4, <1>11 DEF HoldInv
  <2>2. QED
    BY <1>3, <1>6, <1>7, <1>8, <1>11, <2>1 DEF HoldInv
<1>12. QED
  BY <1>10, <1>11

LEMMA ParkedHolds ==
    ASSUME TypeOK, HoldInv, Parked
    PROVE  HoldInv'
<1> DEFINE t == IF wasPlaying THEN Cancelled(Manual, TRUE) ELSE Manual
<1>1. UNCHANGED <<commands, sources, promised>>
  BY DEF Parked, input
<1>2. Steers' <=> Steers
  BY <1>1 DEF Steers, Has
<1>3. CASE StopClears
  <2>1. sources = {} /\ held' = {} /\ windows' = FALSE /\ process' = None
        /\ lost' = promised \ AfterCommands({})
    BY <1>3 DEF Parked, StopClears
  <2>2. AfterCommands({}) \subseteq AfterCommands(held)
    <3>1. commands \in Seq(Commands) /\ held \in SUBSET Notes
      BY DEF TypeOK
    <3>2. QED
      BY <3>1, HeldAgrees DEF AfterCommands
  <2>3. (AfterCommands(held))' = AfterCommands({})
    BY <1>1, <2>1 DEF AfterCommands
  <2>4. AfterCommands(held)' = promised' \ lost'
    BY <1>1, <2>1, <2>2, <2>3 DEF HoldInv
  <2>5. QED
    BY <1>1, <1>2, <2>1, <2>4 DEF HoldInv
<1>4. CASE ~StopClears
  <2>1. windows' = t.windows /\ process' = t.process /\ UNCHANGED <<held, lost>>
    BY <1>4 DEF Parked
  <2>2. (AfterCommands(held))' = AfterCommands(held)
    BY <1>1, <2>1 DEF AfterCommands
  <2>3. CASE t = Manual
    <3>1. windows' = windows /\ process' = process
      BY <2>1, <2>3, ManualTypes
    <3>2. QED
      BY <1>1, <2>1, <3>1, HoldStays
  <2>4. CASE t # Manual
    <3>1. process # None /\ sources # {}
      BY <1>4, <2>4, CancelledDoes DEF StopClears
    <3>2. Steers
      BY <3>1 DEF HoldInv
    <3>3. QED
      BY <1>1, <1>2, <2>1, <2>2, <3>2 DEF HoldInv
  <2>5. QED
    BY <2>3, <2>4
<1>5. QED
  BY <1>3, <1>4

LEMMA ChunkHolds ==
    ASSUME TypeOK, HoldInv, NEW duration \in Durations \cup {None}, PlanChunk(duration)
    PROVE  HoldInv'
<1> DEFINE released == Released(Manual)
           t == Engaged(released, duration)
<1>1. UNCHANGED <<commands, sources, promised, lost, held>>
  BY DEF PlanChunk, input
<1>2. Steers' <=> Steers
  BY <1>1 DEF Steers, Has
<1>3. (AfterCommands(held))' = AfterCommands(held)
  BY <1>1 DEF AfterCommands
<1>4. CASE Steers
  BY <1>1, <1>2, <1>3, <1>4 DEF HoldInv
<1>5. CASE ~Steers
  <2>1. process' = t.process /\ windows' = t.windows
    BY DEF PlanChunk
  <2>2. IF released.process = None THEN released.windows = (sources # {}) ELSE sources = {}
    <3>1. Manual.process = process /\ Manual.windows = windows
      BY ManualTypes
    <3>2. \/ released = Manual
          \/ process # None /\ released.process = None /\ released.windows = FALSE
      BY ReleasedDoes
    <3>3. IF process = None THEN windows = (sources # {}) ELSE sources = {}
      BY <1>5 DEF HoldInv
    <3> HIDE DEF released
    <3>4. QED
      BY <3>1, <3>2, <3>3
  <2>3. \/ t = released
        \/ released.process = None /\ ~released.windows /\ t.process # None
    <3>1. Rolling(released)
      BY ReleasedDoes
    <3> HIDE DEF released
    <3>2. QED
      BY <3>1, EngagedDoes
  <2> HIDE DEF released, t
  <2>4. IF process' = None THEN windows' = (sources # {}) ELSE sources = {}
    BY <2>1, <2>2, <2>3
  <2>5. QED
    BY <1>1, <1>2, <1>3, <1>5, <2>4 DEF HoldInv
<1>6. QED
  BY <1>4, <1>5

LEMMA HoldKept == TypeOK /\ PendingInv /\ HoldInv /\ [Next]_vars => HoldInv'
<1> SUFFICES ASSUME TypeOK, PendingInv, HoldInv, [Next]_vars PROVE HoldInv'
  OBVIOUS
<1>1. CASE Push
  BY <1>1, PushHolds
<1>2. CASE \E s \in Sources, on \in BOOLEAN : HoldSource(s, on)
  BY <1>2, SourcesHold
<1>3. CASE \E r \in Grids : ChooseRate(r)
  BY <1>3, RatesHold
<1>4. CASE Stop
  BY <1>4, StopHolds
<1>5. CASE \E seeks \in BOOLEAN : DrainCommands(seeks)
  BY <1>5, DrainHolds
<1>6. CASE Parked
  BY <1>6, ParkedHolds
<1>7. CASE \E duration \in Durations \cup {None} : PlanChunk(duration)
  BY <1>7, ChunkHolds
<1>8. CASE (\E n \in Notes : PressKey(n) \/ ReleaseKey(n)) \/ ToggleRollMode \/ Start
           \/ PublishStop \/ EditPattern \/ Poll \/ HoldStart \/ StartChunks \/ EndPass
           \/ Render \/ UNCHANGED vars
  <2>1. UNCHANGED <<commands, held, windows, promised, lost, process, sources>>
    BY <1>8 DEF vars, input, notes, promises, PressKey, ReleaseKey, ToggleRollMode, Start,
                PublishStop, EditPattern, Poll, HoldStart, StartChunks, EndPass, Render
  <2>2. QED
    BY <2>1, HoldStays
<1>9. QED
  BY <1>1, <1>2, <1>3, <1>4, <1>5, <1>6, <1>7, <1>8 DEF Next, Control, Worker

-----------------------------------------------------------------------------
(* The keys, the mode and sequence_rolling                                 *)

LEMMA KeyCommandKinds ==
    /\ \A n \in Notes : /\ NoteOn(n).kind = "NoteOn" /\ NoteOff(n).kind = "NoteOff"
                        /\ NoteOn(n).note = n /\ NoteOff(n).note = n
                        /\ NoteOn(n) # ClearAll /\ NoteOff(n) # ClearAll
                        /\ NoteOn(n) # None /\ NoteOff(n) # None
                        /\ NoteOn(n) # Publication /\ NoteOff(n) # Publication
    /\ \A m, n \in Notes : NoteOn(m) # NoteOff(n)
    /\ ClearAll # None
<1>1. \A n \in Notes : NoteOn(n) \in Commands /\ NoteOff(n) \in Commands
  BY DEF Commands
<1>2. ClearAll \in Commands
  BY DEF Commands
<1>3. \A n \in Notes : NoteOn(n).kind = "NoteOn" /\ NoteOff(n).kind = "NoteOff"
                       /\ NoteOn(n).note = n /\ NoteOff(n).note = n
  BY DEF NoteOn, NoteOff
<1>4. ClearAll.kind = "ClearAll" /\ Publication.kind = "Publication"
  BY DEF ClearAll, Publication
<1>5. QED
  BY <1>1, <1>2, <1>3, <1>4, NotNone

\* A push leaves promised what the command says.
LEMMA PromisedPushed ==
    ASSUME TypeOK, Push
    PROVE  /\ pending.kind = "NoteOn" => promised' = promised \cup {pending.note}
           /\ pending.kind = "NoteOff" => promised' = promised \ {pending.note}
           /\ pending.kind = "ClearAll" => promised' = {}
<1> DEFINE p == [held |-> promised, fresh |-> {}, windows |-> FALSE, ended |-> {}]
<1>1. p \in State /\ p.held = promised
  BY DEF TypeOK, State
<1>2. promised' = Apply(p, pending).held /\ pending \in Commands
  BY DEF Push, TypeOK
<1> HIDE DEF p
<1>3. Effect(pending, p, Apply(p, pending))
  BY <1>1, <1>2, ApplyDoes
<1>4. QED
  BY <1>1, <1>2, <1>3 DEF Effect, Pressed, Unpressed, Cleared

LEMMA KeyKept == TypeOK /\ PendingInv /\ KeyInv /\ [Next]_vars => KeyInv'
<1> SUFFICES ASSUME TypeOK, PendingInv, KeyInv, [Next]_vars PROVE KeyInv'
  OBVIOUS
<1>1. CASE Push
  <2>1. pending' = None /\ keys' = keys /\ pending \in KeyCommands
    BY <1>1 DEF Push, PendingInv
  <2>2. \A n \in Notes : pending' # NoteOn(n)
    BY <2>1, KeyCommandKinds
  <2>3. promised \subseteq Notes
    BY DEF TypeOK
  <2>4. CASE \E n \in Notes : pending = NoteOn(n)
    <3>1. PICK n \in Notes : pending = NoteOn(n)
      BY <2>4
    <3>2. promised' = promised \cup {n} /\ dropped' = dropped \ {n} /\ keys[n] = "rolls"
      BY <1>1, <3>1, PromisedPushed, KeyCommandKinds DEF Push, KeyInv
    <3>3. \A m \in promised : keys[m] = "rolls" \/ m \in dropped
      BY <2>3, <3>1, KeyCommandKinds DEF KeyInv
    <3>4. QED
      BY <2>1, <2>2, <3>2, <3>3 DEF KeyInv
  <2>5. CASE \E n \in Notes : pending = NoteOff(n)
    <3>1. PICK n \in Notes : pending = NoteOff(n)
      BY <2>5
    <3>2. promised' = promised \ {n} /\ dropped' = dropped \ {n}
      BY <1>1, <3>1, PromisedPushed, KeyCommandKinds DEF Push
    <3>3. \A m \in promised : m # n => keys[m] = "rolls" \/ m \in dropped
      BY <2>3, <3>1, KeyCommandKinds DEF KeyInv
    <3>4. QED
      BY <2>1, <2>2, <3>2, <3>3 DEF KeyInv
  <2>6. CASE pending = ClearAll
    <3>1. promised' = {}
      BY <1>1, <2>6, PromisedPushed DEF ClearAll
    <3>2. QED
      BY <2>2, <3>1 DEF KeyInv
  <2>7. QED
    BY <2>1, <2>4, <2>5, <2>6 DEF KeyCommands
<1>2. ASSUME NEW n \in Notes, PressKey(n)
      PROVE  KeyInv'
  <2>1. /\ pending = None /\ keys[n] = "up" /\ promised' = promised /\ dropped' = dropped
        /\ keys' = [keys EXCEPT ![n] = IF mode THEN "rolls" ELSE "sounds"]
        /\ pending' = IF mode THEN NoteOn(n) ELSE None
    BY <1>2 DEF PressKey, Gesture, promises
  <2>2. \A m \in promised : keys[m] = "rolls" \/ m \in dropped
    BY <2>1, KeyCommandKinds DEF KeyInv, TypeOK
  <2>3. \A m \in Notes : m # n => keys'[m] = keys[m]
    BY <2>1 DEF TypeOK
  <2>4. promised \subseteq Notes /\ (mode => keys'[n] = "rolls")
    BY <2>1 DEF TypeOK
  <2>5. \A m \in promised' : keys'[m] = "rolls" \/ m \in dropped'
    BY <2>1, <2>2, <2>3, <2>4
  <2>6. ASSUME NEW m \in Notes, pending' = NoteOn(m)
        PROVE  keys'[m] = "rolls"
    <3>1. mode /\ NoteOn(m) = NoteOn(n)
      BY <2>1, <2>6, KeyCommandKinds
    <3>2. m = n
      BY <3>1, KeyCommandKinds
    <3>3. QED
      BY <2>4, <3>1, <3>2
  <2>7. QED
    BY <2>5, <2>6 DEF KeyInv
<1>3. ASSUME NEW n \in Notes, ReleaseKey(n)
      PROVE  KeyInv'
  <2>1. /\ pending = None /\ promised' = promised
        /\ keys' = [keys EXCEPT ![n] = "up"]
        /\ pending' = IF mode THEN NoteOff(n) ELSE None
        /\ dropped' = IF ~mode /\ keys[n] = "rolls" THEN dropped \cup {n} ELSE dropped
    BY <1>3 DEF ReleaseKey, Gesture, ReleaseCommand
  <2>2. \A m \in promised : keys[m] = "rolls" \/ m \in dropped
    BY <2>1, KeyCommandKinds DEF KeyInv, TypeOK
  <2>3. \A m \in Notes : m # n => keys'[m] = keys[m]
    BY <2>1 DEF TypeOK
  <2>4. promised \subseteq Notes
    BY DEF TypeOK
  <2>5. \A m \in promised' : keys'[m] = "rolls" \/ m \in dropped' \/ pending' = NoteOff(m)
    BY <2>1, <2>2, <2>3, <2>4
  <2>6. \A m \in Notes : pending' # NoteOn(m)
    BY <2>1, KeyCommandKinds
  <2>7. QED
    BY <2>5, <2>6 DEF KeyInv
<1>4. CASE ToggleRollMode
  <2>1. /\ pending = None /\ pending' \in {ClearAll, None}
        /\ UNCHANGED <<keys, promised, dropped>>
    BY <1>4 DEF ToggleRollMode, Gesture
  <2>2. promised \subseteq Notes
    BY DEF TypeOK
  <2>3. QED
    BY <2>1, <2>2, KeyCommandKinds DEF KeyInv
<1>5. CASE Stop
  <2>1. pending' = Publication /\ promised' = {}
    BY <1>5 DEF Stop
  <2>2. QED
    BY <2>1, KeyCommandKinds DEF KeyInv
<1>6. CASE PublishStop
  <2>1. pending = Publication /\ pending' = None /\ UNCHANGED <<keys, promised, dropped>>
    BY <1>6 DEF PublishStop, promises
  <2>2. promised \subseteq Notes
    BY DEF TypeOK
  <2>3. QED
    BY <2>1, <2>2, KeyCommandKinds DEF KeyInv
<1>7. CASE (\E s \in Sources, on \in BOOLEAN : HoldSource(s, on))
           \/ (\E r \in Grids : ChooseRate(r)) \/ Start \/ EditPattern
           \/ Poll \/ (\E seeks \in BOOLEAN : DrainCommands(seeks)) \/ Parked \/ HoldStart
           \/ StartChunks \/ EndPass
           \/ (\E duration \in Durations \cup {None} : PlanChunk(duration))
           \/ Render \/ UNCHANGED vars
  <2>1. UNCHANGED <<keys, pending, promised, dropped>>
    BY <1>7 DEF vars, input, promises, HoldSource, ChooseRate, Start, EditPattern, Poll,
                DrainCommands, Parked, HoldStart, StartChunks, EndPass, PlanChunk, Render
  <2>2. QED
    BY <2>1 DEF KeyInv
<1>8. QED
  BY <1>1, <1>2, <1>3, <1>4, <1>5, <1>6, <1>7 DEF Next, Control, Worker

LEMMA ModeKept == TypeOK /\ ModeInv /\ [Next]_vars => ModeInv'
<1> SUFFICES ASSUME TypeOK, ModeInv, [Next]_vars PROVE ModeInv'
  OBVIOUS
<1>1. mode \in BOOLEAN /\ chosen \in BOOLEAN /\ (process # None => process.armed \in BOOLEAN)
  BY DEF TypeOK
<1>2. CASE ToggleRollMode
  <2>1. mode' = ~mode /\ chosen' = ~mode /\ process' = process
        /\ retoggled' = (~mode /\ process # None /\ process.armed)
    BY <1>2 DEF ToggleRollMode, notes
  <2>2. QED
    BY <1>1, <2>1 DEF ModeInv
<1>3. CASE \E seeks \in BOOLEAN : DrainCommands(seeks)
  <2> DEFINE t == CancelledForCommands(Manual)
  <2>1. process' = t.process /\ mode' = t.mode /\ retoggled' = retoggled /\ chosen' = chosen
    BY <1>3 DEF DrainCommands, promises
  <2>2. \/ t.process = process /\ t.mode = mode
        \/ process # None /\ t.process = None /\ t.mode = (mode /\ ~process.armed)
    BY CancelledForCommandsDoes, ManualTypes
  <2> HIDE DEF t
  <2>3. QED
    BY <1>1, <2>1, <2>2 DEF ModeInv
<1>4. CASE Parked
  <2> DEFINE t == IF wasPlaying THEN Cancelled(Manual, TRUE) ELSE Manual
  <2>1. /\ mode' = t.mode /\ retoggled' = retoggled /\ chosen' = chosen
        /\ process' = t.process \/ (wasPlaying /\ process' = None)
    BY <1>4 DEF Parked, StopClears
  <2>2. \/ t.process = process /\ t.mode = mode /\ (wasPlaying => process = None)
        \/ process # None /\ t.process = None /\ t.mode = (mode /\ ~process.armed)
    BY CancelledDoes, ManualTypes
  <2> HIDE DEF t
  <2>3. QED
    BY <1>1, <2>1, <2>2 DEF ModeInv
<1>5. ASSUME NEW duration \in Durations \cup {None}, PlanChunk(duration)
      PROVE  ModeInv'
  <2> DEFINE released == Released(Manual)
             t == Engaged(released, duration)
  <2>1. process' = t.process /\ mode' = t.mode /\ retoggled' = retoggled /\ chosen' = chosen
    BY <1>5 DEF PlanChunk
  <2>2. Rolling(released)
        /\ \/ released.process = process /\ released.mode = mode
           \/ process # None /\ released.process = None
              /\ released.mode = (mode /\ ~process.armed)
    BY ReleasedDoes, ManualTypes
  <2> HIDE DEF released
  <2>3. \/ t = released
        \/ released.process = None /\ t.process # None
           /\ t.process.armed = ~released.mode /\ t.mode = TRUE
    BY <2>2, EngagedDoes
  <2>4. released.mode \in BOOLEAN
    BY <2>2 DEF Rolling
  <2> HIDE DEF t
  <2>5. QED
    BY <1>1, <2>1, <2>2, <2>3, <2>4 DEF ModeInv
<1>6. CASE UNCHANGED <<mode, chosen, retoggled, process>>
  BY <1>6 DEF ModeInv
<1>7. CASE Push \/ (\E n \in Notes : PressKey(n) \/ ReleaseKey(n))
           \/ (\E s \in Sources, on \in BOOLEAN : HoldSource(s, on))
           \/ (\E r \in Grids : ChooseRate(r)) \/ Start \/ Stop \/ PublishStop \/ EditPattern
           \/ Poll \/ HoldStart \/ StartChunks \/ EndPass \/ Render \/ UNCHANGED vars
  <2>1. UNCHANGED <<mode, chosen, retoggled, process>>
    BY <1>7 DEF vars, transport, notes, promises, Push, PressKey, ReleaseKey, HoldSource,
                ChooseRate, Start, Stop, PublishStop, EditPattern, Poll, HoldStart,
                StartChunks, EndPass, Render
  <2>2. QED
    BY <1>6, <2>1
<1>8. QED
  BY <1>2, <1>3, <1>4, <1>5, <1>7 DEF Next, Control, Worker

LEMMA RollingKept == TypeOK /\ PendingInv /\ RollingInv /\ [Next]_vars => RollingInv'
<1> SUFFICES ASSUME TypeOK, PendingInv, RollingInv, [Next]_vars PROVE RollingInv'
  OBVIOUS
<1>1. rolling \in BOOLEAN /\ commands \in Seq(Commands)
  BY DEF TypeOK
<1>2. CASE Push
  <2>1. pending \in Commands /\ commands' = Append(commands, pending) /\ process' = process
    BY <1>2 DEF Push, TypeOK, notes
  <2>2. \A kind : Has(commands', kind) <=> Has(commands, kind) \/ pending.kind = kind
    BY <1>1, <2>1, HasOneMore
  <2>3. CASE pending = ClearAll
    <3>1. sources' = {} /\ rolling' = FALSE /\ Has(commands', "ClearAll")
      BY <1>2, <2>2, <2>3 DEF Push, ClearAll
    <3>2. QED
      BY <3>1 DEF RollingInv, Steers
  <2>4. CASE pending # ClearAll
    <3>1. UNCHANGED <<sources, rolling, overwritten>>
      BY <1>2, <2>4 DEF Push
    <3>2. pending.kind # "ClearAll" /\ pending.kind # "SequenceRoll"
      BY <1>2, <2>4, KeyCommandKinds DEF PendingInv, KeyCommands, Push
    <3>3. /\ Has(commands', "ClearAll") <=> Has(commands, "ClearAll")
          /\ Has(commands', "SequenceRoll") <=> Has(commands, "SequenceRoll")
      BY <2>2, <3>2
    <3>4. QED
      BY <2>1, <3>1, <3>3 DEF RollingInv, Steers
  <2>5. QED
    BY <2>3, <2>4
<1>3. ASSUME NEW s \in Sources, NEW on \in BOOLEAN, HoldSource(s, on)
      PROVE  RollingInv'
  <2>1. process' = process
    BY <1>3 DEF HoldSource, notes
  <2>2. CASE (sources = {}) # (sources' = {})
    <3> DEFINE c == SequenceRoll(sources' # {})
    <3>1. c \in Commands /\ c.kind = "SequenceRoll"
      BY DEF Commands, SequenceRoll
    <3>2. commands' = Append(commands, c) /\ rolling' = (sources' # {})
      BY <1>3, <2>2 DEF HoldSource
    <3> HIDE DEF c
    <3>3. Has(commands', "SequenceRoll")
      BY <1>1, <3>1, <3>2, HasOneMore
    <3>4. QED
      BY <3>2, <3>3 DEF RollingInv, Steers
  <2>3. CASE (sources = {}) <=> (sources' = {})
    <3>1. UNCHANGED <<commands, rolling, overwritten>>
      BY <1>3, <2>3 DEF HoldSource
    <3>2. QED
      BY <2>1, <2>3, <3>1 DEF RollingInv, Steers, Has
  <2>4. QED
    BY <2>2, <2>3
<1>4. ASSUME NEW r \in Grids, ChooseRate(r)
      PROVE  RollingInv'
  <2>1. commands' = Append(commands, SetRate(r))
        /\ UNCHANGED <<process, sources, rolling, overwritten>>
    BY <1>4 DEF ChooseRate, notes, promises
  <2>2. SetRate(r) \in Commands /\ SetRate(r).kind = "SetRate"
    BY DEF Commands, SetRate
  <2>3. \A kind : Has(commands', kind) <=> Has(commands, kind) \/ SetRate(r).kind = kind
    BY <1>1, <2>1, <2>2, HasOneMore
  <2>4. /\ Has(commands', "ClearAll") <=> Has(commands, "ClearAll")
        /\ Has(commands', "SequenceRoll") <=> Has(commands, "SequenceRoll")
    BY <2>2, <2>3
  <2>5. QED
    BY <2>1, <2>4 DEF RollingInv, Steers
<1>5. CASE Stop
  <2>1. commands' = Append(commands, ClearAll) /\ sources' = {} /\ rolling' = FALSE
    BY <1>5 DEF Stop
  <2>2. ClearAll \in Commands /\ ClearAll.kind = "ClearAll"
    BY DEF Commands, ClearAll
  <2>3. Has(commands', "ClearAll")
    BY <1>1, <2>1, <2>2, HasOneMore
  <2>4. QED
    BY <2>1, <2>3 DEF RollingInv, Steers
<1>6. CASE \E seeks \in BOOLEAN : DrainCommands(seeks)
  <2> DEFINE t == CancelledForCommands(Manual)
  <2>1. process' = t.process /\ rolling' = t.rolling /\ commands' = <<>>
        /\ UNCHANGED <<sources, overwritten>>
    BY <1>6 DEF DrainCommands, promises
  <2>2. ~Has(commands', "ClearAll") /\ ~Has(commands', "SequenceRoll")
    BY <2>1, HasNone
  <2>3. \/ /\ process = None \/ ~Steers
           /\ t.process = process /\ t.rolling = rolling
        \/ /\ process # None /\ Steers /\ t.process = None
           /\ Has(commands, "ClearAll") => t.rolling = (rolling /\ sources # {})
           /\ ~Has(commands, "ClearAll") => t.rolling = rolling
    BY CancelledForCommandsDoes, ManualTypes
  <2> HIDE DEF t
  <2>4. QED
    BY <1>1, <2>1, <2>2, <2>3 DEF RollingInv, Steers
<1>7. CASE Parked
  <2> DEFINE t == IF wasPlaying THEN Cancelled(Manual, TRUE) ELSE Manual
  <2>1. /\ rolling' = t.rolling /\ UNCHANGED <<commands, sources, overwritten>>
        /\ process' = t.process \/ (wasPlaying /\ process' = None)
    BY <1>7 DEF Parked, input, StopClears
  <2>2. \/ t.process = process /\ t.rolling = rolling /\ (wasPlaying => process = None)
        \/ process # None /\ t.process = None /\ t.rolling = (rolling /\ sources # {})
    BY CancelledDoes, ManualTypes
  <2>3. \A kind : Has(commands', kind) <=> Has(commands, kind)
    BY <2>1 DEF Has
  <2> HIDE DEF t
  <2>4. QED
    BY <1>1, <2>1, <2>2, <2>3 DEF RollingInv, Steers
<1>8. ASSUME NEW duration \in Durations \cup {None}, PlanChunk(duration)
      PROVE  RollingInv'
  <2> DEFINE released == Released(Manual)
             t == Engaged(released, duration)
  <2>1. /\ process' = t.process /\ rolling' = t.rolling /\ UNCHANGED <<commands, sources>>
        /\ overwritten' = IF t.process # released.process
                          THEN sources = {} /\ Has(commands, "SequenceRoll")
                          ELSE overwritten
    BY <1>8 DEF PlanChunk, input
  <2>2. Rolling(released)
        /\ \/ released.process = process /\ released.rolling = rolling
           \/ process # None /\ released.process = None
              /\ released.rolling = (rolling /\ sources # {})
    BY ReleasedDoes, ManualTypes
  <2> HIDE DEF released
  <2>3. \/ t = released
        \/ released.process = None /\ t.process # None /\ t.rolling = TRUE
    BY <2>2, EngagedDoes
  <2>4. \A kind : Has(commands', kind) <=> Has(commands, kind)
    BY <2>1 DEF Has
  <2> HIDE DEF t
  <2>5. QED
    BY <1>1, <2>1, <2>2, <2>3, <2>4 DEF RollingInv, Steers
<1>9. CASE (\E n \in Notes : PressKey(n) \/ ReleaseKey(n)) \/ ToggleRollMode \/ Start
           \/ PublishStop \/ EditPattern \/ Poll \/ HoldStart \/ StartChunks \/ EndPass
           \/ Render \/ UNCHANGED vars
  <2>1. UNCHANGED <<overwritten, sources, rolling, process, commands>>
    BY <1>9 DEF vars, input, transport, notes, promises, PressKey, ReleaseKey, ToggleRollMode,
                Start, PublishStop, EditPattern, Poll, HoldStart, StartChunks, EndPass, Render
  <2>2. QED
    BY <2>1 DEF RollingInv, Steers, Has
<1>10. QED
  BY <1>2, <1>3, <1>4, <1>5, <1>6, <1>7, <1>8, <1>9 DEF Next, Control, Worker

-----------------------------------------------------------------------------
(* The render head and the frontier                                        *)

LEMMA TimeKept == TypeOK /\ TimeInv /\ [Next]_vars => TimeInv'
<1> SUFFICES ASSUME TypeOK, TimeInv, [Next]_vars PROVE TimeInv'
  OBVIOUS
<1>1. seen \in Nat /\ frontier \in Nat /\ rendered \in Nat /\ Lookahead \in Nat
      /\ MaxBeat \in Nat /\ wasPlaying \in BOOLEAN
  BY TimeAssumption DEF TypeOK
<1>2. CASE Poll
  <2>1. pc = "poll" /\ pc' = "drain" /\ seen' = rendered
        /\ UNCHANGED <<wasPlaying, holding, frontier, rendered>>
    BY <1>2 DEF Poll
  <2>2. QED
    BY <1>1, <2>1 DEF TimeInv
<1>3. CASE \E seeks \in BOOLEAN : DrainCommands(seeks)
  <2>1. pc' = "act" /\ frontier' \in {frontier, seen}
        /\ UNCHANGED <<wasPlaying, holding, seen, rendered>>
    BY <1>3 DEF DrainCommands, Seek
  <2>2. QED
    BY <1>1, <2>1 DEF TimeInv
<1>4. CASE Parked
  <2>1. pc' = "poll" /\ frontier' = 0 /\ seen' = 0 /\ rendered' = 0 /\ wasPlaying' = FALSE
        /\ holding' = FALSE
    BY <1>4 DEF Parked
  <2>2. QED
    BY <1>1, <2>1 DEF TimeInv
<1>5. CASE HoldStart
  <2>1. (holding \/ ~wasPlaying) /\ pc' = "poll" /\ UNCHANGED <<wasPlaying, time>>
    BY <1>5 DEF HoldStart
  <2>2. ~wasPlaying
    BY <2>1 DEF TimeInv
  <2>3. QED
    BY <1>1, <2>1, <2>2 DEF TimeInv, time
<1>6. CASE StartChunks
  <2>1. wasPlaying' = TRUE /\ holding' = FALSE /\ pc' = "chunks" /\ frontier' \in {frontier, seen}
        /\ UNCHANGED <<seen, rendered>>
    BY <1>6 DEF StartChunks, Seek
  <2>2. QED
    BY <1>1, <2>1 DEF TimeInv
<1>7. ASSUME NEW duration \in Durations \cup {None}, PlanChunk(duration)
      PROVE  TimeInv'
  <2> DEFINE end == ChunkEnd(Released(Manual))
  <2>1. pc = "chunks" /\ frontier' = end /\ UNCHANGED <<pc, wasPlaying, holding, seen, rendered>>
    BY <1>7 DEF PlanChunk, worker
  <2>2. end \in Nat /\ frontier <= end /\ end <= seen + Lookahead
    BY <1>7, ChunkEndBounds DEF PlanChunk
  <2> HIDE DEF end
  <2>3. QED
    BY <1>1, <2>1, <2>2 DEF TimeInv
<1>8. CASE EndPass
  <2>1. pc = "chunks" /\ ~Unfinished /\ UNCHANGED <<wasPlaying, holding, time>>
    BY <1>8 DEF EndPass
  <2>2. rendered <= frontier
    BY <1>1, <2>1 DEF TimeInv, Unfinished
  <2>3. QED
    BY <2>1, <2>2 DEF TimeInv, time
<1>9. CASE Render
  <2>1. rendered < Reach /\ rendered < MaxBeat /\ rendered' = rendered + 1
        /\ UNCHANGED <<pc, wasPlaying, holding, frontier, seen>>
    BY <1>9 DEF Render, worker
  <2>2. QED
    BY <1>1, <2>1 DEF TimeInv, Reach
<1>10. CASE Control \/ UNCHANGED vars
  <2>1. UNCHANGED <<worker, time>>
    BY <1>10 DEF vars, Control, Push, PressKey, ReleaseKey, HoldSource, ChooseRate,
                 ToggleRollMode, Start, Stop, PublishStop, EditPattern
  <2>2. QED
    BY <2>1 DEF TimeInv, worker, time
<1>11. QED
  BY <1>2, <1>3, <1>4, <1>5, <1>6, <1>7, <1>8, <1>9, <1>10 DEF Next, Worker

-----------------------------------------------------------------------------
(* Every line sounds once                                                  *)

\* After a seek, nothing below the frontier has to be planned, and what was
\* planned beyond it has sounded.
LEMMA SeekLines ==
    ASSUME TypeOK, TimeInv, NEW hs \in SUBSET hits, Seek(hs),
           UNCHANGED <<seen, rendered, twice>>, fresh' \subseteq held', held' \subseteq Notes,
           \A h \in hs : h.note \in held' \ fresh',
           \A n \in held' : from'[n] \in Nat /\ from'[n] >= seen,
           LineInv
    PROVE  LineInv'
<1>1. frontier' = seen /\ hits' = Sounded(hs) /\ again' = Sounded(hs)
  BY DEF Seek
<1>2. seen \in Nat
  BY DEF TypeOK
<1>3. \A n \in held' : \A l \in from'[n] .. (seen - 1) : FALSE
  BY <1>2
<1>4. \A h \in Sounded(hs) : h \in hs /\ h.line < rendered
  BY DEF Sounded
<1>5. QED
  BY <1>1, <1>3, <1>4 DEF LineInv, NoLineIsMissed

LEMMA DrainLines ==
    ASSUME TypeOK, TimeInv, LineInv, NEW seeks \in BOOLEAN, DrainCommands(seeks)
    PROVE  LineInv'
<1> DEFINE t == CancelledForCommands(Manual)
           s == Applied(commands, held, fresh, t.windows)
           present == {h \in hits : h.note \notin s.ended}
<1>1. s \in State /\ Follows(s, held, fresh)
  BY Drained
<1>2. /\ held' = s.held /\ fresh' = s.fresh
      /\ Seek(present) \/ (hits' = present /\ UNCHANGED <<frontier, again>>)
      /\ from' = [n \in Notes |-> IF n \notin s.held THEN 0
                                  ELSE IF n \in held \ s.ended THEN from[n] ELSE seen]
      /\ UNCHANGED <<twice, seen, rendered, grid>>
  BY DEF DrainCommands
<1> HIDE DEF t, s
<1>3. held' \subseteq Notes /\ fresh' \subseteq held'
  BY <1>1, <1>2 DEF State, Follows
<1>4. \A n \in held' \ fresh' : n \in held \ fresh /\ n \notin s.ended
  BY <1>1, <1>2 DEF Follows
<1>5. \A n \in held \ fresh : n \notin s.ended => n \in held' \ fresh'
  BY <1>1, <1>2 DEF Follows
<1>6. \A h \in present : h \in hits /\ h.note \in held' \ fresh'
  BY <1>5 DEF LineInv
<1>7. seen \in Nat /\ \A n \in Notes : from[n] \in Nat
  BY DEF TypeOK
<1>8. \A n \in held' : from'[n] \in Nat /\ from'[n] >= seen
  <2>1. TAKE n \in held'
  <2>2. n \in Notes /\ n \in s.held
    BY <1>2, <1>3
  <2>3. from'[n] = IF n \in held \ s.ended THEN from[n] ELSE seen
    BY <1>2, <2>2
  <2>4. QED
    BY <1>7, <2>2, <2>3 DEF LineInv
<1>9. CASE Seek(present)
  <2>1. present \in SUBSET hits
    OBVIOUS
  <2> HIDE DEF present
  <2>2. QED
    BY <1>2, <1>3, <1>6, <1>8, <1>9, <2>1, SeekLines
<1>10. CASE hits' = present /\ UNCHANGED <<frontier, again>>
  <2>1. \A n \in held' \ fresh' : from'[n] = from[n]
    BY <1>2, <1>3, <1>4
  <2>2. \A n \in held' \ fresh' :
          \A l \in from'[n] .. (frontier' - 1) :
            l % grid' = 0 => [note |-> n, line |-> l] \in hits'
    BY <1>2, <1>4, <1>10, <2>1 DEF LineInv, NoLineIsMissed
  <2>3. \A h \in hits' : h.note \in held' \ fresh' /\ (h.line < frontier' \/ h \in again')
    BY <1>6, <1>10 DEF LineInv
  <2>4. QED
    BY <1>2, <1>8, <1>10, <2>2, <2>3 DEF LineInv, NoLineIsMissed
<1>11. QED
  BY <1>2, <1>9, <1>10

LEMMA ChunkLines ==
    ASSUME TypeOK, TimeInv, LineInv, NEW duration \in Durations \cup {None},
           PlanChunk(duration)
    PROVE  LineInv'
<1> DEFINE released == Released(Manual)
           end == ChunkEnd(released)
           t == Engaged(released, duration)
           rolls == t.mode /\ held # {}
           new == IF rolls THEN CatchUp \cup Regular(end) ELSE {}
<1>1. end \in Nat /\ frontier <= end
  BY ChunkEndBounds DEF PlanChunk
<1>2. /\ fresh' = IF rolls THEN {} ELSE fresh
      /\ hits' = hits \cup new /\ again' = again \ new
      /\ twice' = (\/ twice \/ new \cap (hits \ again) # {}
                   \/ rolls /\ CatchUp \cap Regular(end) # {})
      /\ from' = [n \in Notes |->
                    IF n \notin held THEN 0
                    ELSE IF ~t.mode THEN end
                    ELSE IF rate # grid /\ n \notin fresh THEN frontier
                    ELSE from[n]]
      /\ grid' = rate /\ frontier' = end
      /\ UNCHANGED <<held, seen, rendered>>
  BY DEF PlanChunk
<1> HIDE DEF released, end, t
<1>3. /\ seen \in Nat /\ frontier \in Nat /\ seen <= frontier
      /\ held \subseteq Notes /\ fresh \subseteq held
      /\ from \in [Notes -> Nat] /\ hits \subseteq Hits
  BY DEF TypeOK, TimeInv
<1>4. /\ \A h \in CatchUp : h.note \in fresh /\ h.line \in seen .. (frontier - 1)
      /\ \A n \in fresh, l \in seen .. (frontier - 1) :
           l % rate = 0 => [note |-> n, line |-> l] \in CatchUp
  BY <1>3, HitsTypes DEF CatchUp
<1>5. /\ \A h \in Regular(end) : h.note \in held /\ h.line \in frontier .. (end - 1)
      /\ \A n \in held, l \in frontier .. (end - 1) :
           l % rate = 0 => [note |-> n, line |-> l] \in Regular(end)
  BY <1>3, HitsTypes DEF Regular
<1>6. ~twice'
  <2>1. \A h \in CatchUp : h \notin Regular(end) /\ h \notin hits
    BY <1>3, <1>4, <1>5 DEF LineInv
  <2>2. \A h \in Regular(end) : h \notin hits \ again
    BY <1>1, <1>3, <1>5 DEF LineInv, Hits
  <2>3. QED
    BY <1>2, <2>1, <2>2 DEF LineInv
<1>7. \A h \in hits' : h.note \in held' \ fresh' /\ (h.line < frontier' \/ h \in again')
  <2>1. \A h \in hits : h.note \in held \ fresh /\ (h.line < end \/ h \in again)
    BY <1>1, <1>3 DEF LineInv, Hits
  <2>2. \A h \in new : h.line < end /\ h.note \in held /\ rolls
    BY <1>1, <1>3, <1>4, <1>5
  <2> HIDE DEF new, rolls
  <2>3. QED
    BY <1>2, <2>1, <2>2
<1>8. \A n \in held' : from'[n] >= seen'
  <2>1. end >= seen /\ frontier >= seen /\ \A n \in held : from[n] >= seen
    BY <1>1, <1>3 DEF LineInv
  <2>2. QED
    BY <1>2, <1>3, <2>1
<1>9. ASSUME NEW n \in held' \ fresh', NEW l \in from'[n] .. (frontier' - 1), l % grid' = 0
      PROVE  [note |-> n, line |-> l] \in hits'
  <2>1. n \in Notes /\ n \in held /\ from[n] \in Nat
    BY <1>2, <1>3, <1>9
  <2>2. from'[n] = IF ~t.mode THEN end
                   ELSE IF rate # grid /\ n \notin fresh THEN frontier
                   ELSE from[n]
    BY <1>2, <2>1
  <2>3. from'[n] \in Nat /\ from'[n] >= seen
    BY <1>1, <1>2, <1>3, <1>8, <2>1, <2>2
  <2>4. l \in Nat /\ from'[n] <= l /\ l < end /\ seen <= l /\ l % rate = 0
    BY <1>1, <1>2, <1>3, <1>9, <2>3
  <2>5. t.mode
    BY <1>1, <1>3, <2>2, <2>4
  <2>6. new = CatchUp \cup Regular(end) /\ fresh' = {}
    BY <1>2, <2>1, <2>5
  <2>7. [note |-> n, line |-> l] \in hits \cup new
    <3>1. CASE frontier <= l
      <4>1. l \in frontier .. (end - 1)
        BY <1>1, <1>3, <2>4, <3>1
      <4>2. QED
        BY <1>5, <2>1, <2>4, <2>6, <4>1
    <3>2. CASE l < frontier /\ n \in fresh
      <4>1. l \in seen .. (frontier - 1)
        BY <1>3, <2>4, <3>2
      <4>2. QED
        BY <1>4, <2>4, <2>6, <3>2, <4>1
    <3>3. CASE l < frontier /\ n \notin fresh
      <4>1. rate = grid
        BY <1>3, <2>2, <2>4, <2>5, <3>3
      <4>2. l \in from[n] .. (frontier - 1)
        BY <1>3, <2>1, <2>2, <2>4, <2>5, <3>3, <4>1
      <4>3. QED
        BY <2>1, <2>4, <3>3, <4>1, <4>2 DEF LineInv, NoLineIsMissed
    <3>4. QED
      BY <1>3, <2>4, <3>1, <3>2, <3>3
  <2> HIDE DEF new, rolls
  <2>8. QED
    BY <1>2, <2>7
<1>10. \A h \in again' : h.line < rendered'
  BY <1>2 DEF LineInv
<1>11. QED
  BY <1>6, <1>7, <1>8, <1>9, <1>10 DEF LineInv, NoLineIsMissed

\* A pass forgets the hits that have sounded, and asks for no line before them.
LEMMA PollLines ==
    ASSUME TypeOK, TimeInv, LineInv, Poll
    PROVE  LineInv'
<1>1. /\ seen' = rendered /\ hits' = {h \in hits : h.line >= rendered} /\ again' = {}
      /\ from' = [n \in Notes |-> IF n \in held THEN Later(from[n], rendered) ELSE 0]
      /\ UNCHANGED <<held, fresh, frontier, twice, grid>>
  BY DEF Poll, notes
<1>2. held \subseteq Notes /\ rendered \in Nat /\ frontier \in Nat /\ hits \subseteq Hits
      /\ \A n \in held : from[n] \in Nat
  BY DEF TypeOK
<1>3. \A n \in held : from'[n] \in Nat /\ from'[n] >= rendered /\ from'[n] >= from[n]
  BY <1>1, <1>2 DEF Later
<1>4. \A n \in held \ fresh : \A l \in from'[n] .. (frontier - 1) :
        l \in from[n] .. (frontier - 1) /\ l >= rendered
  BY <1>2, <1>3
<1>5. \A h \in hits' : h.line < frontier /\ h.note \in held \ fresh
  BY <1>1, <1>2 DEF LineInv, Hits
<1>6. QED
  BY <1>1, <1>3, <1>4, <1>5 DEF LineInv, NoLineIsMissed

LEMMA LinesKept == TypeOK /\ TimeInv /\ LineInv /\ [Next]_vars => LineInv'
<1> SUFFICES ASSUME TypeOK, TimeInv, LineInv, [Next]_vars PROVE LineInv'
  OBVIOUS
<1>1. ASSUME NEW seeks \in BOOLEAN, DrainCommands(seeks)
      PROVE  LineInv'
  BY <1>1, DrainLines
<1>2. ASSUME NEW duration \in Durations \cup {None}, PlanChunk(duration)
      PROVE  LineInv'
  BY <1>2, ChunkLines
<1>3. CASE Parked
  <2>1. /\ frontier' = 0 /\ seen' = 0 /\ rendered' = 0 /\ hits' = {} /\ again' = {}
        /\ from' = [n \in Notes |-> 0] /\ held' \subseteq held /\ twice' = twice
    BY <1>3 DEF Parked
  <2>2. held \subseteq Notes
    BY DEF TypeOK
  <2>3. \A n \in held' : from'[n] = 0
    BY <2>1, <2>2
  <2>4. QED
    BY <2>1, <2>3 DEF LineInv, NoLineIsMissed
<1>4. CASE StartChunks
  <2>1. /\ Seek(hits) \/ UNCHANGED <<frontier, hits, again>>
        /\ UNCHANGED <<held, fresh, seen, rendered, twice, from, grid>>
    BY <1>4 DEF StartChunks, notes
  <2>2. CASE Seek(hits)
    <3>1. held' \subseteq Notes /\ fresh' \subseteq held'
      BY <2>1 DEF TypeOK
    <3>2. \A n \in held' : from'[n] \in Nat /\ from'[n] >= seen
      BY <2>1 DEF LineInv, TypeOK
    <3>3. \A h \in hits : h.note \in held' \ fresh'
      BY <2>1 DEF LineInv
    <3>4. hits \in SUBSET hits
      OBVIOUS
    <3>5. QED
      BY <2>1, <2>2, <3>1, <3>2, <3>3, <3>4, SeekLines
  <2>3. CASE UNCHANGED <<frontier, hits, again>>
    BY <2>1, <2>3 DEF LineInv, NoLineIsMissed
  <2>4. QED
    BY <2>1, <2>2, <2>3
<1>5. CASE Render
  <2>1. rendered' = rendered + 1
        /\ UNCHANGED <<held, fresh, frontier, seen, twice, hits, again, from, grid>>
    BY <1>5 DEF Render, notes, sound
  <2>2. \A h \in again : h.line < rendered'
    BY <2>1 DEF LineInv, TypeOK, Hits
  <2>3. QED
    BY <2>1, <2>2 DEF LineInv, NoLineIsMissed
<1>6. CASE Poll
  BY <1>6, PollLines
<1>7. CASE Control \/ HoldStart \/ EndPass \/ UNCHANGED vars
  <2>1. UNCHANGED <<held, fresh, frontier, seen, rendered, twice, hits, again, from, grid>>
    BY <1>7 DEF vars, notes, time, sound, Control, Push, PressKey, ReleaseKey, HoldSource,
                ChooseRate, ToggleRollMode, Start, Stop, PublishStop, EditPattern, HoldStart,
                EndPass
  <2>2. QED
    BY <2>1 DEF LineInv, NoLineIsMissed
<1>8. QED
  BY <1>1, <1>2, <1>3, <1>4, <1>5, <1>6, <1>7 DEF Next, Worker

-----------------------------------------------------------------------------
(* The invariant and the theorems                                          *)

LEMMA InitIInv == Init => IInv
<1> SUFFICES ASSUME Init PROVE IInv
  OBVIOUS
<1>1. TypeOK
  BY TypesInit
<1>2. PendingInv
  BY DEF Init, PendingInv
<1>3. HoldInv
  <2>1. commands = <<>> /\ held = {} /\ promised = {} /\ lost = {} /\ process = None
        /\ windows = FALSE /\ sources = {}
    BY DEF Init
  <2>2. {} \in SUBSET Notes
    OBVIOUS
  <2>3. Applied(<<>>, held, {}, FALSE).held = held
    BY <2>1, <2>2, NothingHeld
  <2>4. ~Steers
    BY <2>1, HasNone DEF Steers
  <2>5. AfterCommands(held) = promised \ lost
    BY <2>1, <2>3 DEF AfterCommands
  <2>6. QED
    BY <2>1, <2>4, <2>5 DEF HoldInv
<1>4. KeyInv
  BY KeyCommandKinds DEF Init, KeyInv
<1>5. ModeInv /\ RollingInv
  BY DEF Init, ModeInv, RollingInv
<1>6. TimeInv
  BY TimeAssumption DEF Init, TimeInv
<1>7. LineInv
  BY DEF Init, LineInv, NoLineIsMissed
<1>8. QED
  BY <1>1, <1>2, <1>3, <1>4, <1>5, <1>6, <1>7 DEF IInv

LEMMA IInvKept == IInv /\ [Next]_vars => IInv'
<1> SUFFICES ASSUME IInv, [Next]_vars PROVE IInv'
  OBVIOUS
<1>1. TypeOK /\ PendingInv /\ HoldInv /\ KeyInv /\ ModeInv /\ RollingInv
      /\ TimeInv /\ LineInv
  BY DEF IInv
<1>2. TypeOK' /\ PendingInv'
  BY <1>1, TypesKept, PendingKept
<1>3. HoldInv'
  BY <1>1, HoldKept
<1>4. KeyInv' /\ ModeInv' /\ RollingInv'
  BY <1>1, KeyKept, ModeKept, RollingKept
<1>5. TimeInv' /\ LineInv'
  BY <1>1, TimeKept, LinesKept
<1>6. QED
  BY <1>2, <1>3, <1>4, <1>5 DEF IInv

LEMMA Invariant == Spec => []IInv
  BY InitIInv, IInvKept, PTL DEF Spec

(* Every variable keeps its type: among others a process roll always has a   *)
(* window, and a fresh note is held.                                         *)
THEOREM TypeCorrect == Spec => []TypeOK
<1>1. IInv => TypeOK
  BY DEF IInv
<1>2. QED
  BY <1>1, Invariant, PTL

(* What the worker holds once it has drained what is queued is what the      *)
(* gestures asked for, whichever notes, sources and grids there are, and     *)
(* however many commands wait.                                               *)
THEOREM HoldsFollow == Spec => []HoldsFollowGestures
<1>1. IInv => HoldsFollowGestures
  <2> SUFFICES ASSUME IInv PROVE HoldsFollowGestures
    OBVIOUS
  <2>1. TypeOK /\ HoldInv
    BY DEF IInv
  <2>2. held \in SUBSET Notes /\ fresh \in SUBSET held /\ windows \in BOOLEAN
    BY <2>1 DEF TypeOK
  <2>3. /\ Steers => Applied(commands, held, fresh, windows).windows
                       = Applied(commands, {}, {}, FALSE).windows
        /\ ~Steers => Applied(commands, held, fresh, windows).windows = windows
    BY <2>1, <2>2, WindowAfter
  <2>4. process = None => Applied(commands, held, fresh, windows).windows = (sources # {})
    BY <2>1, <2>3 DEF HoldInv
  <2>5. QED
    BY <2>1, <2>4 DEF HoldInv, HoldsFollowGestures
<1>2. QED
  BY <1>1, Invariant, PTL

(* With roll mode on and nothing in flight, every held note is a key that is *)
(* down and was pressed to roll, or one released while the mode was off.     *)
THEOREM RollingKeysAreDownOrDropped == Spec => []RollingKeysAreDownUnlessDropped
<1>1. IInv => RollingKeysAreDownUnlessDropped
  <2> SUFFICES ASSUME IInv, Quiet PROVE \A n \in held : keys[n] = "rolls" \/ n \in dropped
    BY DEF RollingKeysAreDownUnlessDropped
  <2>1. TypeOK /\ HoldInv /\ KeyInv /\ pending = None /\ commands = <<>>
    BY DEF IInv, Quiet
  <2>2. held \subseteq Notes
    BY <2>1 DEF TypeOK
  <2>3. AfterCommands(held) = held
    BY <2>1, <2>2, NothingHeld DEF AfterCommands
  <2>4. held \subseteq promised
    BY <2>1, <2>3 DEF HoldInv
  <2>5. QED
    BY <2>1, <2>2, <2>4, KeyCommandKinds DEF KeyInv
<1>2. QED
  BY <1>1, Invariant, PTL

(* For a held key every line of the grid is planned, and planned once, for   *)
(* any grids, block and lookahead and through seeks that take the frontier   *)
(* back; except that a line played between a pass's reading the render head  *)
(* and its seek is planned once more.                                        *)
THEOREM LinesSound == Spec => []EveryLineSoundsOnce
<1>1. IInv => EveryLineSoundsOnce
  BY DEF IInv, LineInv, EveryLineSoundsOnce, LinesSoundOnce
<1>2. QED
  BY <1>1, Invariant, PTL

(* A process roll gives roll mode and sequence_rolling back, however it ends. *)
THEOREM ProcessRollReturns == Spec => []ProcessRollGivesBack
<1>1. IInv => ProcessRollGivesBack
  <2> SUFFICES ASSUME IInv PROVE ProcessRollGivesBack
    OBVIOUS
  <2>1. ModeInv /\ RollingInv /\ rolling \in BOOLEAN
    BY DEF IInv, TypeOK
  <2>2. RollModeIsRestored
    BY <2>1 DEF ModeInv, RollModeIsRestored
  <2>3. ASSUME Quiet, ~overwritten
        PROVE  rolling = (sources # {} \/ process # None)
    <3>1. ~Has(commands, "ClearAll") /\ ~Has(commands, "SequenceRoll")
      BY <2>3, HasNone DEF Quiet
    <3>2. QED
      BY <2>1, <2>3, <3>1 DEF RollingInv, Steers
  <2>4. QED
    BY <2>2, <2>3 DEF ProcessRollGivesBack, RollingIsMirrored
<1>2. QED
  BY <1>1, Invariant, PTL
=============================================================================
