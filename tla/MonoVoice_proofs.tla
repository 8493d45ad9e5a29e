--------------------------- MODULE MonoVoice_proofs ---------------------------
(***************************************************************************)
(* Proofs about MonoVoice, for any keys, pitches, notes, gate lengths,     *)
(* block length and capacities: the held keys and their order, then the    *)
(* gate and its one gate-off, then the phrase that the holds stand for,    *)
(* and last the types.                                                     *)
(***************************************************************************)
EXTENDS MonoVoice, FiniteSetTheorems, SequenceTheorems, WellFoundedInduction, TLAPS

\* The keys that are held are keys that are down, each of them once.
HeldTypes ==
    /\ down \subseteq Keys
    /\ held \in Seq(Keys) /\ IsInjective(held) /\ \A i \in DOMAIN held : held[i] \in down
    /\ priority \in Priorities /\ setting \in Priorities

\* The key at i is as good as any, and better than the newer ones.
BestAt(p, keys, i) ==
    \A j \in DOMAIN keys :
        /\ Prefers(p, Pitch[keys[i]], Pitch[keys[j]])
        /\ j > i => ~Prefers(p, Pitch[keys[j]], Pitch[keys[i]])

\* The best of the held keys is the one that is current, and owns the voice.
OwnerInv ==
    held # <<>> =>
        /\ owner = current
        /\ \E i \in DOMAIN held : held[i] = current /\ BestAt(priority, held, i)

KeysInv == HeldTypes /\ OwnerInv /\ NoHangingNote

-----------------------------------------------------------------------------
(* Sets of numbers, and sequences                                          *)

\* A set of natural numbers has a least one.
LEMMA LeastNatural ==
    ASSUME NEW T, T \subseteq Nat, T # {}
    PROVE  \E x \in T : \A y \in T : x <= y
<1> DEFINE R == OpToRel(<, Nat)
<1>1. IsWellFoundedOn(R, Nat)
  BY NatLessThanWellFounded
<1>2. \A x, y \in Nat : x < y => <<x, y>> \in R
  BY DEF OpToRel
<1> HIDE DEF R
<1>3. PICK x \in T : \A y \in T : <<y, x>> \notin R
  BY <1>1, WFMin
<1>4. \A y \in T : ~(y < x)
  BY <1>2, <1>3, Zenon
<1>5. \A y \in T : x <= y
  BY <1>4
<1>6. QED
  BY <1>5

\* A bounded one has a greatest.
LEMMA GreatestNatural ==
    ASSUME NEW n \in Nat, NEW T, T \subseteq 1 .. n, T # {}
    PROVE  \E x \in T : \A y \in T : y <= x
<1> DEFINE gaps == {n - x : x \in T}
<1>1. gaps \subseteq Nat /\ gaps # {}
  <2>1. \A x \in T : x \in 1 .. n /\ n - x \in Nat
    OBVIOUS
  <2>2. QED
    BY <2>1
<1>2. PICK g \in gaps : \A h \in gaps : g <= h
  <2> HIDE DEF gaps
  <2>1. QED
    BY <1>1, LeastNatural
<1>3. PICK x \in T : g = n - x
  BY <1>2
<1>4. \A y \in T : n - x <= n - y
  BY <1>2, <1>3
<1>5. \A y \in T : y <= x
  BY <1>4
<1>6. QED
  BY <1>5

\* A sequence of natural numbers has a greatest element: the shortest prefix
\* without one would be a longer one than one that has.
LEMMA GreatestElement ==
    ASSUME NEW n \in Nat \ {0}, NEW f, \A i \in 1 .. n : f[i] \in Nat
    PROVE  \E i \in 1 .. n : \A j \in 1 .. n : f[i] >= f[j]
<1> DEFINE Has(m) == \E i \in 1 .. m : \A j \in 1 .. m : f[i] >= f[j]
           without == {m \in 1 .. n : ~Has(m)}
<1>1. SUFFICES ASSUME without # {} PROVE FALSE
  <2>1. n \in 1 .. n
    OBVIOUS
  <2>2. without = {} => Has(n)
    BY <2>1
  <2>3. QED
    BY <1>1, <2>2
<1>2. without \subseteq Nat
  OBVIOUS
<1>3. PICK m \in without : \A k \in without : m <= k
  <2> HIDE DEF without
  <2>1. QED
    BY <1>1, <1>2, LeastNatural
<1>4. m \in 1 .. n /\ ~Has(m)
  OBVIOUS
<1>5. CASE m = 1
  <2>1. f[1] \in Nat
    OBVIOUS
  <2>2. \A j \in 1 .. 1 : f[1] >= f[j]
    BY <2>1
  <2>3. QED
    BY <1>4, <1>5, <2>2
<1>6. CASE m # 1
  <2>1. m - 1 \in 1 .. n /\ m - 1 \notin without
    <3>1. m - 1 \in 1 .. n /\ ~(m <= m - 1)
      BY <1>4, <1>6
    <3>2. QED
      <4> HIDE DEF without
      <4>1. QED
        BY <1>3, <3>1
  <2>2. PICK i \in 1 .. (m - 1) : \A j \in 1 .. (m - 1) : f[i] >= f[j]
    BY <2>1
  <2>3. i \in 1 .. m /\ m \in 1 .. m /\ f[i] \in Nat /\ f[m] \in Nat
    BY <1>4, <2>1
  <2>4. \A j \in 1 .. m : j \in 1 .. (m - 1) \/ j = m
    BY <1>4
  <2>5. CASE f[i] >= f[m]
    <3>1. \A j \in 1 .. m : f[i] >= f[j]
      BY <2>2, <2>4, <2>5
    <3>2. QED
      BY <1>4, <2>3, <3>1
  <2>6. CASE f[m] > f[i]
    <3>1. \A j \in 1 .. (m - 1) : f[j] \in Nat
      BY <1>4
    <3>2. \A j \in 1 .. m : f[m] >= f[j]
      BY <2>2, <2>3, <2>4, <2>6, <3>1
    <3>3. QED
      BY <1>4, <2>3, <3>2
  <2>7. QED
    BY <2>3, <2>5, <2>6
<1>7. QED
  BY <1>5, <1>6

\* And a least one.
LEMMA LeastElement ==
    ASSUME NEW n \in Nat \ {0}, NEW f, \A i \in 1 .. n : f[i] \in Nat
    PROVE  \E i \in 1 .. n : \A j \in 1 .. n : f[i] <= f[j]
<1> DEFINE values == {f[i] : i \in 1 .. n}
<1>1. values \subseteq Nat /\ values # {}
  <2>1. 1 \in 1 .. n
    OBVIOUS
  <2>2. QED
    BY <2>1
<1>2. PICK x \in values : \A y \in values : x <= y
  <2> HIDE DEF values
  <2>1. QED
    BY <1>1, LeastNatural
<1>3. QED
  BY <1>2

\* Removing at an index: what is before it stays, what is after it moves down.
LEMMA RemoveAtProperties ==
    ASSUME NEW S, NEW s \in Seq(S), NEW d \in 1 .. Len(s)
    PROVE  /\ RemoveAt(s, d) \in Seq(S)
           /\ Len(RemoveAt(s, d)) = Len(s) - 1
           /\ \A j \in 1 .. Len(s) - 1 :
                 RemoveAt(s, d)[j] = IF j < d THEN s[j] ELSE s[j + 1]
<1> DEFINE before == SubSeq(s, 1, d - 1)
           after  == SubSeq(s, d + 1, Len(s))
<1>1. /\ Len(s) \in Nat /\ 1 \in Int /\ d - 1 \in Int /\ d + 1 \in Int /\ Len(s) \in Int
      /\ \A i \in 1 .. d - 1 : s[i] \in S
      /\ \A i \in d + 1 .. Len(s) : s[i] \in S
  OBVIOUS
<1>2. /\ before \in Seq(S) /\ Len(before) = d - 1
      /\ \A i \in 1 .. d - 1 : before[i] = s[i]
  <2>1. /\ before \in Seq(S)
        /\ Len(before) = IF 1 <= d - 1 THEN (d - 1) - 1 + 1 ELSE 0
        /\ \A i \in 1 .. (d - 1) - 1 + 1 : before[i] = s[1 + i - 1]
    BY <1>1, SubSeqProperties
  <2>2. QED
    BY <2>1
<1>3. /\ after \in Seq(S) /\ Len(after) = Len(s) - d
      /\ \A i \in 1 .. Len(s) - d : after[i] = s[d + i]
  <2>1. /\ after \in Seq(S)
        /\ Len(after) = IF d + 1 <= Len(s) THEN Len(s) - (d + 1) + 1 ELSE 0
        /\ \A i \in 1 .. Len(s) - (d + 1) + 1 : after[i] = s[(d + 1) + i - 1]
    BY <1>1, SubSeqProperties
  <2>2. QED
    BY <1>1, <2>1
<1> HIDE DEF before, after
<1>4. /\ before \o after \in Seq(S)
      /\ Len(before \o after) = Len(before) + Len(after)
      /\ \A i \in 1 .. Len(before) + Len(after) :
            (before \o after)[i] = IF i <= Len(before) THEN before[i] ELSE after[i - Len(before)]
  BY <1>2, <1>3, ConcatProperties
<1>5. \A j \in 1 .. Len(s) - 1 : (before \o after)[j] = IF j < d THEN s[j] ELSE s[j + 1]
  BY <1>1, <1>2, <1>3, <1>4
<1>6. RemoveAt(s, d) = before \o after
  BY DEF RemoveAt, before, after
<1>7. Len(before) + Len(after) = Len(s) - 1
  BY <1>1, <1>2, <1>3
<1>8. QED
  BY <1>4, <1>5, <1>6, <1>7
-----------------------------------------------------------------------------
(* The held keys                                                           *)

\* To be preferred to one that is preferred is to be preferred.
LEMMA PrefersOrders ==
    ASSUME NEW p \in Priorities, NEW a \in Nat, NEW b \in Nat, NEW c \in Nat,
           Prefers(p, a, c), ~Prefers(p, b, c)
    PROVE  ~Prefers(p, b, a)
<1>1. CASE p = "last"
  BY <1>1 DEF Prefers
<1>2. CASE p = "high"
  <2>1. \A x, y : Prefers("high", x, y) <=> x >= y
    BY DEF Prefers
  <2>2. QED
    BY <1>2, <2>1
<1>3. CASE p = "low"
  <2>1. \A x, y : Prefers("low", x, y) <=> x <= y
    BY DEF Prefers
  <2>2. QED
    BY <1>3, <2>1
<1>4. QED
  BY <1>1, <1>2, <1>3 DEF Priorities

\* Where all the keys that could be selected are, there is a newest one.
LEMMA SelectedIsBest ==
    ASSUME NEW p \in Priorities, NEW keys \in Seq(Keys), keys # <<>>
    PROVE  \E i \in DOMAIN keys : Selected(p, keys) = keys[i] /\ BestAt(p, keys, i)
<1> DEFINE n == Len(keys)
           pitch(i) == Pitch[keys[i]]
           best == {i \in DOMAIN keys :
                      \A j \in DOMAIN keys : Prefers(p, Pitch[keys[i]], Pitch[keys[j]])}
           f == [i \in 1 .. n |-> Pitch[keys[i]]]
<1>1. /\ DOMAIN keys = 1 .. n /\ n \in Nat \ {0}
      /\ \A i \in 1 .. n : f[i] = Pitch[keys[i]] /\ f[i] \in Nat
  BY NoteAssumption
<1>2. best # {}
  <2> HIDE DEF f
  <2>1. CASE p = "last"
    <3>1. 1 \in DOMAIN keys
      BY <1>1
    <3>2. \A j \in DOMAIN keys : Prefers(p, Pitch[keys[1]], Pitch[keys[j]])
      BY <2>1 DEF Prefers
    <3>3. QED
      BY <3>1, <3>2
  <2>2. CASE p = "high"
    <3>1. PICK i \in 1 .. n : \A j \in 1 .. n : f[i] >= f[j]
      <4> HIDE DEF n
      <4>1. QED
        BY <1>1, GreatestElement
    <3>2. \A j \in DOMAIN keys : Prefers(p, Pitch[keys[i]], Pitch[keys[j]])
      <4>1. \A a, b : Prefers("high", a, b) <=> a >= b
        BY DEF Prefers
      <4>2. QED
        BY <1>1, <2>2, <3>1, <4>1
    <3>3. QED
      BY <1>1, <3>2
  <2>3. CASE p = "low"
    <3>1. PICK i \in 1 .. n : \A j \in 1 .. n : f[i] <= f[j]
      <4> HIDE DEF n
      <4>1. QED
        BY <1>1, LeastElement
    <3>2. \A j \in DOMAIN keys : Prefers(p, Pitch[keys[i]], Pitch[keys[j]])
      <4>1. \A a, b : Prefers("low", a, b) <=> a <= b
        BY DEF Prefers
      <4>2. QED
        BY <1>1, <2>3, <3>1, <4>1
    <3>3. QED
      BY <1>1, <3>2
  <2>4. QED
    BY <2>1, <2>2, <2>3 DEF Priorities
<1>3. \E i \in best : \A j \in best : j <= i
  <2>1. best \subseteq 1 .. n /\ n \in Nat
    BY <1>1
  <2>2. QED
    <3> HIDE DEF best, n
    <3>1. QED
      BY <1>2, <2>1, GreatestNatural
<1> DEFINE i == CHOOSE i \in best : \A j \in best : j <= i
<1>4. i \in best /\ \A j \in best : j <= i
  <2> HIDE DEF best
  <2>1. QED
    BY <1>3
<1>5. Selected(p, keys) = keys[i]
  BY DEF Selected
<1> HIDE DEF i
<1>6. \A j \in DOMAIN keys : j > i => j \notin best
  <2>1. i \in Nat
    BY <1>1, <1>4
  <2>2. \A j \in DOMAIN keys : j \in Nat
    BY <1>1
  <2> HIDE DEF best
  <2>3. QED
    BY <1>4, <2>1, <2>2
<1>7. BestAt(p, keys, i)
  <2>1. ASSUME NEW j \in DOMAIN keys, j > i
        PROVE  ~Prefers(p, Pitch[keys[j]], Pitch[keys[i]])
    <3>1. PICK m \in DOMAIN keys : ~Prefers(p, Pitch[keys[j]], Pitch[keys[m]])
      BY <1>6, <2>1
    <3>2. Prefers(p, Pitch[keys[i]], Pitch[keys[m]])
      BY <1>4, <3>1
    <3>3. Pitch[keys[i]] \in Nat /\ Pitch[keys[j]] \in Nat /\ Pitch[keys[m]] \in Nat
      BY <1>1, <1>4
    <3>4. QED
      BY <3>1, <3>2, <3>3, PrefersOrders
  <2>2. QED
    BY <1>4, <2>1 DEF BestAt
<1>8. QED
  BY <1>4, <1>5, <1>7

\* Removing a key that is held leaves the others, in their order.
LEMMA WithoutKeeps ==
    ASSUME HeldTypes, NEW k
    PROVE  /\ Without(k) \in Seq(Keys) /\ IsInjective(Without(k))
           /\ \A i \in DOMAIN Without(k) : Without(k)[i] \in down /\ Without(k)[i] # k
           /\ \E d \in 1 .. Len(held) + 1 :
                 /\ d <= Len(held) => held[d] = k
                 /\ Len(Without(k)) = IF d <= Len(held) THEN Len(held) - 1 ELSE Len(held)
                 /\ \A j \in DOMAIN Without(k) :
                       Without(k)[j] = IF j < d THEN held[j] ELSE held[j + 1]
<1>1. /\ held \in Seq(Keys) /\ IsInjective(held) /\ DOMAIN held = 1 .. Len(held)
      /\ Len(held) \in Nat /\ \A i \in DOMAIN held : held[i] \in down
      /\ \A i, j \in DOMAIN held : held[i] = held[j] => i = j
  BY DEF HeldTypes, IsInjective
<1>2. CASE k \in Range(held)
  <2> DEFINE d == Position(k)
             rest == Without(k)
  <2>1. d \in 1 .. Len(held) /\ held[d] = k
    BY <1>1, <1>2 DEF Position, Range
  <2>2. rest = RemoveAt(held, d)
    BY <1>2 DEF Without
  <2> HIDE DEF d, rest
  <2>3. /\ rest \in Seq(Keys) /\ Len(rest) = Len(held) - 1
        /\ \A j \in 1 .. Len(held) - 1 : rest[j] = IF j < d THEN held[j] ELSE held[j + 1]
    <3>1. held \in Seq(Keys)
      BY <1>1
    <3>2. QED
      BY <2>1, <2>2, <3>1, RemoveAtProperties
  <2>4. DOMAIN rest = 1 .. Len(held) - 1
    BY <2>3
  <2> DEFINE at(j) == IF j < d THEN j ELSE j + 1
  <2>5. \A j \in DOMAIN rest : at(j) \in DOMAIN held /\ at(j) # d /\ rest[j] = held[at(j)]
    BY <1>1, <2>1, <2>3, <2>4
  <2>6. \A i, j \in DOMAIN rest : at(i) = at(j) => i = j
    BY <1>1, <2>1, <2>4
  <2> HIDE DEF at
  <2>7. \A j \in DOMAIN rest : rest[j] \in down /\ rest[j] # k
    BY <1>1, <2>1, <2>5
  <2>8. IsInjective(rest)
    BY <1>1, <2>5, <2>6 DEF IsInjective
  <2>9. /\ d \in 1 .. Len(held) + 1
        /\ Len(rest) = IF d <= Len(held) THEN Len(held) - 1 ELSE Len(held)
        /\ \A j \in DOMAIN rest : rest[j] = IF j < d THEN held[j] ELSE held[j + 1]
    BY <1>1, <2>1, <2>3, <2>4
  <2>10. QED
    BY <2>1, <2>3, <2>7, <2>8, <2>9 DEF rest
<1>3. CASE k \notin Range(held)
  <2>1. Without(k) = held
    BY <1>3 DEF Without
  <2>2. \A i \in DOMAIN held : held[i] # k
    BY <1>3 DEF Range
  <2>3. /\ Len(held) + 1 \in 1 .. Len(held) + 1 /\ ~(Len(held) + 1 <= Len(held))
        /\ \A j \in DOMAIN held : j < Len(held) + 1
    BY <1>1
  <2>4. QED
    BY <1>1, <2>1, <2>2, <2>3
<1>4. QED
  BY <1>2, <1>3
\* The place at which an element of a sequence of length n was before the one at
\* d, if there is one, was removed; and the place at which it is then.
Before(d, j) == IF j < d THEN j ELSE j + 1
After(d, i)  == IF i < d THEN i ELSE i - 1

LEMMA PlacesMove ==
    ASSUME NEW n \in Nat, NEW d \in 1 .. n + 1, NEW l \in Nat,
           l = IF d <= n THEN n - 1 ELSE n
    PROVE  /\ \A j \in 1 .. l : Before(d, j) \in 1 .. n
           /\ \A i \in 1 .. n : i # d =>
                 /\ After(d, i) \in 1 .. l /\ Before(d, After(d, i)) = i
                 /\ \A j \in 1 .. l : j > After(d, i) => Before(d, j) > i
<1>1. l \in {n - 1, n} /\ (d <= n => l = n - 1) /\ (~(d <= n) => l = n)
  OBVIOUS
<1>2. \A j \in 1 .. l : Before(d, j) \in 1 .. n
  BY <1>1 DEF Before
<1>3. ASSUME NEW i \in 1 .. n, i # d
      PROVE  /\ After(d, i) \in 1 .. l /\ Before(d, After(d, i)) = i
             /\ \A j \in 1 .. l : j > After(d, i) => Before(d, j) > i
  BY <1>1, <1>3 DEF Before, After
<1>4. QED
  BY <1>2, <1>3

\* Pressing a key puts it last; the others were held before.
LEMMA PressedKeeps ==
    ASSUME HeldTypes, NEW k \in Keys
    PROVE  /\ Pressed(k) \in Seq(Keys) /\ Pressed(k) # <<>> /\ IsInjective(Pressed(k))
           /\ \A i \in DOMAIN Pressed(k) :
                 \/ Pressed(k)[i] = k
                 \/ \E j \in DOMAIN held : held[j] = Pressed(k)[i]
<1> DEFINE others == Without(k)
           kept == IF Len(others) = HeldCapacity THEN Tail(others) ELSE others
<1>1. /\ others \in Seq(Keys) /\ DOMAIN others = 1 .. Len(others) /\ Len(others) \in Nat
      /\ \A i, j \in DOMAIN others : others[i] = others[j] => i = j
      /\ \A i \in DOMAIN others : others[i] # k /\ \E j \in DOMAIN held : held[j] = others[i]
  <2>1. /\ others \in Seq(Keys) /\ IsInjective(others)
        /\ \A i \in DOMAIN others : others[i] \in down /\ others[i] # k
    BY WithoutKeeps
  <2>2. held \in Seq(Keys)
    BY DEF HeldTypes
  <2>3. PICK d \in 1 .. Len(held) + 1 :
            /\ Len(others) = IF d <= Len(held) THEN Len(held) - 1 ELSE Len(held)
            /\ \A j \in DOMAIN others : others[j] = IF j < d THEN held[j] ELSE held[j + 1]
    BY WithoutKeeps
  <2> HIDE DEF others
  <2>4. \A i \in DOMAIN others : \E j \in DOMAIN held : held[j] = others[i]
    <3>1. TAKE i \in DOMAIN others
    <3>2. /\ i \in 1 .. Len(others) /\ Len(others) \in Nat
          /\ Len(held) \in Nat /\ DOMAIN held = 1 .. Len(held)
      BY <2>1, <2>2
    <3>3. Before(d, i) \in DOMAIN held
      BY <2>3, <3>2, PlacesMove
    <3>4. others[i] = held[Before(d, i)]
      BY <2>3 DEF Before
    <3>5. QED
      BY <3>3, <3>4
  <2>5. QED
    BY <2>1, <2>4 DEF IsInjective
<1> HIDE DEF others
<1>2. /\ kept \in Seq(Keys) /\ DOMAIN kept = 1 .. Len(kept) /\ Len(kept) \in Nat
      /\ \A i, j \in DOMAIN kept : kept[i] = kept[j] => i = j
      /\ \A i \in DOMAIN kept : kept[i] # k /\ \E j \in DOMAIN held : held[j] = kept[i]
  <2>1. CASE Len(others) = HeldCapacity
    <3>1. others # <<>>
      BY <1>1, <2>1, SizeAssumption
    <3>2. /\ Tail(others) \in Seq(Keys) /\ Len(Tail(others)) = Len(others) - 1
          /\ \A i \in 1 .. Len(others) - 1 : Tail(others)[i] = others[i + 1]
      BY <1>1, <3>1, HeadTailProperties
    <3>3. DOMAIN Tail(others) = 1 .. Len(others) - 1
      BY <1>1, <3>2
    <3>4. \A i \in 1 .. Len(others) - 1 : i + 1 \in DOMAIN others
      BY <1>1
    <3>5. \A i, j \in 1 .. Len(others) - 1 : i + 1 = j + 1 => i = j
      OBVIOUS
    <3>6. \A i, j \in DOMAIN Tail(others) : Tail(others)[i] = Tail(others)[j] => i = j
      BY <1>1, <3>2, <3>3, <3>4, <3>5
    <3>7. \A i \in DOMAIN Tail(others) :
             Tail(others)[i] # k /\ \E j \in DOMAIN held : held[j] = Tail(others)[i]
      BY <1>1, <3>2, <3>3, <3>4
    <3>8. QED
      BY <1>1, <2>1, <3>2, <3>3, <3>6, <3>7
  <2>2. QED
    BY <1>1, <2>1
<1> HIDE DEF kept
<1>3. Pressed(k) = Append(kept, k)
  BY DEF Pressed, kept, others
<1>4. /\ Append(kept, k) \in Seq(Keys) /\ DOMAIN Append(kept, k) = 1 .. Len(kept) + 1
      /\ Append(kept, k)[Len(kept) + 1] = k
      /\ \A i \in 1 .. Len(kept) : Append(kept, k)[i] = kept[i]
  BY <1>2
<1>5. \A i \in 1 .. Len(kept) + 1 : i \in DOMAIN kept \/ i = Len(kept) + 1
  BY <1>2
<1>6. \A i, j \in 1 .. Len(kept) + 1 : Append(kept, k)[i] = Append(kept, k)[j] => i = j
  BY <1>2, <1>4, <1>5
<1>7. \A i \in DOMAIN Append(kept, k) :
         \/ Append(kept, k)[i] = k
         \/ \E j \in DOMAIN held : held[j] = Append(kept, k)[i]
  BY <1>2, <1>4, <1>5
<1>8. Append(kept, k) # <<>>
  BY <1>2, <1>4
<1>9. QED
  BY <1>3, <1>4, <1>6, <1>7, <1>8 DEF IsInjective

\* Removing a key that is not the best leaves the best one the best.
LEMMA BuriedLeavesBest ==
    ASSUME HeldTypes, NEW k, NEW i \in DOMAIN held, held[i] # k, BestAt(priority, held, i)
    PROVE  \E m \in DOMAIN Without(k) :
              Without(k)[m] = held[i] /\ BestAt(priority, Without(k), m)
<1> DEFINE rest == Without(k)
<1>1. /\ held \in Seq(Keys) /\ DOMAIN held = 1 .. Len(held) /\ Len(held) \in Nat
      /\ i \in 1 .. Len(held)
  BY DEF HeldTypes
<1>2. rest \in Seq(Keys)
  BY WithoutKeeps
<1>3. PICK d \in 1 .. Len(held) + 1 :
          /\ d <= Len(held) => held[d] = k
          /\ Len(rest) = IF d <= Len(held) THEN Len(held) - 1 ELSE Len(held)
          /\ \A j \in DOMAIN rest : rest[j] = IF j < d THEN held[j] ELSE held[j + 1]
  BY WithoutKeeps
<1> HIDE DEF rest
<1>4. DOMAIN rest = 1 .. Len(rest) /\ Len(rest) \in Nat
  BY <1>2
<1>5. i # d
  <2>1. i <= Len(held)
    BY <1>1
  <2>2. held[i] # k
    OBVIOUS
  <2>3. QED
    BY <1>3, <2>1, <2>2, Zenon
<1> DEFINE m == After(d, i)
<1>6. \A j \in DOMAIN rest : Before(d, j) \in DOMAIN held /\ rest[j] = held[Before(d, j)]
  <2>1. \A j \in 1 .. Len(rest) : Before(d, j) \in 1 .. Len(held)
    BY <1>1, <1>3, <1>4, PlacesMove
  <2>2. QED
    BY <1>1, <1>3, <1>4, <2>1 DEF Before
<1>7. /\ m \in DOMAIN rest /\ Before(d, m) = i
      /\ \A j \in DOMAIN rest : j > m => Before(d, j) > i
  <2>1. Len(rest) = IF d <= Len(held) THEN Len(held) - 1 ELSE Len(held)
    BY <1>3
  <2>2. \A a \in 1 .. Len(held) : a # d =>
           /\ After(d, a) \in 1 .. Len(rest) /\ Before(d, After(d, a)) = a
           /\ \A j \in 1 .. Len(rest) : j > After(d, a) => Before(d, j) > a
    BY <1>1, <1>4, <2>1, PlacesMove
  <2>3. QED
    BY <1>1, <1>4, <1>5, <2>2, Zenon
<1> HIDE DEF m
<1>9. rest[m] = held[i]
  BY <1>6, <1>7
<1>10. BestAt(priority, rest, m)
  BY <1>6, <1>7, <1>9 DEF BestAt
<1>11. QED
  BY <1>7, <1>9, <1>10 DEF rest
-----------------------------------------------------------------------------
(* The steps                                                               *)

\* A key that sounds is down, is current and is the best of those held.
LEMMA SoundingKeeps ==
    ASSUME HeldTypes', held' # <<>>, NEW k, SoundKey(k), current' = k,
           \E i \in DOMAIN held' : k = held'[i] /\ BestAt(priority', held', i)
    PROVE  OwnerInv' /\ NoHangingNote'
<1>1. PICK i \in DOMAIN held' : k = held'[i] /\ BestAt(priority', held', i)
  OBVIOUS
<1>2. k \in down' /\ k \in Keys
  BY <1>1 DEF HeldTypes
<1>3. OwnerInv'
  BY <1>1 DEF OwnerInv, SoundKey
<1>4. NoHangingNote'
  BY <1>2, NoteAssumption DEF NoHangingNote, SoundKey
<1>5. QED
  BY <1>3, <1>4

LEMMA InitKeys == Init => KeysInv
<1>1. SUFFICES ASSUME Init PROVE KeysInv
  OBVIOUS
<1>2. HeldTypes
  BY <1>1 DEF Init, HeldTypes, IsInjective, Priorities
<1>3. OwnerInv /\ NoHangingNote
  BY <1>1 DEF Init, OwnerInv, NoHangingNote
<1>4. QED
  BY <1>2, <1>3 DEF KeysInv

LEMMA PressKeeps ==
    ASSUME KeysInv, NEW k \in Keys, PressKey(k) PROVE KeysInv'
<1> DEFINE keys == Pressed(k)
           selected == Selected(setting, keys)
<1>1. /\ HeldTypes /\ setting \in Priorities
      /\ down' = down \cup {k} /\ held' = keys /\ current' = selected
      /\ priority' = setting /\ setting' = setting
  BY DEF KeysInv, HeldTypes, PressKey, policy
<1>2. /\ keys \in Seq(Keys) /\ keys # <<>> /\ IsInjective(keys)
      /\ \A i \in DOMAIN keys : keys[i] = k \/ \E j \in DOMAIN held : held[j] = keys[i]
  BY <1>1, PressedKeeps
<1>3. IF current # selected \/ selected = k THEN SoundKey(selected)
      ELSE UNCHANGED <<owner, voice, sequenced>>
  BY DEF PressKey
<1> HIDE DEF keys
<1>4. \E i \in DOMAIN keys : selected = keys[i] /\ BestAt(setting, keys, i)
  BY <1>1, <1>2, SelectedIsBest
<1> HIDE DEF selected
<1>5. HeldTypes'
  <2>1. \A i \in DOMAIN keys : keys[i] \in down'
    BY <1>1, <1>2 DEF HeldTypes
  <2>2. QED
    BY <1>1, <1>2, <2>1 DEF HeldTypes
<1>6. \E i \in DOMAIN held' : selected = held'[i] /\ BestAt(priority', held', i)
  BY <1>1, <1>4, Zenon
<1>7. CASE SoundKey(selected)
  <2>1. held' # <<>>
    BY <1>1, <1>2
  <2>2. OwnerInv' /\ NoHangingNote'
    BY <1>1, <1>5, <1>6, <1>7, <2>1, SoundingKeeps
  <2>3. QED
    BY <1>5, <2>2 DEF KeysInv
<1>8. CASE ~SoundKey(selected)
  <2>1. current = selected /\ selected # k /\ UNCHANGED <<owner, voice, sequenced>>
    BY <1>3, <1>8
  <2>2. held # <<>>
    BY <1>2, <1>4, <2>1
  <2>3. owner = current
    BY <2>2 DEF KeysInv, OwnerInv
  <2>4. OwnerInv'
    BY <1>1, <1>6, <2>1, <2>3 DEF OwnerInv
  <2>5. NoHangingNote'
    BY <1>1, <2>1 DEF KeysInv, NoHangingNote, voice, sequenced
  <2>6. QED
    BY <1>5, <2>4, <2>5 DEF KeysInv
<1>9. QED
  BY <1>7, <1>8

\* A key that comes up leaves what the keys still held keep to.
LEMMA ReleasedTypes ==
    ASSUME KeysInv, NEW k \in Keys, down' = down \ {k},
           UNCHANGED <<priority, setting>>,
           held' \in {<<>>, Without(k)} \/ (held' = held /\ k \notin Range(held))
    PROVE  HeldTypes'
<1>1. HeldTypes
  BY DEF KeysInv
<1>2. CASE held' = <<>>
  BY <1>1, <1>2 DEF HeldTypes, IsInjective
<1>3. CASE held' = Without(k)
  <2>1. /\ Without(k) \in Seq(Keys) /\ IsInjective(Without(k))
        /\ \A i \in DOMAIN Without(k) : Without(k)[i] \in down /\ Without(k)[i] # k
    BY <1>1, WithoutKeeps
  <2>2. QED
    BY <1>1, <1>3, <2>1 DEF HeldTypes
<1>4. CASE held' = held /\ k \notin Range(held)
  BY <1>1, <1>4 DEF HeldTypes, Range
<1>5. QED
  BY <1>2, <1>3, <1>4

LEMMA ReleaseKeeps ==
    ASSUME KeysInv, NEW k \in Keys, ReleaseKey(k) PROVE KeysInv'
<1>1. /\ HeldTypes /\ OwnerInv /\ NoHangingNote
      /\ down' = down \ {k} /\ UNCHANGED <<priority, setting>>
  BY DEF KeysInv, ReleaseKey, policy
<1>2. ASSUME UNCHANGED <<owner, voice, sequenced>>, owner # k
      PROVE  NoHangingNote'
  BY <1>1, <1>2 DEF NoHangingNote, voice, sequenced
<1>3. ASSUME held # <<>> PROVE owner = current /\ \E i \in DOMAIN held : held[i] = current
  BY <1>1, <1>3 DEF OwnerInv
<1>4. CASE ReleaseUnheld(k)
  <2>1. k \notin Range(held) /\ CloseFor(k) /\ UNCHANGED <<held, current>>
    BY <1>4 DEF ReleaseUnheld
  <2>2. HeldTypes'
    BY <1>1, <2>1, ReleasedTypes
  <2>3. CASE owner = k
    <3>1. held = <<>>
      BY <1>3, <2>1, <2>3 DEF Range
    <3>2. OwnerInv' /\ NoHangingNote'
      BY <2>1, <2>3, <3>1 DEF OwnerInv, NoHangingNote, CloseFor
    <3>3. QED
      BY <2>2, <3>2 DEF KeysInv
  <2>4. CASE owner # k
    <3>1. UNCHANGED <<owner, voice, sequenced>>
      BY <2>1, <2>4 DEF CloseFor
    <3>2. OwnerInv'
      BY <1>1, <2>1, <3>1 DEF OwnerInv, BestAt
    <3>3. QED
      BY <1>2, <2>2, <2>4, <3>1, <3>2 DEF KeysInv
  <2>5. QED
    BY <2>3, <2>4
<1>5. CASE ReleaseLast(k)
  <2>1. held = <<k>> /\ current = k /\ held' = <<>> /\ CloseFor(k)
    BY <1>5 DEF ReleaseLast
  <2>2. owner = k
    BY <1>3, <2>1
  <2>3. OwnerInv' /\ NoHangingNote'
    BY <2>1, <2>2 DEF OwnerInv, NoHangingNote, CloseFor
  <2>4. HeldTypes'
    BY <1>1, <2>1, ReleasedTypes
  <2>5. QED
    BY <2>3, <2>4 DEF KeysInv
<1>6. CASE ReleaseBuried(k)
  <2>1. /\ k \in Range(held) /\ current # k /\ held' = Without(k)
        /\ owner' = IF owner = k THEN None ELSE owner
        /\ UNCHANGED <<current, voice, sequenced>>
    BY <1>6 DEF ReleaseBuried
  <2>2. held # <<>>
    BY <2>1 DEF Range
  <2>3. owner = current /\ owner' = owner
    BY <1>3, <2>1, <2>2
  <2>4. PICK i \in DOMAIN held : held[i] = current /\ BestAt(priority, held, i)
    BY <1>1, <2>2 DEF OwnerInv
  <2>5. \E m \in DOMAIN Without(k) :
           Without(k)[m] = current /\ BestAt(priority, Without(k), m)
    BY <1>1, <2>1, <2>4, BuriedLeavesBest
  <2>6. OwnerInv'
    BY <1>1, <2>1, <2>3, <2>5 DEF OwnerInv
  <2>7. HeldTypes'
    BY <1>1, <2>1, ReleasedTypes
  <2>8. QED
    BY <1>2, <2>1, <2>3, <2>6, <2>7 DEF KeysInv
<1>7. CASE ReleaseResume(k)
  <2> DEFINE rest == Without(k)
             key == Selected(priority, rest)
  <2>1. k \in Range(held) /\ current = k /\ rest # <<>>
    BY <1>7 DEF ReleaseResume
  <2>2. owner = k
    <3>1. held # <<>>
      BY <2>1 DEF Range
    <3>2. QED
      BY <1>3, <2>1, <3>1
  <2>3. held' = rest /\ current' = key /\ SoundKey(key)
    BY <1>7, <2>2 DEF ReleaseResume
  <2>4. rest \in Seq(Keys) /\ priority \in Priorities
    BY <1>1, WithoutKeeps DEF HeldTypes
  <2>5. HeldTypes'
    BY <1>1, <2>3, ReleasedTypes
  <2> HIDE DEF rest
  <2>6. \E i \in DOMAIN rest : key = rest[i] /\ BestAt(priority, rest, i)
    BY <2>1, <2>4, SelectedIsBest
  <2> HIDE DEF key
  <2>7. /\ held' # <<>>
        /\ \E i \in DOMAIN held' : key = held'[i] /\ BestAt(priority', held', i)
    BY <1>1, <2>1, <2>3, <2>6, Zenon
  <2>8. OwnerInv' /\ NoHangingNote'
    BY <2>3, <2>5, <2>7, SoundingKeeps
  <2>9. QED
    BY <2>5, <2>8 DEF KeysInv
<1>8. QED
  BY <1>4, <1>5, <1>6, <1>7 DEF ReleaseKey

\* What leaves the keys alone keeps all but, perhaps, the gate closed in time.
LEMMA KeysUntouched ==
    ASSUME KeysInv, UNCHANGED live, setting' \in Priorities, NoHangingNote'
    PROVE  KeysInv'
<1>1. HeldTypes'
  BY DEF KeysInv, HeldTypes, live
<1>2. OwnerInv'
  BY DEF KeysInv, OwnerInv, live, BestAt
<1>3. QED
  BY <1>1, <1>2 DEF KeysInv

LEMMA KeysStep == KeysInv /\ [Next]_vars => KeysInv'
<1>1. SUFFICES ASSUME KeysInv, [Next]_vars PROVE KeysInv'
  OBVIOUS
<1>2. NoHangingNote /\ setting \in Priorities
  BY <1>1 DEF KeysInv, HeldTypes
<1>3. ASSUME NEW k \in Keys, PressKey(k) \/ ReleaseKey(k) PROVE KeysInv'
  BY <1>1, <1>3, PressKeeps, ReleaseKeeps
<1>4. ASSUME UNCHANGED <<live, voice, off>>, setting' \in Priorities PROVE KeysInv'
  <2>1. NoHangingNote'
    BY <1>2, <1>4 DEF NoHangingNote, live, voice
  <2>2. QED
    BY <1>1, <1>4, <2>1, KeysUntouched
<1>5. CASE TogglePlay
  BY <1>2, <1>4, <1>5 DEF TogglePlay, sequenced, policy
<1>6. CASE EditPolicy
  BY <1>4, <1>6 DEF EditPolicy, sequenced
<1>7. ASSUME NEW note \in Notes, NEW length \in Gates, FireStep(note, length)
      PROVE  KeysInv'
  <2>1. off' # {} /\ UNCHANGED live /\ setting' = setting
    BY <1>7 DEF FireStep, policy
  <2>2. NoHangingNote'
    BY <2>1 DEF NoHangingNote
  <2>3. QED
    BY <1>1, <1>2, <2>1, <2>2, KeysUntouched
<1>8. CASE BeginBlock
  <2>1. /\ off' = {GateOffAt(g.at) : g \in off}
        /\ UNCHANGED <<live, voice>> /\ setting' = setting
    BY <1>8 DEF BeginBlock, policy
  <2>2. off # {} => off' # {}
    BY <2>1
  <2>3. NoHangingNote'
    BY <1>2, <2>1, <2>2 DEF NoHangingNote, live, voice
  <2>4. QED
    BY <1>1, <1>2, <2>1, <2>3, KeysUntouched
<1>9. CASE DispatchGateOff
  <2>1. (off' # {} \/ gate' = FALSE) /\ UNCHANGED live /\ setting' = setting
    BY <1>9 DEF DispatchGateOff, ResumedGate, policy
  <2>2. NoHangingNote'
    BY <2>1 DEF NoHangingNote
  <2>3. QED
    BY <1>1, <1>2, <2>1, <2>2, KeysUntouched
<1>10. CASE Tick
  BY <1>2, <1>4, <1>10 DEF Tick, policy
<1>11. CASE UNCHANGED vars
  BY <1>2, <1>4, <1>11 DEF vars, sequenced, policy
<1>12. QED
  BY <1>1, <1>3, <1>5, <1>6, <1>7, <1>8, <1>9, <1>10, <1>11 DEF Next, Callback

LEMMA KeysInvariant == Spec => []KeysInv
<1>1. QED
  BY InitKeys, KeysStep, PTL DEF Spec

\* An open gate has something to close it, whatever the keys, the steps and
\* the gate-offs do and however small the block and the stacks are.
THEOREM NothingHangs == Spec => []NoHangingNote
<1>1. KeysInv => NoHangingNote
  BY DEF KeysInv
<1>2. QED
  BY <1>1, KeysInvariant, PTL

\* The key that owns the voice is the one the priority prefers among those
\* that are held, the newest of equals.
THEOREM BestKeyHasTheVoice == Spec => []BestKeyOwnsTheVoice
<1>1. ASSUME KeysInv PROVE BestKeyOwnsTheVoice
  <2>1. SUFFICES ASSUME held # <<>>
                 PROVE  /\ owner = current
                        /\ \E i \in DOMAIN held :
                              /\ held[i] = current
                              /\ \A j \in DOMAIN held \ {i} :
                                    LET newer == j < i IN
                                    CASE priority = "last" -> newer
                                      [] priority = "high" ->
                                             Pitch[held[j]] < Pitch[current] + (IF newer THEN 1 ELSE 0)
                                      [] priority = "low" ->
                                             Pitch[held[j]] > Pitch[current] - (IF newer THEN 1 ELSE 0)
    BY DEF BestKeyOwnsTheVoice
  <2>2. owner = current
    BY <1>1, <2>1 DEF KeysInv, OwnerInv
  <2>3. PICK i \in DOMAIN held : held[i] = current /\ BestAt(priority, held, i)
    BY <1>1, <2>1 DEF KeysInv, OwnerInv
  <2>4. priority \in Priorities /\ held \in Seq(Keys)
    BY <1>1 DEF KeysInv, HeldTypes
  <2>5. ASSUME NEW j \in DOMAIN held \ {i}
        PROVE  CASE priority = "last" -> j < i
                 [] priority = "high" ->
                        Pitch[held[j]] < Pitch[current] + (IF j < i THEN 1 ELSE 0)
                 [] priority = "low" ->
                        Pitch[held[j]] > Pitch[current] - (IF j < i THEN 1 ELSE 0)
    <3> DEFINE a == Pitch[held[i]]
               b == Pitch[held[j]]
    <3>1. a \in Nat /\ b \in Nat /\ a = Pitch[current]
      BY <2>3, <2>4, NoteAssumption
    <3>2. i \in Nat /\ j \in Nat /\ j # i
      BY <2>4
    <3>3. Prefers(priority, a, b) /\ (j > i => ~Prefers(priority, b, a))
      BY <2>3 DEF BestAt
    <3> HIDE DEF a, b
    <3>4. CASE priority = "last"
      BY <3>2, <3>3, <3>4 DEF Prefers
    <3>5. CASE priority = "high"
      <4>1. \A x, y : Prefers("high", x, y) <=> x >= y
        BY DEF Prefers
      <4>2. b < a + (IF j < i THEN 1 ELSE 0)
        BY <3>1, <3>2, <3>3, <3>5, <4>1
      <4>3. QED
        BY <3>1, <3>5, <4>2 DEF b
    <3>6. CASE priority = "low"
      <4>1. \A x, y : Prefers("low", x, y) <=> x <= y
        BY DEF Prefers
      <4>2. b > a - (IF j < i THEN 1 ELSE 0)
        BY <3>1, <3>2, <3>3, <3>6, <4>1
      <4>3. QED
        BY <3>1, <3>6, <4>2 DEF b
    <3>7. QED
      BY <2>4, <3>4, <3>5, <3>6 DEF Priorities
  <2>6. QED
    BY <2>2, <2>3, <2>5
<1>2. QED
  BY <1>1, KeysInvariant, PTL
-----------------------------------------------------------------------------
(* What is kept of a sequence                                              *)

\* f lists the places of T in increasing order.
Lists(f, n, T) ==
    /\ f \in [1 .. n -> T]
    /\ \A i, j \in 1 .. n : i < j => f[i] < f[j]
    /\ \A x \in T : \E i \in 1 .. n : f[i] = x

\* Places can be listed: if not those up to some m, then not those before it.
LEMMA ListExists ==
    ASSUME NEW l \in Nat, NEW T, T \subseteq 1 .. l
    PROVE  Cardinality(T) \in Nat /\ \E f : Lists(f, Cardinality(T), T)
<1> DEFINE Up(m) == {x \in T : x <= m}
           bad == {m \in 0 .. l : ~\E f : Lists(f, Cardinality(Up(m)), Up(m))}
<1>0. \A x \in T : x \in Nat /\ 1 <= x /\ x <= l
  OBVIOUS
<1>1. \A m \in 0 .. l : IsFiniteSet(Up(m)) /\ Cardinality(Up(m)) \in Nat
  <2>1. TAKE m \in 0 .. l
  <2>2. Up(m) \in SUBSET (1 .. l)
    BY <1>0
  <2>3. IsFiniteSet(1 .. l)
    <3>1. 1 \in Int /\ l \in Int
      OBVIOUS
    <3>2. QED
      BY <3>1, FS_Interval
  <2> HIDE DEF Up
  <2>4. IsFiniteSet(Up(m))
    BY <2>2, <2>3, FS_Subset
  <2>5. QED
    BY <2>4, FS_CardinalityType
<1>2. Up(l) = T
  BY <1>0
<1>3. SUFFICES ASSUME bad # {} PROVE FALSE
  <2>1. bad = {} => \E f : Lists(f, Cardinality(Up(l)), Up(l))
    OBVIOUS
  <2>2. Cardinality(Up(l)) \in Nat
    BY <1>1
  <2> HIDE DEF Up, bad
  <2>3. QED
    BY <1>2, <1>3, <2>1, <2>2
<1>4. PICK m \in bad : \A k \in bad : m <= k
  <2>1. bad \subseteq Nat
    OBVIOUS
  <2> HIDE DEF bad
  <2>2. QED
    BY <1>3, <2>1, LeastNatural
<1>5. m \in 0 .. l /\ ~\E f : Lists(f, Cardinality(Up(m)), Up(m))
  BY <1>4
<1>6. m # 0
  <2>1. ASSUME m = 0 PROVE Up(m) = {}
    <3>1. \A x \in T : ~(x <= m)
      BY <1>0, <2>1
    <3>2. QED
      BY <3>1
  <2>2. Cardinality({}) = 0
    BY FS_EmptySet
  <2>3. Lists([i \in 1 .. 0 |-> i], 0, {})
    BY DEF Lists
  <2> HIDE DEF Up
  <2>4. m = 0 => Lists([i \in 1 .. 0 |-> i], Cardinality(Up(m)), Up(m))
    BY <2>1, <2>2, <2>3
  <2>5. QED
    BY <1>5, <2>4, Zenon
<1>7. m - 1 \in 0 .. l /\ m - 1 \notin bad
  <2>1. m - 1 \in 0 .. l /\ ~(m <= m - 1)
    BY <1>5, <1>6
  <2> HIDE DEF bad
  <2>2. QED
    BY <1>4, <2>1
<1>8. PICK f : Lists(f, Cardinality(Up(m - 1)), Up(m - 1))
  BY <1>7
<1>9. CASE m \notin T
  <2>1. m \in Nat /\ \A x \in T : x <= m <=> x <= m - 1
    BY <1>0, <1>5, <1>9
  <2>2. Up(m) = Up(m - 1)
    BY <2>1
  <2> HIDE DEF Up
  <2>3. QED
    BY <1>5, <1>8, <2>2
<1>10. CASE m \in T
  <2> DEFINE n == Cardinality(Up(m - 1))
             g == [i \in 1 .. n + 1 |-> IF i = n + 1 THEN m ELSE f[i]]
  <2>0. /\ m \in Nat /\ ~(m <= m - 1)
        /\ \A x \in T : x <= m <=> x <= m - 1 \/ x = m
    BY <1>0, <1>5, <1>10
  <2>1. n \in Nat /\ Up(m) = Up(m - 1) \cup {m} /\ m \notin Up(m - 1) /\ IsFiniteSet(Up(m - 1))
    <3>1. n \in Nat /\ IsFiniteSet(Up(m - 1))
      <4> HIDE DEF Up
      <4>1. QED
        BY <1>1, <1>7
    <3>2. Up(m) = Up(m - 1) \cup {m} /\ m \notin Up(m - 1)
      BY <1>10, <2>0
    <3> HIDE DEF Up, n
    <3>3. QED
      BY <3>1, <3>2
  <2>2. \A x \in Up(m - 1) : x \in Nat /\ x < m
    BY <1>0, <2>0
  <2>3. m \in Nat
    BY <1>5
  <2> HIDE DEF Up
  <2>4. Cardinality(Up(m)) = n + 1
    BY <2>1, FS_AddElement
  <2> HIDE DEF n
  <2>5. /\ f \in [1 .. n -> Up(m - 1)]
        /\ \A i, j \in 1 .. n : i < j => f[i] < f[j]
        /\ \A x \in Up(m - 1) : \E i \in 1 .. n : f[i] = x
    BY <1>8 DEF Lists, n
  <2>6. \A i \in 1 .. n + 1 : i \in 1 .. n \/ i = n + 1
    BY <2>1
  <2>7. n + 1 \in 1 .. n + 1 /\ \A i \in 1 .. n : i \in 1 .. n + 1 /\ i # n + 1 /\ g[i] = f[i]
    BY <2>1
  <2>8. g \in [1 .. n + 1 -> Up(m)]
    BY <2>1, <2>5, <2>6
  <2>9. \A i, j \in 1 .. n + 1 : i < j => g[i] < g[j]
    <3>1. TAKE i, j \in 1 .. n + 1
    <3>2. HAVE i < j
    <3>3. i \in 1 .. n /\ g[i] = f[i] /\ f[i] < m
      BY <2>1, <2>2, <2>5, <2>7, <3>2
    <3>4. CASE j \in 1 .. n
      BY <2>5, <2>7, <3>2, <3>3, <3>4
    <3>5. CASE j = n + 1
      BY <2>7, <3>3, <3>5
    <3>6. QED
      BY <2>6, <3>4, <3>5
  <2>10. \A x \in Up(m) : \E i \in 1 .. n + 1 : g[i] = x
    BY <2>1, <2>5, <2>7
  <2>11. Lists(g, n + 1, Up(m))
    <3> HIDE DEF g
    <3>1. QED
      BY <2>8, <2>9, <2>10 DEF Lists
  <2>12. QED
    BY <1>5, <2>4, <2>11
<1>11. QED
  BY <1>9, <1>10

\* What r has of s is what is in the places P, in their order.
Picks(r, s, P) == \E g : Lists(g, Len(r), P) /\ \A n \in DOMAIN r : r[n] = s[g[n]]

\* The elements kept, in their places.
LEMMA KeptProperties ==
    ASSUME NEW S, NEW s \in Seq(S), NEW set
    PROVE  /\ Kept(s, set) \in Seq(S \cap set)
           /\ Len(Kept(s, set)) <= Len(s)
           /\ Picks(Kept(s, set), s, {i \in DOMAIN s : s[i] \in set})
<1> DEFINE places == {i \in DOMAIN s : s[i] \in set}
           c == Cardinality(places)
           Good(f) == /\ f \in Bijection(1 .. c, places)
                      /\ \A n, m \in DOMAIN f : n < m => f[n] < f[m]
           at == CHOOSE f : Good(f)
           kept == [n \in DOMAIN at |-> s[at[n]]]
<1>1. DOMAIN s = 1 .. Len(s) /\ Len(s) \in Nat /\ places \subseteq 1 .. Len(s)
  OBVIOUS
<1>2. c \in Nat /\ \E f : Lists(f, c, places)
  <2> HIDE DEF places
  <2>1. QED
    BY <1>1, ListExists
<1>3. PICK r : Lists(r, c, places)
  BY <1>2
<1> HIDE DEF c
<1>4. Good(r)
  <2> HIDE DEF places
  <2>1. /\ r \in [1 .. c -> places] /\ DOMAIN r = 1 .. c
        /\ \A n, m \in 1 .. c : n < m => r[n] < r[m]
        /\ \A x \in places : \E n \in 1 .. c : r[n] = x
    BY <1>3 DEF Lists
  <2>2. \A n \in 1 .. c : r[n] \in Nat
    <3>1. \A x \in places : x \in Nat
      BY <1>1
    <3>2. QED
      BY <2>1, <3>1
  <2>3. \A n, m \in 1 .. c : r[n] = r[m] => n = m
    <3>1. TAKE n, m \in 1 .. c
    <3>2. n < m \/ m < n \/ n = m
      BY <1>2
    <3>3. QED
      BY <2>1, <2>2, <3>2
  <2>4. r \in Bijection(1 .. c, places)
    BY <2>1, <2>3 DEF Bijection, Injection, Surjection, IsInjective
  <2>5. QED
    BY <2>1, <2>4
<1>5. Good(at)
  <2> HIDE DEF Good
  <2>1. QED
    BY <1>4
<1>6. Kept(s, set) = kept
  BY DEF Kept, c
<1> HIDE DEF at
<1>7. Lists(at, c, places) /\ DOMAIN at = 1 .. c /\ at \in [1 .. c -> places]
  <2> HIDE DEF places
  <2>1. QED
    BY <1>5 DEF Lists, Bijection, Injection, Surjection
<1>8. \A n \in 1 .. c : s[at[n]] \in S \cap set
  BY <1>7
<1>9. kept \in Seq(S \cap set) /\ Len(kept) = c
  <2> HIDE DEF places
  <2>1. kept = [n \in 1 .. c |-> s[at[n]]]
    BY <1>7
  <2>2. kept \in [1 .. c -> S \cap set]
    BY <1>8, <2>1
  <2> HIDE DEF kept
  <2>3. QED
    BY <1>2, <2>2
<1>10. c <= Len(s)
  <2>1. /\ IsFiniteSet(1 .. Len(s))
        /\ Cardinality(1 .. Len(s)) = IF 1 > Len(s) THEN 0 ELSE Len(s) - 1 + 1
    BY <1>1, FS_Interval
  <2> HIDE DEF places
  <2>2. c <= Cardinality(1 .. Len(s))
    BY <1>1, <2>1, FS_Subset DEF c
  <2>3. QED
    BY <1>1, <2>1, <2>2
<1>11. \A n \in DOMAIN kept : kept[n] = s[at[n]]
  OBVIOUS
<1> HIDE DEF kept, places
<1>12. QED
  <2>1. Picks(kept, s, places)
    BY <1>7, <1>9, <1>11 DEF Picks
  <2>2. QED
    BY <1>6, <1>9, <1>10, <2>1 DEF places

\* Where in the list g the places of A are, and a list of that.
Within(A, B) == A \subseteq B /\ B \subseteq Nat
Where(g, q, A) == {m \in 1 .. q : g[m] \in A}
Relays(e, g, f, p) == \A n \in 1 .. p : g[e[n]] = f[n]

\* Places that are listed among others are listed where those are.
LEMMA ListedAmong ==
    ASSUME NEW p \in Nat, NEW q \in Nat, NEW A, NEW B, Within(A, B),
           NEW f, Lists(f, p, A), NEW g, Lists(g, q, B)
    PROVE  \E e : Lists(e, p, Where(g, q, A)) /\ Relays(e, g, f, p)
<1> DEFINE e == [n \in 1 .. p |-> CHOOSE m \in 1 .. q : g[m] = f[n]]
           C == {m \in 1 .. q : g[m] \in A}
<1>1. /\ f \in [1 .. p -> A] /\ \A i, j \in 1 .. p : i < j => f[i] < f[j]
      /\ \A x \in A : \E n \in 1 .. p : f[n] = x
      /\ g \in [1 .. q -> B] /\ \A i, j \in 1 .. q : i < j => g[i] < g[j]
      /\ \A x \in B : \E m \in 1 .. q : g[m] = x
      /\ A \subseteq B /\ B \subseteq Nat
  BY DEF Lists, Within
<1>2. \A n \in 1 .. p : e[n] \in 1 .. q /\ g[e[n]] = f[n]
  <2>1. TAKE n \in 1 .. p
  <2>2. \E m \in 1 .. q : g[m] = f[n]
    BY <1>1
  <2>3. QED
    BY <2>2
<1>3. \A m \in 1 .. q : g[m] \in Nat
  BY <1>1
<1>4. \A m, k \in 1 .. q : g[m] = g[k] => m = k
  <2>1. TAKE m, k \in 1 .. q
  <2>2. m < k \/ k < m \/ m = k
    OBVIOUS
  <2>3. QED
    BY <1>1, <1>3, <2>2
<1>5. e \in [1 .. p -> C]
  <2>1. \A n \in 1 .. p : e[n] \in C
    BY <1>1, <1>2
  <2>2. QED
    BY <2>1
<1> HIDE DEF e
<1>6. \A i, j \in 1 .. p : i < j => e[i] < e[j]
  <2>1. TAKE i, j \in 1 .. p
  <2>2. HAVE i < j
  <2>3. f[i] < f[j] /\ e[i] \in 1 .. q /\ e[j] \in 1 .. q
    BY <1>1, <1>2, <2>2
  <2>4. e[j] < e[i] \/ e[j] = e[i] \/ e[i] < e[j]
    BY <2>3
  <2>5. g[e[i]] < g[e[j]]
    BY <1>2, <2>3
  <2>6. g[e[i]] \in Nat /\ g[e[j]] \in Nat
    BY <1>3, <2>3
  <2>7. ASSUME e[j] < e[i] PROVE FALSE
    <3>1. g[e[j]] < g[e[i]]
      BY <1>1, <2>3, <2>7
    <3>2. QED
      BY <2>5, <2>6, <3>1
  <2>8. e[j] # e[i]
    BY <2>5, <2>6
  <2>9. QED
    BY <2>4, <2>7, <2>8
<1>7. \A x \in C : \E n \in 1 .. p : e[n] = x
  <2>1. TAKE x \in C
  <2>2. PICK n \in 1 .. p : f[n] = g[x]
    BY <1>1
  <2>3. QED
    BY <1>2, <1>4, <2>2
<1> HIDE DEF C
<1>8. Lists(e, p, C)
  BY <1>5, <1>6, <1>7 DEF Lists
<1>9. Where(g, q, A) = C /\ Relays(e, g, f, p)
  BY <1>2 DEF Where, Relays, C
<1>10. QED
  BY <1>8, <1>9

\* What is in the places that h lists of the list f, and in those of C.
Along(f, h, q) == [n \in 1 .. q |-> f[h[n]]]
Marked(f, C) == {f[n] : n \in C}

\* A list of places of a list lists what is in those places.
LEMMA ListedThrough ==
    ASSUME NEW p \in Nat, NEW q \in Nat, NEW A, NEW C, C \subseteq 1 .. p,
           NEW f, Lists(f, p, A), NEW h, Lists(h, q, C)
    PROVE  Lists(Along(f, h, q), q, Marked(f, C))
<1> DEFINE e == [n \in 1 .. q |-> f[h[n]]]
<1>1. /\ f \in [1 .. p -> A] /\ \A i, j \in 1 .. p : i < j => f[i] < f[j]
      /\ h \in [1 .. q -> C] /\ \A i, j \in 1 .. q : i < j => h[i] < h[j]
      /\ \A x \in C : \E n \in 1 .. q : h[n] = x
  BY DEF Lists
<1>2. \A n \in 1 .. q : h[n] \in C /\ h[n] \in 1 .. p
  BY <1>1
<1>3. e \in [1 .. q -> {f[n] : n \in C}]
  BY <1>2
<1>4. \A i, j \in 1 .. q : i < j => e[i] < e[j]
  BY <1>1, <1>2
<1>5. \A x \in {f[n] : n \in C} : \E n \in 1 .. q : e[n] = x
  BY <1>1
<1>6. QED
  <2> HIDE DEF e
  <2>1. Lists(e, q, {f[n] : n \in C})
    BY <1>3, <1>4, <1>5 DEF Lists
  <2>2. QED
    BY <2>1 DEF e, Along, Marked

\* The last of a list is the greatest place.
LEMMA ListEnds ==
    ASSUME NEW q \in Nat, NEW l \in Nat, NEW B, B \subseteq 1 .. l, l \in B,
           NEW g, Lists(g, q, B)
    PROVE  q \in 1 .. q /\ g[q] = l
<1>1. /\ g \in [1 .. q -> B] /\ \A i, j \in 1 .. q : i < j => g[i] < g[j]
      /\ \A x \in B : \E m \in 1 .. q : g[m] = x
  BY DEF Lists
<1>2. PICK m \in 1 .. q : g[m] = l
  BY <1>1
<1>3. q \in 1 .. q /\ (m < q \/ m = q)
  OBVIOUS
<1>4. g[q] \in Nat /\ g[q] <= l
  <2>1. \A x \in B : x \in Nat /\ x <= l
    OBVIOUS
  <2>2. QED
    BY <1>1, <1>3, <2>1
<1>5. ~(m < q)
  BY <1>1, <1>2, <1>3, <1>4
<1>6. QED
  BY <1>2, <1>3, <1>5

-----------------------------------------------------------------------------
(* The phrase, and the holds                                               *)

\* The frame of the block the holds are counted from at which what comes next
\* happens: between two blocks they have not been advanced yet.
Now == IF pc = "keys" THEN Frames ELSE frame

Newest(hs) == hs[Len(hs)]

\* Where the holds are that run past a frame.
Past(hs, now) == {i \in DOMAIN hs : hs[i].left > now}

\* A phrase is the holds that still run, in their order, with what is left of them.
Traces(ph, hs, now) ==
    \E f : /\ Lists(f, Len(ph), Past(hs, now))
           /\ \A n \in DOMAIN ph :
                 ph[n] = [note |-> hs[f[n]].note, left |-> hs[f[n]].left - now]

KeyTypes ==
    /\ {playing, legato} \subseteq BOOLEAN
    /\ {current, owner} \subseteq Keys \cup {None} /\ Len(held) <= HeldCapacity

VoiceTypes ==
    /\ {active, gate, cut, forgot} \subseteq BOOLEAN
    /\ sounding \in Keys \cup Notes \cup {None}
    /\ holds \in Seq(Timed(Nat)) /\ Len(holds) <= MaxHolds
    /\ phrase \in Seq(Timed(Nat \ {0}))
    /\ pc \in {"keys", "events", "fired"} /\ frame \in 0 .. Frames - 1

\* The gate-off is that of the newest hold, which is what sounds.
ClockInv ==
    /\ holds = <<>> => off = {}
    /\ holds # <<>> => /\ off = {GateOffAt(Newest(holds).left)}
                       /\ Newest(holds).left >= Now
                       /\ sounding = Newest(holds).note

PhraseInv == ~forgot => Traces(phrase, holds, Now)

GateInv ==
    /\ gate /\ holds = <<>> => sounding \in Keys
    /\ ~forgot /\ ~cut /\ holds # <<>> /\ Newest(holds).left > Now => gate

PhrasesInv == VoiceTypes /\ ClockInv /\ PhraseInv /\ GateInv

\* The places B of the holds hs are those that run past a frame, and others.
Includes(B, hs, now) == Past(hs, now) \subseteq B /\ B \subseteq DOMAIN hs

\* What is in gs is in the places g of hs, counted from a later frame.
Advanced(gs, hs, g, frames) ==
    \A m \in DOMAIN gs : /\ gs[m].note = hs[g[m]].note
                         /\ gs[m].left = hs[g[m]].left - frames

\* Holds that end are not of the phrase, so it traces the ones that are kept.
LEMMA TracesKept ==
    ASSUME NEW hs \in Seq(Timed(Nat)), NEW gs \in Seq(Timed(Nat)),
           NEW ph \in Seq(Timed(Nat \ {0})), NEW soon \in Nat, NEW shift \in Nat,
           Traces(ph, hs, soon + shift),
           NEW B, Includes(B, hs, soon + shift), NEW g, Lists(g, Len(gs), B),
           Advanced(gs, hs, g, shift)
    PROVE  Traces(ph, gs, soon)
<1> DEFINE now == soon + shift
           A == Past(hs, now)
           p == Len(ph)
           q == Len(gs)
           C == {m \in 1 .. q : g[m] \in A}
<1>1. /\ p \in Nat /\ DOMAIN ph = 1 .. p /\ q \in Nat /\ DOMAIN gs = 1 .. q
      /\ Len(hs) \in Nat /\ DOMAIN hs = 1 .. Len(hs)
      /\ now \in Nat /\ now = soon + shift /\ A \subseteq B /\ B \subseteq DOMAIN hs
      /\ \A m \in DOMAIN gs : /\ gs[m].note = hs[g[m]].note
                              /\ gs[m].left = hs[g[m]].left - shift
  BY DEF Includes, Advanced
<1>2. PICK f : /\ Lists(f, p, A)
               /\ \A n \in DOMAIN ph :
                     ph[n] = [note |-> hs[f[n]].note, left |-> hs[f[n]].left - now]
  BY DEF Traces
<1> HIDE DEF now
<1>3. Within(A, B)
  BY <1>1 DEF Within
<1>4. PICK e : Lists(e, p, C) /\ \A n \in 1 .. p : g[e[n]] = f[n]
  <2>1. Lists(g, q, B) /\ Lists(f, p, A) /\ p \in Nat /\ q \in Nat
    BY <1>1, <1>2
  <2>2. Where(g, q, A) = C
    BY DEF Where
  <2> HIDE DEF A, C, p, q
  <2>3. PICK e : Lists(e, p, Where(g, q, A)) /\ Relays(e, g, f, p)
    BY <1>3, <2>1, ListedAmong
  <2>4. QED
    BY <2>2, <2>3 DEF Relays
<1>5. g \in [1 .. q -> B] /\ e \in [1 .. p -> C]
  BY <1>4 DEF Lists
<1>6. \A m \in 1 .. q : /\ g[m] \in DOMAIN hs /\ hs[g[m]] \in Timed(Nat)
                        /\ gs[m].note = hs[g[m]].note /\ gs[m].left = hs[g[m]].left - shift
  <2>1. \A i \in DOMAIN hs : hs[i] \in Timed(Nat)
    OBVIOUS
  <2>2. \A m \in 1 .. q : g[m] \in DOMAIN hs
    BY <1>1, <1>5
  <2>3. QED
    BY <1>1, <2>1, <2>2
<1>7. \A m \in 1 .. q : hs[g[m]].left \in Nat
  BY <1>6 DEF Timed
<1>8. C = {m \in DOMAIN gs : gs[m].left > soon}
  <2>1. \A m \in 1 .. q : g[m] \in A <=> hs[g[m]].left > now
    BY <1>6 DEF Past
  <2>2. \A m \in 1 .. q : hs[g[m]].left > now <=> gs[m].left > soon
    BY <1>1, <1>6, <1>7
  <2> HIDE DEF A
  <2>3. QED
    BY <1>1, <2>1, <2>2
<1>9. \A n \in DOMAIN ph :
         ph[n] = [note |-> gs[e[n]].note, left |-> gs[e[n]].left - soon]
  <2>1. TAKE n \in DOMAIN ph
  <2>2. e[n] \in 1 .. q /\ g[e[n]] = f[n]
    BY <1>1, <1>4, <1>5
  <2>3. /\ ph[n] = [note |-> hs[f[n]].note, left |-> hs[f[n]].left - now]
        /\ gs[e[n]].note = hs[f[n]].note /\ gs[e[n]].left = hs[f[n]].left - shift
        /\ hs[f[n]].left \in Nat
    BY <1>2, <1>6, <1>7, <2>2
  <2>4. gs[e[n]].left - soon = hs[f[n]].left - now
    BY <1>1, <2>3
  <2>5. QED
    BY <2>3, <2>4
<1> HIDE DEF A, C
<1>10. QED
  BY <1>4, <1>8, <1>9 DEF Traces, Past

LEMMA TimesAreNumbers ==
    /\ Gates \subseteq Nat \ {0} /\ Frames \in Nat \ {0}
    /\ HeldCapacity \in Nat \ {0} /\ MaxHolds \in Nat \ {0}
BY SizeAssumption

\* The holds that run past a frame, and the places they have had.
LEMMA RunningProperties ==
    ASSUME NEW s \in Seq(Timed(Int)), NEW now \in Int
    PROVE  /\ Running(s, now) \in Seq({h \in Timed(Int) : h.left > now})
           /\ Len(Running(s, now)) <= Len(s)
           /\ Picks(Running(s, now), s, Past(s, now))
<1> DEFINE set == {h \in Range(s) : h.left > now}
           r == Kept(s, set)
           places == {i \in DOMAIN s : s[i] \in set}
<1>1. places = Past(s, now)
  BY DEF Range, Past
<1>2. Timed(Int) \cap set \subseteq {h \in Timed(Int) : h.left > now}
  OBVIOUS
<1>3. /\ r \in Seq(Timed(Int) \cap set) /\ Len(r) <= Len(s)
      /\ Picks(r, s, places)
  BY KeptProperties
<1>4. Running(s, now) = r
  BY DEF Running
<1> HIDE DEF set, r, places
<1>5. r \in Seq({h \in Timed(Int) : h.left > now})
  BY <1>2, <1>3
<1>6. QED
  BY <1>1, <1>3, <1>4, <1>5

\* And those that have not ended before one.
LEMMA UnendedProperties ==
    ASSUME NEW s \in Seq(Timed(Int))
    PROVE  /\ Unended(s) \in Seq({h \in Timed(Int) : h.left >= 0})
           /\ Len(Unended(s)) <= Len(s)
           /\ Picks(Unended(s), s, Past(s, -1))
<1> DEFINE set == {h \in Range(s) : h.left >= 0}
           r == Kept(s, set)
           places == {i \in DOMAIN s : s[i] \in set}
<1>1. places = Past(s, -1)
  <2>1. \A i \in DOMAIN s : s[i] \in Timed(Int)
    OBVIOUS
  <2>2. \A i \in DOMAIN s : s[i].left \in Int
    BY <2>1 DEF Timed
  <2>3. \A i \in DOMAIN s : s[i].left >= 0 <=> s[i].left > -1
    BY <2>2
  <2>4. QED
    BY <2>3 DEF Range, Past
<1>2. Timed(Int) \cap set \subseteq {h \in Timed(Int) : h.left >= 0}
  OBVIOUS
<1>3. /\ r \in Seq(Timed(Int) \cap set) /\ Len(r) <= Len(s)
      /\ Picks(r, s, places)
  BY KeptProperties
<1>4. Unended(s) = r
  BY DEF Unended
<1> HIDE DEF set, r, places
<1>5. r \in Seq({h \in Timed(Int) : h.left >= 0})
  BY <1>2, <1>3
<1>6. QED
  BY <1>1, <1>3, <1>4, <1>5

LEMMA SoonerProperties ==
    ASSUME NEW s \in Seq(Timed(Nat)), NEW n \in Nat
    PROVE  /\ Sooner(s, n) \in Seq(Timed(Int)) /\ DOMAIN Sooner(s, n) = DOMAIN s
           /\ Len(Sooner(s, n)) = Len(s)
           /\ \A i \in DOMAIN s : /\ Sooner(s, n)[i] = [note |-> s[i].note, left |-> s[i].left - n]
                                  /\ s[i].left \in Nat /\ s[i].note \in Notes
<1>1. \A i \in DOMAIN s : s[i] \in Timed(Nat)
  OBVIOUS
<1>2. \A i \in DOMAIN s : s[i].left \in Nat /\ s[i].note \in Notes
  BY <1>1 DEF Timed
<1>3. \A i \in DOMAIN s :
         [s[i] EXCEPT !.left = @ - n] = [note |-> s[i].note, left |-> s[i].left - n]
  BY <1>1 DEF Timed
<1>4. \A i \in DOMAIN s : [note |-> s[i].note, left |-> s[i].left - n] \in Timed(Int)
  BY <1>2 DEF Timed
<1>5. Sooner(s, n) = [i \in DOMAIN s |-> [note |-> s[i].note, left |-> s[i].left - n]]
  BY <1>3 DEF Sooner
<1>6. DOMAIN s = 1 .. Len(s) /\ Len(s) \in Nat
  OBVIOUS
<1> DEFINE r == Sooner(s, n)
<1>7. r \in [1 .. Len(s) -> Timed(Int)]
  BY <1>4, <1>5, <1>6
<1> HIDE DEF r
<1>8. r \in Seq(Timed(Int)) /\ Len(r) = Len(s) /\ DOMAIN r = DOMAIN s
  BY <1>6, <1>7
<1>9. QED
  BY <1>2, <1>5, <1>8 DEF r

\* A frame later, the phrase is the holds that run past that frame.
LEMMA TracesTick ==
    ASSUME NEW ph \in Seq(Timed(Nat \ {0})), NEW hs \in Seq(Timed(Nat)), NEW now \in Nat
    PROVE  LET next == Running(Sooner(ph, 1), 0) IN
           /\ next \in Seq(Timed(Nat \ {0}))
           /\ Traces(ph, hs, now) => Traces(next, hs, now + 1)
<1> DEFINE s == Sooner(ph, 1)
           next == Running(s, 0)
           C == Past(s, 0)
<1>1. ph \in Seq(Timed(Nat)) /\ \A n \in DOMAIN ph : ph[n].left \in Nat \ {0}
  <2>1. Timed(Nat \ {0}) \subseteq Timed(Nat)
    BY DEF Timed
  <2>2. \A n \in DOMAIN ph : ph[n] \in Timed(Nat \ {0})
    OBVIOUS
  <2>3. \A n \in DOMAIN ph : ph[n].left \in Nat \ {0}
    BY <2>2 DEF Timed
  <2>4. QED
    BY <2>1, <2>3
<1>2. /\ s \in Seq(Timed(Int)) /\ DOMAIN s = DOMAIN ph /\ Len(s) = Len(ph)
      /\ \A i \in DOMAIN ph : s[i] = [note |-> ph[i].note, left |-> ph[i].left - 1]
  BY <1>1, SoonerProperties
<1> HIDE DEF s
<1>3. /\ next \in Seq({h \in Timed(Int) : h.left > 0})
      /\ Picks(next, s, C)
  BY <1>2, RunningProperties
<1> HIDE DEF next
<1>4. next \in Seq(Timed(Nat \ {0}))
  <2>1. {h \in Timed(Int) : h.left > 0} \subseteq Timed(Nat \ {0})
    BY DEF Timed
  <2>2. QED
    BY <1>3, <2>1
<1>5. ASSUME Traces(ph, hs, now) PROVE Traces(next, hs, now + 1)
  <2> DEFINE A == {i \in DOMAIN hs : hs[i].left > now}
             p == Len(ph)
             q == Len(next)
  <2>11. A = Past(hs, now)
    BY DEF Past
  <2>1. /\ p \in Nat /\ DOMAIN ph = 1 .. p /\ q \in Nat /\ DOMAIN next = 1 .. q /\ C \subseteq 1 .. p
    BY <1>2, <1>4 DEF Past
  <2>2. PICK f : /\ Lists(f, p, A)
                 /\ \A n \in DOMAIN ph :
                       ph[n] = [note |-> hs[f[n]].note, left |-> hs[f[n]].left - now]
    BY <1>5, <2>11 DEF Traces
  <2>3. PICK h : Lists(h, q, C) /\ \A n \in DOMAIN next : next[n] = s[h[n]]
    BY <1>3 DEF Picks
  <2> DEFINE e == Along(f, h, q)
             B == Marked(f, C)
  <2>4. Lists(e, q, B)
    <3>1. Lists(h, q, C) /\ Lists(f, p, A) /\ p \in Nat /\ q \in Nat
      BY <2>1, <2>2, <2>3
    <3> HIDE DEF A, C, p, q
    <3>2. QED
      BY <2>1, <3>1, ListedThrough
  <2>5. /\ f \in [1 .. p -> A] /\ \A x \in A : \E n \in 1 .. p : f[n] = x
        /\ h \in [1 .. q -> C]
    BY <2>2, <2>3 DEF Lists
  <2>6. \A n \in 1 .. p : /\ f[n] \in DOMAIN hs /\ hs[f[n]] \in Timed(Nat)
                          /\ hs[f[n]].left \in Nat
                          /\ ph[n].note = hs[f[n]].note /\ ph[n].left = hs[f[n]].left - now
    <3>1. \A i \in DOMAIN hs : hs[i] \in Timed(Nat) /\ hs[i].left \in Nat
      <4>1. \A i \in DOMAIN hs : hs[i] \in Timed(Nat)
        OBVIOUS
      <4>2. QED
        BY <4>1 DEF Timed
    <3>2. QED
      BY <2>1, <2>2, <2>5, <3>1
  <2>0. \A y \in Nat : \A x :
           x = y - now => x - 1 = y - (now + 1) /\ (x - 1 > 0 <=> y > now + 1)
    OBVIOUS
  <2>7. \A n \in 1 .. p : n \in C <=> hs[f[n]].left > now + 1
    <3>1. TAKE n \in 1 .. p
    <3>2. n \in C <=> s[n].left > 0
      BY <1>2, <2>1 DEF Past
    <3>3. s[n].left = ph[n].left - 1
      BY <1>2, <2>1
    <3>4. s[n].left > 0 <=> hs[f[n]].left > now + 1
      BY <2>6, <2>0, <3>3
    <3>5. QED
      BY <3>2, <3>4
  <2>8. B = {i \in DOMAIN hs : hs[i].left > now + 1}
    <3>1. \A i \in DOMAIN hs : hs[i].left > now + 1 => i \in A
      <4>1. \A i \in DOMAIN hs : hs[i] \in Timed(Nat)
        OBVIOUS
      <4>2. \A i \in DOMAIN hs : hs[i].left \in Nat
        BY <4>1 DEF Timed
      <4>3. QED
        BY <4>2
    <3> HIDE DEF A, C
    <3>2. QED
      BY <2>1, <2>5, <2>6, <2>7, <3>1 DEF Marked
  <2>9. \A n \in DOMAIN next :
           next[n] = [note |-> hs[e[n]].note, left |-> hs[e[n]].left - (now + 1)]
    <3>1. TAKE n \in DOMAIN next
    <3>2. h[n] \in 1 .. p /\ e[n] = f[h[n]] /\ next[n] = s[h[n]]
      BY <2>1, <2>3, <2>5 DEF Along
    <3> HIDE DEF e
    <3>3. /\ next[n] = [note |-> ph[h[n]].note, left |-> ph[h[n]].left - 1]
          /\ ph[h[n]].note = hs[e[n]].note /\ ph[h[n]].left = hs[e[n]].left - now
          /\ hs[e[n]].left \in Nat
      BY <1>2, <2>1, <2>6, <3>2
    <3>4. ph[h[n]].left - 1 = hs[e[n]].left - (now + 1)
      BY <2>0, <3>3
    <3>5. QED
      BY <3>3, <3>4
  <2> HIDE DEF A, B, e
  <2>10. QED
    BY <2>4, <2>8, <2>9 DEF Traces, Past
<1>6. QED
  BY <1>4, <1>5 DEF next, s

-----------------------------------------------------------------------------
(* The steps of the sequenced notes                                        *)

LEMMA EmptyTraces == \A now : Traces(<<>>, <<>>, now)
<1>1. TAKE now
<1>2. Lists([i \in 1 .. 0 |-> i], 0, {})
  BY DEF Lists
<1>3. Len(<<>>) = 0 /\ DOMAIN <<>> = {}
  OBVIOUS
<1>4. Past(<<>>, now) = {}
  BY <1>3 DEF Past
<1>5. QED
  BY <1>2, <1>3, <1>4 DEF Traces

\* Nothing runs when the phrase is over.
LEMMA TracesNothing ==
    ASSUME NEW hs \in Seq(Timed(Nat)), hs # <<>>, NEW now \in Nat, Traces(<<>>, hs, now)
    PROVE  ~(Newest(hs).left > now)
<1>1. PICK f : Lists(f, 0, Past(hs, now))
  BY DEF Traces
<1>2. Past(hs, now) = {}
  BY <1>1 DEF Lists
<1>3. Len(hs) \in DOMAIN hs
  OBVIOUS
<1>4. QED
  BY <1>2, <1>3 DEF Newest, Past

\* A note that starts is the newest of its phrase.
LEMMA TracesAppend ==
    ASSUME NEW hs \in Seq(Timed(Nat)), NEW ph \in Seq(Timed(Nat \ {0})), NEW now \in Nat,
           Traces(ph, hs, now), NEW h \in Timed(Nat), NEW n \in Timed(Nat \ {0}),
           n.note = h.note, h.left = now + n.left
    PROVE  Traces(Append(ph, n), Append(hs, h), now)
<1> DEFINE p == Len(ph)
           l == Len(hs)
           A == Past(hs, now)
           B == Past(Append(hs, h), now)
<1>1. /\ p \in Nat /\ DOMAIN ph = 1 .. p /\ l \in Nat /\ DOMAIN hs = 1 .. l
      /\ DOMAIN Append(ph, n) = 1 .. p + 1 /\ DOMAIN Append(hs, h) = 1 .. l + 1
      /\ Len(Append(ph, n)) = p + 1
      /\ Append(ph, n)[p + 1] = n /\ Append(hs, h)[l + 1] = h
      /\ \A i \in 1 .. p : Append(ph, n)[i] = ph[i]
      /\ \A i \in 1 .. l : Append(hs, h)[i] = hs[i]
  OBVIOUS
<1>2. PICK f : /\ Lists(f, p, A)
               /\ \A i \in DOMAIN ph :
                     ph[i] = [note |-> hs[f[i]].note, left |-> hs[f[i]].left - now]
  BY DEF Traces
<1> DEFINE g == [i \in 1 .. p + 1 |-> IF i = p + 1 THEN l + 1 ELSE f[i]]
<1>3. /\ f \in [1 .. p -> A] /\ \A i, j \in 1 .. p : i < j => f[i] < f[j]
      /\ \A x \in A : \E i \in 1 .. p : f[i] = x
  BY <1>2 DEF Lists
<1>4. n.left \in Nat \ {0} /\ h.left > now
  BY DEF Timed
<1>5. B = A \cup {l + 1} /\ \A x \in A : x \in 1 .. l /\ x < l + 1
  <2>1. \A i \in 1 .. l + 1 : i \in 1 .. l \/ i = l + 1
    BY <1>1
  <2>2. l + 1 \in 1 .. l + 1 /\ 1 .. l \subseteq 1 .. l + 1
    BY <1>1
  <2>3. \A x \in A : x \in 1 .. l /\ x < l + 1
    BY <1>1 DEF Past
  <2>4. B = A \cup {l + 1}
    <3>1. \A i \in B : i \in A \cup {l + 1}
      BY <1>1, <2>1 DEF Past
    <3>2. \A i \in A \cup {l + 1} : i \in B
      BY <1>1, <1>4, <2>2 DEF Past
    <3> HIDE DEF A, B
    <3>3. QED
      BY <3>1, <3>2
  <2>5. QED
    BY <2>3, <2>4
<1> HIDE DEF A, B, p, l
<1>6. \A i \in 1 .. p + 1 : i \in 1 .. p \/ i = p + 1
  BY <1>1
<1>7. p + 1 \in 1 .. p + 1 /\ \A i \in 1 .. p : i \in 1 .. p + 1 /\ i # p + 1 /\ g[i] = f[i]
  BY <1>1
<1>8. g[p + 1] = l + 1 /\ DOMAIN g = 1 .. p + 1
  BY <1>7
<1>9. Lists(g, p + 1, B)
  <2>1. g \in [1 .. p + 1 -> B]
    BY <1>3, <1>5, <1>6
  <2>2. \A i, j \in 1 .. p + 1 : i < j => g[i] < g[j]
    <3>1. TAKE i, j \in 1 .. p + 1
    <3>2. HAVE i < j
    <3>3. i \in 1 .. p /\ g[i] = f[i] /\ f[i] \in A
      BY <1>1, <1>3, <1>7, <3>2
    <3>4. CASE j \in 1 .. p
      BY <1>3, <1>7, <3>2, <3>3, <3>4
    <3>5. CASE j = p + 1
      BY <1>5, <1>8, <3>3, <3>5
    <3>6. QED
      BY <1>6, <3>4, <3>5
  <2>3. \A x \in B : \E i \in 1 .. p + 1 : g[i] = x
    BY <1>3, <1>5, <1>7, <1>8
  <2> HIDE DEF g
  <2>4. QED
    BY <2>1, <2>2, <2>3 DEF Lists
<1> HIDE DEF g
<1>10. \A i \in 1 .. p + 1 :
          Append(ph, n)[i] = [note |-> Append(hs, h)[g[i]].note,
                              left |-> Append(hs, h)[g[i]].left - now]
  <2>1. TAKE i \in 1 .. p + 1
  <2>2. CASE i = p + 1
    <3>1. n = [note |-> n.note, left |-> n.left]
      BY DEF Timed
    <3>2. h.left - now = n.left
      BY <1>4
    <3>3. Append(ph, n)[i] = n /\ Append(hs, h)[g[i]] = h
      BY <1>1, <1>8, <2>2
    <3>4. QED
      BY <3>1, <3>2, <3>3
  <2>3. CASE i \in 1 .. p
    <3>1. /\ g[i] = f[i] /\ f[i] \in 1 .. l
          /\ Append(ph, n)[i] = ph[i] /\ Append(hs, h)[f[i]] = hs[f[i]]
      BY <1>1, <1>3, <1>5, <1>7, <2>3
    <3>2. QED
      BY <1>1, <1>2, <2>3, <3>1
  <2>4. QED
    BY <1>6, <2>2, <2>3
<1>11. QED
  <2> DEFINE longer == Append(ph, n)
             more == Append(hs, h)
  <2>1. Lists(g, Len(longer), Past(more, now))
    BY <1>1, <1>9 DEF B
  <2>2. \A i \in DOMAIN longer :
           longer[i] = [note |-> more[g[i]].note, left |-> more[g[i]].left - now]
    BY <1>1, <1>10
  <2> HIDE DEF longer, more
  <2>3. Traces(longer, more, now)
    BY <2>1, <2>2 DEF Traces
  <2>4. QED
    BY <2>3 DEF longer, more

\* The gate-off of a hold that has not ended is later in the block, or is due now.
LEMMA GateOffTimes ==
    ASSUME NEW left \in Nat
    PROVE  /\ left >= Frames => GateOffAt(left).at = left - Frames
           /\ ~GateOffAt(left).later <=> left < Frames
           /\ left < Frames => GateOffAt(left).at = left
BY TimesAreNumbers DEF GateOffAt

\* The newest hold, of holds there are.
LEMMA NewestHold ==
    ASSUME PhrasesInv, holds # <<>>
    PROVE  /\ Len(holds) \in Nat \ {0} /\ Newest(holds) \in Timed(Nat)
           /\ Newest(holds).left \in Nat /\ Newest(holds).note \in Notes
<1>1. holds \in Seq(Timed(Nat))
  BY DEF PhrasesInv, VoiceTypes
<1>2. Len(holds) \in Nat \ {0} /\ Newest(holds) \in Timed(Nat)
  BY <1>1 DEF Newest
<1>3. QED
  BY <1>2 DEF Timed

\* A gate-off that is due is of the newest hold, which ends now.
LEMMA DueIsNewest ==
    ASSUME PhrasesInv, pc # "keys"
    PROVE  GateOffDue <=> holds # <<>> /\ Newest(holds).left = frame
<1>1. frame \in Nat /\ frame < Frames /\ Frames \in Nat
  BY TimesAreNumbers DEF PhrasesInv, VoiceTypes
<1>2. CASE holds = <<>>
  BY <1>2 DEF PhrasesInv, ClockInv, GateOffDue
<1>3. CASE holds # <<>>
  <2> DEFINE left == Newest(holds).left
  <2>1. left \in Nat /\ off = {GateOffAt(left)}
    BY <1>3, NewestHold DEF PhrasesInv, ClockInv
  <2> HIDE DEF left
  <2>2. GateOffDue <=> ~GateOffAt(left).later /\ GateOffAt(left).at = frame
    BY <2>1 DEF GateOffDue
  <2>3. GateOffDue <=> left = frame
    BY <1>1, <2>1, <2>2, GateOffTimes
  <2>4. QED
    BY <1>3, <2>3 DEF left
<1>4. QED
  BY <1>2, <1>3

LEMMA NoHolds ==
    /\ <<>> \in Seq(Timed(Nat)) /\ <<>> \in Seq(Timed(Nat \ {0})) /\ Len(<<>>) <= MaxHolds
    /\ 0 \in 0 .. Frames - 1
BY TimesAreNumbers

LEMMA InitPhrases == Init => PhrasesInv
<1>1. SUFFICES ASSUME Init PROVE PhrasesInv
  OBVIOUS
<1>2. VoiceTypes
  BY <1>1, NoHolds DEF Init, VoiceTypes
<1>3. PhraseInv
  BY <1>1, EmptyTraces DEF Init, PhraseInv
<1>4. ClockInv /\ GateInv
  BY <1>1 DEF Init, ClockInv, GateInv
<1>5. QED
  BY <1>2, <1>3, <1>4 DEF PhrasesInv

\* A key that takes the voice ends the phrase.
LEMMA SoundKeyPhrases ==
    ASSUME PhrasesInv, NEW k \in Keys, SoundKey(k), UNCHANGED <<pc, frame>>
    PROVE  PhrasesInv'
<1>1. VoiceTypes'
  BY NoHolds DEF PhrasesInv, VoiceTypes, SoundKey
<1>2. Traces(phrase', holds', Now')
  BY EmptyTraces DEF SoundKey
<1>3. ClockInv' /\ GateInv'
  BY DEF SoundKey, ClockInv, GateInv
<1>4. QED
  BY <1>1, <1>2, <1>3 DEF PhrasesInv, PhraseInv

\* A key that closes the voice over a phrase that runs cuts it.
LEMMA CloseForPhrases ==
    ASSUME PhrasesInv, NEW k, CloseFor(k), UNCHANGED <<pc, frame>>
    PROVE  PhrasesInv'
<1>1. Now' = Now /\ UNCHANGED <<sounding, holds, off, phrase, forgot>>
  BY DEF CloseFor, Now, voice, sequenced
<1>2. VoiceTypes'
  BY <1>1 DEF CloseFor, PhrasesInv, VoiceTypes, voice, sequenced
<1>3. ClockInv'
  BY <1>1 DEF PhrasesInv, ClockInv
<1>4. PhraseInv'
  BY <1>1 DEF PhrasesInv, PhraseInv
<1>5. GateInv'
  <2>1. CASE owner = k
    <3>1. gate' = FALSE /\ cut' = (phrase # <<>>)
      BY <2>1 DEF CloseFor
    <3>2. ASSUME ~forgot, phrase = <<>>, holds # <<>> PROVE ~(Newest(holds).left > Now)
      <4>1. Traces(<<>>, holds, Now)
        BY <3>2 DEF PhrasesInv, PhraseInv
      <4>2. Now \in Nat /\ holds \in Seq(Timed(Nat))
        BY TimesAreNumbers DEF PhrasesInv, VoiceTypes, Now
      <4>3. QED
        BY <3>2, <4>1, <4>2, TracesNothing
    <3>3. QED
      BY <1>1, <3>1, <3>2 DEF GateInv
  <2>2. CASE owner # k
    BY <1>1, <2>2 DEF CloseFor, voice, sequenced, PhrasesInv, GateInv
  <2>3. QED
    BY <2>1, <2>2
<1>6. QED
  BY <1>2, <1>3, <1>4, <1>5 DEF PhrasesInv

LEMMA UntouchedPhrases ==
    ASSUME PhrasesInv, UNCHANGED <<voice, sequenced, pc, frame>> PROVE PhrasesInv'
<1>1. Now' = Now
  BY DEF Now
<1>2. QED
  BY <1>1 DEF PhrasesInv, VoiceTypes, ClockInv, PhraseInv, GateInv, voice, sequenced

\* A block begins: what is left of every hold is counted from it, and the newest
\* has not ended before it.
LEMMA BeginBlockPhrases ==
    ASSUME PhrasesInv, BeginBlock PROVE PhrasesInv'
<1> DEFINE s == Sooner(holds, Frames)
           next == Unended(s)
<1>1. /\ pc = "keys" /\ pc' = "events" /\ frame' = 0 /\ Now = Frames /\ Now' = 0
      /\ holds' = next /\ off' = {GateOffAt(g.at) : g \in off}
      /\ UNCHANGED <<active, gate, sounding, phrase, cut, forgot>>
  BY DEF BeginBlock, Now, voice
<1>2. /\ holds \in Seq(Timed(Nat)) /\ Len(holds) \in Nat /\ Len(holds) <= MaxHolds
      /\ phrase \in Seq(Timed(Nat \ {0})) /\ DOMAIN holds = 1 .. Len(holds)
      /\ Frames \in Nat \ {0} /\ MaxHolds \in Nat
  BY TimesAreNumbers DEF PhrasesInv, VoiceTypes
<1>3. /\ s \in Seq(Timed(Int)) /\ DOMAIN s = DOMAIN holds /\ Len(s) = Len(holds)
      /\ \A i \in DOMAIN holds :
            /\ s[i] = [note |-> holds[i].note, left |-> holds[i].left - Frames]
            /\ holds[i].left \in Nat /\ holds[i].note \in Notes
  BY <1>2, SoonerProperties
<1> HIDE DEF s
<1>4. /\ next \in Seq({h \in Timed(Int) : h.left >= 0}) /\ Len(next) <= Len(s)
      /\ Picks(next, s, Past(s, -1))
  BY <1>3, UnendedProperties
<1> HIDE DEF next
<1>5. /\ next \in Seq(Timed(Nat)) /\ Len(next) \in Nat /\ DOMAIN next = 1 .. Len(next)
  <2>1. {h \in Timed(Int) : h.left >= 0} \subseteq Timed(Nat)
    BY DEF Timed
  <2>2. next \in Seq(Timed(Nat))
    BY <1>4, <2>1
  <2>3. QED
    BY <2>2
<1>6. PICK g : Lists(g, Len(next), Past(s, -1)) /\ \A n \in DOMAIN next : next[n] = s[g[n]]
  BY <1>4 DEF Picks
<1>7. /\ Past(s, -1) \subseteq 1 .. Len(holds)
      /\ \A i \in DOMAIN holds : i \in Past(s, -1) <=> holds[i].left >= Frames
  <2>1. \A i \in DOMAIN holds : s[i].left > -1 <=> holds[i].left >= Frames
    BY <1>2, <1>3
  <2>2. QED
    BY <1>2, <1>3, <2>1 DEF Past
<1>8. CASE holds = <<>>
  <2>1. next = <<>> /\ off = {}
    BY <1>2, <1>3, <1>4, <1>5, <1>8 DEF PhrasesInv, ClockInv
  <2>2. ClockInv' /\ GateInv'
    BY <1>1, <1>8, <2>1 DEF ClockInv, GateInv, PhrasesInv
  <2>3. QED
    <3>1. VoiceTypes'
      BY <1>1, <1>2, <2>1 DEF PhrasesInv, VoiceTypes
    <3>2. ~forgot => phrase = <<>>
      <4>1. SUFFICES ASSUME ~forgot PROVE phrase = <<>>
        OBVIOUS
      <4>2. PICK f : Lists(f, Len(phrase), Past(<<>>, Frames))
        BY <1>1, <1>8, <4>1 DEF PhrasesInv, PhraseInv, Traces
      <4>3. Past(<<>>, Frames) = {}
        BY DEF Past
      <4>4. Len(phrase) \in Nat /\ ~(Len(phrase) > 0)
        BY <1>2, <4>2, <4>3 DEF Lists
      <4>5. QED
        BY <1>2, <4>4
    <3>3. PhraseInv'
      BY <1>1, <2>1, <3>2, EmptyTraces DEF PhraseInv
    <3>4. QED
      BY <2>2, <3>1, <3>3 DEF PhrasesInv
<1>9. CASE holds # <<>>
  <2> DEFINE left == Newest(holds).left
             l == Len(holds)
             q == Len(next)
  <2>1. /\ left \in Nat /\ left >= Frames /\ off = {GateOffAt(left)}
        /\ sounding = Newest(holds).note /\ l \in Nat \ {0}
    BY <1>1, <1>9, NewestHold DEF PhrasesInv, ClockInv
  <2>2. l \in Past(s, -1) /\ l \in DOMAIN holds
    BY <1>2, <1>7, <2>1 DEF Newest
  <2>3. q \in 1 .. q /\ g[q] = l
    <3>1. Lists(g, q, Past(s, -1)) /\ Past(s, -1) \subseteq 1 .. l /\ q \in Nat
      BY <1>5, <1>6, <1>7
    <3> HIDE DEF l, q
    <3>2. QED
      BY <2>1, <2>2, <3>1, ListEnds
  <2>4. Newest(next) = [note |-> Newest(holds).note, left |-> left - Frames] /\ next # <<>>
    BY <1>3, <1>5, <1>6, <2>2, <2>3 DEF Newest
  <2>5. off' = {GateOffAt(left - Frames)}
    <3>1. off' = {GateOffAt(GateOffAt(left).at)}
      BY <1>1, <2>1
    <3> HIDE DEF left
    <3>2. QED
      BY <2>1, <3>1, GateOffTimes
  <2>6. left - Frames >= 0 /\ (left - Frames > 0 => left > Frames)
    BY <1>2, <2>1
  <2> HIDE DEF left
  <2>7. ClockInv'
    <3>1. Newest(next).left = left - Frames /\ Newest(next).note = Newest(holds).note
      BY <2>4
    <3>2. Newest(next).left >= 0
      BY <2>6, <3>1
    <3>3. QED
      BY <1>1, <2>1, <2>4, <2>5, <3>1, <3>2 DEF ClockInv
  <2>8. GateInv'
    <3>1. Newest(next).left = left - Frames
      BY <2>4
    <3>2. ~forgot /\ ~cut /\ left > Frames => gate
      BY <1>1, <1>9 DEF PhrasesInv, GateInv, left
    <3>3. QED
      BY <1>1, <2>4, <2>6, <3>1, <3>2 DEF GateInv
  <2>9. VoiceTypes'
    <3>1. Len(next) <= MaxHolds /\ 0 \in 0 .. Frames - 1
      BY <1>2, <1>3, <1>4, <1>5
    <3>2. QED
      BY <1>1, <1>5, <3>1 DEF PhrasesInv, VoiceTypes
  <2>10. PhraseInv'
    <3>1. SUFFICES ASSUME ~forgot PROVE Traces(phrase, next, 0)
      BY <1>1 DEF PhraseInv
    <3>2. Traces(phrase, holds, 0 + Frames)
      <4>1. Frames = 0 + Frames
        BY <1>2
      <4>2. QED
        BY <1>1, <3>1, <4>1 DEF PhrasesInv, PhraseInv
    <3>3. Includes(Past(s, -1), holds, 0 + Frames)
      <4>1. \A i \in DOMAIN holds : holds[i].left > Frames => holds[i].left >= Frames
        BY <1>2, <1>3
      <4>2. Past(s, -1) \subseteq DOMAIN holds
        BY <1>2, <1>7
      <4>3. Frames = 0 + Frames
        BY <1>2
      <4>4. QED
        BY <1>7, <4>1, <4>2, <4>3 DEF Past, Includes
    <3>4. Advanced(next, holds, g, Frames)
      <4>1. \A m \in DOMAIN next : g[m] \in DOMAIN holds
        BY <1>2, <1>5, <1>6, <1>7 DEF Lists
      <4>2. QED
        BY <1>3, <1>6, <4>1 DEF Advanced
    <3>5. Frames \in Nat /\ 0 \in Nat
      BY <1>2
    <3>6. QED
      BY <1>2, <1>5, <1>6, <3>2, <3>3, <3>4, <3>5, TracesKept
  <2>11. QED
    BY <2>7, <2>8, <2>9, <2>10 DEF PhrasesInv
<1>10. QED
  BY <1>8, <1>9

\* The newest hold ends, and the one below it that still runs sounds again.
LEMMA DispatchPhrases ==
    ASSUME PhrasesInv, DispatchGateOff PROVE PhrasesInv'
<1> DEFINE rest == Front(holds)
           next == Running(rest, frame)
           l == Len(holds)
<1>1. /\ pc = "events" /\ pc' = pc /\ frame' = frame /\ Now = frame /\ Now' = frame
      /\ UNCHANGED <<phrase, cut, forgot>>
      /\ holds # <<>> /\ Newest(holds).left = frame
  <2>1. /\ pc = "events" /\ pc' = pc /\ frame' = frame /\ GateOffDue
        /\ UNCHANGED <<phrase, cut, forgot>>
    BY DEF DispatchGateOff
  <2>2. holds # <<>> /\ Newest(holds).left = frame
    BY <2>1, DueIsNewest
  <2>3. QED
    BY <2>1, <2>2 DEF Now
<1>2. /\ holds \in Seq(Timed(Nat)) /\ l \in Nat \ {0} /\ l <= MaxHolds
      /\ phrase \in Seq(Timed(Nat \ {0})) /\ DOMAIN holds = 1 .. l
      /\ frame \in Nat /\ MaxHolds \in Nat
  BY <1>1, TimesAreNumbers DEF PhrasesInv, VoiceTypes
<1>3. Displaced = next
  BY <1>1 DEF Displaced
<1>4. /\ rest \in Seq(Timed(Int)) /\ Len(rest) = l - 1 /\ DOMAIN rest = 1 .. l - 1
      /\ \A i \in 1 .. l - 1 : rest[i] = holds[i]
  <2>1. rest = SubSeq(holds, 1, l - 1)
    BY DEF Front
  <2>2. Timed(Nat) \subseteq Timed(Int)
    BY DEF Timed
  <2>3. \A i \in 1 .. l - 1 : holds[i] \in Timed(Int)
    BY <1>2, <2>2
  <2> HIDE DEF rest, l
  <2>4. QED
    BY <1>2, <2>1, <2>3
<1> HIDE DEF rest
<1>5. /\ next \in Seq({h \in Timed(Int) : h.left > frame}) /\ Len(next) <= Len(rest)
      /\ Picks(next, rest, Past(rest, frame))
  BY <1>2, <1>4, RunningProperties
<1> HIDE DEF next
<1>6. /\ next \in Seq(Timed(Nat)) /\ Len(next) \in Nat /\ DOMAIN next = 1 .. Len(next)
      /\ \A m \in DOMAIN next : next[m].left > frame /\ next[m].left \in Nat /\ next[m].note \in Notes
  <2>1. \A h \in {h \in Timed(Int) : h.left > frame} :
           h \in Timed(Nat) /\ h.left > frame /\ h.left \in Nat /\ h.note \in Notes
    BY <1>2 DEF Timed
  <2>2. {h \in Timed(Int) : h.left > frame} \subseteq Timed(Nat)
    BY <2>1
  <2>3. next \in Seq(Timed(Nat))
    BY <1>5, <2>2
  <2>4. \A m \in DOMAIN next : next[m] \in {h \in Timed(Int) : h.left > frame}
    BY <1>5
  <2>5. QED
    BY <2>1, <2>3, <2>4
<1>7. PICK g : Lists(g, Len(next), Past(rest, frame)) /\ \A n \in DOMAIN next : next[n] = rest[g[n]]
  BY <1>5 DEF Picks
<1>8. Past(rest, frame) = Past(holds, frame)
  <2>1. ~(holds[l].left > frame)
    BY <1>1, <1>2 DEF Newest
  <2>2. \A i \in 1 .. l : i \in 1 .. l - 1 \/ i = l
    <3>1. l \in Nat
      BY <1>2
    <3> HIDE DEF l
    <3>2. QED
      BY <3>1
  <2>3. 1 .. l - 1 \subseteq 1 .. l
    BY <1>2
  <2> HIDE DEF l
  <2>4. QED
    BY <1>2, <1>4, <2>1, <2>2, <2>3 DEF Past
<1>9. PhraseInv'
  <2>1. SUFFICES ASSUME ~forgot PROVE Traces(phrase, next, frame)
    BY <1>1, <1>3 DEF PhraseInv, DispatchGateOff
  <2>2. frame = frame + 0 /\ frame \in Nat /\ 0 \in Nat
    BY <1>2
  <2>3. Traces(phrase, holds, frame + 0)
    BY <1>1, <2>1, <2>2 DEF PhrasesInv, PhraseInv
  <2>4. Includes(Past(rest, frame), holds, frame + 0)
    BY <1>8, <2>2 DEF Past, Includes
  <2>5. Advanced(next, holds, g, 0)
    <3>1. \A m \in DOMAIN next : g[m] \in 1 .. l - 1 /\ next[m] = holds[g[m]]
      BY <1>4, <1>6, <1>7 DEF Lists, Past
    <3>2. \A m \in DOMAIN next : next[m].left - 0 = next[m].left
      BY <1>6
    <3>3. QED
      BY <3>1, <3>2 DEF Advanced
  <2>6. QED
    BY <1>2, <1>6, <1>7, <2>2, <2>3, <2>4, <2>5, TracesKept
<1>10. holds' = next /\ Len(next) <= MaxHolds
  BY <1>2, <1>3, <1>4, <1>5, <1>6 DEF DispatchGateOff
<1>11. CASE next = <<>>
  <2>1. gate' = FALSE /\ active' = FALSE /\ off' = {} /\ sounding' = sounding
    BY <1>3, <1>11 DEF DispatchGateOff
  <2>2. ClockInv' /\ GateInv'
    BY <1>10, <1>11, <2>1 DEF ClockInv, GateInv
  <2>3. VoiceTypes'
    BY <1>1, <1>6, <1>10, <2>1 DEF PhrasesInv, VoiceTypes
  <2>4. QED
    BY <1>9, <2>2, <2>3 DEF PhrasesInv
<1>12. CASE next # <<>>
  <2>1. /\ gate' = TRUE /\ sounding' = Newest(next).note /\ off' = {GateOffAt(Newest(next).left)}
        /\ active' = active
    BY <1>3, <1>12 DEF DispatchGateOff, ResumedGate, Newest
  <2>2. /\ Newest(next).left \in Nat /\ Newest(next).left >= frame /\ Newest(next).note \in Notes
    <3>1. Len(next) \in DOMAIN next
      BY <1>6, <1>12
    <3>2. Newest(next).left \in Nat /\ Newest(next).left > frame /\ Newest(next).note \in Notes
      BY <1>6, <3>1 DEF Newest
    <3>3. QED
      BY <1>2, <3>2
  <2>3. ClockInv' /\ GateInv'
    BY <1>1, <1>10, <1>12, <2>1, <2>2 DEF ClockInv, GateInv
  <2>4. VoiceTypes'
    BY <1>1, <1>6, <1>10, <2>1, <2>2 DEF PhrasesInv, VoiceTypes
  <2>5. QED
    BY <1>9, <2>3, <2>4 DEF PhrasesInv
<1>13. QED
  BY <1>11, <1>12

\* A step takes the voice: alone, or above the notes it overlaps.
LEMMA FireStepPhrases ==
    ASSUME PhrasesInv, NEW note \in Notes, NEW length \in Gates, FireStep(note, length)
    PROVE  PhrasesInv'
<1> DEFINE overlaps == legato /\ active
           hold == [note |-> note, left |-> frame + length]
           fresh == [note |-> note, left |-> length]
           below == IF ~overlaps THEN <<>>
                    ELSE IF Len(holds) = MaxHolds THEN Tail(holds) ELSE holds
           before == IF overlaps THEN phrase ELSE <<>>
<1>1. /\ holds \in Seq(Timed(Nat)) /\ Len(holds) \in Nat /\ Len(holds) <= MaxHolds
      /\ phrase \in Seq(Timed(Nat \ {0})) /\ frame \in Nat /\ length \in Nat \ {0}
      /\ MaxHolds \in Nat \ {0} /\ frame \in 0 .. Frames - 1
  BY TimesAreNumbers DEF PhrasesInv, VoiceTypes
<1>2. /\ pc = "events" /\ pc' = "fired" /\ frame' = frame /\ Now = frame /\ Now' = frame
      /\ active' = TRUE /\ gate' = TRUE /\ sounding' = note /\ cut' = FALSE
      /\ off' = {GateOffAt(frame + length)}
      /\ forgot' = (overlaps /\ (forgot \/ Len(holds) = MaxHolds))
  BY DEF FireStep, Now
<1>3. hold \in Timed(Nat) /\ fresh \in Timed(Nat \ {0})
  BY <1>1 DEF Timed
<1>4. holds' = Append(below, hold) /\ phrase' = Append(before, fresh)
  <2>1. holds' = Stacked(hold, overlaps) /\ phrase' = Append(before, fresh)
    BY DEF FireStep
  <2>2. Append(<<>>, hold) = <<hold>>
    OBVIOUS
  <2> HIDE DEF hold, fresh, overlaps
  <2>3. Stacked(hold, overlaps) = Append(below, hold)
    BY <2>2 DEF Stacked
  <2>4. QED
    BY <2>1, <2>3
<1>5. /\ below \in Seq(Timed(Nat)) /\ Len(below) < MaxHolds
      /\ before \in Seq(Timed(Nat \ {0}))
  <2>1. CASE ~overlaps
    BY <1>1, <2>1, NoHolds
  <2>2. CASE overlaps /\ Len(holds) = MaxHolds
    <3>1. holds # <<>>
      BY <1>1, <2>2
    <3>2. Tail(holds) \in Seq(Timed(Nat)) /\ Len(Tail(holds)) = Len(holds) - 1
      BY <1>1, <3>1
    <3> HIDE DEF overlaps
    <3>3. QED
      BY <1>1, <2>2, <3>2
  <2>3. CASE overlaps /\ Len(holds) # MaxHolds
    BY <1>1, <2>3
  <2>4. QED
    BY <2>1, <2>2, <2>3
<1>6. ASSUME ~forgot' PROVE Traces(before, below, frame)
  <2>1. CASE ~overlaps
    BY <2>1, EmptyTraces
  <2>2. CASE overlaps
    <3>1. ~forgot /\ Len(holds) # MaxHolds
      BY <1>2, <1>6, <2>2
    <3>2. Traces(phrase, holds, frame)
      BY <1>2, <3>1 DEF PhrasesInv, PhraseInv
    <3>3. before = phrase /\ below = holds
      BY <2>2, <3>1
    <3>4. QED
      BY <3>2, <3>3
  <2>3. QED
    BY <2>1, <2>2
<1>7. hold.note = note /\ hold.left = frame + length /\ fresh.note = note /\ fresh.left = length
  OBVIOUS
<1>8. overlaps \in BOOLEAN
  OBVIOUS
<1>9. forgot' \in BOOLEAN
  BY <1>2
<1> HIDE DEF hold, fresh, below, before, overlaps
<1>10. PhraseInv'
  <2>1. SUFFICES ASSUME ~forgot' PROVE Traces(phrase', holds', frame)
    BY <1>2 DEF PhraseInv
  <2>2. Traces(before, below, frame)
    BY <1>6, <2>1
  <2>3. fresh.note = hold.note /\ hold.left = frame + fresh.left
    BY <1>7
  <2>4. QED
    BY <1>1, <1>3, <1>4, <1>5, <2>2, <2>3, TracesAppend
<1>11. /\ holds' \in Seq(Timed(Nat)) /\ Len(holds') <= MaxHolds /\ holds' # <<>>
       /\ Newest(holds') = hold /\ phrase' \in Seq(Timed(Nat \ {0}))
  <2>1. /\ Append(below, hold) \in Seq(Timed(Nat)) /\ Len(Append(below, hold)) = Len(below) + 1
        /\ Append(below, hold) # <<>> /\ Append(below, hold)[Len(below) + 1] = hold
        /\ Len(below) \in Nat
    BY <1>3, <1>5
  <2>2. Len(below) + 1 <= MaxHolds
    BY <1>1, <1>5, <2>1
  <2>3. Append(before, fresh) \in Seq(Timed(Nat \ {0}))
    BY <1>3, <1>5
  <2>4. QED
    BY <1>4, <2>1, <2>2, <2>3 DEF Newest
<1>12. VoiceTypes'
  BY <1>1, <1>2, <1>9, <1>11 DEF VoiceTypes
<1>13. ClockInv' /\ GateInv'
  <2>1. frame + length >= frame
    BY <1>1
  <2>2. QED
    BY <1>2, <1>7, <1>11, <2>1 DEF ClockInv, GateInv
<1>14. QED
  BY <1>10, <1>12, <1>13 DEF PhrasesInv

\* A frame passes at which no gate-off is due.
LEMMA TickPhrases ==
    ASSUME PhrasesInv, Tick PROVE PhrasesInv'
<1>1. /\ pc # "keys" /\ ~GateOffDue /\ Now = frame
      /\ phrase' = Running(Sooner(phrase, 1), 0)
      /\ UNCHANGED <<active, gate, sounding, holds, off, cut, forgot>>
  BY DEF Tick, Now, voice
<1>2. frame \in Nat /\ frame < Frames /\ Frames \in Nat \ {0}
  BY TimesAreNumbers DEF PhrasesInv, VoiceTypes
<1>3. Now' = frame + 1 /\ pc' \in {"keys", "events"} /\ frame' \in 0 .. Frames - 1
  <2>1. CASE frame + 1 < Frames
    BY <1>2, <2>1 DEF Tick, Now
  <2>2. CASE ~(frame + 1 < Frames)
    <3>1. frame + 1 = Frames
      BY <1>2, <2>2
    <3>2. QED
      BY <1>2, <2>2, <3>1 DEF Tick, Now
  <2>3. QED
    BY <2>1, <2>2
<1>4. /\ phrase' \in Seq(Timed(Nat \ {0}))
      /\ Traces(phrase, holds, frame) => Traces(phrase', holds, frame + 1)
  BY <1>1, <1>2, TracesTick DEF PhrasesInv, VoiceTypes
<1>5. VoiceTypes'
  BY <1>1, <1>3, <1>4 DEF PhrasesInv, VoiceTypes
<1>6. PhraseInv'
  BY <1>1, <1>3, <1>4 DEF PhrasesInv, PhraseInv
<1>7. ClockInv' /\ GateInv'
  <2>1. CASE holds = <<>>
    BY <1>1, <2>1 DEF PhrasesInv, ClockInv, GateInv
  <2>2. CASE holds # <<>>
    <3>1. Newest(holds).left \in Nat /\ Newest(holds).left >= frame /\ Newest(holds).left # frame
      BY <1>1, <2>2, NewestHold, DueIsNewest DEF PhrasesInv, ClockInv
    <3>2. /\ Newest(holds).left >= frame + 1
          /\ Newest(holds).left > frame + 1 => Newest(holds).left > frame
      BY <1>2, <3>1
    <3>3. QED
      BY <1>1, <1>3, <2>2, <3>2 DEF PhrasesInv, ClockInv, GateInv
  <2>3. QED
    BY <2>1, <2>2
<1>8. QED
  BY <1>5, <1>6, <1>7 DEF PhrasesInv

-----------------------------------------------------------------------------
(* The phrases and the types                                               *)

\* What a key that comes up does to the voice.
LEMMA ReleaseSounds ==
    ASSUME KeysInv, NEW k \in Keys, ReleaseKey(k)
    PROVE  /\ UNCHANGED <<pc, frame>>
           /\ \/ CloseFor(k)
              \/ UNCHANGED <<voice, sequenced>>
              \/ \E other \in Keys : SoundKey(other)
<1>1. UNCHANGED <<pc, frame>>
  BY DEF ReleaseKey
<1>2. CASE ReleaseUnheld(k) \/ ReleaseLast(k)
  BY <1>1, <1>2 DEF ReleaseUnheld, ReleaseLast
<1>3. CASE ReleaseBuried(k)
  BY <1>1, <1>3 DEF ReleaseBuried
<1>4. CASE ReleaseResume(k)
  <2> DEFINE rest == Without(k)
  <2>1. rest \in Seq(Keys) /\ priority \in Priorities
    BY WithoutKeeps DEF KeysInv, HeldTypes
  <2>2. rest # <<>>
    BY <1>4 DEF ReleaseResume
  <2>3. SoundKey(Selected(priority, rest)) \/ UNCHANGED <<voice, sequenced>>
    BY <1>4 DEF ReleaseResume
  <2> HIDE DEF rest
  <2>4. Selected(priority, rest) \in Keys
    BY <2>1, <2>2, SelectedIsBest
  <2>5. QED
    BY <1>1, <2>3, <2>4
<1>5. QED
  BY <1>2, <1>3, <1>4 DEF ReleaseKey

LEMMA PressSounds ==
    ASSUME KeysInv, NEW k \in Keys, PressKey(k)
    PROVE  /\ UNCHANGED <<pc, frame>> /\ current' \in Keys
           /\ \/ UNCHANGED <<voice, sequenced>> /\ owner' = owner
              \/ \E other \in Keys : SoundKey(other)
<1> DEFINE keys == Pressed(k)
           selected == Selected(setting, keys)
<1>1. keys \in Seq(Keys) /\ keys # <<>> /\ setting \in Priorities
  BY PressedKeeps DEF KeysInv, HeldTypes
<1>2. /\ UNCHANGED <<pc, frame>> /\ current' = selected
      /\ SoundKey(selected) \/ UNCHANGED <<owner, voice, sequenced>>
  BY DEF PressKey
<1> HIDE DEF keys
<1>3. selected \in Keys
  BY <1>1, SelectedIsBest
<1>4. QED
  BY <1>2, <1>3

LEMMA PhrasesStep == KeysInv /\ PhrasesInv /\ [Next]_vars => PhrasesInv'
<1>1. SUFFICES ASSUME KeysInv, PhrasesInv, [Next]_vars PROVE PhrasesInv'
  OBVIOUS
<1>2. ASSUME UNCHANGED <<voice, sequenced, pc, frame>> PROVE PhrasesInv'
  BY <1>1, <1>2, UntouchedPhrases
<1>3. ASSUME NEW k \in Keys, PressKey(k) PROVE PhrasesInv'
  BY <1>1, <1>2, <1>3, PressSounds, SoundKeyPhrases
<1>4. ASSUME NEW k \in Keys, ReleaseKey(k) PROVE PhrasesInv'
  BY <1>1, <1>2, <1>4, ReleaseSounds, SoundKeyPhrases, CloseForPhrases
<1>5. CASE TogglePlay
  BY <1>2, <1>5 DEF TogglePlay
<1>6. CASE EditPolicy
  BY <1>2, <1>6 DEF EditPolicy
<1>7. ASSUME NEW note \in Notes, NEW length \in Gates, FireStep(note, length) PROVE PhrasesInv'
  BY <1>1, <1>7, FireStepPhrases
<1>8. CASE Callback
  BY <1>1, <1>8, BeginBlockPhrases, DispatchPhrases, TickPhrases DEF Callback
<1>9. CASE UNCHANGED vars
  BY <1>2, <1>9 DEF vars
<1>10. QED
  BY <1>1, <1>3, <1>4, <1>5, <1>6, <1>7, <1>8, <1>9 DEF Next

LEMMA PhrasesInvariant == Spec => []PhrasesInv
<1>1. QED
  BY InitPhrases, KeysInvariant, PhrasesStep, PTL DEF Spec

\* A phrase sounds its newest running note, for any notes, lengths, block and
\* capacity, unless a key was released under it or a hold was dropped.
THEOREM NewestNoteSounds == Spec => []NewestRunningNoteSounds
<1>1. ASSUME PhrasesInv PROVE NewestRunningNoteSounds
  <2>1. SUFFICES ASSUME pc # "keys", ~GateOffDue, ~cut, ~forgot
                 PROVE  IF phrase # <<>> THEN gate /\ sounding = phrase[Len(phrase)].note
                        ELSE gate => sounding \in Keys
    BY DEF NewestRunningNoteSounds
  <2>2. Now = frame /\ frame \in Nat /\ Traces(phrase, holds, frame)
    BY <1>1, <2>1, TimesAreNumbers DEF PhrasesInv, PhraseInv, VoiceTypes, Now
  <2>3. /\ holds \in Seq(Timed(Nat)) /\ phrase \in Seq(Timed(Nat \ {0}))
    BY <1>1 DEF PhrasesInv, VoiceTypes
  <2>4. PICK f : /\ Lists(f, Len(phrase), Past(holds, frame))
                 /\ \A n \in DOMAIN phrase :
                       phrase[n] = [note |-> holds[f[n]].note, left |-> holds[f[n]].left - frame]
    BY <2>2 DEF Traces
  <2>5. ASSUME holds # <<>>
        PROVE  /\ Len(holds) \in Past(holds, frame) /\ gate
               /\ sounding = holds[Len(holds)].note
    <3>1. Newest(holds).left \in Nat /\ Newest(holds).left >= frame /\ Newest(holds).left # frame
      BY <1>1, <2>1, <2>2, <2>5, NewestHold, DueIsNewest DEF PhrasesInv, ClockInv
    <3>2. Newest(holds).left > frame /\ Len(holds) \in DOMAIN holds
      BY <2>2, <2>3, <2>5, <3>1
    <3>3. gate /\ sounding = Newest(holds).note
      BY <1>1, <2>1, <2>2, <2>5, <3>2 DEF PhrasesInv, ClockInv, GateInv
    <3>4. QED
      BY <3>2, <3>3 DEF Past, Newest
  <2>6. CASE phrase # <<>>
    <3> DEFINE p == Len(phrase)
               l == Len(holds)
    <3>1. p \in Nat \ {0} /\ p \in DOMAIN phrase /\ l \in Nat /\ Past(holds, frame) \subseteq 1 .. l
      BY <2>3, <2>6 DEF Past
    <3>2. f[p] \in Past(holds, frame)
      BY <2>4, <3>1 DEF Lists
    <3>3. holds # <<>>
      BY <3>2 DEF Past
    <3>4. f[p] = l
      <4>1. l \in Past(holds, frame) /\ Lists(f, p, Past(holds, frame)) /\ p \in Nat
        BY <2>4, <2>5, <3>1, <3>3
      <4> HIDE DEF l, p
      <4>2. QED
        BY <3>1, <4>1, ListEnds
    <3>5. phrase[p].note = holds[l].note
      BY <2>4, <3>1, <3>4
    <3>6. QED
      BY <2>5, <2>6, <3>3, <3>5
  <2>7. CASE phrase = <<>>
    <3>1. Past(holds, frame) = {}
      BY <2>4, <2>7 DEF Lists
    <3>2. holds = <<>>
      BY <2>5, <3>1
    <3>3. gate => sounding \in Keys
      BY <1>1, <3>2 DEF PhrasesInv, GateInv
    <3>4. QED
      BY <2>7, <3>3
  <2>8. QED
    BY <2>6, <2>7
<1>2. QED
  BY <1>1, PhrasesInvariant, PTL

\* Only the release of its key, or the end of the note that sounds, closes a gate.
THEOREM GatesCloseInTime == Spec => OnlyItsOwnEndClosesAGate
<1>1. KeysInv /\ PhrasesInv /\ [Next]_vars =>
          [gate /\ ~gate' => \/ sounding \in Notes /\ GateOffDue
                             \/ \E k \in down \ down' : owner = k]_vars
  <2> SUFFICES ASSUME KeysInv, PhrasesInv, Next, gate, ~gate'
               PROVE  \/ sounding \in Notes /\ GateOffDue
                      \/ \E k \in down \ down' : owner = k
    BY DEF vars
  <2>1. ASSUME UNCHANGED voice PROVE FALSE
    BY <2>1 DEF voice
  <2>2. ASSUME NEW other, SoundKey(other) PROVE FALSE
    BY <2>2 DEF SoundKey
  <2>3. ASSUME NEW k \in Keys, PressKey(k) PROVE FALSE
    BY <2>1, <2>2, <2>3, PressSounds
  <2>4. ASSUME NEW k \in Keys, ReleaseKey(k)
        PROVE  \E j \in down \ down' : owner = j
    <3>1. CloseFor(k)
      BY <2>1, <2>2, <2>4, ReleaseSounds
    <3>2. owner = k
      BY <2>1, <3>1 DEF CloseFor
    <3>3. k \in down \ down'
      BY <2>4 DEF ReleaseKey
    <3>4. QED
      BY <3>2, <3>3
  <2>5. CASE DispatchGateOff
    <3>1. GateOffDue /\ pc # "keys"
      BY <2>5 DEF DispatchGateOff
    <3>2. holds # <<>>
      BY <3>1, DueIsNewest
    <3>3. sounding = Newest(holds).note /\ Newest(holds).note \in Notes
      BY <3>2, NewestHold DEF PhrasesInv, ClockInv
    <3>4. QED
      BY <3>1, <3>3
  <2>6. CASE TogglePlay \/ EditPolicy \/ BeginBlock \/ Tick
    BY <2>1, <2>6 DEF TogglePlay, EditPolicy, BeginBlock, Tick
  <2>7. ASSUME NEW note \in Notes, NEW length \in Gates, FireStep(note, length) PROVE FALSE
    BY <2>7 DEF FireStep
  <2>8. QED
    BY <2>3, <2>4, <2>5, <2>6, <2>7 DEF Next, Callback
<1>2. QED
  BY <1>1, KeysInvariant, PhrasesInvariant, PTL DEF Spec, OnlyItsOwnEndClosesAGate

LEMMA PressedFits ==
    ASSUME HeldTypes, Len(held) <= HeldCapacity, NEW k \in Keys
    PROVE  Len(Pressed(k)) <= HeldCapacity
<1> DEFINE others == Without(k)
           kept == IF Len(others) = HeldCapacity THEN Tail(others) ELSE others
<1>1. held \in Seq(Keys) /\ Len(held) \in Nat /\ HeldCapacity \in Nat \ {0}
  BY TimesAreNumbers DEF HeldTypes
<1>2. others \in Seq(Keys) /\ Len(others) \in Nat /\ Len(others) <= HeldCapacity
  <2>1. /\ others \in Seq(Keys)
        /\ Len(others) \in {Len(held) - 1, Len(held)}
    BY WithoutKeeps
  <2> HIDE DEF others
  <2>2. QED
    BY <1>1, <2>1
<1>3. Pressed(k) = Append(kept, k)
  BY DEF Pressed
<1> HIDE DEF others
<1>4. kept \in Seq(Keys) /\ Len(kept) \in Nat /\ Len(kept) < HeldCapacity
  <2>1. CASE Len(others) = HeldCapacity
    <3>1. others # <<>>
      BY <1>1, <2>1
    <3>2. Tail(others) \in Seq(Keys) /\ Len(Tail(others)) = Len(others) - 1
      BY <1>2, <3>1
    <3>3. QED
      BY <1>1, <2>1, <3>2
  <2>2. CASE Len(others) # HeldCapacity
    BY <1>1, <1>2, <2>2
  <2>3. QED
    BY <2>1, <2>2
<1> HIDE DEF kept
<1>5. Len(Append(kept, k)) = Len(kept) + 1
  BY <1>4
<1>6. QED
  BY <1>1, <1>3, <1>4, <1>5

LEMMA KeyTypesStep == KeysInv /\ KeyTypes /\ [Next]_vars => KeyTypes'
<1>1. SUFFICES ASSUME KeysInv, KeyTypes, [Next]_vars PROVE KeyTypes'
  OBVIOUS
<1>2. ASSUME UNCHANGED live, {playing, legato}' \subseteq BOOLEAN PROVE KeyTypes'
  BY <1>1, <1>2 DEF KeyTypes, live
<1>3. ASSUME NEW k \in Keys, PressKey(k) PROVE KeyTypes'
  <2>1. /\ held' = Pressed(k) /\ UNCHANGED <<playing, legato>>
    BY <1>3 DEF PressKey, policy
  <2>2. Len(Pressed(k)) <= HeldCapacity
    BY <1>1, PressedFits DEF KeysInv, KeyTypes
  <2>3. /\ current' \in Keys /\ (owner' = owner \/ owner' \in Keys)
    BY <1>1, <1>3, PressSounds DEF SoundKey
  <2>4. QED
    BY <1>1, <2>1, <2>2, <2>3 DEF KeyTypes
<1>4. ASSUME NEW k \in Keys, ReleaseKey(k) PROVE KeyTypes'
  <2>1. UNCHANGED <<playing, legato>>
    BY <1>4 DEF ReleaseKey, policy
  <2>2. Len(Without(k)) <= HeldCapacity /\ Len(<<>>) <= HeldCapacity
    <3>1. /\ Len(Without(k)) \in {Len(held) - 1, Len(held)}
      BY <1>1, WithoutKeeps DEF KeysInv
    <3>2. held \in Seq(Keys) /\ Len(held) \in Nat /\ HeldCapacity \in Nat \ {0}
          /\ Len(held) <= HeldCapacity
      BY <1>1, TimesAreNumbers DEF KeysInv, HeldTypes, KeyTypes
    <3>3. QED
      BY <3>1, <3>2
  <2>3. CASE ReleaseUnheld(k) \/ ReleaseLast(k)
    BY <1>1, <2>1, <2>2, <2>3 DEF ReleaseUnheld, ReleaseLast, CloseFor, KeyTypes
  <2>4. CASE ReleaseBuried(k)
    BY <1>1, <2>1, <2>2, <2>4 DEF ReleaseBuried, KeyTypes
  <2>5. CASE ReleaseResume(k)
    <3> DEFINE rest == Without(k)
               key == Selected(priority, rest)
    <3>1. rest \in Seq(Keys) /\ priority \in Priorities
      BY <1>1, WithoutKeeps DEF KeysInv, HeldTypes
    <3>2. rest # <<>>
      BY <2>5 DEF ReleaseResume
    <3>3. \/ held' = rest /\ current' = key /\ owner' = key
          \/ held' = <<>> /\ current' = None /\ owner' = owner
      BY <2>5 DEF ReleaseResume, SoundKey
    <3>4. key \in Keys
      <4> HIDE DEF rest
      <4>1. QED
        BY <3>1, <3>2, SelectedIsBest
    <3> HIDE DEF key
    <3>5. QED
      BY <1>1, <2>1, <2>2, <3>3, <3>4 DEF KeyTypes
  <2>6. QED
    BY <1>4, <2>3, <2>4, <2>5 DEF ReleaseKey
<1>5. CASE TogglePlay
  BY <1>1, <1>2, <1>5 DEF TogglePlay, policy, KeyTypes
<1>6. CASE EditPolicy
  BY <1>1, <1>2, <1>6 DEF EditPolicy, KeyTypes
<1>7. ASSUME NEW note \in Notes, NEW length \in Gates, FireStep(note, length) PROVE KeyTypes'
  BY <1>1, <1>2, <1>7 DEF FireStep, policy, KeyTypes
<1>8. CASE Callback
  BY <1>1, <1>2, <1>8 DEF Callback, BeginBlock, DispatchGateOff, Tick, policy, KeyTypes
<1>9. CASE UNCHANGED vars
  BY <1>1, <1>2, <1>9 DEF vars, policy, KeyTypes
<1>10. QED
  BY <1>1, <1>3, <1>4, <1>5, <1>6, <1>7, <1>8, <1>9 DEF Next

\* Every variable keeps its type; the stacks never outgrow their capacities, and
\* there is one gate-off at most.
THEOREM TypeCorrect == Spec => []TypeOK
<1>1. ASSUME Init PROVE KeyTypes
  <2>1. Len(<<>>) = 0 /\ HeldCapacity \in Nat
    BY TimesAreNumbers
  <2>2. Len(held) <= HeldCapacity
    BY <1>1, <2>1 DEF Init
  <2>3. QED
    BY <1>1, <2>2 DEF Init, KeyTypes
<1>2. ASSUME KeysInv, PhrasesInv, KeyTypes PROVE TypeOK
  <2>1. /\ held \in BoundedSeq(Keys, HeldCapacity) /\ IsInjective(held) /\ Range(held) \subseteq down
    <3>1. held \in Seq(Keys) /\ Len(held) \in Nat /\ Len(held) <= HeldCapacity
          /\ HeldCapacity \in Nat
      BY <1>2, TimesAreNumbers DEF KeysInv, HeldTypes, KeyTypes
    <3>2. Len(held) \in 0 .. HeldCapacity /\ held \in [1 .. Len(held) -> Keys]
      BY <3>1
    <3>3. held \in BoundedSeq(Keys, HeldCapacity)
      BY <3>2 DEF BoundedSeq, SeqOf
    <3>4. QED
      BY <1>2, <3>3 DEF KeysInv, HeldTypes, Range
  <2>2. off \subseteq [later : BOOLEAN, at : Nat] /\ Cardinality(off) <= 1
    <3>1. CASE holds = <<>>
      <4>1. off = {} /\ Cardinality({}) = 0
        BY <1>2, <3>1, FS_EmptySet DEF PhrasesInv, ClockInv
      <4>2. QED
        BY <4>1
    <3>2. CASE holds # <<>>
      <4> DEFINE left == Newest(holds).left
                 g == GateOffAt(left)
      <4>1. left \in Nat /\ off = {g}
        BY <1>2, <3>2, NewestHold DEF PhrasesInv, ClockInv
      <4> HIDE DEF left
      <4>2. g \in [later : BOOLEAN, at : Nat]
        BY <4>1, TimesAreNumbers DEF GateOffAt
      <4> HIDE DEF g
      <4>3. Cardinality({g}) = 1
        BY FS_Singleton
      <4>4. QED
        BY <4>1, <4>2, <4>3
    <3>3. QED
      BY <3>1, <3>2
  <2>3. QED
    BY <1>2, <2>1, <2>2 DEF TypeOK, KeysInv, HeldTypes, PhrasesInv, VoiceTypes, KeyTypes
<1>3. QED
  BY <1>1, <1>2, KeysInvariant, PhrasesInvariant, KeyTypesStep, PTL DEF Spec
=============================================================================
