------------------------ MODULE QuantizedLaunch_proofs ------------------------
(***************************************************************************)
(* Proofs about QuantizedLaunch, for any tracks, scenes, owners and        *)
(* commands, any grid, chunk and lookahead, and channels of any capacity.  *)
(***************************************************************************)
EXTENDS QuantizedLaunch, SequenceTheorems, FiniteSetTheorems, TLAPS

-----------------------------------------------------------------------------
(* Finite sets in order                                                    *)

\* A property of no least finite set is a property of none.
LEMMA LeastSubset ==
    ASSUME NEW S, IsFiniteSet(S), NEW bad, bad \subseteq SUBSET S, bad # {}
    PROVE  \E T \in bad : \A U \in SUBSET T : U # T => U \notin bad
<1>1. SUBSET S = FiniteSubsetsOf(S)
  BY FS_FiniteSubsetsOfFinite
<1>2. IsWellFoundedOn(StrictSubsetOrdering(S), FiniteSubsetsOf(S))
  BY FS_StrictSubsetOrderingWellFounded
<1>3. PICK T \in bad : \A U \in bad : <<U, T>> \notin StrictSubsetOrdering(S)
  BY <1>1, <1>2, WFMin
<1>4. ASSUME NEW U \in SUBSET T, U # T, U \in bad PROVE FALSE
  <2>1. <<U, T>> \in StrictSubsetOrdering(S)
    BY <1>3, <1>4 DEF StrictSubsetOrdering
  <2>2. QED
    BY <1>3, <1>4, <2>1
<1>5. QED
  BY <1>4

\* An element whose key is greatest.
LEMMA GreatestKey ==
    ASSUME NEW S, IsFiniteSet(S), S # {}, NEW key, \A x \in S : key[x] \in Nat
    PROVE  \E x \in S : \A y \in S : key[y] <= key[x]
<1> DEFINE Top(T) == \E x \in T : \A y \in T : key[y] <= key[x]
           bad == {T \in SUBSET S : T # {} /\ ~Top(T)}
<1>1. SUFFICES ASSUME bad # {} PROVE FALSE
  OBVIOUS
<1>2. PICK T \in bad : \A U \in SUBSET T : U # T => U \notin bad
  <2>1. bad \subseteq SUBSET S
    OBVIOUS
  <2> HIDE DEF bad
  <2>2. QED
    BY <1>1, <2>1, LeastSubset
<1>3. PICK x \in T : TRUE
  OBVIOUS
<1>4. T \subseteq S /\ ~Top(T) /\ key[x] \in Nat
  OBVIOUS
<1>5. CASE T = {x}
  <2>1. \A y \in T : key[y] <= key[x]
    BY <1>4, <1>5
  <2>2. QED
    BY <1>3, <1>4, <2>1
<1>6. CASE T # {x}
  <2>1. T \ {x} # {} /\ T \ {x} \in SUBSET T /\ T \ {x} # T
    BY <1>3, <1>6
  <2>2. T \ {x} \notin bad
    BY <1>2, <2>1
  <2>3. Top(T \ {x})
    BY <1>4, <2>1, <2>2
  <2>4. PICK y \in T \ {x} : \A z \in T \ {x} : key[z] <= key[y]
    BY <2>3
  <2>5. key[y] \in Nat /\ \A z \in T : key[z] \in Nat
    BY <1>4, <2>4
  <2>6. CASE key[x] <= key[y]
    BY <1>4, <2>4, <2>6
  <2>7. CASE key[y] <= key[x]
    <3>1. \A z \in T : key[z] <= key[x]
      BY <1>4, <2>4, <2>5, <2>7
    <3>2. QED
      BY <1>3, <1>4, <3>1
  <2>8. QED
    BY <1>4, <2>5, <2>6, <2>7
<1>7. QED
  BY <1>5, <1>6

Sorted(s, S, key) ==
    /\ s \in Bijection(1 .. Cardinality(S), S)
    /\ \A i, j \in DOMAIN s : i <= j => key[s[i]] <= key[s[j]]

\* A finite set can be put in the order of any keys: of a smallest one that
\* cannot, what is left without an element of the greatest key can.
LEMMA SortedExists ==
    ASSUME NEW S, IsFiniteSet(S), NEW key, \A x \in S : key[x] \in Nat
    PROVE  \E s : Sorted(s, S, key)
<1> DEFINE bad == {T \in SUBSET S : ~\E s : Sorted(s, T, key)}
<1>1. SUFFICES ASSUME bad # {} PROVE FALSE
  OBVIOUS
<1>2. PICK T \in bad : \A U \in SUBSET T : U # T => U \notin bad
  <2>1. bad \subseteq SUBSET S
    OBVIOUS
  <2> HIDE DEF bad
  <2>2. QED
    BY <1>1, <2>1, LeastSubset
<1>3. T \subseteq S /\ ~\E s : Sorted(s, T, key)
  OBVIOUS
<1>4. IsFiniteSet(T) /\ Cardinality(T) \in Nat
  BY <1>3, FS_Subset, FS_CardinalityType
<1>5. CASE T = {}
  <2>1. Cardinality(T) = 0
    BY <1>5, FS_EmptySet
  <2>2. Sorted([i \in {} |-> i], T, key)
    BY <1>5, <2>1 DEF Sorted, Bijection, Injection, Surjection, IsInjective
  <2>3. QED
    BY <1>3, <2>2
<1>6. CASE T # {}
  <2>1. PICK x \in T : \A y \in T : key[y] <= key[x]
    BY <1>3, <1>4, <1>6, GreatestKey
  <2> DEFINE U == T \ {x}
             n == Cardinality(T)
  <2>2. Cardinality(U) = n - 1 /\ Cardinality(U) \in Nat
    BY <1>4, <2>1, FS_RemoveElement, FS_CardinalityType
  <2>3. PICK s : Sorted(s, U, key)
    <3>1. U \in SUBSET T /\ U # T
      BY <2>1
    <3>2. U \notin bad
      BY <1>2, <3>1
    <3>3. QED
      BY <1>3, <3>1, <3>2
  <2> DEFINE r == [i \in 1 .. n |-> IF i = n THEN x ELSE s[i]]
  <2>4. /\ s \in [1 .. n - 1 -> U] /\ DOMAIN s = 1 .. n - 1
        /\ \A i, j \in 1 .. n - 1 : s[i] = s[j] => i = j
        /\ \A u \in U : \E i \in 1 .. n - 1 : s[i] = u
        /\ \A i, j \in 1 .. n - 1 : i <= j => key[s[i]] <= key[s[j]]
    BY <2>2, <2>3 DEF Sorted, Bijection, Injection, Surjection, IsInjective
  <2>5. n \in Nat /\ n \in 1 .. n /\ \A i \in 1 .. n : i = n \/ i \in 1 .. n - 1
    BY <1>4, <2>2
  <2> HIDE DEF n
  <2>6. r \in [1 .. n -> T] /\ DOMAIN r = 1 .. n
    BY <2>1, <2>4, <2>5
  <2>7. \A i, j \in 1 .. n : r[i] = r[j] => i = j
    BY <2>1, <2>4, <2>5
  <2>8. \A u \in T : \E i \in 1 .. n : r[i] = u
    <3>1. TAKE u \in T
    <3>2. CASE u = x
      BY <2>5, <3>2
    <3>3. CASE u # x
      <4>1. PICK i \in 1 .. n - 1 : s[i] = u
        BY <2>4, <3>3
      <4>2. i \in 1 .. n /\ i # n
        BY <2>5
      <4>3. QED
        BY <4>1, <4>2
    <3>4. QED
      BY <3>2, <3>3
  <2>9. \A i, j \in 1 .. n : i <= j => key[r[i]] <= key[r[j]]
    <3>1. TAKE i, j \in 1 .. n
    <3>2. HAVE i <= j
    <3>3. CASE j = n
      BY <2>1, <2>6, <3>3
    <3>4. CASE j # n
      <4>1. i \in 1 .. n - 1 /\ j \in 1 .. n - 1 /\ i # n
        BY <2>5, <3>2, <3>4
      <4>2. QED
        BY <2>4, <3>2, <3>4, <4>1
    <3>5. QED
      BY <3>3, <3>4
  <2> HIDE DEF r
  <2>10. Sorted(r, T, key)
    BY <2>6, <2>7, <2>8, <2>9 DEF Sorted, Bijection, Injection, Surjection, IsInjective, n
  <2>11. QED
    BY <1>3, <2>10
<1>7. QED
  BY <1>5, <1>6

\* Every element of the set has one place in the order.
LEMMA InOrderProperties ==
    ASSUME NEW S, IsFiniteSet(S), NEW key, \A x \in S : key[x] \in Nat
    PROVE  /\ InOrder(S, key) \in Seq(S) /\ Range(InOrder(S, key)) = S
           /\ IsInjective(InOrder(S, key))
<1> DEFINE s == InOrder(S, key)
<1>1. Sorted(s, S, key)
  <2>1. PICK r : Sorted(r, S, key)
    BY SortedExists
  <2>2. QED
    BY <2>1 DEF Sorted, InOrder
<1> HIDE DEF s
<1>2. s \in [1 .. Cardinality(S) -> S] /\ IsInjective(s)
      /\ \A x \in S : \E i \in 1 .. Cardinality(S) : s[i] = x
  BY <1>1 DEF Sorted, Bijection, Injection, Surjection
<1>3. s \in Seq(S)
  BY <1>2, FS_CardinalityType
<1>4. Range(s) = S
  BY <1>2 DEF Range
<1>5. QED
  BY <1>2, <1>3, <1>4 DEF s

\* What is kept of a sequence is what the set has of it, once as often.
LEMMA KeptProperties ==
    ASSUME NEW S, NEW s \in Seq(S), NEW set
    PROVE  /\ Kept(s, set) \in Seq(S) /\ Range(Kept(s, set)) = Range(s) \cap set
           /\ \A n, m \in DOMAIN Kept(s, set) : n # m =>
                 \E i, j \in DOMAIN s : i # j /\ Kept(s, set)[n] = s[i] /\ Kept(s, set)[m] = s[j]
<1> DEFINE places == {i \in DOMAIN s : s[i] \in set}
           key == [i \in DOMAIN s |-> i]
           at == InOrder(places, key)
           kept == [n \in DOMAIN at |-> s[at[n]]]
<1>1. DOMAIN s = 1 .. Len(s) /\ Len(s) \in Nat
  OBVIOUS
<1>2. IsFiniteSet(places) /\ \A i \in places : key[i] \in Nat
  <2>1. IsFiniteSet(1 .. Len(s))
    BY <1>1, FS_Interval
  <2>2. places \in SUBSET (1 .. Len(s))
    BY <1>1
  <2>3. IsFiniteSet(places)
    BY <2>1, <2>2, FS_Subset
  <2>4. QED
    BY <1>1, <2>3
<1>3. at \in Seq(places) /\ Range(at) = places /\ IsInjective(at)
  <2> HIDE DEF places, key
  <2>1. QED
    BY <1>2, InOrderProperties
<1>4. Kept(s, set) = kept
  BY DEF Kept
<1> HIDE DEF at
<1>5. DOMAIN at = 1 .. Len(at) /\ Len(at) \in Nat /\ \A n \in DOMAIN at : at[n] \in places
  BY <1>3
<1>6. kept \in Seq(S)
  BY <1>1, <1>5
<1>7. Range(kept) = Range(s) \cap set
  <2>1. \A n \in DOMAIN kept : kept[n] \in Range(s) \cap set
    BY <1>5 DEF Range
  <2>2. \A x \in Range(s) \cap set : \E n \in DOMAIN kept : kept[n] = x
    <3>1. TAKE x \in Range(s) \cap set
    <3>2. PICK i \in places : s[i] = x
      BY DEF Range
    <3>3. PICK n \in DOMAIN at : at[n] = i
      BY <1>3, <3>2 DEF Range
    <3>4. QED
      BY <3>2, <3>3
  <2>3. QED
    BY <2>1, <2>2 DEF Range
<1>8. \A n, m \in DOMAIN kept : n # m =>
         \E i, j \in DOMAIN s : i # j /\ kept[n] = s[i] /\ kept[m] = s[j]
  <2>1. TAKE n, m \in DOMAIN kept
  <2>2. HAVE n # m
  <2>3. at[n] # at[m] /\ at[n] \in DOMAIN s /\ at[m] \in DOMAIN s
    BY <1>3, <1>5, <2>2 DEF IsInjective
  <2>4. QED
    BY <2>3
<1>9. QED
  BY <1>4, <1>6, <1>7, <1>8

-----------------------------------------------------------------------------
(* Sequences and numbers                                                   *)

LEMMA RangeTypes ==
    ASSUME NEW S, NEW s \in Seq(S) PROVE Range(s) \subseteq S
BY DEF Range

LEMMA RangeAppend ==
    ASSUME NEW S, NEW s \in Seq(S), NEW x \in S
    PROVE  Range(Append(s, x)) = Range(s) \cup {x}
<1>1. /\ DOMAIN s = 1 .. Len(s) /\ Len(s) \in Nat
      /\ DOMAIN Append(s, x) = 1 .. Len(s) + 1
      /\ \A i \in 1 .. Len(s) : Append(s, x)[i] = s[i]
      /\ Append(s, x)[Len(s) + 1] = x
  OBVIOUS
<1>2. \A i \in 1 .. Len(s) + 1 : i \in 1 .. Len(s) \/ i = Len(s) + 1
  BY <1>1
<1>3. \A i \in 1 .. Len(s) : i \in 1 .. Len(s) + 1
  BY <1>1
<1>4. Len(s) + 1 \in 1 .. Len(s) + 1
  BY <1>1
<1>5. QED
  BY <1>1, <1>2, <1>3, <1>4 DEF Range

LEMMA RangeConcat ==
    ASSUME NEW S, NEW s \in Seq(S), NEW t \in Seq(S)
    PROVE  s \o t \in Seq(S) /\ Range(s \o t) = Range(s) \cup Range(t)
<1>1. /\ DOMAIN s = 1 .. Len(s) /\ Len(s) \in Nat /\ DOMAIN t = 1 .. Len(t) /\ Len(t) \in Nat
      /\ s \o t \in Seq(S) /\ DOMAIN (s \o t) = 1 .. Len(s) + Len(t)
  OBVIOUS
<1>2. /\ \A i \in 1 .. Len(s) : i \in 1 .. Len(s) + Len(t) /\ (s \o t)[i] = s[i]
      /\ \A i \in 1 .. Len(t) :
            Len(s) + i \in 1 .. Len(s) + Len(t) /\ (s \o t)[Len(s) + i] = t[i]
  BY <1>1, ConcatProperties
<1>3. \A i \in 1 .. Len(s) + Len(t) :
         i \in 1 .. Len(s) \/ \E j \in 1 .. Len(t) : i = Len(s) + j
  <2>1. TAKE i \in 1 .. Len(s) + Len(t)
  <2>2. CASE i <= Len(s)
    BY <1>1, <2>2
  <2>3. CASE i > Len(s)
    <3>1. i - Len(s) \in 1 .. Len(t) /\ i = Len(s) + (i - Len(s))
      BY <1>1, <2>3
    <3>2. QED
      BY <3>1
  <2>4. QED
    BY <1>1, <2>2, <2>3
<1>4. Range(s \o t) \subseteq Range(s) \cup Range(t)
  BY <1>1, <1>2, <1>3, SMTT(30) DEF Range
<1>5. Range(s) \cup Range(t) \subseteq Range(s \o t)
  BY <1>1, <1>2 DEF Range
<1>6. QED
  BY <1>1, <1>4, <1>5

\* A sequence is its head and its tail.
LEMMA RangeTail ==
    ASSUME NEW S, NEW s \in Seq(S), s # <<>>
    PROVE  /\ Head(s) \in S /\ Tail(s) \in Seq(S) /\ Range(s) = {Head(s)} \cup Range(Tail(s))
           /\ Head(s) = s[1] /\ DOMAIN Tail(s) = 1 .. Len(s) - 1
           /\ \A i \in 1 .. Len(s) - 1 : Tail(s)[i] = s[i + 1]
<1>1. /\ DOMAIN s = 1 .. Len(s) /\ Len(s) \in Nat \ {0} /\ Head(s) = s[1]
      /\ Head(s) \in S /\ Tail(s) \in Seq(S) /\ DOMAIN Tail(s) = 1 .. Len(s) - 1
      /\ \A i \in 1 .. Len(s) - 1 : Tail(s)[i] = s[i + 1]
  BY HeadTailProperties
<1>2. \A i \in 1 .. Len(s) : i = 1 \/ \E j \in 1 .. Len(s) - 1 : i = j + 1
  <2>1. TAKE i \in 1 .. Len(s)
  <2>2. CASE i = 1
    BY <2>2
  <2>3. CASE i # 1
    <3>1. i - 1 \in 1 .. Len(s) - 1 /\ i = (i - 1) + 1
      BY <1>1, <2>3
    <3>2. QED
      BY <3>1
  <2>4. QED
    BY <2>2, <2>3
<1>3. 1 \in 1 .. Len(s) /\ \A j \in 1 .. Len(s) - 1 : j + 1 \in 1 .. Len(s)
  BY <1>1
<1>4. Range(s) \subseteq {Head(s)} \cup Range(Tail(s))
  <2>1. \A i \in DOMAIN s : s[i] = Head(s) \/ \E j \in DOMAIN Tail(s) : s[i] = Tail(s)[j]
    BY <1>1, <1>2
  <2>2. QED
    BY <2>1 DEF Range
<1>5. {Head(s)} \cup Range(Tail(s)) \subseteq Range(s)
  BY <1>1, <1>3 DEF Range
<1>6. QED
  BY <1>1, <1>4, <1>5

\* A part of a sequence has its elements at other places.
LEMMA PartProperties ==
    ASSUME NEW S, NEW s \in Seq(S), NEW a \in Nat \ {0}, NEW b \in 0 .. Len(s)
    PROVE  /\ SubSeq(s, a, b) \in Seq(S) /\ Range(SubSeq(s, a, b)) \subseteq Range(s)
           /\ Len(SubSeq(s, a, b)) = IF a <= b THEN b - a + 1 ELSE 0
           /\ \A i \in DOMAIN SubSeq(s, a, b) :
                 a + i - 1 \in DOMAIN s /\ SubSeq(s, a, b)[i] = s[a + i - 1]
<1> DEFINE r == SubSeq(s, a, b)
<1>1. /\ Len(s) \in Nat /\ DOMAIN s = 1 .. Len(s) /\ a \in Int /\ b \in Int /\ b \in Nat
      /\ \A i \in a .. b : s[i] \in S
  OBVIOUS
<1>2. /\ r \in Seq(S) /\ Len(r) = IF a <= b THEN b - a + 1 ELSE 0
      /\ \A i \in 1 .. b - a + 1 : r[i] = s[a + i - 1]
  BY <1>1, SubSeqProperties
<1> HIDE DEF r
<1>3. DOMAIN r = 1 .. Len(r) /\ Len(r) \in Nat
  BY <1>2
<1>4. \A i \in DOMAIN r : a + i - 1 \in DOMAIN s /\ r[i] = s[a + i - 1]
  BY <1>1, <1>2, <1>3
<1>5. Range(r) \subseteq Range(s)
  BY <1>4 DEF Range
<1>6. QED
  BY <1>2, <1>4, <1>5 DEF r

\* Cut in two, it loses nothing.
LEMMA CutProperties ==
    ASSUME NEW S, NEW s \in Seq(S), NEW n \in 0 .. Len(s)
    PROVE  Range(s) = Range(SubSeq(s, 1, n)) \cup Range(SubSeq(s, n + 1, Len(s)))
<1> DEFINE front == SubSeq(s, 1, n)
           back  == SubSeq(s, n + 1, Len(s))
<1>1. Len(s) \in Nat /\ DOMAIN s = 1 .. Len(s) /\ n \in Nat /\ n + 1 \in Nat \ {0}
      /\ Len(s) \in 0 .. Len(s)
  OBVIOUS
<1>2. /\ front \in Seq(S) /\ Range(front) \subseteq Range(s)
      /\ Len(front) = IF 1 <= n THEN n - 1 + 1 ELSE 0
      /\ \A i \in DOMAIN front : front[i] = s[1 + i - 1]
  BY <1>1, PartProperties
<1>3. /\ back \in Seq(S) /\ Range(back) \subseteq Range(s)
      /\ Len(back) = IF n + 1 <= Len(s) THEN Len(s) - (n + 1) + 1 ELSE 0
      /\ \A i \in DOMAIN back : back[i] = s[(n + 1) + i - 1]
  BY <1>1, PartProperties
<1> HIDE DEF front, back
<1>4. /\ DOMAIN front = 1 .. n /\ DOMAIN back = 1 .. Len(s) - n
      /\ \A i \in 1 .. n : front[i] = s[i]
      /\ \A i \in 1 .. Len(s) - n : back[i] = s[n + i]
  <2>1. n <= Len(s) /\ Len(s) \in Nat /\ n \in Nat
    <3>1. Len(s) \in Nat
      OBVIOUS
    <3>2. \A l \in Nat : \A m \in 0 .. l : m <= l /\ m \in Nat
      OBVIOUS
    <3>3. QED
      BY <3>1, <3>2
  <2>2. Len(front) = n
    <3>1. Len(front) = IF 1 <= n THEN n - 1 + 1 ELSE 0
      BY <1>2
    <3>2. QED
      BY <1>1, <3>1
  <2>3. Len(back) = Len(s) - n
    <3>1. Len(back) = IF n + 1 <= Len(s) THEN Len(s) - (n + 1) + 1 ELSE 0
      BY <1>3
    <3>2. QED
      BY <2>1, <3>1
  <2>4. DOMAIN front = 1 .. n /\ DOMAIN back = 1 .. Len(s) - n
    <3>1. DOMAIN front = 1 .. Len(front) /\ DOMAIN back = 1 .. Len(back)
      BY <1>2, <1>3
    <3>2. QED
      BY <2>2, <2>3, <3>1
  <2>5. \A i \in 1 .. n : front[i] = s[i]
    <3>1. \A i \in 1 .. n : 1 + i - 1 = i
      OBVIOUS
    <3>2. QED
      BY <1>2, <2>4, <3>1
  <2>6. \A i \in 1 .. Len(s) - n : back[i] = s[n + i]
    <3>1. \A i \in 1 .. Len(s) - n : (n + 1) + i - 1 = n + i
      BY <1>1
    <3>2. QED
      BY <1>3, <2>4, <3>1
  <2>7. QED
    BY <2>4, <2>5, <2>6
<1>5. ASSUME NEW x \in Range(s) PROVE x \in Range(front) \cup Range(back)
  <2>1. PICK i \in 1 .. Len(s) : s[i] = x
    BY <1>1, <1>5 DEF Range
  <2>2. CASE i <= n
    <3>1. i \in 1 .. n
      BY <2>2
    <3>2. QED
      BY <1>4, <2>1, <3>1 DEF Range
  <2>3. CASE i > n
    <3>1. i - n \in 1 .. Len(s) - n /\ n + (i - n) = i
      BY <1>1, <2>3
    <3>2. QED
      BY <1>4, <2>1, <3>1 DEF Range
  <2>4. QED
    BY <1>1, <2>2, <2>3
<1>6. QED
  BY <1>2, <1>3, <1>5 DEF front, back

\* Min finds the least of some natural numbers, Max the greatest.
LEMMA MinProperties ==
    ASSUME NEW T, T \subseteq Nat, T # {}
    PROVE  Min(T) \in T /\ \A y \in T : Min(T) <= y
<1> DEFINE R == OpToRel(<, Nat)
<1>1. IsWellFoundedOn(R, Nat)
  BY NatLessThanWellFounded
<1>2. \A x, y \in Nat : x < y => <<x, y>> \in R
  BY DEF OpToRel
<1> HIDE DEF R
<1>3. PICK x \in T : \A y \in T : <<y, x>> \notin R
  BY <1>1, WFMin
<1>4. \A y \in T : ~(y < x)
  BY <1>2, <1>3, Zenon
<1>5. \A y \in T : x <= y
  BY <1>4
<1>6. QED
  BY <1>5 DEF Min

LEMMA MaxProperties ==
    ASSUME NEW n \in Nat, NEW T, T \subseteq 0 .. n, T # {}
    PROVE  Max(T) \in T /\ \A y \in T : Max(T) >= y
<1>1. IsFiniteSet(T)
  <2>1. IsFiniteSet(0 .. n)
    BY FS_Interval
  <2>2. QED
    BY <2>1, FS_Subset
<1>2. PICK x \in T : \A y \in T : [z \in T |-> z][y] <= [z \in T |-> z][x]
  <2> DEFINE key == [z \in T |-> z]
  <2>1. \A z \in T : key[z] \in Nat
    OBVIOUS
  <2> HIDE DEF key
  <2>2. \E x \in T : \A y \in T : key[y] <= key[x]
    BY <1>1, <2>1, GreatestKey
  <2>3. QED
    BY <2>2 DEF key
<1>3. \A y \in T : x >= y
  BY <1>2
<1>4. QED
  BY <1>3 DEF Max

-----------------------------------------------------------------------------
(* Types                                                                   *)

ControlTypes ==
    /\ fate \in [1 .. MaxToken -> Fates] /\ ownerTok \in [Owners -> 0 .. MaxToken]
    /\ work \in Seq(Job) /\ toggles \in 0 .. MaxToggles
    /\ published \in Snapshot /\ wiped \in BOOLEAN

ChannelTypes ==
    /\ requests \in Seq(Message) /\ Len(requests) <= RequestCapacity
    /\ dues \in Seq(Due) /\ Len(dues) <= DueCapacity

PassTypes ==
    /\ stage \in {"load", "receive", "schedule"} /\ base \in Snapshot
    /\ last \in [pattern : Scenes, epoch : Nat, playing : BOOLEAN]
    /\ frontier \in 0 .. MaxBeat /\ ahead \in 0 .. frontier
    /\ launched \in [Tracks -> Scenes \cup {None}] /\ forgot \in BOOLEAN

Placed == [token : 1 .. MaxToken, scene : Scenes, tracks : SUBSET Tracks]
Adopted == [token : 1 .. MaxToken, pattern : Scenes]

LaunchTypes ==
    /\ pending \subseteq Launch /\ boundary \subseteq Launch
    /\ IsFiniteSet(pending) /\ IsFiniteSet(boundary)
    /\ owned \in [Owners -> 0 .. MaxToken]
    /\ installed \in Seq(Placed)
    /\ adopted \in Seq(Adopted) /\ Len(adopted) <= MaxAdopted
    /\ backlog \in Seq(Due)

TypeInv == ControlTypes /\ ChannelTypes /\ PassTypes /\ LaunchTypes

LEMMA TypesMean == TypeInv => TypeOK
<1>1. SUFFICES ASSUME TypeInv PROVE TypeOK
  OBVIOUS
<1>2. ControlTypes /\ ChannelTypes
  BY <1>1 DEF TypeInv
<1>3. PassTypes
  BY <1>1 DEF TypeInv
<1>4. LaunchTypes
  BY <1>1 DEF TypeInv
<1>5. QED
  BY <1>2, <1>3, <1>4
     DEF TypeOK, ControlTypes, ChannelTypes, PassTypes, LaunchTypes, Placed, Adopted

\* What the members of the unions are.
LEMMA MessageFields ==
    ASSUME NEW m \in Message
    PROVE  /\ m.op \in {"schedule", "mirrored", "cancel", "cancelOwner", "cancelAll"}
           /\ m.op = "schedule" => m.req \in Request
           /\ m.op \in {"mirrored", "cancel"} => m.token \in 1 .. MaxToken
           /\ m.op = "cancelOwner" => m.owner \in Owners
BY DEF Message

LEMMA JobFields ==
    ASSUME NEW j \in Job
    PROVE  /\ j.op \in {"submit", "apply", "ack", "forget"}
           /\ j.op = "submit" => j.req \in Request
           /\ j.op = "apply" => j.due \in Due
           /\ j.op \in {"ack", "forget"} => j.token \in 1 .. MaxToken
BY DEF Job

LEMMA DueOfTypes ==
    ASSUME NEW l \in Launch, NEW applied \in BOOLEAN
    PROVE  /\ DueOf(l, applied) \in Due /\ DueOf(l, applied).token = l.token
           /\ DueOf(l, applied).owner = l.owner /\ DueOf(l, applied).applied = applied
BY DEF Launch, Due, DueOf

LEMMA Sizes ==
    /\ MaxToken \in Nat /\ MaxToggles \in Nat /\ MaxBeat \in Nat
    /\ Grid \in Nat \ {0} /\ Block \in Nat \ {0} /\ Lookahead \in Nat \ {0}
    /\ RequestCapacity \in Nat \ {0} /\ DueCapacity \in Nat \ {0}
BY LaunchAssumption

LEMMA InitTypes == Init => TypeInv
<1>1. SUFFICES ASSUME Init PROVE TypeInv
  OBVIOUS
<1>2. published \in Snapshot /\ base \in Snapshot
  BY <1>1, LaunchAssumption DEF Init, Snapshot
<1>3. ControlTypes
  <2>1. fate \in [1 .. MaxToken -> Fates]
    BY <1>1 DEF Init, Fates
  <2>2. ownerTok \in [Owners -> 0 .. MaxToken]
    BY <1>1, Sizes DEF Init, None
  <2>3. work \in Seq(Job) /\ toggles \in 0 .. MaxToggles /\ wiped \in BOOLEAN
    <3>1. work = <<>> /\ toggles = 0 /\ wiped = FALSE
      BY <1>1 DEF Init
    <3>2. 0 \in 0 .. MaxToggles /\ <<>> \in Seq(Job)
      BY Sizes
    <3>3. QED
      BY <3>1, <3>2, Zenon
  <2>4. QED
    BY <1>2, <2>1, <2>2, <2>3 DEF ControlTypes
<1>4. ChannelTypes
  BY <1>1, LaunchAssumption DEF Init, ChannelTypes
<1>5. PassTypes
  <2>1. last \in [pattern : Scenes, epoch : Nat, playing : BOOLEAN]
    BY <1>1, <1>2 DEF Init, Observed, Snapshot
  <2>2. forgot = FALSE
    BY <1>1 DEF Init
  <2>3. forgot \in BOOLEAN
    BY <2>2, Zenon
  <2>4. QED
    BY <1>1, <1>2, <2>1, <2>3, LaunchAssumption DEF Init, PassTypes, Nothing
<1>6. LaunchTypes
  BY <1>1, LaunchAssumption, FS_EmptySet DEF Init, LaunchTypes, None, MaxAdopted
<1>7. QED
  BY <1>3, <1>4, <1>5, <1>6 DEF TypeInv

-----------------------------------------------------------------------------
(* The control thread keeps the types                                      *)

LEMMA WithdrawnTypes ==
    ASSUME fate \in [1 .. MaxToken -> Fates], NEW tokens
    PROVE  /\ Withdrawn(tokens) \in [1 .. MaxToken -> Fates]
           /\ \A t \in 1 .. MaxToken :
                 Withdrawn(tokens)[t] = IF t \in tokens /\ fate[t] = "valid"
                                        THEN "withdrawn" ELSE fate[t]
BY DEF Withdrawn, Fates

LEMMA SendTypes ==
    ASSUME ChannelTypes, NEW m \in Message, Send(m), UNCHANGED dues
    PROVE  ChannelTypes'
<1>1. /\ requests \in Seq(Message) /\ Len(requests) \in Nat /\ Len(requests) <= RequestCapacity
      /\ RequestCapacity \in Nat
  BY LaunchAssumption DEF ChannelTypes
<1>2. CASE HasRoom
  <2>1. requests' = Append(requests, m) /\ Len(requests) < RequestCapacity
    BY <1>2 DEF Send, HasRoom
  <2>2. requests' \in Seq(Message) /\ Len(requests') = Len(requests) + 1
    BY <1>1, <2>1
  <2>3. Len(requests') <= RequestCapacity
    BY <1>1, <2>1, <2>2
  <2>4. QED
    BY <2>2, <2>3 DEF ChannelTypes
<1>3. CASE ~HasRoom
  BY <1>3 DEF Send, ChannelTypes
<1>4. QED
  BY <1>2, <1>3

\* A token that is taken is one.
LEMMA NextTokenTypes ==
    ASSUME ControlTypes, NextToken <= MaxToken PROVE NextToken \in 1 .. MaxToken
<1> DEFINE used == {t \in 1 .. MaxToken : fate[t] # "unused"}
<1>1. IsFiniteSet(used)
  <2>1. IsFiniteSet(1 .. MaxToken)
    BY LaunchAssumption, FS_Interval
  <2>2. QED
    BY <2>1, FS_Subset
<1>2. Cardinality(used) \in Nat
  BY <1>1, FS_CardinalityType
<1>3. NextToken = Cardinality(used) + 1
  BY DEF NextToken
<1>4. QED
  BY <1>2, <1>3, LaunchAssumption

LEMMA SubmittedTypes ==
    ASSUME ControlTypes, ChannelTypes, NEW req \in Request, Submitted(req), UNCHANGED dues
    PROVE  /\ ChannelTypes' /\ fate' \in [1 .. MaxToken -> Fates]
           /\ ownerTok' \in [Owners -> 0 .. MaxToken]
<1>1. req.token \in 1 .. MaxToken /\ req.owner \in Owners
  BY DEF Request
<1>2. CASE HasRoom
  <2>1. /\ Send([op |-> "schedule", req |-> req])
        /\ fate' = [Withdrawn({ownerTok[req.owner]}) EXCEPT ![req.token] = "valid"]
        /\ ownerTok' = [ownerTok EXCEPT ![req.owner] = req.token]
    BY <1>2 DEF Submitted
  <2>2. [op |-> "schedule", req |-> req] \in Message
    BY DEF Message
  <2>3. ChannelTypes'
    BY <2>1, <2>2, SendTypes
  <2>4. fate' \in [1 .. MaxToken -> Fates]
    BY <2>1, WithdrawnTypes DEF ControlTypes, Fates
  <2>5. ownerTok' \in [Owners -> 0 .. MaxToken]
    BY <1>1, <2>1, LaunchAssumption DEF ControlTypes
  <2>6. QED
    BY <2>3, <2>4, <2>5
<1>3. CASE ~HasRoom
  <2>1. fate' = [fate EXCEPT ![req.token] = "failed"] /\ UNCHANGED <<requests, ownerTok>>
    BY <1>3 DEF Submitted
  <2>2. QED
    BY <2>1 DEF ControlTypes, ChannelTypes, Fates
<1>4. QED
  BY <1>2, <1>3

LEMMA ControlKeepsTypes ==
    ASSUME ControlTypes, ChannelTypes, Control PROVE ControlTypes' /\ ChannelTypes'
<1>1. /\ work \in Seq(Job) /\ published \in Snapshot /\ wiped \in BOOLEAN
      /\ toggles \in 0 .. MaxToggles /\ UNCHANGED dues
  BY DEF ControlTypes, Control
<1>2. ASSUME NEW o \in Owners, NEW s \in Scenes, Click(o, s)
      PROVE  ControlTypes' /\ ChannelTypes'
  <2> DEFINE req == [token |-> NextToken, owner |-> o, scene |-> s,
                     quantized |-> TRUE, snap |-> published.playing]
  <2>1. req \in Request
    BY <1>1, <1>2, NextTokenTypes DEF Click, Request, Snapshot
  <2>2. Submitted(req) /\ UNCHANGED <<work, toggles, published, wiped>>
    BY <1>2 DEF Click
  <2> HIDE DEF req
  <2>3. QED
    BY <1>1, <2>1, <2>2, SubmittedTypes DEF ControlTypes
<1>3. ASSUME NEW o \in Owners, CancelOwner(o) PROVE ControlTypes' /\ ChannelTypes'
  <2>1. [op |-> "cancelOwner", owner |-> o] \in Message
    BY DEF Message
  <2>2. ChannelTypes'
    BY <1>1, <1>3, <2>1, SendTypes DEF CancelOwner
  <2>3. fate' \in [1 .. MaxToken -> Fates] /\ ownerTok' \in [Owners -> 0 .. MaxToken]
    BY <1>3, WithdrawnTypes, LaunchAssumption DEF CancelOwner, ControlTypes, None
  <2>4. QED
    BY <1>1, <1>3, <2>2, <2>3 DEF CancelOwner, ControlTypes
<1>4. ASSUME NEW s \in Scenes, LiveLaunch(s) PROVE ControlTypes' /\ ChannelTypes'
  <2>1. [op |-> "cancelAll"] \in Message
    BY DEF Message
  <2>2. ChannelTypes'
    BY <1>1, <1>4, <2>1, SendTypes DEF LiveLaunch
  <2>3. NextToken \in 1 .. MaxToken
    BY <1>4, NextTokenTypes DEF LiveLaunch
  <2>4. fate' \in [1 .. MaxToken -> Fates] /\ ownerTok' \in [Owners -> 0 .. MaxToken]
    <3>1. Withdrawn(1 .. MaxToken) \in [1 .. MaxToken -> Fates]
      BY WithdrawnTypes DEF ControlTypes
    <3>2. fate' = [Withdrawn(1 .. MaxToken) EXCEPT ![NextToken] = "taken"]
          /\ ownerTok' = [o \in Owners |-> None]
      BY <1>4 DEF LiveLaunch
    <3>3. "taken" \in Fates /\ None \in 0 .. MaxToken
      BY Sizes DEF Fates, None
    <3>4. QED
      BY <3>1, <3>2, <3>3
  <2> DEFINE req == [token |-> NextToken, owner |-> Transport, scene |-> s,
                     quantized |-> FALSE, snap |-> TRUE]
             due == [token |-> NextToken, owner |-> Transport, scene |-> s, applied |-> FALSE]
             submit == [op |-> "submit", req |-> req]
             apply == [op |-> "apply", due |-> due]
  <2>5. req \in Request /\ due \in Due
    BY <2>3, LaunchAssumption DEF Request, Due
  <2>6. work' \in {<<submit>>, <<apply>>}
    BY <1>4 DEF LiveLaunch
  <2> HIDE DEF req, due
  <2>7. submit \in Job /\ apply \in Job
    BY <2>5 DEF Job
  <2> HIDE DEF submit, apply
  <2>8. work' \in Seq(Job)
    <3>1. <<submit>> \in Seq(Job) /\ <<apply>> \in Seq(Job)
      BY <2>7
    <3>2. QED
      BY <2>6, <3>1, Zenon
  <2>9. QED
    BY <1>1, <1>4, <2>2, <2>4, <2>8 DEF LiveLaunch, ControlTypes
<1>5. CASE Submit
  <2> DEFINE req == Head(work).req
             due == [token |-> req.token, owner |-> req.owner,
                     scene |-> req.scene, applied |-> FALSE]
             apply == [op |-> "apply", due |-> due]
  <2>1. req \in Request
    <3>1. Head(work) \in Job /\ Head(work).op = "submit"
      BY <1>1, <1>5, RangeTail DEF Submit
    <3>2. QED
      BY <3>1, JobFields
  <2>2. Submitted(req) /\ work' \in {<<>>, <<apply>>} /\ UNCHANGED <<toggles, published, wiped>>
    BY <1>5 DEF Submit
  <2>3. due \in Due
    BY <2>1 DEF Request, Due
  <2> HIDE DEF due, req
  <2>4. apply \in Job
    BY <2>3 DEF Job
  <2> HIDE DEF apply
  <2>5. work' \in Seq(Job)
    <3>1. <<>> \in Seq(Job) /\ <<apply>> \in Seq(Job)
      BY <2>4
    <3>2. QED
      BY <2>2, <3>1, Zenon
  <2>6. QED
    BY <1>1, <2>1, <2>2, <2>5, SubmittedTypes DEF ControlTypes
<1>6. CASE Apply \/ ApplyFails
  <2> DEFINE d == Head(work).due
             ack == [op |-> "ack", token |-> d.token]
             forget == [op |-> "forget", token |-> d.token]
  <2>1. work # <<>> /\ Head(work).op = "apply"
    BY <1>6 DEF Apply, ApplyFails
  <2>2. Head(work) \in Job /\ Tail(work) \in Seq(Job)
    BY <1>1, <2>1, RangeTail
  <2>3. d \in Due
    BY <2>1, <2>2, JobFields
  <2>4. d.token \in 1 .. MaxToken /\ d.owner \in Owners /\ d.scene \in Scenes
    BY <2>3 DEF Due
  <2>5. ack \in Job /\ forget \in Job
    BY <2>4 DEF Job
  <2>6. \/ fate' \in {[fate EXCEPT ![d.token] = x] : x \in Fates}
    BY <1>6 DEF Apply, ApplyFails, Fates
  <2>7. fate' \in [1 .. MaxToken -> Fates]
    BY <2>6 DEF ControlTypes
  <2>8. \E s \in {<<ack>>, <<>>, <<ack, forget>>} : work' = s \o Tail(work)
    BY <1>6 DEF Apply, ApplyFails, AfterFailure
  <2>9. published' \in Snapshot
    <3>1. CASE Apply
      <4>1. published' = [published EXCEPT
                !.pattern = IF Whole(d.owner) THEN d.scene ELSE @,
                !.epoch = IF d.applied THEN @ ELSE @ + 1,
                !.content = [t \in Tracks |-> IF t \in TracksOf[d.owner] THEN d.scene ELSE @[t]]]
        BY <3>1 DEF Apply
      <4> DEFINE c == [t \in Tracks |-> IF t \in TracksOf[d.owner] THEN d.scene
                                        ELSE published.content[t]]
                 p == IF Whole(d.owner) THEN d.scene ELSE published.pattern
                 e == IF d.applied THEN published.epoch ELSE published.epoch + 1
      <4>2. published' = [published EXCEPT !.pattern = p, !.epoch = e, !.content = c]
        BY <4>1
      <4>3. c \in [Tracks -> Scenes] /\ p \in Scenes /\ e \in Nat
        BY <1>1, <2>4 DEF Snapshot
      <4> HIDE DEF c, p, e
      <4>4. QED
        BY <1>1, <4>2, <4>3 DEF Snapshot
    <3>2. CASE ApplyFails
      BY <1>1, <3>2 DEF ApplyFails
    <3>3. QED
      BY <1>6, <3>1, <3>2
  <2>10. /\ UNCHANGED <<ownerTok, toggles, requests, wiped>>
    BY <1>6 DEF Apply, ApplyFails
  <2> HIDE DEF ack, forget, d
  <2>11. work' \in Seq(Job)
    <3>1. <<ack>> \in Seq(Job) /\ <<>> \in Seq(Job) /\ <<ack, forget>> \in Seq(Job)
      BY <2>5
    <3>2. PICK s \in {<<ack>>, <<>>, <<ack, forget>>} : work' = s \o Tail(work)
      BY <2>8
    <3>3. s \in Seq(Job)
      BY <3>1, <3>2, Zenon
    <3>4. QED
      BY <2>2, <3>2, <3>3, ConcatProperties
  <2>12. QED
    BY <1>1, <2>7, <2>9, <2>10, <2>11 DEF ControlTypes, ChannelTypes
<1>7. CASE Acknowledge
  <2> DEFINE m == [op |-> IF Head(work).op = "ack" THEN "mirrored" ELSE "cancel",
                   token |-> Head(work).token]
  <2>1. work # <<>> /\ Head(work).op \in {"ack", "forget"} /\ Send(m) /\ work' = Tail(work)
        /\ UNCHANGED <<fate, ownerTok, toggles, published, wiped>>
    BY <1>7 DEF Acknowledge
  <2>2. Head(work) \in Job /\ Tail(work) \in Seq(Job)
    BY <1>1, <2>1, RangeTail
  <2>3. m \in Message
    BY <2>1, <2>2, JobFields DEF Message
  <2> HIDE DEF m
  <2>4. QED
    BY <1>1, <2>1, <2>2, <2>3, SendTypes DEF ControlTypes
<1>8. CASE TogglePlay
  <2>1. published' = [published EXCEPT !.playing = ~@, !.epoch = @ + 1]
    BY <1>8 DEF TogglePlay
  <2> DEFINE p == ~published.playing
             e == published.epoch + 1
  <2>2. published' \in Snapshot
    <3>1. published' = [published EXCEPT !.playing = p, !.epoch = e]
      BY <2>1
    <3>2. p \in BOOLEAN /\ e \in Nat
      BY <1>1 DEF Snapshot
    <3> HIDE DEF p, e
    <3>3. QED
      BY <1>1, <3>1, <3>2 DEF Snapshot
  <2>3. toggles' \in 0 .. MaxToggles
    BY <1>1, <1>8, LaunchAssumption DEF TogglePlay
  <2>4. QED
    BY <1>1, <1>8, <2>2, <2>3 DEF TogglePlay, ControlTypes, ChannelTypes
<1>9. QED
  BY <1>2, <1>3, <1>4, <1>5, <1>6, <1>7, <1>8 DEF Control

-----------------------------------------------------------------------------
(* The scheduler keeps the types                                           *)

LEMMA DeadlineProperties ==
    ASSUME NEW beat \in Nat, NEW playing, NEW quantized
    PROVE  Deadline(beat, playing, quantized) \in Nat
           /\ beat <= Deadline(beat, playing, quantized)
<1>1. beat \div Grid \in Nat /\ beat = ((beat \div Grid) * Grid) + (beat % Grid)
      /\ beat % Grid \in 0 .. Grid - 1 /\ Grid \in Nat \ {0}
  BY Sizes
<1>2. \A q, g \in Nat : q * g \in Nat
  OBVIOUS
<1> DEFINE d == (beat \div Grid) * Grid
<1>3. d \in Nat /\ beat = d + (beat % Grid)
  BY <1>1, <1>2
<1> HIDE DEF d
<1>4. d + Grid \in Nat /\ beat <= d + Grid
  BY <1>1, <1>3
<1>5. Deadline(beat, playing, quantized) \in {beat, d + Grid}
  BY DEF Deadline, d
<1>6. QED
  BY <1>4, <1>5

LEMMA RenderedTypes == ASSUME PassTypes PROVE rendered \in Nat /\ rendered <= frontier
BY Sizes DEF PassTypes, rendered

LEMMA DroppedTypes ==
    ASSUME NEW S, NEW s \in Seq(S), NEW tokens
    PROVE  /\ Dropped(s, tokens) \in Seq(S)
           /\ Range(Dropped(s, tokens)) = {x \in Range(s) : x.token \notin tokens}
<1>1. Dropped(s, tokens) = Kept(s, {x \in Range(s) : x.token \notin tokens})
  BY DEF Dropped
<1>2. QED
  BY <1>1, KeptProperties

LEMMA KeptIsShorter ==
    ASSUME NEW S, NEW s \in Seq(S), NEW set PROVE Len(Kept(s, set)) <= Len(s)
<1> DEFINE places == {i \in DOMAIN s : s[i] \in set}
           key == [i \in DOMAIN s |-> i]
           at == InOrder(places, key)
<1>1. IsFiniteSet(1 .. Len(s)) /\ Cardinality(1 .. Len(s)) = Len(s) /\ Len(s) \in Nat
      /\ DOMAIN s = 1 .. Len(s)
  <2>1. Len(s) \in Nat /\ 1 \in Int /\ Len(s) \in Int /\ DOMAIN s = 1 .. Len(s)
    OBVIOUS
  <2>2. IsFiniteSet(1 .. Len(s))
        /\ Cardinality(1 .. Len(s)) = IF 1 > Len(s) THEN 0 ELSE Len(s) - 1 + 1
    BY <2>1, FS_Interval
  <2>3. QED
    BY <2>1, <2>2
<1>2. IsFiniteSet(places) /\ Cardinality(places) <= Len(s)
  <2>1. places \in SUBSET (1 .. Len(s))
    BY <1>1
  <2> HIDE DEF places
  <2>2. IsFiniteSet(places) /\ Cardinality(places) <= Cardinality(1 .. Len(s))
    BY <1>1, <2>1, FS_Subset
  <2>3. QED
    BY <1>1, <2>2
<1>3. Sorted(at, places, key)
  <2>1. \A i \in places : key[i] \in Nat
    BY <1>1
  <2> HIDE DEF places, key
  <2>2. PICK r : Sorted(r, places, key)
    BY <1>2, <2>1, SortedExists
  <2>3. QED
    BY <2>2 DEF Sorted, InOrder
<1> HIDE DEF at
<1>4. DOMAIN at = 1 .. Cardinality(places)
  BY <1>3 DEF Sorted, Bijection, Injection
<1>5. Kept(s, set) = [n \in DOMAIN at |-> s[at[n]]]
  BY DEF Kept, at
<1>6. Cardinality(places) \in Nat
  BY <1>2, FS_CardinalityType
<1> HIDE DEF places
<1>7. Kept(s, set) \in Seq(S)
  BY KeptProperties
<1>8. Len(Kept(s, set)) = Cardinality(places)
  <2>1. DOMAIN Kept(s, set) = 1 .. Cardinality(places)
    BY <1>4, <1>5
  <2>2. QED
    BY <1>6, <1>7, <2>1
<1>9. QED
  BY <1>2, <1>8

\* Receiving a message keeps the scheduler's launches what they are.
LEMMA ReceiveKeepsTypes ==
    ASSUME TypeInv, Receive PROVE LaunchTypes' /\ ChannelTypes'
<1> DEFINE m == Head(requests)
<1>1. /\ pending \subseteq Launch /\ boundary \subseteq Launch
      /\ IsFiniteSet(pending) /\ IsFiniteSet(boundary)
      /\ owned \in [Owners -> 0 .. MaxToken]
      /\ installed \in Seq(Placed)
      /\ adopted \in Seq(Adopted) /\ Len(adopted) <= MaxAdopted
      /\ backlog \in Seq(Due)
  BY DEF TypeInv, LaunchTypes
<1>2. /\ requests \in Seq(Message) /\ requests # <<>> /\ Len(requests) <= RequestCapacity
      /\ requests' = Tail(requests) /\ UNCHANGED dues
  BY DEF TypeInv, ChannelTypes, Receive
<1>3. m \in Message /\ Tail(requests) \in Seq(Message)
  BY <1>2, RangeTail
<1>4. ChannelTypes'
  <2>1. Len(Tail(requests)) = Len(requests) - 1 /\ Len(requests) \in Nat
    BY <1>2, HeadTailProperties
  <2>2. Len(Tail(requests)) <= RequestCapacity
    BY <1>2, <2>1, Sizes
  <2>3. QED
    BY <1>2, <1>3, <2>2 DEF TypeInv, ChannelTypes
<1> HIDE DEF m
<1>5. ASSUME NEW P, NEW B, pending' = P, boundary' = B, P \subseteq pending, B \subseteq boundary
      PROVE  /\ pending' \subseteq Launch /\ boundary' \subseteq Launch
             /\ IsFiniteSet(pending') /\ IsFiniteSet(boundary')
  BY <1>1, <1>5, FS_Subset
<1>6. \A T \in SUBSET pending : IsFiniteSet(T) /\ T \subseteq Launch
  BY <1>1, FS_Subset
<1>7. \A T \in SUBSET boundary : IsFiniteSet(T) /\ T \subseteq Launch
  BY <1>1, FS_Subset
<1>8. \A S : \A T : Without(S, T) \subseteq S
  BY DEF Without
<1>9. \A T : /\ Dropped(installed, T) \in Seq(Placed) /\ Dropped(backlog, T) \in Seq(Due)
             /\ Dropped(adopted, T) \in Seq(Adopted) /\ Len(Dropped(adopted, T)) <= MaxAdopted
  <2>1. TAKE T
  <2>2. Dropped(installed, T) \in Seq(Placed) /\ Dropped(backlog, T) \in Seq(Due)
        /\ Dropped(adopted, T) \in Seq(Adopted)
    BY <1>1, DroppedTypes
  <2>3. Len(Dropped(adopted, T)) <= Len(adopted)
    BY <1>1, KeptIsShorter DEF Dropped
  <2>4. Len(Dropped(adopted, T)) \in Nat /\ Len(adopted) \in Nat
    BY <1>1, <2>2
  <2>5. QED
    BY <1>1, <2>2, <2>3, <2>4 DEF MaxAdopted
<1>10. CASE m.op = "schedule" /\ ReceiveSchedule(m.req)
  <2> DEFINE req == m.req
             replaced == {owned[req.owner]} \ {None}
             own == base.playing /\ req.snap
             launch == [token |-> req.token, owner |-> req.owner, scene |-> req.scene,
                        deadline |-> Deadline(IF own THEN frontier ELSE rendered,
                                              base.playing, req.quantized)]
  <2>1. req \in Request
    BY <1>3, <1>10, MessageFields
  <2>2. launch \in Launch
    <3>1. frontier \in Nat /\ rendered \in Nat
      BY Sizes, RenderedTypes DEF TypeInv, PassTypes
    <3>2. Deadline(IF own THEN frontier ELSE rendered, base.playing, req.quantized) \in Nat
      BY <3>1, DeadlineProperties
    <3>3. QED
      BY <2>1, <3>2 DEF Launch, Request
  <2>3. /\ owned' = [owned EXCEPT ![req.owner] = req.token]
        /\ pending' = Without(pending, replaced) \cup (IF own THEN {} ELSE {launch})
        /\ boundary' = Without(boundary, replaced) \cup (IF own THEN {launch} ELSE {})
        /\ UNCHANGED <<installed, adopted, backlog>>
    BY <1>10 DEF ReceiveSchedule
  <2>4. req.token \in 0 .. MaxToken /\ req.owner \in Owners
    BY <2>1, Sizes DEF Request
  <2> HIDE DEF launch, own, replaced
  <2>5. \A T : IsFiniteSet(T) => IsFiniteSet(T \cup {launch}) /\ IsFiniteSet(T \cup {})
    BY FS_AddElement
  <2>6. /\ Without(pending, replaced) \in SUBSET pending
        /\ Without(boundary, replaced) \in SUBSET boundary
    BY <1>8
  <2>7. pending' \subseteq Launch /\ IsFiniteSet(pending')
    BY <1>6, <2>2, <2>3, <2>5, <2>6
  <2>8. boundary' \subseteq Launch /\ IsFiniteSet(boundary')
    BY <1>7, <2>2, <2>3, <2>5, <2>6
  <2>9. owned' \in [Owners -> 0 .. MaxToken]
    BY <1>1, <2>3, <2>4
  <2>10. LaunchTypes'
    BY <1>1, <2>3, <2>7, <2>8, <2>9 DEF LaunchTypes
  <2>11. QED
    BY <1>4, <2>10
<1>11. CASE m.op = "cancel" /\ ReceiveCancelToken(m.token)
  <2>1. owned' \in [Owners -> 0 .. MaxToken]
    BY <1>1, <1>11, Sizes DEF ReceiveCancelToken, None
  <2>2. pending' \in SUBSET pending /\ boundary' \in SUBSET boundary
    BY <1>8, <1>11 DEF ReceiveCancelToken
  <2>3. installed' = Dropped(installed, {m.token}) /\ adopted' = Dropped(adopted, {m.token})
        /\ backlog' = Dropped(backlog, {m.token})
    BY <1>11 DEF ReceiveCancelToken
  <2>4. QED
    BY <1>4, <1>6, <1>7, <1>9, <2>1, <2>2, <2>3 DEF LaunchTypes
<1>12. CASE m.op = "cancelOwner" /\ ReceiveCancelOwner(m.owner)
  <2> DEFINE token == {owned[m.owner]} \ {None}
  <2>1. owned' \in [Owners -> 0 .. MaxToken]
    <3>1. owned' = [owned EXCEPT ![m.owner] = None] /\ None \in 0 .. MaxToken
      BY <1>12, Sizes DEF ReceiveCancelOwner, None
    <3>2. QED
      BY <1>1, <3>1
  <2>2. pending' \in SUBSET pending /\ boundary' \in SUBSET boundary
    BY <1>8, <1>12 DEF ReceiveCancelOwner
  <2>3. installed' = Dropped(installed, token) /\ adopted' = Dropped(adopted, token)
    BY <1>12 DEF ReceiveCancelOwner
  <2>4. backlog' \in Seq(Due)
    BY <1>1, <1>12, KeptProperties DEF ReceiveCancelOwner
  <2> HIDE DEF token
  <2>5. QED
    BY <1>4, <1>6, <1>7, <1>9, <2>1, <2>2, <2>3, <2>4 DEF LaunchTypes
<1>13. CASE m.op = "cancelAll" /\ ReceiveCancelAll
  <2>1. owned' \in [Owners -> 0 .. MaxToken]
    BY <1>1, <1>13, Sizes DEF ReceiveCancelAll, None
  <2>2. pending' = {} /\ boundary' = {} /\ installed' = <<>> /\ adopted' = <<>> /\ backlog' = <<>>
    BY <1>13 DEF ReceiveCancelAll
  <2>3. QED
    BY <1>4, <2>1, <2>2, FS_EmptySet DEF LaunchTypes, MaxAdopted
<1>14. CASE m.op = "mirrored" /\ ReceiveMirrored(m.token)
  <2>1. installed' = Dropped(installed, {m.token})
        /\ UNCHANGED <<pending, boundary, owned, adopted, backlog>>
    BY <1>14 DEF ReceiveMirrored
  <2>2. QED
    BY <1>1, <1>4, <1>9, <2>1 DEF LaunchTypes
<1>15. QED
  BY <1>10, <1>11, <1>12, <1>13, <1>14 DEF Receive, m

\* What a report takes, in which order, and how much of it goes out now.
Ready == {l \in pending \cup Degraded : l.deadline <= rendered}
DuesOf(now, applied) == [i \in DOMAIN now |-> DueOf(now[i], applied)]
Out == backlog \o DuesOf(InTokenOrder(Ready), FALSE)
Sent == Fitting(Len(Out))

LEMMA ReportMeans ==
    ASSUME Report
    PROVE  /\ pending' = (pending \cup Degraded) \ Ready
           /\ boundary' = IF base.playing THEN boundary ELSE {}
           /\ owned' = [o \in Owners |-> IF \E l \in Ready : l.token = owned[o]
                                         THEN None ELSE owned[o]]
           /\ installed' = IF base.playing THEN installed ELSE <<>>
           /\ dues' = dues \o SubSeq(Out, 1, Sent)
           /\ backlog' = SubSeq(Out, Sent + 1, Len(Out))
BY DEF Report, Ready, Out, Sent, DuesOf

LEMMA DuesOfProperties ==
    ASSUME NEW now \in Seq(Launch), NEW applied \in BOOLEAN
    PROVE  /\ DuesOf(now, applied) \in Seq(Due) /\ DOMAIN DuesOf(now, applied) = DOMAIN now
           /\ \A i \in DOMAIN now : /\ DuesOf(now, applied)[i].token = now[i].token
                                    /\ DuesOf(now, applied)[i].owner = now[i].owner
                                    /\ DuesOf(now, applied)[i].applied = applied
<1>1. DOMAIN now = 1 .. Len(now) /\ Len(now) \in Nat /\ \A i \in DOMAIN now : now[i] \in Launch
  OBVIOUS
<1>2. \A i \in DOMAIN now : DuesOf(now, applied)[i] = DueOf(now[i], applied)
  BY DEF DuesOf
<1>3. \A i \in DOMAIN now : DueOf(now[i], applied) \in Due
  BY <1>1, DueOfTypes
<1>4. DuesOf(now, applied) \in Seq(Due)
  BY <1>1, <1>3 DEF DuesOf
<1>5. QED
  BY <1>1, <1>2, <1>4, DueOfTypes DEF DuesOf

LEMMA DegradedProperties ==
    ASSUME TypeInv
    PROVE  /\ Degraded \subseteq Launch /\ IsFiniteSet(Degraded)
           /\ base.playing => Degraded = {}
           /\ \A l \in Degraded : \E b \in boundary : l.token = b.token /\ l.owner = b.owner
                                                      /\ l.scene = b.scene
           /\ ~base.playing => \A b \in boundary :
                 \E l \in Degraded : l.token = b.token /\ l.owner = b.owner
           /\ \A l, m \in Degraded :
                 (\A b, c \in boundary : b.token = c.token => b = c) /\ l.token = m.token
                    => l = m
<1>1. boundary \subseteq Launch /\ IsFiniteSet(boundary) /\ rendered \in Nat
  BY RenderedTypes DEF TypeInv, LaunchTypes
<1>2. CASE base.playing
  <2>1. Degraded = {}
    BY <1>2 DEF Degraded
  <2>2. QED
    BY <1>2, <2>1, FS_EmptySet
<1>3. CASE ~base.playing
  <2> DEFINE f == [l \in boundary |-> [l EXCEPT !.deadline = rendered]]
  <2>1. Degraded = {f[l] : l \in boundary}
    BY <1>3 DEF Degraded
  <2>2. \A l \in boundary : /\ f[l] \in Launch /\ f[l].token = l.token
                            /\ f[l].owner = l.owner /\ f[l].scene = l.scene
    BY <1>1 DEF Launch
  <2>3. f \in Surjection(boundary, Degraded)
    BY <2>1 DEF Surjection
  <2> HIDE DEF f
  <2>4. IsFiniteSet(Degraded)
    BY <1>1, <2>3, FS_Surjection
  <2>5. Degraded \subseteq Launch
    BY <2>1, <2>2
  <2>6. \A l \in Degraded : \E b \in boundary : l = f[b]
    BY <2>1
  <2>7. \A b \in boundary : f[b] \in Degraded
    BY <2>1
  <2>8. ASSUME \A b, c \in boundary : b.token = c.token => b = c,
               NEW l \in Degraded, NEW m \in Degraded, l.token = m.token
        PROVE  l = m
    BY <2>2, <2>6, <2>8
  <2>9. QED
    BY <1>3, <2>2, <2>4, <2>5, <2>6, <2>7, <2>8
<1>4. QED
  BY <1>2, <1>3

LEMMA ReadyProperties ==
    ASSUME TypeInv
    PROVE  /\ Ready \subseteq Launch /\ IsFiniteSet(Ready)
           /\ IsFiniteSet((pending \cup Degraded) \ Ready)
           /\ InTokenOrder(Ready) \in Seq(Launch) /\ Range(InTokenOrder(Ready)) = Ready
           /\ IsInjective(InTokenOrder(Ready))
<1>1. /\ pending \subseteq Launch /\ IsFiniteSet(pending)
      /\ Degraded \subseteq Launch /\ IsFiniteSet(Degraded)
  BY DegradedProperties DEF TypeInv, LaunchTypes
<1>2. IsFiniteSet(pending \cup Degraded)
  BY <1>1, FS_Union
<1>3. Ready \subseteq pending \cup Degraded
  BY DEF Ready
<1>4. IsFiniteSet(Ready) /\ IsFiniteSet((pending \cup Degraded) \ Ready)
  BY <1>2, <1>3, FS_Subset
<1>5. Ready \subseteq Launch
  BY <1>1, <1>3
<1> DEFINE key == [l \in Ready |-> l.token]
           order == InOrder(Ready, key)
<1>6. \A l \in Ready : key[l] \in Nat
  BY <1>5 DEF Launch
<1> HIDE DEF key
<1>7. order \in Seq(Ready) /\ Range(order) = Ready /\ IsInjective(order)
  BY <1>4, <1>6, InOrderProperties
<1>8. InTokenOrder(Ready) = order
  BY DEF InTokenOrder, key
<1> HIDE DEF order
<1>9. order \in Seq(Launch)
  BY <1>5, <1>7
<1>10. QED
  BY <1>4, <1>5, <1>7, <1>8, <1>9

LEMMA OutProperties ==
    ASSUME TypeInv
    PROVE  /\ Out \in Seq(Due) /\ Len(Out) \in Nat /\ Sent \in 0 .. Len(Out)
           /\ Sent <= DueCapacity - Len(dues)
           /\ Range(Out) = Range(backlog) \cup Range(DuesOf(InTokenOrder(Ready), FALSE))
<1>1. backlog \in Seq(Due) /\ dues \in Seq(Due) /\ Len(dues) <= DueCapacity
  BY DEF TypeInv, LaunchTypes, ChannelTypes
<1>2. DuesOf(InTokenOrder(Ready), FALSE) \in Seq(Due)
  BY ReadyProperties, DuesOfProperties
<1>3. Out \in Seq(Due)
      /\ Range(Out) = Range(backlog) \cup Range(DuesOf(InTokenOrder(Ready), FALSE))
  BY <1>1, <1>2, RangeConcat, ZenonT(30) DEF Out
<1>4. Len(Out) \in Nat /\ Len(dues) \in Nat
  BY <1>1, <1>3
<1> DEFINE room == {Len(Out), DueCapacity - Len(dues)}
<1>5. room \subseteq Nat /\ room # {}
  BY <1>1, <1>4, Sizes
<1>6. Sent = Min(room)
  BY DEF Sent, Fitting
<1>7. Sent \in room /\ \A y \in room : Sent <= y
  <2> HIDE DEF room
  <2>1. QED
    BY <1>5, <1>6, MinProperties
<1>8. Sent \in Nat /\ Sent <= Len(Out) /\ Sent <= DueCapacity - Len(dues)
  BY <1>5, <1>7
<1>9. QED
  BY <1>3, <1>4, <1>8

LEMMA ReportKeepsTypes ==
    ASSUME TypeInv, Report
    PROVE  /\ pending' \subseteq Launch /\ boundary' \subseteq Launch
           /\ IsFiniteSet(pending') /\ IsFiniteSet(boundary')
           /\ owned' \in [Owners -> 0 .. MaxToken] /\ installed' \in Seq(Placed)
           /\ backlog' \in Seq(Due) /\ dues' \in Seq(Due) /\ Len(dues') <= DueCapacity
<1>1. /\ pending \subseteq Launch /\ boundary \subseteq Launch /\ IsFiniteSet(boundary)
      /\ owned \in [Owners -> 0 .. MaxToken] /\ installed \in Seq(Placed)
      /\ dues \in Seq(Due) /\ Len(dues) <= DueCapacity
  BY DEF TypeInv, LaunchTypes, ChannelTypes
<1>2. pending' \subseteq Launch /\ IsFiniteSet(pending')
  BY <1>1, ReportMeans, ReadyProperties, DegradedProperties
<1>3. boundary' \subseteq Launch /\ IsFiniteSet(boundary')
  BY <1>1, ReportMeans, FS_EmptySet
<1>4. owned' \in [Owners -> 0 .. MaxToken]
  <2>1. None \in 0 .. MaxToken
    BY Sizes DEF None
  <2>2. QED
    BY <1>1, <2>1, ReportMeans
<1>5. installed' \in Seq(Placed)
  <2>1. installed' \in {installed, <<>>}
    BY ReportMeans
  <2>2. <<>> \in Seq(Placed)
    OBVIOUS
  <2>3. QED
    BY <1>1, <2>1, <2>2, Zenon
<1>6. backlog' \in Seq(Due)
  <2>1. Len(Out) \in 0 .. Len(Out) /\ Sent + 1 \in Nat \ {0} /\ Out \in Seq(Due)
    BY OutProperties
  <2>2. SubSeq(Out, Sent + 1, Len(Out)) \in Seq(Due)
    <3> HIDE DEF Out, Sent
    <3>1. QED
      BY <2>1, PartProperties
  <2>3. QED
    BY <2>2, ReportMeans, Zenon
<1>7. SubSeq(Out, 1, Sent) \in Seq(Due) /\ Len(SubSeq(Out, 1, Sent)) = Sent
  <2>1. Sent \in 0 .. Len(Out) /\ 1 \in Nat \ {0} /\ Out \in Seq(Due) /\ Sent \in Nat
    BY OutProperties
  <2>2. /\ SubSeq(Out, 1, Sent) \in Seq(Due)
        /\ Len(SubSeq(Out, 1, Sent)) = IF 1 <= Sent THEN Sent - 1 + 1 ELSE 0
    BY <2>1, PartProperties
  <2>3. QED
    BY <2>1, <2>2
<1>8. dues' \in Seq(Due) /\ Len(dues') <= DueCapacity
  <2>1. dues' = dues \o SubSeq(Out, 1, Sent)
    BY ReportMeans
  <2>2. dues' \in Seq(Due) /\ Len(dues') = Len(dues) + Sent
    BY <1>1, <1>7, <2>1, ConcatProperties
  <2>3. Sent \in Nat /\ Sent <= DueCapacity - Len(dues) /\ Len(dues) \in Nat
    BY <1>1, OutProperties
  <2>4. QED
    BY <2>2, <2>3, Sizes
<1>9. QED
  BY <1>2, <1>3, <1>4, <1>5, <1>6, <1>8

\* What a chunk installs, in which order, and how far it goes.
Placements(now) == [i \in DOMAIN now |-> Override(now[i])]
Waiting == boundary \ Range(Arrived)
Scenic == Kept(Arrived, {l \in Range(Arrived) : Whole(l.owner)})
Adoptions == adopted \o [i \in DOMAIN Scenic |->
                            [token |-> Scenic[i].token, pattern |-> Scenic[i].scene]]
End == Min({ChunkEnd(Waiting), MaxBeat})

LEMMA ChunkMeans ==
    ASSUME ScheduleChunk
    PROVE  /\ stage = "schedule" /\ frontier < Horizon
           /\ boundary' = Waiting
           /\ owned' = [o \in Owners |-> IF \E l \in Range(Arrived) : l.token = owned[o]
                                         THEN None ELSE owned[o]]
           /\ installed' = Installs(installed \o Placements(Arrived))
           /\ adopted' = SubSeq(Adoptions, Max({0, Len(Adoptions) - MaxAdopted}) + 1,
                                Len(Adoptions))
           /\ backlog' = backlog \o DuesOf(Arrived, TRUE)
           /\ launched' = [t \in Tracks |-> Newest(Placements(Arrived), t, launched[t])]
           /\ frontier' = End /\ ahead' = ahead + (End - frontier)
           /\ forgot' = (forgot \/ Len(Adoptions) > MaxAdopted)
           /\ UNCHANGED <<requests, dues, stage, base, last, pending>>
BY DEF ScheduleChunk, Placements, Waiting, Scenic, Adoptions, End, DuesOf

LEMMA ArrivedProperties ==
    ASSUME TypeInv
    PROVE  /\ Arrived \in Seq(Launch) /\ IsInjective(Arrived)
           /\ Range(Arrived) = {l \in boundary : l.deadline <= frontier}
<1> DEFINE now == {l \in boundary : l.deadline <= frontier}
           key == [l \in now |-> l.deadline * (MaxToken + 1) + l.token]
           order == InOrder(now, key)
<1>1. boundary \subseteq Launch /\ IsFiniteSet(boundary)
  BY DEF TypeInv, LaunchTypes
<1>2. now \subseteq Launch /\ IsFiniteSet(now)
  BY <1>1, FS_Subset
<1>3. \A l \in now : key[l] \in Nat
  <2>1. \A a, b, c \in Nat : a * b + c \in Nat
    OBVIOUS
  <2>2. \A l \in now : l.deadline \in Nat /\ l.token \in Nat
    BY <1>2 DEF Launch
  <2>3. MaxToken + 1 \in Nat
    BY Sizes
  <2>4. \A l \in now : l.deadline * (MaxToken + 1) + l.token \in Nat
    BY <2>1, <2>2, <2>3
  <2> HIDE DEF now
  <2>5. QED
    BY <2>4
<1>4. Arrived = order
  BY DEF Arrived
<1> HIDE DEF now, key
<1>5. order \in Seq(now) /\ Range(order) = now /\ IsInjective(order)
  BY <1>2, <1>3, InOrderProperties
<1> HIDE DEF order
<1>6. order \in Seq(Launch)
  BY <1>2, <1>5
<1>7. QED
  BY <1>4, <1>5, <1>6 DEF now

LEMMA PlacementsProperties ==
    ASSUME NEW now \in Seq(Launch)
    PROVE  /\ Placements(now) \in Seq(Placed) /\ DOMAIN Placements(now) = DOMAIN now
           /\ \A i \in DOMAIN now : Placements(now)[i].token = now[i].token
<1>1. DOMAIN now = 1 .. Len(now) /\ Len(now) \in Nat /\ \A i \in DOMAIN now : now[i] \in Launch
  OBVIOUS
<1>2. \A i \in DOMAIN now : /\ Placements(now)[i] = Override(now[i])
                            /\ Override(now[i]).token = now[i].token
  BY DEF Placements, Override
<1>3. \A l \in Launch : Override(l) \in Placed
  BY LaunchAssumption DEF Override, Launch, Placed
<1>4. Placements(now) \in Seq(Placed)
  BY <1>1, <1>3 DEF Placements
<1>5. QED
  BY <1>1, <1>2, <1>4 DEF Placements

LEMMA InstallsProperties ==
    ASSUME NEW s \in Seq(Placed)
    PROVE  /\ Installs(s) \in Seq(Placed) /\ Range(Installs(s)) \subseteq Range(s)
<1> DEFINE whole == {i \in DOMAIN s : s[i].tracks = Tracks}
<1>1. Len(s) \in Nat /\ DOMAIN s = 1 .. Len(s) /\ Len(s) \in 0 .. Len(s)
  OBVIOUS
<1>2. Installs(s) = IF whole = {} THEN s ELSE SubSeq(s, Max(whole), Len(s))
  BY DEF Installs
<1>3. whole \subseteq 0 .. Len(s) /\ whole \subseteq DOMAIN s
  BY <1>1
<1> HIDE DEF whole
<1>4. CASE whole # {}
  <2>1. Max(whole) \in Nat \ {0}
    BY <1>1, <1>3, <1>4, MaxProperties
  <2>2. /\ SubSeq(s, Max(whole), Len(s)) \in Seq(Placed)
        /\ Range(SubSeq(s, Max(whole), Len(s))) \subseteq Range(s)
    BY <1>1, <2>1, PartProperties
  <2>3. QED
    BY <1>2, <1>4, <2>2
<1>5. QED
  BY <1>2, <1>4

LEMMA NewestTypes ==
    ASSUME NEW s \in Seq(Placed), NEW t, NEW otherwise \in Scenes \cup {None}
    PROVE  Newest(s, t, otherwise) \in Scenes \cup {None}
<1> DEFINE over == {i \in DOMAIN s : t \in s[i].tracks}
<1>1. Len(s) \in Nat /\ DOMAIN s = 1 .. Len(s)
  OBVIOUS
<1>2. Newest(s, t, otherwise) = IF over = {} THEN otherwise ELSE s[Max(over)].scene
  BY DEF Newest
<1>3. over \subseteq 0 .. Len(s) /\ over \subseteq DOMAIN s
  BY <1>1
<1> HIDE DEF over
<1>4. CASE over # {}
  <2>1. Max(over) \in DOMAIN s
    BY <1>1, <1>3, <1>4, MaxProperties
  <2>2. s[Max(over)] \in Placed
    BY <2>1
  <2>3. s[Max(over)].scene \in Scenes
    BY <2>2 DEF Placed
  <2>4. QED
    BY <1>2, <1>4, <2>3
<1>5. QED
  BY <1>2, <1>4

LEMMA AdoptionsTypes ==
    ASSUME TypeInv
    PROVE  LET start == Max({0, Len(Adoptions) - MaxAdopted}) + 1
               rest == SubSeq(Adoptions, start, Len(Adoptions))
           IN  rest \in Seq(Adopted) /\ Len(rest) <= MaxAdopted
<1> DEFINE new == [i \in DOMAIN Scenic |->
                      [token |-> Scenic[i].token, pattern |-> Scenic[i].scene]]
           n == Len(Adoptions)
           start == Max({0, n - MaxAdopted}) + 1
<1>1. Scenic \in Seq(Launch)
  BY ArrivedProperties, KeptProperties DEF Scenic
<1>2. DOMAIN Scenic = 1 .. Len(Scenic) /\ Len(Scenic) \in Nat
      /\ \A i \in DOMAIN Scenic : Scenic[i] \in Launch
  BY <1>1
<1>3. \A l \in Launch : [token |-> l.token, pattern |-> l.scene] \in Adopted
  BY DEF Launch, Adopted
<1>4. new \in Seq(Adopted)
  BY <1>2, <1>3
<1>5. Adoptions = adopted \o new /\ adopted \in Seq(Adopted)
  BY DEF Adoptions, TypeInv, LaunchTypes
<1> HIDE DEF new
<1>6. Adoptions \in Seq(Adopted) /\ n \in Nat /\ n \in 0 .. n
  <2>1. Adoptions \in Seq(Adopted)
    BY <1>4, <1>5
  <2>2. QED
    BY <2>1
<1>7. start \in Nat \ {0} /\ (start = 1 \/ start = n - 7) /\ n - 8 < start
  <2>1. \A x \in Int : Max({0, x}) \in {0, x} /\ Max({0, x}) >= 0 /\ Max({0, x}) >= x
    BY DEF Max
  <2>2. n - MaxAdopted \in Int /\ MaxAdopted = 8
    BY <1>6 DEF MaxAdopted
  <2> DEFINE x == n - MaxAdopted
  <2>3. Max({0, x}) \in {0, x} /\ Max({0, x}) >= 0 /\ Max({0, x}) >= x
    BY <2>1, <2>2
  <2>4. QED
    BY <1>6, <2>2, <2>3
<1> HIDE DEF start
<1>8. /\ SubSeq(Adoptions, start, n) \in Seq(Adopted)
      /\ Len(SubSeq(Adoptions, start, n)) = IF start <= n THEN n - start + 1 ELSE 0
  BY <1>6, <1>7, PartProperties
<1>9. Len(SubSeq(Adoptions, start, n)) <= MaxAdopted
  <2>1. (IF start <= n THEN n - start + 1 ELSE 0) <= 8
    BY <1>6, <1>7
  <2>2. QED
    BY <1>8, <2>1 DEF MaxAdopted
<1>10. QED
  BY <1>8, <1>9 DEF start

LEMMA EndProperties ==
    ASSUME TypeInv, frontier < Horizon
    PROVE  /\ End \in 0 .. MaxBeat /\ frontier < End
           /\ \A l \in Waiting : End <= l.deadline
<1> DEFINE beats == {frontier + Block, rendered + Lookahead} \cup {l.deadline : l \in Waiting}
           ends == {ChunkEnd(Waiting), MaxBeat}
<1>1. /\ frontier \in Nat /\ frontier <= MaxBeat /\ rendered \in Nat /\ boundary \subseteq Launch
  BY RenderedTypes, Sizes DEF TypeInv, PassTypes, LaunchTypes
<1>2. frontier < rendered + Lookahead /\ frontier < MaxBeat
  <2> DEFINE both == {rendered + Lookahead, MaxBeat}
  <2>1. both \subseteq Nat /\ both # {}
    BY <1>1, Sizes
  <2>2. Horizon = Min(both)
    BY DEF Horizon
  <2>3. Horizon \in both /\ \A y \in both : Horizon <= y
    <3> HIDE DEF both
    <3>1. QED
      BY <2>1, <2>2, MinProperties
  <2>4. QED
    BY <1>1, <2>1, <2>3, Sizes
<1>3. \A l \in Waiting : l.deadline \in Nat /\ frontier < l.deadline
  BY <1>1, ArrivedProperties DEF Waiting, Launch
<1>4. beats \subseteq Nat /\ beats # {} /\ \A b \in beats : frontier < b
  BY <1>1, <1>2, <1>3, Sizes
<1>5. ChunkEnd(Waiting) = Min(beats)
  BY DEF ChunkEnd
<1>6. ChunkEnd(Waiting) \in beats /\ \A y \in beats : ChunkEnd(Waiting) <= y
  <2> HIDE DEF beats
  <2>1. QED
    BY <1>4, <1>5, MinProperties
<1>7. ChunkEnd(Waiting) \in Nat /\ frontier < ChunkEnd(Waiting)
      /\ \A l \in Waiting : ChunkEnd(Waiting) <= l.deadline
  <2>1. \A l \in Waiting : l.deadline \in beats
    OBVIOUS
  <2> HIDE DEF beats
  <2>2. QED
    BY <1>4, <1>6, <2>1
<1> HIDE DEF beats
<1>8. ends \subseteq Nat /\ ends # {}
  BY <1>7, Sizes
<1>9. End = Min(ends)
  BY DEF End
<1>10. End \in ends /\ \A y \in ends : End <= y
  <2> HIDE DEF ends
  <2>1. QED
    BY <1>8, <1>9, MinProperties
<1>11. End <= ChunkEnd(Waiting) /\ End <= MaxBeat /\ frontier < End /\ End \in Nat
  BY <1>1, <1>2, <1>7, <1>8, <1>10, Sizes
<1>12. \A l \in Waiting : End <= l.deadline
  BY <1>3, <1>7, <1>11
<1>13. QED
  BY <1>11, <1>12, Sizes

\* The mirrors of what was adopted before are given up when one is adopted.
LEMMA AdoptedTypes ==
    ASSUME TypeInv
    PROVE  Adopts => LET rest == SubSeq(adopted, Min(Adoption(base.pattern)) + 1, Len(adopted))
                     IN  rest \in Seq(Adopted) /\ Len(rest) <= MaxAdopted
<1> DEFINE places == Adoption(base.pattern)
<1>1. SUFFICES ASSUME Adopts
               PROVE  LET rest == SubSeq(adopted, Min(places) + 1, Len(adopted))
                      IN  rest \in Seq(Adopted) /\ Len(rest) <= MaxAdopted
  OBVIOUS
<1>2. adopted \in Seq(Adopted) /\ Len(adopted) <= MaxAdopted /\ Len(adopted) \in Nat
      /\ DOMAIN adopted = 1 .. Len(adopted) /\ Len(adopted) \in 0 .. Len(adopted)
  BY DEF TypeInv, LaunchTypes
<1>3. places \subseteq DOMAIN adopted /\ places # {}
  BY <1>1 DEF Adoption, Adopts
<1> HIDE DEF places
<1>4. Min(places) \in 1 .. Len(adopted)
  <2>1. places \subseteq Nat
    BY <1>2, <1>3
  <2>2. Min(places) \in places
    BY <1>3, <2>1, MinProperties
  <2>3. QED
    BY <1>2, <1>3, <2>2
<1>5. Min(places) + 1 \in Nat \ {0} /\ Min(places) + 1 > 1
  BY <1>4
<1>6. /\ SubSeq(adopted, Min(places) + 1, Len(adopted)) \in Seq(Adopted)
      /\ Len(SubSeq(adopted, Min(places) + 1, Len(adopted)))
            = IF Min(places) + 1 <= Len(adopted) THEN Len(adopted) - (Min(places) + 1) + 1 ELSE 0
  BY <1>2, <1>5, PartProperties
<1>7. QED
  BY <1>2, <1>4, <1>6 DEF MaxAdopted

LEMMA ObservedTypes ==
    ASSUME TypeInv PROVE Observed \in [pattern : Scenes, epoch : Nat, playing : BOOLEAN]
BY DEF TypeInv, PassTypes, Observed, Snapshot

LEMMA NothingTypes == Nothing \in [Tracks -> Scenes \cup {None}]
BY DEF Nothing

LEMMA SettleKeepsTypes ==
    ASSUME TypeInv, SettleStopped \/ SettlePlaying
    PROVE  ChannelTypes' /\ PassTypes' /\ LaunchTypes'
<1>1. Report
  BY DEF SettleStopped, SettlePlaying
<1>2. /\ pending' \subseteq Launch /\ boundary' \subseteq Launch
      /\ IsFiniteSet(pending') /\ IsFiniteSet(boundary')
      /\ owned' \in [Owners -> 0 .. MaxToken] /\ installed' \in Seq(Placed)
      /\ backlog' \in Seq(Due) /\ dues' \in Seq(Due) /\ Len(dues') <= DueCapacity
  BY <1>1, ReportKeepsTypes
<1>3. ChannelTypes'
  BY <1>2 DEF TypeInv, ChannelTypes, SettleStopped, SettlePlaying
<1>4. adopted' \in Seq(Adopted) /\ Len(adopted') <= MaxAdopted
  <2>1. <<>> \in Seq(Adopted) /\ Len(<<>>) <= MaxAdopted
    BY DEF MaxAdopted
  <2>2. adopted \in Seq(Adopted) /\ Len(adopted) <= MaxAdopted
    BY DEF TypeInv, LaunchTypes
  <2>3. \/ adopted' = <<>> \/ adopted' = adopted
        \/ Adopts /\ adopted' = SubSeq(adopted, Min(Adoption(base.pattern)) + 1, Len(adopted))
    BY DEF SettleStopped, SettlePlaying
  <2>4. CASE adopted' = <<>>
    BY <2>1, <2>4, Zenon
  <2>5. CASE adopted' = adopted
    BY <2>2, <2>5, Zenon
  <2>6. CASE Adopts /\ adopted' = SubSeq(adopted, Min(Adoption(base.pattern)) + 1, Len(adopted))
    BY <2>6, AdoptedTypes
  <2>7. QED
    BY <2>3, <2>4, <2>5, <2>6
<1>5. LaunchTypes'
  BY <1>2, <1>4 DEF LaunchTypes
<1>6. PassTypes'
  <2>1. /\ base \in Snapshot /\ base' = base /\ frontier \in 0 .. MaxBeat
        /\ ahead \in 0 .. frontier /\ launched \in [Tracks -> Scenes \cup {None}]
        /\ last \in [pattern : Scenes, epoch : Nat, playing : BOOLEAN]
    BY DEF TypeInv, PassTypes, SettleStopped, SettlePlaying
  <2>2. stage' \in {"load", "receive", "schedule"} /\ last' \in {last, Observed}
        /\ launched' \in {launched, Nothing}
    BY DEF SettleStopped, SettlePlaying
  <2>3. \/ frontier' = 0 /\ ahead' = 0
        \/ frontier' = rendered /\ ahead' = 0
        \/ frontier' = frontier /\ ahead' = ahead
    BY DEF SettleStopped, SettlePlaying, clock
  <2>4. frontier' \in 0 .. MaxBeat /\ ahead' \in 0 .. frontier'
    BY <2>1, <2>3, Sizes DEF rendered
  <2>5. last' \in [pattern : Scenes, epoch : Nat, playing : BOOLEAN]
    BY <2>1, <2>2, ObservedTypes, Zenon
  <2>6. launched' \in [Tracks -> Scenes \cup {None}]
    BY <2>1, <2>2, NothingTypes, Zenon
  <2>7. base' \in Snapshot
    BY <2>1
  <2>8. forgot' \in BOOLEAN
    <3>1. forgot' = (forgot \/ adopted # <<>>) \/ forgot' = forgot
      BY DEF SettleStopped, SettlePlaying
    <3>2. forgot \in BOOLEAN
      BY DEF TypeInv, PassTypes
    <3>3. QED
      BY <3>1, <3>2, Zenon
  <2>9. QED
    BY <2>2, <2>4, <2>5, <2>6, <2>7, <2>8 DEF PassTypes
<1>7. QED
  BY <1>3, <1>5, <1>6

LEMMA ChunkKeepsTypes ==
    ASSUME TypeInv, ScheduleChunk PROVE ChannelTypes' /\ PassTypes' /\ LaunchTypes'
<1>1. /\ boundary \subseteq Launch /\ IsFiniteSet(boundary) /\ backlog \in Seq(Due)
      /\ pending \subseteq Launch /\ IsFiniteSet(pending)
      /\ owned \in [Owners -> 0 .. MaxToken] /\ installed \in Seq(Placed)
  BY DEF TypeInv, LaunchTypes
<1>2. boundary' \subseteq Launch /\ IsFiniteSet(boundary')
  <2>1. Waiting \subseteq boundary
    BY DEF Waiting
  <2>2. QED
    BY <1>1, <2>1, ChunkMeans, FS_Subset
<1>3. owned' \in [Owners -> 0 .. MaxToken]
  <2>1. None \in 0 .. MaxToken
    BY Sizes DEF None
  <2>2. QED
    BY <1>1, <2>1, ChunkMeans
<1>4. Placements(Arrived) \in Seq(Placed) /\ DuesOf(Arrived, TRUE) \in Seq(Due)
  BY ArrivedProperties, PlacementsProperties, DuesOfProperties
<1>5. installed' \in Seq(Placed)
  <2>1. installed \o Placements(Arrived) \in Seq(Placed)
    BY <1>1, <1>4, RangeConcat
  <2>2. QED
    BY <2>1, ChunkMeans, InstallsProperties
<1>6. backlog' \in Seq(Due)
  <2>1. backlog \o DuesOf(Arrived, TRUE) \in Seq(Due)
    BY <1>1, <1>4, RangeConcat
  <2>2. QED
    BY <2>1, ChunkMeans, Zenon
<1>7. adopted' \in Seq(Adopted) /\ Len(adopted') <= MaxAdopted
  BY ChunkMeans, AdoptionsTypes
<1>8. LaunchTypes'
  BY <1>1, <1>2, <1>3, <1>5, <1>6, <1>7, ChunkMeans DEF LaunchTypes
<1>9. ChannelTypes'
  BY ChunkMeans DEF TypeInv, ChannelTypes
<1>10. launched' \in [Tracks -> Scenes \cup {None}]
  <2>1. \A t \in Tracks : launched[t] \in Scenes \cup {None}
    BY DEF TypeInv, PassTypes
  <2>2. \A t \in Tracks : Newest(Placements(Arrived), t, launched[t]) \in Scenes \cup {None}
    BY <1>4, <2>1, NewestTypes
  <2>3. QED
    BY <2>2, ChunkMeans
<1>11. frontier' \in 0 .. MaxBeat /\ ahead' \in 0 .. frontier'
  <2>1. frontier \in 0 .. MaxBeat /\ ahead \in 0 .. frontier
    BY DEF TypeInv, PassTypes
  <2>2. End \in 0 .. MaxBeat /\ frontier < End
    BY ChunkMeans, EndProperties
  <2>3. frontier' = End /\ ahead' = ahead + (End - frontier)
    BY ChunkMeans
  <2> HIDE DEF End
  <2>4. QED
    BY <2>1, <2>2, <2>3, Sizes
<1>12. PassTypes'
  <2>1. UNCHANGED <<stage, base, last>>
    BY ChunkMeans
  <2>2. forgot' \in BOOLEAN
    <3>1. forgot' = (forgot \/ Len(Adoptions) > MaxAdopted)
      BY ChunkMeans
    <3>2. forgot \in BOOLEAN
      BY DEF TypeInv, PassTypes
    <3>3. QED
      BY <3>1, <3>2, Zenon
  <2>3. QED
    BY <1>10, <1>11, <2>1, <2>2 DEF TypeInv, PassTypes
<1>13. QED
  BY <1>8, <1>9, <1>12

LEMMA DrainKeepsTypes ==
    ASSUME TypeInv, DrainDues PROVE ControlTypes' /\ ChannelTypes'
<1> DEFINE mine == Kept(dues, {d \in Range(dues) : fate[d.token] = "valid"})
           taken == {d.token : d \in Range(mine)}
<1>1. /\ work' = [i \in DOMAIN mine |-> [op |-> "apply", due |-> mine[i]]]
      /\ fate' = [t \in DOMAIN fate |-> IF t \in taken THEN "taken" ELSE fate[t]]
      /\ ownerTok' = [o \in Owners |-> IF ownerTok[o] \in taken THEN None ELSE ownerTok[o]]
      /\ dues' = <<>> /\ UNCHANGED <<toggles, published, requests, wiped>>
  BY DEF DrainDues
<1>2. dues \in Seq(Due)
  BY DEF TypeInv, ChannelTypes
<1>3. mine \in Seq(Due)
  BY <1>2, KeptProperties
<1> HIDE DEF mine, taken
<1>4. work' \in Seq(Job)
  <2>1. DOMAIN mine = 1 .. Len(mine) /\ Len(mine) \in Nat /\ \A i \in DOMAIN mine : mine[i] \in Due
    BY <1>3
  <2>2. \A d \in Due : [op |-> "apply", due |-> d] \in Job
    BY DEF Job
  <2>3. [i \in DOMAIN mine |-> [op |-> "apply", due |-> mine[i]]] \in Seq(Job)
    BY <2>1, <2>2
  <2>4. QED
    BY <1>1, <2>3, Zenon
<1>5. fate' \in [1 .. MaxToken -> Fates]
  BY <1>1 DEF TypeInv, ControlTypes, Fates
<1>6. ownerTok' \in [Owners -> 0 .. MaxToken]
  BY <1>1, Sizes DEF TypeInv, ControlTypes, None
<1>7. ControlTypes'
  BY <1>1, <1>4, <1>5, <1>6 DEF TypeInv, ControlTypes
<1>8. Len(<<>>) <= DueCapacity /\ <<>> \in Seq(Due)
  BY Sizes
<1>9. ChannelTypes'
  BY <1>1, <1>8 DEF TypeInv, ChannelTypes
<1>10. QED
  BY <1>7, <1>9

LEMMA TypeStep == ASSUME TypeInv, [Next]_vars PROVE TypeInv'
<1>1. CASE UNCHANGED vars
  BY <1>1 DEF TypeInv, ControlTypes, ChannelTypes, PassTypes, LaunchTypes, vars, control,
              launches, clock, histories
<1>2. CASE (Control \/ DrainDues) /\ UNCHANGED <<stage, base, last, clock, launches, histories>>
  <2>1. ControlTypes' /\ ChannelTypes'
    BY <1>2, ControlKeepsTypes, DrainKeepsTypes DEF TypeInv
  <2>2. PassTypes' /\ LaunchTypes'
    BY <1>2 DEF TypeInv, PassTypes, LaunchTypes, clock, launches, histories
  <2>3. QED
    BY <2>1, <2>2 DEF TypeInv
<1>3. CASE Scheduler /\ UNCHANGED control
  <2>1. ControlTypes'
    BY <1>3 DEF TypeInv, ControlTypes, control
  <2>2. ChannelTypes' /\ PassTypes' /\ LaunchTypes'
    <3>1. CASE Load
      <4>1. ChannelTypes' /\ LaunchTypes'
        BY <3>1 DEF Load, TypeInv, ChannelTypes, LaunchTypes, launches
      <4>2. published \in Snapshot
        BY DEF TypeInv, ControlTypes
      <4>3. PassTypes'
        BY <3>1, <4>2 DEF Load, TypeInv, PassTypes, clock, histories
      <4>4. QED
        BY <4>1, <4>3
    <3>2. CASE Receive
      <4>1. ChannelTypes' /\ LaunchTypes'
        BY <3>2, ReceiveKeepsTypes
      <4>2. PassTypes'
        BY <3>2 DEF Receive, TypeInv, PassTypes, clock, histories
      <4>3. QED
        BY <4>1, <4>2
    <3>3. CASE SettleStopped \/ SettlePlaying
      BY <3>3, SettleKeepsTypes
    <3>4. CASE ScheduleChunk
      BY <3>4, ChunkKeepsTypes
    <3>5. CASE PassDone
      <4>1. ChannelTypes' /\ LaunchTypes'
        BY <3>5 DEF PassDone, TypeInv, ChannelTypes, LaunchTypes, launches
      <4>2. PassTypes'
        BY <3>5, ObservedTypes DEF PassDone, TypeInv, PassTypes, clock, histories
      <4>3. QED
        BY <4>1, <4>2
    <3>6. QED
      BY <1>3, <3>1, <3>2, <3>3, <3>4, <3>5 DEF Scheduler
  <2>3. QED
    BY <2>1, <2>2 DEF TypeInv
<1>4. CASE Render
  <2>1. ControlTypes' /\ ChannelTypes' /\ LaunchTypes'
    BY <1>4 DEF Render, TypeInv, ControlTypes, ChannelTypes, LaunchTypes, control, launches
  <2>2. frontier \in 0 .. MaxBeat /\ ahead \in 0 .. frontier
    BY DEF TypeInv, PassTypes
  <2>3. ahead' \in 0 .. frontier'
    BY <1>4, <2>2, Sizes DEF Render
  <2>4. PassTypes'
    BY <1>4, <2>3 DEF Render, TypeInv, PassTypes, histories
  <2>5. QED
    BY <2>1, <2>4 DEF TypeInv
<1>5. QED
  BY <1>1, <1>2, <1>3, <1>4 DEF Next

\* Types: tokens, launches and messages are what they are declared to be, and
\* neither a channel nor the list of adopted patterns outgrows its capacity.
THEOREM TypeCorrect == Spec => []TypeOK
<1>1. Init => TypeInv
  BY InitTypes
<1>2. TypeInv /\ [Next]_vars => TypeInv'
  BY TypeStep
<1>3. TypeInv => TypeOK
  BY TypesMean
<1>4. QED
  BY <1>1, <1>2, <1>3, PTL DEF Spec

-----------------------------------------------------------------------------
(* The frontier stands before every launch that waits for it               *)

LEMMA BoundaryStep ==
    ASSUME TypeInv, BoundaryNotPassed, [Next]_vars PROVE BoundaryNotPassed'
<1>1. /\ boundary \subseteq Launch /\ frontier \in Nat /\ rendered \in Nat
      /\ rendered <= frontier
      /\ \A l \in boundary : l.deadline \in Nat /\ frontier <= l.deadline
  BY Sizes, RenderedTypes DEF TypeInv, LaunchTypes, PassTypes, BoundaryNotPassed, Launch
<1>2. ASSUME boundary' \subseteq boundary, frontier' \in {0, rendered, frontier}
      PROVE  BoundaryNotPassed'
  <2>1. frontier' \in Nat /\ frontier' <= frontier
    BY <1>1, <1>2
  <2>2. \A l \in boundary' : l.deadline \in Nat /\ frontier <= l.deadline
    BY <1>1, <1>2
  <2>3. \A l \in boundary' : frontier' <= l.deadline
    BY <1>1, <2>1, <2>2
  <2>4. QED
    BY <2>3 DEF BoundaryNotPassed
<1>3. CASE UNCHANGED <<boundary, frontier>>
  BY <1>2, <1>3
<1>4. CASE Receive
  <2> DEFINE m == Head(requests)
  <2>1. UNCHANGED frontier
    BY <1>4 DEF Receive, clock
  <2>2. CASE m.op = "schedule" /\ ReceiveSchedule(m.req)
    <3> DEFINE req == m.req
               replaced == {owned[req.owner]} \ {None}
               own == base.playing /\ req.snap
               deadline == Deadline(IF own THEN frontier ELSE rendered,
                                    base.playing, req.quantized)
               launch == [token |-> req.token, owner |-> req.owner, scene |-> req.scene,
                          deadline |-> deadline]
    <3>1. boundary' = Without(boundary, replaced) \cup (IF own THEN {launch} ELSE {})
      BY <2>2 DEF ReceiveSchedule
    <3>2. own => frontier <= deadline
      BY <1>1, DeadlineProperties
    <3>3. launch.deadline = deadline
      OBVIOUS
    <3> HIDE DEF launch, deadline, own
    <3>4. \A l \in boundary' : l \in boundary \/ (own /\ l = launch)
      BY <3>1 DEF Without
    <3>5. \A l \in boundary' : frontier <= l.deadline
      BY <1>1, <3>2, <3>3, <3>4
    <3>6. QED
      BY <2>1, <3>5 DEF BoundaryNotPassed
  <2>3. CASE boundary' \subseteq boundary
    BY <1>2, <2>1, <2>3
  <2>4. \/ boundary' \subseteq boundary
        \/ m.op = "schedule" /\ ReceiveSchedule(m.req)
    BY <1>4 DEF Receive, ReceiveCancelToken, ReceiveCancelOwner, ReceiveCancelAll,
                ReceiveMirrored, Without
  <2>5. QED
    BY <2>2, <2>3, <2>4
<1>5. CASE SettleStopped \/ SettlePlaying
  <2>1. boundary' \subseteq boundary
    BY <1>5, ReportMeans DEF SettleStopped, SettlePlaying
  <2>2. frontier' \in {0, rendered, frontier}
    BY <1>5 DEF SettleStopped, SettlePlaying, clock
  <2>3. QED
    BY <1>2, <2>1, <2>2
<1>6. CASE ScheduleChunk
  <2>1. boundary' = Waiting /\ frontier' = End /\ frontier < Horizon
    BY <1>6, ChunkMeans
  <2>2. \A l \in Waiting : End <= l.deadline
    BY <2>1, EndProperties
  <2>3. QED
    BY <2>1, <2>2 DEF BoundaryNotPassed
<1>7. \/ UNCHANGED <<boundary, frontier>> \/ Receive \/ SettleStopped \/ SettlePlaying
      \/ ScheduleChunk
  BY DEF Next, vars, launches, clock, Scheduler, Load, PassDone, Render
<1>8. QED
  BY <1>3, <1>4, <1>5, <1>6, <1>7

\* next_session_chunk clamps a chunk at the next launch's beat, whatever the
\* grid, the chunk length and the lookahead, and whatever arrives or stops in
\* between: the frontier is never beyond a launch the scheduler will install.
THEOREM LaunchesStartOnTheirBeat == Spec => []BoundaryNotPassed
<1>1. Init => TypeInv /\ BoundaryNotPassed
  BY InitTypes DEF Init, BoundaryNotPassed
<1>2. TypeInv /\ BoundaryNotPassed /\ [Next]_vars => TypeInv' /\ BoundaryNotPassed'
  BY TypeStep, BoundaryStep
<1>3. QED
  BY <1>1, <1>2, PTL DEF Spec

-----------------------------------------------------------------------------
(* What becomes of a token                                                 *)

Tokens == 1 .. MaxToken
Closed == {"taken", "mirrored", "applied", "failed"}

\* A token is in the hands of a job of the running handler, or still to be
\* submitted by it.
JobOf(j, t) == \/ j.op = "apply" /\ j.due.token = t
               \/ j.op \in {"ack", "forget"} /\ j.token = t
Handling(t) == \E j \in Range(work) : JobOf(j, t)
Submitting(t) == \E j \in Range(work) : j.op = "submit" /\ j.req.token = t

\* Taken and already submitted: it can no longer become valid.
Born(t) == fate[t] # "unused" /\ ~Submitting(t)

\* Tokens are taken in order; a live launch is submitted by the handler that
\* took its token; what is applied or acknowledged is over.
UsedInv == \E n \in 0 .. MaxToken : \A t \in Tokens : fate[t] = "unused" <=> t > n
SubmitInv == \A j \in Range(work) :
                 j.op = "submit" => work = <<j>> /\ fate[j.req.token] = "taken"
ClosedInv == \A t \in Tokens : Handling(t) => fate[t] \in Closed
TokenInv == UsedInv /\ SubmitInv /\ ClosedInv

LEMMA RangeFew ==
    /\ Range(<<>>) = {}
    /\ \A x : Range(<<x>>) = {x}
    /\ \A x, y : Range(<<x, y>>) = {x, y}
<1>1. Range(<<>>) = {}
  BY DEF Range
<1>2. ASSUME NEW x PROVE Range(<<x>>) = {x}
  <2>1. DOMAIN <<x>> = {1} /\ <<x>>[1] = x
    OBVIOUS
  <2>2. QED
    BY <2>1 DEF Range
<1>3. ASSUME NEW x, NEW y PROVE Range(<<x, y>>) = {x, y}
  <2>1. DOMAIN <<x, y>> = {1, 2} /\ <<x, y>>[1] = x /\ <<x, y>>[2] = y
    OBVIOUS
  <2>2. QED
    BY <2>1 DEF Range
<1>4. QED
  BY <1>1, <1>2, <1>3

\* The token a launch takes was not used, and the next ones still are not.
LEMMA NextTokenIsUnused ==
    ASSUME TypeInv, UsedInv, NextToken <= MaxToken
    PROVE  /\ NextToken \in Tokens /\ fate[NextToken] = "unused"
           /\ (\A t \in Tokens : fate'[t] = "unused" <=> fate[t] = "unused" /\ t # NextToken)
                 => UsedInv'
<1>1. PICK n \in 0 .. MaxToken : \A t \in Tokens : fate[t] = "unused" <=> t > n
  BY DEF UsedInv
<1>2. MaxToken \in Nat /\ n \in Nat /\ n <= MaxToken
  BY Sizes
<1>3. {t \in 1 .. MaxToken : fate[t] # "unused"} = 1 .. n
  BY <1>1, <1>2 DEF Tokens
<1>4. Cardinality(1 .. n) = n
  <2>1. Cardinality(1 .. n) = IF 1 > n THEN 0 ELSE n - 1 + 1
    BY <1>2, FS_Interval
  <2>2. QED
    BY <1>2, <2>1
<1>5. NextToken = n + 1
  BY <1>3, <1>4 DEF NextToken
<1>6. NextToken \in Tokens /\ fate[NextToken] = "unused"
  <2>1. n + 1 \in Tokens /\ n + 1 > n
    BY <1>2, <1>5 DEF Tokens
  <2>2. QED
    BY <1>1, <1>5, <2>1
<1>7. ASSUME \A t \in Tokens : fate'[t] = "unused" <=> fate[t] = "unused" /\ t # NextToken
      PROVE  UsedInv'
  <2>1. n + 1 \in 0 .. MaxToken
    BY <1>2, <1>5
  <2>2. \A t \in Tokens : t > n /\ t # n + 1 <=> t > n + 1
    BY <1>2 DEF Tokens
  <2>3. \A t \in Tokens : fate'[t] = "unused" <=> t > n + 1
    BY <1>1, <1>5, <1>7, <2>2
  <2>4. QED
    BY <2>1, <2>3 DEF UsedInv, Tokens
<1>8. QED
  BY <1>6, <1>7

LEMMA UsedAsBefore ==
    ASSUME UsedInv, \A t \in Tokens : fate'[t] = "unused" <=> fate[t] = "unused"
    PROVE  UsedInv'
BY DEF UsedInv, Tokens

\* A token moves forward only.
Forward(t) ==
    /\ Born(t) => Born(t)'
    /\ Born(t) /\ fate'[t] = "valid" => fate[t] = "valid"
    /\ fate[t] = "withdrawn" => fate'[t] = "withdrawn"
    /\ fate[t] = "valid" /\ dues' = dues => fate'[t] \in {"valid", "withdrawn"}

\* What sending a request does to the fates.
LEMMA SubmittedFates ==
    ASSUME TypeInv, NEW req \in Request, Submitted(req),
           fate[req.token] \in {"unused", "taken"}
    PROVE  \A t \in Tokens :
              /\ t = req.token => fate'[t] = (IF HasRoom THEN "valid" ELSE "failed")
              /\ t # req.token => fate'[t] = (IF HasRoom /\ t = ownerTok[req.owner]
                                                 /\ fate[t] = "valid"
                                              THEN "withdrawn" ELSE fate[t])
<1>1. req.token \in Tokens /\ fate \in [Tokens -> Fates]
  BY DEF Request, Tokens, TypeInv, ControlTypes
<1> DEFINE cleared == Withdrawn({ownerTok[req.owner]})
<1>2. /\ cleared \in [Tokens -> Fates]
      /\ \A t \in Tokens : cleared[t] = IF t \in {ownerTok[req.owner]} /\ fate[t] = "valid"
                                        THEN "withdrawn" ELSE fate[t]
  BY WithdrawnTypes DEF TypeInv, ControlTypes, Tokens
<1> HIDE DEF cleared
<1>3. CASE HasRoom
  <2>1. fate' = [cleared EXCEPT ![req.token] = "valid"]
    BY <1>3 DEF Submitted, cleared
  <2>2. QED
    BY <1>1, <1>2, <1>3, <2>1
<1>4. CASE ~HasRoom
  <2>1. fate' = [fate EXCEPT ![req.token] = "failed"]
    BY <1>4 DEF Submitted
  <2>2. QED
    BY <1>1, <1>4, <2>1
<1>5. QED
  BY <1>3, <1>4

LEMMA ClickTokens ==
    ASSUME TypeInv, TokenInv, NEW o \in Owners, NEW s \in Scenes, Click(o, s)
    PROVE  TokenInv' /\ \A t \in Tokens : Forward(t)
<1> DEFINE req == [token |-> NextToken, owner |-> o, scene |-> s,
                   quantized |-> TRUE, snap |-> published.playing]
<1>1. NextToken <= MaxToken /\ Submitted(req) /\ work = <<>> /\ work' = <<>>
  BY DEF Click
<1>2. NextToken \in Tokens /\ fate[NextToken] = "unused"
  BY <1>1, NextTokenIsUnused DEF TokenInv
<1>3. req \in Request /\ req.token = NextToken
  BY <1>2 DEF TypeInv, ControlTypes, Snapshot, Request, Tokens
<1> HIDE DEF req
<1>4. \A t \in Tokens :
         /\ t = NextToken => fate'[t] = (IF HasRoom THEN "valid" ELSE "failed")
         /\ t # NextToken => fate'[t] = (IF HasRoom /\ t = ownerTok[req.owner]
                                            /\ fate[t] = "valid"
                                         THEN "withdrawn" ELSE fate[t])
  BY <1>1, <1>2, <1>3, SubmittedFates
<1>5. UsedInv'
  <2>1. \A t \in Tokens : fate'[t] = "unused" <=> fate[t] = "unused" /\ t # NextToken
    BY <1>4
  <2>2. QED
    BY <1>1, <2>1, NextTokenIsUnused DEF TokenInv
<1>6. Range(work) = {} /\ Range(work') = {}
  BY <1>1, RangeFew
<1>7. TokenInv'
  BY <1>5, <1>6 DEF TokenInv, SubmitInv, ClosedInv, Handling
<1>8. \A t \in Tokens : Forward(t)
  BY <1>2, <1>4, <1>6 DEF Forward, Born, Submitting
<1>9. QED
  BY <1>7, <1>8

\* Without a new token, and with no job but of tokens that were handled.
LEMMA SameTokens ==
    ASSUME TypeInv, TokenInv, work = <<>>, work' = <<>>,
           \A t \in Tokens : \/ fate'[t] = fate[t]
                             \/ fate[t] = "valid" /\ fate'[t] = "withdrawn"
    PROVE  TokenInv' /\ \A t \in Tokens : Forward(t)
<1>1. UsedInv'
  <2>1. \A t \in Tokens : fate'[t] = "unused" <=> fate[t] = "unused"
    OBVIOUS
  <2>2. QED
    BY <2>1, UsedAsBefore DEF TokenInv
<1>2. Range(work) = {} /\ Range(work') = {}
  BY RangeFew
<1>3. TokenInv'
  BY <1>1, <1>2 DEF TokenInv, SubmitInv, ClosedInv, Handling
<1>4. \A t \in Tokens : Forward(t)
  BY <1>2 DEF Forward, Born, Submitting
<1>5. QED
  BY <1>3, <1>4

LEMMA LiveLaunchTokens ==
    ASSUME TypeInv, TokenInv, NEW s \in Scenes, LiveLaunch(s)
    PROVE  TokenInv' /\ \A t \in Tokens : Forward(t)
<1> DEFINE req == [token |-> NextToken, owner |-> Transport, scene |-> s,
                   quantized |-> FALSE, snap |-> TRUE]
           due == [token |-> NextToken, owner |-> Transport, scene |-> s, applied |-> FALSE]
           submit == [op |-> "submit", req |-> req]
           apply == [op |-> "apply", due |-> due]
<1>1. NextToken <= MaxToken /\ work = <<>> /\ work' \in {<<submit>>, <<apply>>}
  BY DEF LiveLaunch
<1>2. NextToken \in Tokens /\ fate[NextToken] = "unused"
  BY <1>1, NextTokenIsUnused DEF TokenInv
<1>3. \A t \in Tokens :
         /\ t = NextToken => fate'[t] = "taken"
         /\ t # NextToken => fate'[t] = IF fate[t] = "valid" THEN "withdrawn" ELSE fate[t]
  <2> DEFINE cleared == Withdrawn(1 .. MaxToken)
  <2>1. fate' = [cleared EXCEPT ![NextToken] = "taken"]
    BY DEF LiveLaunch
  <2>2. /\ cleared \in [Tokens -> Fates]
        /\ \A t \in Tokens : cleared[t] = IF t \in 1 .. MaxToken /\ fate[t] = "valid"
                                          THEN "withdrawn" ELSE fate[t]
    BY WithdrawnTypes DEF TypeInv, ControlTypes, Tokens
  <2> HIDE DEF cleared
  <2>3. QED
    BY <1>2, <2>1, <2>2 DEF Tokens
<1>4. UsedInv'
  <2>1. \A t \in Tokens : fate'[t] = "unused" <=> fate[t] = "unused" /\ t # NextToken
    BY <1>3
  <2>2. QED
    BY <1>1, <2>1, NextTokenIsUnused DEF TokenInv
<1>5. /\ submit.op = "submit" /\ submit.req.token = NextToken
      /\ apply.op = "apply" /\ apply.due.token = NextToken
  OBVIOUS
<1> HIDE DEF submit, apply
<1>6. Range(work) = {} /\ \/ work' = <<submit>> /\ Range(work') = {submit}
                          \/ work' = <<apply>> /\ Range(work') = {apply}
  BY <1>1, RangeFew
<1>7. SubmitInv'
  BY <1>2, <1>3, <1>5, <1>6 DEF SubmitInv
<1>8. ClosedInv'
  BY <1>2, <1>3, <1>5, <1>6 DEF ClosedInv, Handling, JobOf, Closed
<1>9. \A t \in Tokens : Forward(t)
  <2>1. \A t \in Tokens : Submitting(t)' => t = NextToken
    BY <1>5, <1>6 DEF Submitting
  <2>2. QED
    BY <1>2, <1>3, <1>6, <2>1 DEF Forward, Born, Submitting
<1>10. QED
  BY <1>4, <1>7, <1>8, <1>9 DEF TokenInv

\* The request of the handler's job, and what is left of the job.
LEMMA SubmitMeans ==
    ASSUME TypeInv, TokenInv, Submit
    PROVE  LET req == Head(work).req
               due == [token |-> req.token, owner |-> req.owner,
                       scene |-> req.scene, applied |-> FALSE]
           IN  /\ req \in Request /\ req.token \in Tokens /\ req.owner \in Owners
               /\ Submitted(req) /\ fate[req.token] = "taken" /\ Submitting(req.token)
               /\ Range(work) = {Head(work)} /\ Head(work).op = "submit"
               /\ \/ HasRoom /\ work' = <<>> /\ Range(work') = {}
                  \/ ~HasRoom /\ \E j \in Job :
                        j.op = "apply" /\ j.due = due /\ work' = <<j>> /\ Range(work') = {j}
<1> DEFINE req == Head(work).req
           due == [token |-> req.token, owner |-> req.owner,
                   scene |-> req.scene, applied |-> FALSE]
           apply == [op |-> "apply", due |-> due]
<1>1. /\ work \in Seq(Job) /\ work # <<>> /\ Head(work).op = "submit" /\ Submitted(req)
      /\ work' = IF HasRoom THEN <<>> ELSE <<apply>>
  BY DEF TypeInv, ControlTypes, Submit
<1>2. Head(work) \in Range(work) /\ Head(work) \in Job
  BY <1>1, RangeTail
<1>3. work = <<Head(work)>> /\ fate[req.token] = "taken"
  BY <1>1, <1>2 DEF TokenInv, SubmitInv
<1>4. Range(work) = {Head(work)}
  <2>1. Range(<<Head(work)>>) = {Head(work)}
    BY RangeFew
  <2>2. QED
    BY <1>3, <2>1
<1>5. req \in Request
  BY <1>1, <1>2, JobFields
<1>6. req.token \in Tokens /\ req.owner \in Owners /\ req.scene \in Scenes
  BY <1>5 DEF Request, Tokens
<1>7. due \in Due
  BY <1>6 DEF Due, Tokens
<1>8. Submitting(req.token)
  BY <1>1, <1>2 DEF Submitting
<1> HIDE DEF due
<1>9. apply \in Job /\ apply.op = "apply" /\ apply.due = due
  BY <1>7 DEF Job
<1> HIDE DEF apply, req
<1>10. \/ HasRoom /\ work' = <<>> /\ Range(work') = {}
       \/ ~HasRoom /\ work' = <<apply>> /\ Range(work') = {apply}
  BY <1>1, RangeFew
<1>11. QED
  BY <1>1, <1>3, <1>4, <1>5, <1>6, <1>8, <1>9, <1>10 DEF due, req

LEMMA SubmitTokens ==
    ASSUME TypeInv, TokenInv, Submit
    PROVE  TokenInv' /\ \A t \in Tokens : Forward(t)
<1> DEFINE req == Head(work).req
<1>1. /\ req \in Request /\ req.token \in Tokens /\ Submitted(req)
      /\ fate[req.token] = "taken" /\ Submitting(req.token)
      /\ Range(work) = {Head(work)} /\ Head(work).op = "submit"
      /\ \/ HasRoom /\ work' = <<>> /\ Range(work') = {}
         \/ ~HasRoom /\ \E j \in Job : /\ j.op = "apply" /\ j.due.token = req.token
                                       /\ Range(work') = {j}
  BY SubmitMeans
<1> HIDE DEF req
<1>2. \A t \in Tokens :
         /\ t = req.token => fate'[t] = (IF HasRoom THEN "valid" ELSE "failed")
         /\ t # req.token => fate'[t] = (IF HasRoom /\ t = ownerTok[req.owner]
                                            /\ fate[t] = "valid"
                                         THEN "withdrawn" ELSE fate[t])
  BY <1>1, SubmittedFates
<1>3. UsedInv'
  <2>1. \A t \in Tokens : fate'[t] = "unused" <=> fate[t] = "unused"
    BY <1>1, <1>2
  <2>2. QED
    BY <2>1, UsedAsBefore DEF TokenInv
<1>4. \A j \in Range(work') : j.op = "apply" /\ j.due.token = req.token /\ ~HasRoom
  BY <1>1
<1>5. SubmitInv' /\ \A t \in Tokens : ~Submitting(t)'
  BY <1>4 DEF SubmitInv, Submitting
<1>6. ClosedInv'
  BY <1>1, <1>2, <1>4 DEF ClosedInv, Handling, JobOf, Closed
<1>7. \A t \in Tokens : Forward(t)
  <2>1. ~Born(req.token)
    BY <1>1 DEF Born
  <2>2. QED
    BY <1>1, <1>2, <1>5, <2>1 DEF Forward, Born
<1>8. QED
  BY <1>3, <1>5, <1>6, <1>7 DEF TokenInv

\* The launch being applied, and the jobs its failure or success leaves.
LEMMA ApplyMeans ==
    ASSUME TypeInv, TokenInv, Apply \/ ApplyFails
    PROVE  LET d == Head(work).due
           IN  /\ d \in Due /\ d.token \in Tokens /\ Head(work) \in Range(work)
               /\ Head(work).op = "apply" /\ fate[d.token] \in Closed
               /\ fate'[d.token] \in Closed
               /\ \A t \in Tokens : t # d.token => fate'[t] = fate[t]
               /\ \A j \in Range(work) : j.op # "submit"
               /\ \E more : /\ Range(work') = Range(more) \cup Range(Tail(work))
                            /\ Range(work) = {Head(work)} \cup Range(Tail(work))
                            /\ \A j \in Range(more) : j.op \in {"ack", "forget"}
                                                      /\ j.token = d.token
                            /\ d.applied => Range(more) # {}
               /\ UNCHANGED <<ownerTok, toggles, requests, wiped>>
<1> DEFINE d == Head(work).due
           ack == [op |-> "ack", token |-> d.token]
           forget == [op |-> "forget", token |-> d.token]
<1>1. /\ work \in Seq(Job) /\ work # <<>> /\ Head(work).op = "apply"
      /\ UNCHANGED <<ownerTok, toggles, requests, wiped>>
  BY DEF TypeInv, ControlTypes, Apply, ApplyFails
<1>2. /\ Head(work) \in Job /\ Tail(work) \in Seq(Job)
      /\ Range(work) = {Head(work)} \cup Range(Tail(work))
  BY <1>1, RangeTail
<1>3. d \in Due /\ d.token \in Tokens
  BY <1>1, <1>2, JobFields DEF Due, Tokens
<1>4. fate[d.token] \in Closed
  BY <1>1, <1>2, <1>3 DEF TokenInv, ClosedInv, Handling, JobOf
<1>5. \E x \in Closed : fate' = [fate EXCEPT ![d.token] = x]
  BY DEF Apply, ApplyFails, Closed
<1>6. fate \in [Tokens -> Fates]
  BY DEF TypeInv, ControlTypes, Tokens
<1>7. fate'[d.token] \in Closed /\ \A t \in Tokens : t # d.token => fate'[t] = fate[t]
  BY <1>3, <1>5, <1>6
<1>8. ASSUME NEW j \in Range(work) PROVE j.op # "submit"
  <2>1. SUFFICES ASSUME j.op = "submit" PROVE FALSE
    OBVIOUS
  <2>2. work = <<j>>
    BY <1>8, <2>1 DEF TokenInv, SubmitInv
  <2>3. Range(<<j>>) = {j}
    BY RangeFew
  <2>4. Head(work) = j
    BY <1>2, <2>2, <2>3
  <2>5. QED
    BY <1>1, <2>1, <2>4
<1>9. \E more \in {<<ack>>, <<>>, <<ack, forget>>} :
         work' = more \o Tail(work) /\ (d.applied => more # <<>>)
  BY DEF Apply, ApplyFails, AfterFailure
<1>10. /\ ack \in Job /\ forget \in Job
       /\ ack.op \in {"ack", "forget"} /\ ack.token = d.token
       /\ forget.op \in {"ack", "forget"} /\ forget.token = d.token
  BY <1>3 DEF Job, Tokens
<1> HIDE DEF ack, forget, d
<1>11. /\ \A more \in {<<ack>>, <<>>, <<ack, forget>>} : more \in Seq(Job)
       /\ \A more \in {<<ack>>, <<>>, <<ack, forget>>} : Range(more) \subseteq {ack, forget}
       /\ \A more \in {<<ack>>, <<>>, <<ack, forget>>} : more # <<>> => Range(more) # {}
  <2>1. <<ack>> \in Seq(Job) /\ <<>> \in Seq(Job) /\ <<ack, forget>> \in Seq(Job)
    BY <1>10
  <2>2. Range(<<ack>>) = {ack} /\ Range(<<>>) = {} /\ Range(<<ack, forget>>) = {ack, forget}
    BY RangeFew
  <2>3. QED
    BY <2>1, <2>2, Zenon
<1>12. PICK more : /\ more \in Seq(Job) /\ work' = more \o Tail(work)
                   /\ Range(more) \subseteq {ack, forget}
                   /\ d.applied => Range(more) # {}
  BY <1>9, <1>11
<1>13. Range(work') = Range(more) \cup Range(Tail(work))
  <2>1. Tail(work) \in Seq(Job) /\ more \in Seq(Job)
    BY <1>2, <1>12
  <2>2. Range(more \o Tail(work)) = Range(more) \cup Range(Tail(work))
    BY <2>1, RangeConcat, ZenonT(30)
  <2>3. QED
    BY <1>12, <2>2
<1>14. \A j \in Range(more) : j.op \in {"ack", "forget"} /\ j.token = d.token
  BY <1>10, <1>12
<1>15. QED
  BY <1>1, <1>2, <1>3, <1>4, <1>7, <1>8, <1>12, <1>13, <1>14 DEF d

LEMMA ApplyTokens ==
    ASSUME TypeInv, TokenInv, Apply \/ ApplyFails
    PROVE  TokenInv' /\ \A t \in Tokens : Forward(t)
<1> DEFINE d == Head(work).due
<1>1. /\ d.token \in Tokens /\ fate[d.token] \in Closed /\ fate'[d.token] \in Closed
      /\ \A t \in Tokens : t # d.token => fate'[t] = fate[t]
      /\ \A j \in Range(work) : j.op # "submit"
  BY ApplyMeans
<1>2. PICK more : /\ Range(work') = Range(more) \cup Range(Tail(work))
                  /\ Range(work) = {Head(work)} \cup Range(Tail(work))
                  /\ \A j \in Range(more) : j.op \in {"ack", "forget"} /\ j.token = d.token
  BY ApplyMeans
<1> HIDE DEF d
<1>3. UsedInv'
  <2>1. \A t \in Tokens : fate'[t] = "unused" <=> fate[t] = "unused"
    BY <1>1 DEF Closed
  <2>2. QED
    BY <2>1, UsedAsBefore DEF TokenInv
<1>4. \A j \in Range(work') : j.op # "submit"
  BY <1>1, <1>2
<1>5. \A t \in Tokens : Handling(t)' => t = d.token \/ Handling(t)
  BY <1>2 DEF Handling, JobOf
<1>6. ClosedInv'
  BY <1>1, <1>5 DEF TokenInv, ClosedInv
<1>7. SubmitInv'
  BY <1>4 DEF SubmitInv
<1>8. \A t \in Tokens : Forward(t)
  BY <1>1, <1>4 DEF Forward, Born, Submitting, Closed
<1>9. QED
  BY <1>3, <1>6, <1>7, <1>8 DEF TokenInv

LEMMA AcknowledgeTokens ==
    ASSUME TypeInv, TokenInv, Acknowledge
    PROVE  TokenInv' /\ \A t \in Tokens : Forward(t)
<1>1. /\ work \in Seq(Job) /\ work # <<>> /\ Head(work).op \in {"ack", "forget"}
      /\ work' = Tail(work) /\ fate' = fate
  BY DEF TypeInv, ControlTypes, Acknowledge
<1>2. Range(work) = {Head(work)} \cup Range(work')
  BY <1>1, RangeTail
<1>3. ASSUME NEW j \in Range(work) PROVE j.op # "submit"
  <2>1. SUFFICES ASSUME j.op = "submit" PROVE FALSE
    OBVIOUS
  <2>2. work = <<j>>
    BY <1>3, <2>1 DEF TokenInv, SubmitInv
  <2>3. Range(<<j>>) = {j}
    BY RangeFew
  <2>4. Head(work) = j
    BY <1>2, <2>2, <2>3
  <2>5. QED
    BY <1>1, <2>1, <2>4
<1>4. UsedInv'
  BY <1>1, UsedAsBefore DEF TokenInv
<1>5. SubmitInv' /\ ClosedInv'
  BY <1>1, <1>2, <1>3 DEF TokenInv, SubmitInv, ClosedInv, Handling
<1>6. \A t \in Tokens : Forward(t)
  BY <1>1, <1>2, <1>3 DEF Forward, Born, Submitting
<1>7. QED
  BY <1>4, <1>5, <1>6 DEF TokenInv

\* Of the dues, those of valid tokens are taken to be applied.
LEMMA DrainMeans ==
    ASSUME TypeInv, DrainDues
    PROVE  /\ work = <<>> /\ dues' = <<>> /\ requests' = requests
           /\ \A t \in Tokens :
                 fate'[t] = IF fate[t] = "valid" /\ \E d \in Range(dues) : d.token = t
                            THEN "taken" ELSE fate[t]
           /\ \A o \in Owners : \/ ownerTok'[o] = ownerTok[o]
                                \/ /\ ownerTok[o] \in Tokens /\ fate[ownerTok[o]] = "valid"
                                   /\ \E d \in Range(dues) : d.token = ownerTok[o]
           /\ \A j \in Range(work') : /\ j.op = "apply" /\ j.due \in Range(dues)
                                      /\ fate[j.due.token] = "valid"
           /\ \A d \in Range(dues) : fate[d.token] = "valid" =>
                 \E j \in Range(work') : j.op = "apply" /\ j.due = d
<1> DEFINE wanted == {d \in Range(dues) : fate[d.token] = "valid"}
           mine == Kept(dues, wanted)
           taken == {d.token : d \in Range(mine)}
<1>1. /\ work = <<>> /\ dues' = <<>> /\ requests' = requests
      /\ work' = [i \in DOMAIN mine |-> [op |-> "apply", due |-> mine[i]]]
      /\ fate' = [t \in DOMAIN fate |-> IF t \in taken THEN "taken" ELSE fate[t]]
      /\ ownerTok' = [o \in Owners |-> IF ownerTok[o] \in taken THEN None ELSE ownerTok[o]]
  BY DEF DrainDues
<1>2. dues \in Seq(Due) /\ fate \in [Tokens -> Fates]
  BY DEF TypeInv, ChannelTypes, ControlTypes, Tokens
<1>3. mine \in Seq(Due) /\ Range(mine) = Range(dues) \cap wanted
  <2> HIDE DEF wanted
  <2>1. QED
    BY <1>2, KeptProperties
<1>4. Range(mine) = wanted
  BY <1>3
<1> HIDE DEF mine
<1>5. \A t : t \in taken <=> fate[t] = "valid" /\ \E d \in Range(dues) : d.token = t
  BY <1>4
<1>6. \A d \in Range(dues) : d.token \in Tokens
  <2>1. Range(dues) \subseteq Due
    BY <1>2, RangeTypes
  <2>2. QED
    BY <2>1 DEF Due, Tokens
<1> DEFINE jobs == [i \in DOMAIN mine |-> [op |-> "apply", due |-> mine[i]]]
<1>7. /\ DOMAIN jobs = DOMAIN mine
      /\ \A i \in DOMAIN mine : jobs[i].op = "apply" /\ jobs[i].due = mine[i]
  OBVIOUS
<1>8. work' = jobs
  BY <1>1
<1> HIDE DEF jobs, wanted
<1>9. \A j \in Range(work') : j.op = "apply" /\ j.due \in Range(mine)
  BY <1>7, <1>8 DEF Range
<1>10. \A d \in Range(mine) : \E j \in Range(work') : j.op = "apply" /\ j.due = d
  BY <1>7, <1>8 DEF Range
<1> HIDE DEF taken
<1>11. \A t \in Tokens :
          fate'[t] = IF fate[t] = "valid" /\ \E d \in Range(dues) : d.token = t
                     THEN "taken" ELSE fate[t]
  BY <1>1, <1>2, <1>5
<1>12. \A o \in Owners : \/ ownerTok'[o] = ownerTok[o]
                         \/ /\ ownerTok[o] \in Tokens /\ fate[ownerTok[o]] = "valid"
                            /\ \E d \in Range(dues) : d.token = ownerTok[o]
  BY <1>1, <1>5, <1>6
<1>13. QED
  BY <1>1, <1>4, <1>9, <1>10, <1>11, <1>12 DEF wanted

LEMMA DrainTokens ==
    ASSUME TypeInv, TokenInv, DrainDues
    PROVE  TokenInv' /\ \A t \in Tokens : Forward(t)
<1>1. /\ work = <<>> /\ dues # <<>> /\ dues' = <<>>
      /\ \A t \in Tokens :
            fate'[t] = IF fate[t] = "valid" /\ \E d \in Range(dues) : d.token = t
                       THEN "taken" ELSE fate[t]
      /\ \A j \in Range(work') : /\ j.op = "apply" /\ j.due \in Range(dues)
                                 /\ fate[j.due.token] = "valid"
  BY DrainMeans DEF DrainDues
<1>2. Range(work) = {}
  BY <1>1, RangeFew
<1>3. UsedInv'
  <2>1. \A t \in Tokens : fate'[t] = "unused" <=> fate[t] = "unused"
    BY <1>1
  <2>2. QED
    BY <2>1, UsedAsBefore DEF TokenInv
<1>4. SubmitInv' /\ ClosedInv'
  BY <1>1 DEF SubmitInv, ClosedInv, Handling, JobOf, Closed
<1>5. \A t \in Tokens : Forward(t)
  BY <1>1, <1>2 DEF Forward, Born, Submitting
<1>6. QED
  BY <1>3, <1>4, <1>5 DEF TokenInv

LEMMA TokenStep ==
    ASSUME TypeInv, TokenInv, [Next]_vars
    PROVE  TokenInv' /\ \A t \in Tokens : Forward(t)
<1>1. fate \in [Tokens -> Fates]
  BY DEF TypeInv, ControlTypes, Tokens
<1>2. CASE UNCHANGED control
  <2>1. UNCHANGED <<fate, work>>
    BY <1>2 DEF control
  <2>2. QED
    BY <2>1 DEF TokenInv, UsedInv, SubmitInv, ClosedInv, Handling, Forward, Born, Submitting
<1>3. ASSUME NEW o \in Owners, CancelOwner(o)
      PROVE  TokenInv' /\ \A t \in Tokens : Forward(t)
  <2>1. /\ work = <<>> /\ work' = <<>> /\ fate' = Withdrawn({ownerTok[o]})
    BY <1>3 DEF CancelOwner
  <2>2. \A t \in Tokens : \/ fate'[t] = fate[t]
                          \/ fate[t] = "valid" /\ fate'[t] = "withdrawn"
    BY <2>1, WithdrawnTypes DEF TypeInv, ControlTypes, Tokens
  <2>3. QED
    BY <2>1, <2>2, SameTokens
<1>4. CASE TogglePlay
  <2>1. work = <<>> /\ work' = <<>> /\ fate' = fate
    BY <1>4 DEF TogglePlay
  <2>2. QED
    BY <2>1, SameTokens
<1>5. CASE Control
  BY <1>3, <1>4, <1>5, ClickTokens, LiveLaunchTokens, SubmitTokens, ApplyTokens,
     AcknowledgeTokens DEF Control
<1>6. QED
  BY <1>2, <1>5, DrainTokens DEF Next, vars, Render

LEMMA InitTokens == Init => TokenInv
<1>1. SUFFICES ASSUME Init PROVE TokenInv
  OBVIOUS
<1>2. \A t \in Tokens : fate[t] = "unused" /\ t > 0
  BY <1>1 DEF Init, Tokens
<1>3. 0 \in 0 .. MaxToken
  BY Sizes
<1>4. UsedInv
  BY <1>2, <1>3 DEF UsedInv
<1>5. Range(work) = {}
  BY <1>1, RangeFew DEF Init
<1>6. QED
  BY <1>4, <1>5 DEF TokenInv, SubmitInv, ClosedInv, Handling

-----------------------------------------------------------------------------
(* Where a launch is on its way                                            *)

\* In the request channel (at some place), waiting at the scheduler, reported
\* but still with the scheduler, reported to the control thread.
AskedAt(i, t, o) == /\ requests[i].op = "schedule"
                    /\ requests[i].req.token = t /\ requests[i].req.owner = o
Asked(t, o) == \E i \in DOMAIN requests : AskedAt(i, t, o)
Queued(t, o) == \E l \in pending \cup boundary : l.token = t /\ l.owner = o
Delayed(t, o) == \E d \in Range(backlog) : d.token = t /\ d.owner = o
Told(t, o) == \E d \in Range(dues) : d.token = t /\ d.owner = o

\* What the scheduler knows of a launch, and what anybody does.
Held(t, o) == Queued(t, o) \/ Delayed(t, o) \/ owned[o] = t
Known(t, o) == Asked(t, o) \/ Held(t, o) \/ Told(t, o)

\* The requests on whose receipt the scheduler drops a launch.
Kills(m, t, o) == \/ m.op = "schedule" /\ m.req.owner = o
                  \/ m.op = "cancel" /\ m.token = t
                  \/ m.op = "cancelOwner" /\ m.owner = o
                  \/ m.op = "cancelAll"

\* A launch that is still valid is the one its owner shows, it is on its way,
\* and no request behind it is going to drop it.
BornInv == \A t \in Tokens, o \in Owners : Known(t, o) => Born(t)
OwnInv == \A t \in Tokens, o \in Owners : Known(t, o) /\ fate[t] = "valid" => ownerTok[o] = t
FifoInv ==
    \A i \in DOMAIN requests, t \in Tokens, o \in Owners :
        /\ Held(t, o) \/ \E j \in DOMAIN requests : j < i /\ AskedAt(j, t, o)
        /\ Kills(requests[i], t, o)
        => fate[t] # "valid"
LiveInv ==
    \A t \in Tokens : fate[t] = "valid" =>
        \E o \in Owners : Asked(t, o) \/ Queued(t, o) \/ Delayed(t, o) \/ Told(t, o)
LiveAll == BornInv /\ OwnInv /\ FifoInv /\ LiveInv

LEMMA InitLive == Init => LiveAll
<1>1. SUFFICES ASSUME Init PROVE LiveAll
  OBVIOUS
<1>2. \A t \in Tokens : fate[t] = "unused" /\ t # None
  BY <1>1 DEF Init, Tokens, None
<1>3. /\ requests = <<>> /\ dues = <<>> /\ backlog = <<>> /\ pending = {} /\ boundary = {}
      /\ owned = [o \in Owners |-> None]
  BY <1>1 DEF Init
<1>4. DOMAIN requests = {} /\ Range(dues) = {} /\ Range(backlog) = {}
  BY <1>3, RangeFew
<1>5. \A t \in Tokens, o \in Owners : ~Known(t, o)
  BY <1>2, <1>3, <1>4 DEF Known, Asked, Held, Told, Queued, Delayed
<1>6. QED
  BY <1>2, <1>4, <1>5 DEF LiveAll, BornInv, OwnInv, FifoInv, LiveInv

\* A live launch is live.
LEMMA LiveMeans ==
    ASSUME TypeInv, LiveInv PROVE ValidIsLive
<1>1. SUFFICES ASSUME NEW t \in 1 .. MaxToken, fate[t] = "valid"
               PROVE  \/ \E m \in Range(requests) : m.op = "schedule" /\ m.req.token = t
                      \/ \E l \in pending \cup boundary : l.token = t
                      \/ InTransit(t)
  BY DEF ValidIsLive
<1>2. PICK o \in Owners : Asked(t, o) \/ Queued(t, o) \/ Delayed(t, o) \/ Told(t, o)
  BY <1>1 DEF LiveInv, Tokens
<1>3. CASE Asked(t, o)
  BY <1>3 DEF Asked, AskedAt, Range
<1>4. CASE Queued(t, o)
  BY <1>4 DEF Queued
<1>5. CASE Delayed(t, o) \/ Told(t, o)
  <2>1. backlog \in Seq(Due) /\ dues \in Seq(Due)
    BY DEF TypeInv, LaunchTypes, ChannelTypes
  <2>2. Range(backlog \o dues) = Range(backlog) \cup Range(dues)
    BY <2>1, RangeConcat
  <2>3. QED
    BY <1>5, <2>2 DEF Delayed, Told, InTransit
<1>6. QED
  BY <1>2, <1>3, <1>4, <1>5

\* A step of the scheduler that receives nothing only moves launches along.
LEMMA MovesAlong ==
    ASSUME LiveAll, UNCHANGED <<requests, fate, ownerTok, work>>,
           \A t \in Tokens, o \in Owners :
              /\ Queued(t, o)' => Queued(t, o)
              /\ Delayed(t, o)' => Queued(t, o) \/ Delayed(t, o)
              /\ owned'[o] = t => owned[o] = t
              /\ Told(t, o)' => Queued(t, o) \/ Delayed(t, o) \/ Told(t, o)
              /\ Queued(t, o) \/ Delayed(t, o) \/ Told(t, o)
                    => Queued(t, o)' \/ Delayed(t, o)' \/ Told(t, o)'
    PROVE  LiveAll'
<1>1. \A t \in Tokens, o \in Owners : /\ Held(t, o)' => Held(t, o)
                                      /\ Asked(t, o)' <=> Asked(t, o)
                                      /\ Known(t, o)' => Known(t, o)
                                      /\ Born(t)' <=> Born(t)
  BY DEF Held, Asked, AskedAt, Known, Born, Submitting
<1>2. BornInv' /\ OwnInv'
  BY <1>1 DEF LiveAll, BornInv, OwnInv
<1>3. FifoInv'
  BY <1>1 DEF LiveAll, FifoInv, AskedAt, Kills
<1>4. LiveInv'
  BY <1>1 DEF LiveAll, LiveInv
<1>5. QED
  BY <1>2, <1>3, <1>4 DEF LiveAll

\* The requests after one is sent.
LEMMA SentRequests ==
    ASSUME TypeInv, NEW m \in Message, requests' = Append(requests, m)
    PROVE  /\ Len(requests) \in Nat /\ DOMAIN requests = 1 .. Len(requests)
           /\ DOMAIN requests' = 1 .. Len(requests) + 1
           /\ \A i \in DOMAIN requests : i < Len(requests) + 1
           /\ \A i \in DOMAIN requests' : i \in DOMAIN requests \/ i = Len(requests) + 1
           /\ \A i \in DOMAIN requests : i \in DOMAIN requests' /\ requests'[i] = requests[i]
           /\ Len(requests) + 1 \in DOMAIN requests' /\ requests'[Len(requests) + 1] = m
<1>1. requests \in Seq(Message)
  BY DEF TypeInv, ChannelTypes
<1>2. QED
  BY <1>1

\* The control thread withdraws, takes or cancels launches and sends no new
\* one: what remains valid is shown, on its way, and not to be dropped.
LEMMA NoNewLaunch ==
    ASSUME TypeInv, LiveAll, UNCHANGED launches, \A t \in Tokens : Forward(t),
           NEW m \in Message, m.op # "schedule", requests' \in {requests, Append(requests, m)},
           dues' \in {dues, <<>>},
           \A t \in Tokens : fate'[t] = "valid" =>
              fate[t] = "valid" /\ (dues' = dues \/ \A o \in Owners : ~Told(t, o)),
           \A t \in Tokens, o \in Owners : Known(t, o) /\ fate'[t] = "valid" =>
              ownerTok'[o] = t /\ (requests' = requests \/ ~Kills(m, t, o))
    PROVE  LiveAll'
<1>1. \A t \in Tokens, o \in Owners : /\ Queued(t, o)' <=> Queued(t, o)
                                      /\ Delayed(t, o)' <=> Delayed(t, o)
                                      /\ Held(t, o)' <=> Held(t, o)
                                      /\ Told(t, o)' => Told(t, o)
                                      /\ dues' = dues => (Told(t, o)' <=> Told(t, o))
  BY RangeFew DEF Queued, Delayed, Held, Told, launches
<1>2. /\ Len(requests) \in Nat /\ DOMAIN requests = 1 .. Len(requests)
      /\ DOMAIN requests \subseteq DOMAIN requests'
      /\ \A i \in DOMAIN requests : requests'[i] = requests[i]
      /\ \A i \in DOMAIN requests' :
            \/ i \in DOMAIN requests
            \/ requests' = Append(requests, m) /\ i = Len(requests) + 1 /\ requests'[i] = m
  <2>1. requests \in Seq(Message)
    BY DEF TypeInv, ChannelTypes
  <2>2. CASE requests' = requests
    BY <2>1, <2>2
  <2>3. CASE requests' = Append(requests, m)
    BY <2>3, SentRequests
  <2>4. QED
    BY <2>2, <2>3
<1>3. \A i \in DOMAIN requests', t \in Tokens, o \in Owners :
         AskedAt(i, t, o)' <=> i \in DOMAIN requests /\ AskedAt(i, t, o)
  BY <1>2 DEF AskedAt
<1>4. \A t \in Tokens, o \in Owners : Asked(t, o)' <=> Asked(t, o)
  BY <1>2, <1>3 DEF Asked
<1>5. \A t \in Tokens, o \in Owners : Known(t, o)' => Known(t, o)
  BY <1>1, <1>4 DEF Known
<1>6. BornInv'
  BY <1>5 DEF LiveAll, BornInv, Forward
<1>7. OwnInv'
  BY <1>5 DEF OwnInv
<1>8. FifoInv'
  <2>1. SUFFICES ASSUME NEW i \in DOMAIN requests', NEW t \in Tokens, NEW o \in Owners,
                        \/ Held(t, o)'
                        \/ \E j \in DOMAIN requests' : j < i /\ AskedAt(j, t, o)',
                        Kills(requests'[i], t, o), fate'[t] = "valid"
                 PROVE  FALSE
    BY DEF FifoInv, Kills
  <2>2. Held(t, o) \/ \E j \in DOMAIN requests : j < i /\ AskedAt(j, t, o)
    BY <1>1, <1>3, <2>1
  <2>3. Known(t, o)
    BY <2>2 DEF Known, Asked
  <2>4. fate[t] = "valid" /\ (requests' = requests \/ ~Kills(m, t, o))
    BY <2>1, <2>3
  <2>5. CASE i \in DOMAIN requests
    BY <1>2, <2>1, <2>2, <2>4, <2>5 DEF LiveAll, FifoInv
  <2>6. CASE i \notin DOMAIN requests
    <3>1. requests' = Append(requests, m) /\ requests'[i] = m /\ requests' # requests
      BY <1>2, <2>6
    <3>2. QED
      BY <2>1, <2>4, <3>1
  <2>7. QED
    BY <2>5, <2>6
<1>9. LiveInv'
  <2>1. SUFFICES ASSUME NEW t \in Tokens, fate'[t] = "valid"
                 PROVE  \E o \in Owners : \/ Asked(t, o)' \/ Queued(t, o)'
                                          \/ Delayed(t, o)' \/ Told(t, o)'
    BY DEF LiveInv
  <2>2. fate[t] = "valid" /\ (dues' = dues \/ \A o \in Owners : ~Told(t, o))
    BY <2>1
  <2>3. PICK o \in Owners : Asked(t, o) \/ Queued(t, o) \/ Delayed(t, o) \/ Told(t, o)
    BY <2>2 DEF LiveAll, LiveInv
  <2>4. QED
    BY <1>1, <1>4, <2>2, <2>3
<1>10. QED
  BY <1>6, <1>7, <1>8, <1>9 DEF LiveAll

\* The control thread sends a launch: it replaces the one its owner showed.
LEMMA NewLaunch ==
    ASSUME TypeInv, LiveAll, UNCHANGED launches, UNCHANGED dues,
           \A t \in Tokens : Forward(t),
           NEW req \in Request, Submitted(req), HasRoom, ~Born(req.token),
           fate[req.token] \in {"unused", "taken"}, Born(req.token)'
    PROVE  LiveAll'
<1> DEFINE m == [op |-> "schedule", req |-> req]
<1>1. req.token \in Tokens /\ req.owner \in Owners
  BY DEF Request, Tokens
<1>2. m \in Message /\ m.op = "schedule" /\ m.req = req
  BY DEF Message
<1>3. requests' = Append(requests, m) /\ ownerTok' = [ownerTok EXCEPT ![req.owner] = req.token]
  BY DEF Submitted, Send
<1>4. /\ fate'[req.token] = "valid"
      /\ \A t \in Tokens : t # req.token =>
            /\ fate'[t] = "valid" => fate[t] = "valid" /\ t # ownerTok[req.owner]
  BY <1>1, SubmittedFates
<1> HIDE DEF m
<1>0. PICK new : new = Len(requests) + 1
  OBVIOUS
<1>5. /\ Len(requests) \in Nat /\ DOMAIN requests = 1 .. Len(requests)
      /\ \A i \in DOMAIN requests : i < new
      /\ \A i \in DOMAIN requests' : i \in DOMAIN requests \/ i = new
      /\ \A i \in DOMAIN requests : i \in DOMAIN requests' /\ requests'[i] = requests[i]
      /\ new \in DOMAIN requests' /\ requests'[new] = m
  BY <1>2, <1>3, <1>0, SentRequests
<1>6. \A t \in Tokens, o \in Owners : /\ Queued(t, o)' <=> Queued(t, o)
                                      /\ Delayed(t, o)' <=> Delayed(t, o)
                                      /\ Held(t, o)' <=> Held(t, o)
                                      /\ Told(t, o)' <=> Told(t, o)
  BY DEF Queued, Delayed, Held, Told, launches
<1>7. \A i \in DOMAIN requests, t \in Tokens, o \in Owners :
         AskedAt(i, t, o)' <=> AskedAt(i, t, o)
  BY <1>5 DEF AskedAt
<1>8. \A t \in Tokens, o \in Owners :
         AskedAt(new, t, o)' <=> t = req.token /\ o = req.owner
  BY <1>2, <1>5 DEF AskedAt
<1>9. \A t \in Tokens, o \in Owners :
         Asked(t, o)' <=> Asked(t, o) \/ (t = req.token /\ o = req.owner)
  BY <1>5, <1>7, <1>8 DEF Asked
<1>10. \A t \in Tokens, o \in Owners :
          Known(t, o)' => Known(t, o) \/ (t = req.token /\ o = req.owner)
  BY <1>6, <1>9 DEF Known
<1>11. \A o \in Owners : ~Known(req.token, o)
  BY <1>1 DEF LiveAll, BornInv
<1>12. BornInv'
  BY <1>10 DEF LiveAll, BornInv, Forward
<1>13. OwnInv'
  <2>1. SUFFICES ASSUME NEW t \in Tokens, NEW o \in Owners, Known(t, o)', fate'[t] = "valid"
                 PROVE  ownerTok'[o] = t
    BY DEF OwnInv
  <2>2. ownerTok \in [Owners -> 0 .. MaxToken]
    BY DEF TypeInv, ControlTypes
  <2>3. CASE t = req.token /\ o = req.owner
    BY <1>1, <1>3, <2>2, <2>3
  <2>4. CASE Known(t, o)
    <3>1. t # req.token /\ fate[t] = "valid" /\ t # ownerTok[req.owner]
      BY <1>4, <1>11, <2>1, <2>4
    <3>2. ownerTok[o] = t
      BY <2>4, <3>1 DEF LiveAll, OwnInv
    <3>3. QED
      BY <1>1, <1>3, <2>2, <3>1, <3>2
  <2>5. QED
    BY <1>10, <2>1, <2>3, <2>4
<1>14. FifoInv'
  <2>1. SUFFICES ASSUME NEW i \in DOMAIN requests', NEW t \in Tokens, NEW o \in Owners,
                        \/ Held(t, o)'
                        \/ \E j \in DOMAIN requests' : j < i /\ AskedAt(j, t, o)',
                        Kills(requests'[i], t, o), fate'[t] = "valid"
                 PROVE  FALSE
    BY DEF FifoInv, Kills
  <2>2. \A j \in DOMAIN requests' : j < i => j \in DOMAIN requests
    BY <1>5, <1>0
  <2>3. Held(t, o) \/ \E j \in DOMAIN requests : j < i /\ AskedAt(j, t, o)
    BY <1>6, <1>7, <2>1, <2>2
  <2>4. Known(t, o)
    BY <2>3 DEF Known, Asked
  <2>5. t # req.token /\ fate[t] = "valid" /\ t # ownerTok[req.owner]
    BY <1>4, <1>11, <2>1, <2>4
  <2>6. CASE i \in DOMAIN requests
    BY <1>5, <2>1, <2>3, <2>5, <2>6 DEF LiveAll, FifoInv
  <2>7. CASE i = new
    <3>1. o = req.owner
      BY <1>2, <1>5, <2>1, <2>7 DEF Kills
    <3>2. ownerTok[o] = t
      BY <2>4, <2>5 DEF LiveAll, OwnInv
    <3>3. QED
      BY <2>5, <3>1, <3>2
  <2>8. QED
    BY <1>5, <2>6, <2>7
<1>15. LiveInv'
  <2>1. SUFFICES ASSUME NEW t \in Tokens, fate'[t] = "valid"
                 PROVE  \E o \in Owners : \/ Asked(t, o)' \/ Queued(t, o)'
                                          \/ Delayed(t, o)' \/ Told(t, o)'
    BY DEF LiveInv
  <2>2. CASE t = req.token
    BY <1>1, <1>9, <2>2
  <2>3. CASE t # req.token
    <3>1. PICK o \in Owners : Asked(t, o) \/ Queued(t, o) \/ Delayed(t, o) \/ Told(t, o)
      BY <1>4, <2>1, <2>3 DEF LiveAll, LiveInv
    <3>2. QED
      BY <1>6, <1>9, <3>1
  <2>4. QED
    BY <2>2, <2>3
<1>16. QED
  BY <1>12, <1>13, <1>14, <1>15 DEF LiveAll

\* Without anything sent.
LEMMA NothingSent ==
    ASSUME TypeInv, LiveAll, UNCHANGED launches, UNCHANGED <<requests, dues, ownerTok>>,
           \A t \in Tokens : Forward(t),
           \A t \in Tokens : fate'[t] = "valid" => fate[t] = "valid"
    PROVE  LiveAll'
<1> DEFINE m == [op |-> "cancelAll"]
<1>1. m \in Message /\ m.op # "schedule"
  BY DEF Message
<1>2. \A t \in Tokens, o \in Owners : Known(t, o) /\ fate'[t] = "valid" => ownerTok'[o] = t
  BY DEF LiveAll, OwnInv
<1> HIDE DEF m
<1>3. QED
  BY <1>1, <1>2, NoNewLaunch

LEMMA SubmittedLive ==
    ASSUME TypeInv, LiveAll, UNCHANGED launches, UNCHANGED dues,
           \A t \in Tokens : Forward(t),
           NEW req \in Request, Submitted(req), ~Born(req.token),
           fate[req.token] \in {"unused", "taken"}, HasRoom => Born(req.token)'
    PROVE  LiveAll'
<1>1. CASE HasRoom
  BY <1>1, NewLaunch
<1>2. CASE ~HasRoom
  <2>1. req.token \in Tokens /\ UNCHANGED <<requests, ownerTok>>
    BY <1>2 DEF Request, Tokens, Submitted
  <2>2. \A t \in Tokens : fate'[t] = "valid" => fate[t] = "valid"
    BY <1>2, <2>1, SubmittedFates
  <2>3. QED
    BY <2>1, <2>2, NothingSent
<1>3. QED
  BY <1>1, <1>2

LEMMA ControlLive ==
    ASSUME TypeInv, TokenInv, LiveAll, Control \/ DrainDues, UNCHANGED launches,
           \A t \in Tokens : Forward(t)
    PROVE  LiveAll'
<1>1. /\ ownerTok \in [Owners -> 0 .. MaxToken] /\ work \in Seq(Job)
      /\ fate \in [Tokens -> Fates]
  BY DEF TypeInv, ControlTypes, Tokens
<1>2. ASSUME NEW o \in Owners, NEW s \in Scenes, Click(o, s), UNCHANGED dues PROVE LiveAll'
  <2>1. /\ NextToken <= MaxToken /\ work' = <<>> /\ published \in Snapshot
    BY <1>2 DEF Click, TypeInv, ControlTypes
  <2>2. NextToken \in Tokens /\ fate[NextToken] = "unused"
    BY <2>1, NextTokenIsUnused DEF TokenInv
  <2> DEFINE click == [token |-> NextToken, owner |-> o, scene |-> s,
                       quantized |-> TRUE, snap |-> published.playing]
  <2>3. click \in Request /\ click.token = NextToken
    BY <2>1, <2>2 DEF Request, Tokens, Snapshot
  <2>4. Submitted(click)
    BY <1>2 DEF Click
  <2> HIDE DEF click
  <2>5. PICK req \in Request : req = click
    BY <2>3
  <2>6. Submitted(req) /\ fate[req.token] = "unused" /\ req.token \in Tokens
    BY <2>2, <2>3, <2>4, <2>5
  <2>7. ~Born(req.token)
    BY <2>6 DEF Born
  <2>8. HasRoom => Born(req.token)'
    <3>1. HasRoom => fate'[req.token] = "valid"
      BY <2>6, SubmittedFates
    <3>2. Range(work') = {}
      BY <2>1, RangeFew
    <3>3. QED
      BY <3>1, <3>2 DEF Born, Submitting
  <2>9. QED
    BY <1>2, <2>6, <2>7, <2>8, SubmittedLive
<1>3. ASSUME NEW o \in Owners, CancelOwner(o), UNCHANGED dues PROVE LiveAll'
  <2> DEFINE m == [op |-> "cancelOwner", owner |-> o]
  <2>1. m \in Message /\ m.op = "cancelOwner" /\ m.owner = o
    BY DEF Message
  <2>2. /\ requests' \in {requests, Append(requests, m)}
        /\ fate' = Withdrawn({ownerTok[o]}) /\ ownerTok' = [ownerTok EXCEPT ![o] = None]
    BY <1>3 DEF CancelOwner, Send
  <2> HIDE DEF m
  <2>3. \A t \in Tokens : fate'[t] = "valid" => fate[t] = "valid" /\ t # ownerTok[o]
    BY <2>2, WithdrawnTypes DEF TypeInv, ControlTypes, Tokens
  <2>4. \A t \in Tokens, p \in Owners : Known(t, p) /\ fate'[t] = "valid" =>
           ownerTok'[p] = t /\ ~Kills(m, t, p)
    <3>1. TAKE t \in Tokens, p \in Owners
    <3>2. HAVE Known(t, p) /\ fate'[t] = "valid"
    <3>3. ownerTok[p] = t /\ t # ownerTok[o]
      BY <2>3, <3>2 DEF LiveAll, OwnInv
    <3>4. p # o
      BY <3>3
    <3>5. QED
      BY <1>1, <2>1, <2>2, <3>3, <3>4 DEF Kills
  <2>5. QED
    BY <1>3, <2>1, <2>2, <2>3, <2>4, NoNewLaunch, ZenonT(30)
<1>4. ASSUME NEW s \in Scenes, LiveLaunch(s), UNCHANGED dues PROVE LiveAll'
  <2> DEFINE m == [op |-> "cancelAll"]
  <2>1. m \in Message /\ m.op # "schedule"
    BY DEF Message
  <2>2. requests' \in {requests, Append(requests, m)} /\ NextToken <= MaxToken
        /\ fate' = [Withdrawn(1 .. MaxToken) EXCEPT ![NextToken] = "taken"]
    BY <1>4 DEF LiveLaunch, Send
  <2> HIDE DEF m
  <2>3. \A t \in Tokens : fate'[t] # "valid"
    <3>1. NextToken \in Tokens
      BY <2>2, NextTokenIsUnused DEF TokenInv
    <3>2. /\ Withdrawn(1 .. MaxToken) \in [Tokens -> Fates]
          /\ \A t \in Tokens : Withdrawn(1 .. MaxToken)[t] # "valid"
      BY WithdrawnTypes DEF TypeInv, ControlTypes, Tokens
    <3>3. QED
      BY <2>2, <3>1, <3>2
  <2>4. QED
    BY <1>4, <2>1, <2>2, <2>3, NoNewLaunch
<1>5. ASSUME Submit, UNCHANGED dues PROVE LiveAll'
  <2>1. PICK req \in Request : req = Head(work).req
    BY <1>5, SubmitMeans
  <2>2. /\ req.token \in Tokens /\ Submitted(req) /\ fate[req.token] = "taken"
        /\ Submitting(req.token)
        /\ HasRoom => Range(work') = {}
    BY <1>5, <2>1, SubmitMeans
  <2>3. ~Born(req.token)
    BY <2>2 DEF Born
  <2>4. HasRoom => Born(req.token)'
    <3>1. HasRoom => fate'[req.token] = "valid"
      BY <2>2, SubmittedFates
    <3>2. QED
      BY <2>2, <3>1 DEF Born, Submitting
  <2>5. QED
    BY <1>5, <2>2, <2>3, <2>4, SubmittedLive
<1>6. ASSUME Apply \/ ApplyFails, UNCHANGED dues PROVE LiveAll'
  <2>1. /\ UNCHANGED <<ownerTok, requests>>
        /\ \A t \in Tokens : fate'[t] \in Closed \/ fate'[t] = fate[t]
    BY <1>6, ApplyMeans
  <2>2. \A t \in Tokens : fate'[t] = "valid" => fate[t] = "valid"
    BY <2>1 DEF Closed
  <2>3. QED
    BY <1>6, <2>1, <2>2, NothingSent
<1>7. ASSUME Acknowledge, UNCHANGED dues PROVE LiveAll'
  <2> DEFINE m == [op |-> IF Head(work).op = "ack" THEN "mirrored" ELSE "cancel",
                   token |-> Head(work).token]
  <2>1. /\ work # <<>> /\ Head(work).op \in {"ack", "forget"}
        /\ requests' \in {requests, Append(requests, m)} /\ UNCHANGED <<fate, ownerTok>>
    BY <1>7 DEF Acknowledge, Send
  <2>2. Head(work) \in Job /\ Head(work) \in Range(work)
    BY <1>1, <2>1, RangeTail
  <2>3. m \in Message /\ m.op \in {"mirrored", "cancel"} /\ m.token \in Tokens
        /\ m.token = Head(work).token
    BY <2>1, <2>2, JobFields DEF Message, Tokens
  <2> HIDE DEF m
  <2>4. fate[m.token] # "valid"
    BY <2>1, <2>2, <2>3 DEF TokenInv, ClosedInv, Handling, JobOf, Closed
  <2>5. PICK sent \in Message : sent = m
    BY <2>3
  <2>6. \A t \in Tokens, o \in Owners : Known(t, o) /\ fate'[t] = "valid" =>
           ownerTok'[o] = t /\ ~Kills(sent, t, o)
    BY <2>1, <2>3, <2>4, <2>5 DEF LiveAll, OwnInv, Kills
  <2>7. sent.op # "schedule" /\ requests' \in {requests, Append(requests, sent)}
    BY <2>1, <2>3, <2>5
  <2>8. QED
    BY <1>7, <2>1, <2>6, <2>7, NoNewLaunch
<1>8. ASSUME TogglePlay, UNCHANGED dues PROVE LiveAll'
  <2>1. UNCHANGED <<fate, ownerTok, requests>>
    BY <1>8 DEF TogglePlay
  <2>2. QED
    BY <1>8, <2>1, NothingSent
<1>9. CASE DrainDues
  <2> DEFINE m == [op |-> "cancelAll"]
  <2>1. m \in Message /\ m.op # "schedule"
    BY DEF Message
  <2> HIDE DEF m
  <2>2. /\ dues' = <<>> /\ requests' = requests
        /\ \A t \in Tokens :
              fate'[t] = IF fate[t] = "valid" /\ \E d \in Range(dues) : d.token = t
                         THEN "taken" ELSE fate[t]
        /\ \A o \in Owners : \/ ownerTok'[o] = ownerTok[o]
                             \/ /\ ownerTok[o] \in Tokens /\ fate[ownerTok[o]] = "valid"
                                /\ \E d \in Range(dues) : d.token = ownerTok[o]
    BY <1>9, DrainMeans
  <2>3. \A t \in Tokens : fate'[t] = "valid" =>
           fate[t] = "valid" /\ \A d \in Range(dues) : d.token # t
    BY <2>2
  <2>4. \A t \in Tokens : fate'[t] = "valid" =>
           fate[t] = "valid" /\ \A o \in Owners : ~Told(t, o)
    BY <2>3 DEF Told
  <2>5. \A t \in Tokens, o \in Owners : Known(t, o) /\ fate'[t] = "valid" => ownerTok'[o] = t
    BY <2>2, <2>3 DEF LiveAll, OwnInv
  <2>6. QED
    BY <2>1, <2>2, <2>4, <2>5, NoNewLaunch
<1>10. QED
  BY <1>2, <1>3, <1>4, <1>5, <1>6, <1>7, <1>8, <1>9 DEF Control

-----------------------------------------------------------------------------
(* The scheduler moves launches along                                      *)

\* Receiving a request moves it to the waiting launches, and drops what it kills.
LEMMA ReceiveMoves ==
    ASSUME TypeInv, Receive
    PROVE  LET m == Head(requests) IN
           /\ 1 \in DOMAIN requests /\ requests[1] = m /\ dues' = dues
           /\ Len(requests) \in Nat /\ DOMAIN requests = 1 .. Len(requests)
           /\ DOMAIN requests' = 1 .. Len(requests) - 1
           /\ \A i \in DOMAIN requests' : i + 1 \in DOMAIN requests /\ requests'[i] = requests[i + 1]
           /\ \A i \in DOMAIN requests : i = 1 \/ \E j \in DOMAIN requests' : i = j + 1
           /\ \A t \in Tokens, o \in Owners :
                 /\ Queued(t, o)' => Queued(t, o) \/ AskedAt(1, t, o)
                 /\ Delayed(t, o)' => Delayed(t, o)
                 /\ owned'[o] = t => owned[o] = t \/ AskedAt(1, t, o)
                 /\ Queued(t, o) => \/ Queued(t, o)' \/ Kills(m, t, o)
                                    \/ \E p \in Owners : owned[p] = t /\ Kills(m, t, p)
                 /\ Delayed(t, o) => Delayed(t, o)' \/ Kills(m, t, o)
                 /\ AskedAt(1, t, o) => Queued(t, o)'
<1> DEFINE m == Head(requests)
<1>1. /\ requests \in Seq(Message) /\ requests # <<>> /\ requests' = Tail(requests)
      /\ dues' = dues /\ backlog \in Seq(Due) /\ owned \in [Owners -> 0 .. MaxToken]
  BY DEF TypeInv, ChannelTypes, LaunchTypes, Receive
<1>2. /\ 1 \in DOMAIN requests /\ requests[1] = m /\ m \in Message
      /\ Len(requests) \in Nat /\ DOMAIN requests = 1 .. Len(requests)
      /\ DOMAIN requests' = 1 .. Len(requests) - 1
      /\ \A i \in DOMAIN requests' : i + 1 \in DOMAIN requests /\ requests'[i] = requests[i + 1]
  <2>1. Len(requests) \in Nat \ {0} /\ DOMAIN requests = 1 .. Len(requests)
    BY <1>1
  <2>2. /\ m \in Message /\ m = requests[1] /\ DOMAIN Tail(requests) = 1 .. Len(requests) - 1
        /\ \A i \in 1 .. Len(requests) - 1 : Tail(requests)[i] = requests[i + 1]
    BY <1>1, RangeTail
  <2>3. 1 \in DOMAIN requests
    BY <2>1
  <2>4. \A i \in 1 .. Len(requests) - 1 : i + 1 \in DOMAIN requests
    BY <2>1
  <2>5. QED
    BY <1>1, <2>1, <2>2, <2>3, <2>4
<1>3. \A i \in DOMAIN requests : i = 1 \/ \E j \in DOMAIN requests' : i = j + 1
  <2>1. TAKE i \in DOMAIN requests
  <2>2. CASE i = 1
    BY <2>2
  <2>3. CASE i # 1
    <3>1. i - 1 \in DOMAIN requests' /\ i = (i - 1) + 1
      BY <1>2, <2>3
    <3>2. QED
      BY <3>1
  <2>4. QED
    BY <2>2, <2>3
<1> HIDE DEF m
<1>4. \A t \in Tokens : t # None
  BY DEF Tokens, None
<1> DEFINE Moves == \A t \in Tokens, o \in Owners :
                 /\ Queued(t, o)' => Queued(t, o) \/ AskedAt(1, t, o)
                 /\ Delayed(t, o)' => Delayed(t, o)
                 /\ owned'[o] = t => owned[o] = t \/ AskedAt(1, t, o)
                 /\ Queued(t, o) => \/ Queued(t, o)' \/ Kills(m, t, o)
                                    \/ \E p \in Owners : owned[p] = t /\ Kills(m, t, p)
                 /\ Delayed(t, o) => Delayed(t, o)' \/ Kills(m, t, o)
                 /\ AskedAt(1, t, o) => Queued(t, o)'
<1>5. \A T : Range(Dropped(backlog, T)) = {d \in Range(backlog) : d.token \notin T}
  BY <1>1, DroppedTypes
<1>6. ASSUME m.op = "schedule", ReceiveSchedule(m.req) PROVE Moves
  <2> DEFINE req == m.req
             replaced == {owned[req.owner]} \ {None}
             own == base.playing /\ req.snap
             launch == [token |-> req.token, owner |-> req.owner, scene |-> req.scene,
                        deadline |-> Deadline(IF own THEN frontier ELSE rendered,
                                              base.playing, req.quantized)]
  <2>1. /\ owned' = [owned EXCEPT ![req.owner] = req.token]
        /\ pending' = Without(pending, replaced) \cup (IF own THEN {} ELSE {launch})
        /\ boundary' = Without(boundary, replaced) \cup (IF own THEN {launch} ELSE {})
        /\ UNCHANGED backlog
    BY <1>6 DEF ReceiveSchedule
  <2>2. launch.token = req.token /\ launch.owner = req.owner
    OBVIOUS
  <2>3. req.owner \in Owners
    BY <1>2, <1>6, MessageFields DEF Request
  <2>4. \A t \in Tokens, o \in Owners : AskedAt(1, t, o) <=> req.token = t /\ req.owner = o
    BY <1>2, <1>6 DEF AskedAt
  <2>5. \A t \in Tokens, o \in Owners : Kills(m, t, o) <=> req.owner = o
    BY <1>6 DEF Kills
  <2> HIDE DEF launch, own, req
  <2>6. \A l : l \in pending' \cup boundary' <=>
           (l \in pending \cup boundary /\ l.token \notin replaced) \/ l = launch
    BY <2>1 DEF Without
  <2>7. \A t \in Tokens, o \in Owners :
           /\ Queued(t, o)' => Queued(t, o) \/ AskedAt(1, t, o)
           /\ AskedAt(1, t, o) => Queued(t, o)'
           /\ Delayed(t, o)' <=> Delayed(t, o)
    BY <2>1, <2>2, <2>4, <2>6 DEF Queued, Delayed
  <2>8. \A t \in Tokens, o \in Owners : owned'[o] = t => owned[o] = t \/ AskedAt(1, t, o)
    BY <1>1, <2>1, <2>3, <2>4
  <2>9. \A t \in Tokens, o \in Owners : Queued(t, o) => \/ Queued(t, o)'
                                                        \/ owned[req.owner] = t
    BY <2>6 DEF Queued
  <2>10. QED
    BY <2>3, <2>5, <2>7, <2>8, <2>9
<1>7. ASSUME m.op = "cancel", ReceiveCancelToken(m.token) PROVE Moves
  <2>1. /\ pending' = Without(pending, {m.token}) /\ boundary' = Without(boundary, {m.token})
        /\ Range(backlog') = {d \in Range(backlog) : d.token # m.token}
        /\ \A o \in Owners : owned'[o] \in {owned[o], None}
    BY <1>5, <1>7 DEF ReceiveCancelToken
  <2>2. \A t \in Tokens, o \in Owners : /\ Kills(m, t, o) <=> t = m.token
                                        /\ ~AskedAt(1, t, o)
    BY <1>2, <1>7 DEF Kills, AskedAt
  <2>3. QED
    BY <1>4, <2>1, <2>2 DEF Queued, Delayed, Without
<1>8. ASSUME m.op = "cancelOwner", ReceiveCancelOwner(m.owner) PROVE Moves
  <2> DEFINE token == {owned[m.owner]} \ {None}
             others == {d \in Range(backlog) : d.owner # m.owner}
  <2>1. /\ pending' = Without(pending, token)
        /\ boundary' = {l \in boundary : l.token \notin token /\ l.owner # m.owner}
        /\ backlog' = Kept(backlog, others)
        /\ \A o \in Owners : owned'[o] \in {owned[o], None}
    BY <1>1, <1>8 DEF ReceiveCancelOwner
  <2>2. \A t \in Tokens, o \in Owners : /\ Kills(m, t, o) <=> o = m.owner
                                        /\ ~AskedAt(1, t, o)
    BY <1>2, <1>8 DEF Kills, AskedAt
  <2>3. m.owner \in Owners
    BY <1>2, <1>8, MessageFields
  <2>4. Range(backlog') = {d \in Range(backlog) : d.owner # m.owner}
    <3>1. Range(Kept(backlog, others)) = Range(backlog) \cap others
      <4> HIDE DEF others
      <4>1. QED
        BY <1>1, KeptProperties
    <3>2. QED
      BY <2>1, <3>1
  <2>5. \A t \in Tokens, o \in Owners :
           /\ Queued(t, o)' => Queued(t, o)
           /\ Queued(t, o) => Queued(t, o)' \/ o = m.owner \/ owned[m.owner] = t
    BY <2>1 DEF Queued, Without
  <2>6. \A t \in Tokens, o \in Owners :
           /\ Delayed(t, o)' => Delayed(t, o)
           /\ Delayed(t, o) => Delayed(t, o)' \/ o = m.owner
    BY <2>4 DEF Delayed
  <2>7. QED
    BY <1>4, <2>1, <2>2, <2>3, <2>5, <2>6
<1>9. ASSUME m.op = "cancelAll", ReceiveCancelAll PROVE Moves
  <2>1. /\ pending' = {} /\ boundary' = {} /\ Range(backlog') = {}
        /\ \A o \in Owners : owned'[o] = None
    BY <1>9, RangeFew DEF ReceiveCancelAll
  <2>2. \A t \in Tokens, o \in Owners : Kills(m, t, o) /\ ~AskedAt(1, t, o)
    BY <1>2, <1>9 DEF Kills, AskedAt
  <2>3. QED
    BY <1>4, <2>1, <2>2 DEF Queued, Delayed
<1>10. ASSUME m.op = "mirrored", ReceiveMirrored(m.token) PROVE Moves
  <2>1. UNCHANGED <<pending, boundary, owned, backlog>>
    BY <1>10 DEF ReceiveMirrored
  <2>2. \A t \in Tokens, o \in Owners : ~AskedAt(1, t, o)
    BY <1>2, <1>10 DEF AskedAt
  <2>3. QED
    BY <2>1, <2>2 DEF Queued, Delayed
<1>11. Moves
  <2> HIDE DEF Moves
  <2>1. QED
    BY <1>6, <1>7, <1>8, <1>9, <1>10 DEF Receive, m
<1>12. QED
  BY <1>1, <1>2, <1>3, <1>11 DEF m

LEMMA ReceiveLive ==
    ASSUME TypeInv, LiveAll, Receive, UNCHANGED control PROVE LiveAll'
<1>1. UNCHANGED <<fate, ownerTok, work>>
  BY DEF control
<1>2. PICK m \in Message : m = Head(requests)
  BY RangeTail DEF TypeInv, ChannelTypes, Receive
<1>3. /\ 1 \in DOMAIN requests /\ requests[1] = m /\ dues' = dues
      /\ Len(requests) \in Nat /\ DOMAIN requests = 1 .. Len(requests)
      /\ DOMAIN requests' = 1 .. Len(requests) - 1
      /\ \A i \in DOMAIN requests' : i + 1 \in DOMAIN requests /\ requests'[i] = requests[i + 1]
      /\ \A i \in DOMAIN requests : i = 1 \/ \E j \in DOMAIN requests' : i = j + 1
  BY <1>2, ReceiveMoves
<1>4. \A t \in Tokens, o \in Owners :
         /\ Queued(t, o)' => Queued(t, o) \/ AskedAt(1, t, o)
         /\ Delayed(t, o)' => Delayed(t, o)
         /\ owned'[o] = t => owned[o] = t \/ AskedAt(1, t, o)
         /\ Queued(t, o) => \/ Queued(t, o)' \/ Kills(m, t, o)
                            \/ \E p \in Owners : owned[p] = t /\ Kills(m, t, p)
         /\ Delayed(t, o) => Delayed(t, o)' \/ Kills(m, t, o)
         /\ AskedAt(1, t, o) => Queued(t, o)'
  BY <1>2, ReceiveMoves
<1>5. \A i \in DOMAIN requests', t \in Tokens, o \in Owners :
         AskedAt(i, t, o)' <=> AskedAt(i + 1, t, o)
  BY <1>3 DEF AskedAt
<1>6. \A t \in Tokens, o \in Owners :
         /\ Asked(t, o)' => Asked(t, o)
         /\ Asked(t, o) => Asked(t, o)' \/ AskedAt(1, t, o)
         /\ Told(t, o)' <=> Told(t, o)
  BY <1>3, <1>5 DEF Asked, Told
<1>7. \A t \in Tokens, o \in Owners : Held(t, o)' => Held(t, o) \/ AskedAt(1, t, o)
  BY <1>4 DEF Held
<1>8. \A t \in Tokens, o \in Owners : Known(t, o)' => Known(t, o)
  BY <1>3, <1>6, <1>7 DEF Known, Asked
<1>9. \A t \in Tokens : Born(t)' <=> Born(t)
  BY <1>1 DEF Born, Submitting
<1>10. BornInv' /\ OwnInv'
  BY <1>1, <1>8, <1>9 DEF LiveAll, BornInv, OwnInv
<1>11. FifoInv'
  <2>1. SUFFICES ASSUME NEW i \in DOMAIN requests', NEW t \in Tokens, NEW o \in Owners,
                        \/ Held(t, o)'
                        \/ \E j \in DOMAIN requests' : j < i /\ AskedAt(j, t, o)',
                        Kills(requests'[i], t, o)
                 PROVE  fate[t] # "valid"
    BY <1>1 DEF FifoInv, Kills
  <2>2. i + 1 \in DOMAIN requests /\ requests[i + 1] = requests'[i] /\ i \in Nat /\ i > 0
    BY <1>3
  <2>3. Held(t, o) \/ \E j \in DOMAIN requests : j < i + 1 /\ AskedAt(j, t, o)
    <3>1. CASE Held(t, o)'
      <4>1. 1 < i + 1
        BY <2>2
      <4>2. QED
        BY <1>3, <1>7, <3>1, <4>1
    <3>2. CASE \E j \in DOMAIN requests' : j < i /\ AskedAt(j, t, o)'
      <4>1. PICK j \in DOMAIN requests' : j < i /\ AskedAt(j, t, o)'
        BY <3>2
      <4>2. j + 1 < i + 1
        BY <1>3, <2>2, <4>1
      <4>3. QED
        BY <1>3, <1>5, <4>1, <4>2
    <3>3. QED
      BY <2>1, <3>1, <3>2
  <2>4. QED
    BY <2>1, <2>2, <2>3 DEF LiveAll, FifoInv
<1>12. LiveInv'
  <2>1. SUFFICES ASSUME NEW t \in Tokens, fate[t] = "valid"
                 PROVE  \E o \in Owners : \/ Asked(t, o)' \/ Queued(t, o)'
                                          \/ Delayed(t, o)' \/ Told(t, o)'
    BY <1>1 DEF LiveInv
  <2>2. PICK o \in Owners : Asked(t, o) \/ Queued(t, o) \/ Delayed(t, o) \/ Told(t, o)
    BY <2>1 DEF LiveAll, LiveInv
  <2>3. \A p \in Owners : Held(t, p) => ~Kills(m, t, p)
    BY <1>3, <2>1 DEF LiveAll, FifoInv
  <2>4. QED
    BY <1>4, <1>6, <2>2, <2>3 DEF Held
<1>13. QED
  BY <1>10, <1>11, <1>12 DEF LiveAll

\* The dues of some launches are those of the launches.
LEMMA DuesRange ==
    ASSUME NEW now \in Seq(Launch), NEW applied \in BOOLEAN
    PROVE  /\ \A d \in Range(DuesOf(now, applied)) :
                 d.applied = applied /\ \E l \in Range(now) : d.token = l.token /\ d.owner = l.owner
           /\ \A l \in Range(now) : \E d \in Range(DuesOf(now, applied)) :
                 d.token = l.token /\ d.owner = l.owner
BY DuesOfProperties DEF Range

\* A report loses nothing of what the scheduler knows.
LEMMA ReportRanges ==
    ASSUME TypeInv, Report
    PROVE  LET fresh == Range(DuesOf(InTokenOrder(Ready), FALSE))
           IN  /\ Range(backlog') \cup Range(dues') = Range(backlog) \cup Range(dues) \cup fresh
               /\ Range(backlog') \subseteq Range(backlog) \cup fresh
               /\ \A d \in fresh : /\ ~d.applied
                                   /\ \E l \in Ready : d.token = l.token /\ d.owner = l.owner
               /\ \A l \in Ready : \E d \in fresh : d.token = l.token /\ d.owner = l.owner
<1> DEFINE order == InTokenOrder(Ready)
           fresh == Range(DuesOf(order, FALSE))
           head == SubSeq(Out, 1, Sent)
           rest == SubSeq(Out, Sent + 1, Len(Out))
<1>1. order \in Seq(Launch) /\ Range(order) = Ready
  BY ReadyProperties
<1>2. Out \in Seq(Due) /\ Sent \in 0 .. Len(Out) /\ Range(Out) = Range(backlog) \cup fresh
  BY OutProperties
<1>3. dues \in Seq(Due)
  BY DEF TypeInv, ChannelTypes
<1>4. dues' = dues \o head /\ backlog' = rest
  BY ReportMeans
<1>5. Range(Out) = Range(head) \cup Range(rest)
  BY <1>2, CutProperties
<1>6. head \in Seq(Due)
  <2>1. 1 \in Nat \ {0}
    OBVIOUS
  <2>2. QED
    BY <1>2, <2>1, PartProperties
<1>7. Range(dues') = Range(dues) \cup Range(head)
  BY <1>3, <1>4, <1>6, RangeConcat, ZenonT(30)
<1> HIDE DEF order
<1>8. /\ \A d \in fresh : /\ ~d.applied
                          /\ \E l \in Ready : d.token = l.token /\ d.owner = l.owner
      /\ \A l \in Ready : \E d \in fresh : d.token = l.token /\ d.owner = l.owner
  <2>1. /\ \A d \in fresh :
              d.applied = FALSE /\ \E l \in Range(order) : d.token = l.token /\ d.owner = l.owner
        /\ \A l \in Range(order) : \E d \in fresh : d.token = l.token /\ d.owner = l.owner
    BY <1>1, DuesRange
  <2> HIDE DEF fresh
  <2>2. QED
    BY <1>1, <2>1
<1> HIDE DEF fresh, head, rest
<1>9. /\ Range(backlog') \cup Range(dues') = Range(backlog) \cup Range(dues) \cup fresh
      /\ Range(backlog') \subseteq Range(backlog) \cup fresh
  BY <1>2, <1>4, <1>5, <1>7
<1>10. QED
  BY <1>8, <1>9 DEF fresh, order

LEMMA ReportMoves ==
    ASSUME TypeInv, Report
    PROVE  \A t \in Tokens, o \in Owners :
              /\ Queued(t, o)' => Queued(t, o)
              /\ Delayed(t, o)' => Queued(t, o) \/ Delayed(t, o)
              /\ owned'[o] = t => owned[o] = t
              /\ Told(t, o)' => Queued(t, o) \/ Delayed(t, o) \/ Told(t, o)
              /\ Queued(t, o) \/ Delayed(t, o) \/ Told(t, o)
                    => Queued(t, o)' \/ Delayed(t, o)' \/ Told(t, o)'
<1>1. /\ pending' = (pending \cup Degraded) \ Ready
      /\ boundary' = IF base.playing THEN boundary ELSE {}
      /\ owned' = [o \in Owners |-> IF \E l \in Ready : l.token = owned[o]
                                    THEN None ELSE owned[o]]
  BY ReportMeans
<1>2. /\ \A l \in Degraded : \E b \in boundary : l.token = b.token /\ l.owner = b.owner
      /\ ~base.playing => \A b \in boundary :
            \E l \in Degraded : l.token = b.token /\ l.owner = b.owner
  BY DegradedProperties
<1>3. Ready \subseteq pending \cup Degraded
  BY DEF Ready
<1> DEFINE Moving(t, o) == \E l \in Ready : l.token = t /\ l.owner = o
<1>4. \A t \in Tokens, o \in Owners : Moving(t, o) => Queued(t, o)
  BY <1>2, <1>3 DEF Queued
<1>5. \A t \in Tokens, o \in Owners : Queued(t, o)' => Queued(t, o)
  BY <1>1, <1>2 DEF Queued
<1>6. \A t \in Tokens, o \in Owners : Queued(t, o) => Queued(t, o)' \/ Moving(t, o)
  <2>1. SUFFICES ASSUME NEW t \in Tokens, NEW o \in Owners, Queued(t, o)
                 PROVE  Queued(t, o)' \/ Moving(t, o)
    OBVIOUS
  <2>2. \/ \E l \in pending \cup Degraded : l.token = t /\ l.owner = o
        \/ base.playing /\ \E l \in boundary : l.token = t /\ l.owner = o
    BY <1>2, <2>1 DEF Queued
  <2>3. QED
    BY <1>1, <2>2 DEF Queued
<1> DEFINE fresh == Range(DuesOf(InTokenOrder(Ready), FALSE))
<1>7. /\ Range(backlog') \cup Range(dues') = Range(backlog) \cup Range(dues) \cup fresh
      /\ Range(backlog') \subseteq Range(backlog) \cup fresh
      /\ \A d \in fresh : \E l \in Ready : d.token = l.token /\ d.owner = l.owner
      /\ \A l \in Ready : \E d \in fresh : d.token = l.token /\ d.owner = l.owner
  BY ReportRanges
<1> HIDE DEF fresh
<1>8. \A t \in Tokens, o \in Owners :
         /\ Delayed(t, o)' => Moving(t, o) \/ Delayed(t, o)
         /\ Told(t, o)' => Moving(t, o) \/ Delayed(t, o) \/ Told(t, o)
         /\ Moving(t, o) \/ Delayed(t, o) \/ Told(t, o) => Delayed(t, o)' \/ Told(t, o)'
  BY <1>7 DEF Delayed, Told
<1>9. \A t \in Tokens, o \in Owners : owned'[o] = t => owned[o] = t
  BY <1>1 DEF Tokens, None
<1> HIDE DEF Moving
<1>10. QED
  BY <1>4, <1>5, <1>6, <1>8, <1>9

LEMMA ChunkMoves ==
    ASSUME TypeInv, ScheduleChunk
    PROVE  /\ UNCHANGED <<requests, dues>>
           /\ \A t \in Tokens, o \in Owners :
                 /\ Queued(t, o)' => Queued(t, o)
                 /\ Delayed(t, o)' => Queued(t, o) \/ Delayed(t, o)
                 /\ owned'[o] = t => owned[o] = t
                 /\ Queued(t, o) \/ Delayed(t, o) => Queued(t, o)' \/ Delayed(t, o)'
<1>1. /\ boundary' = boundary \ Range(Arrived) /\ pending' = pending
      /\ owned' = [o \in Owners |-> IF \E l \in Range(Arrived) : l.token = owned[o]
                                    THEN None ELSE owned[o]]
      /\ backlog' = backlog \o DuesOf(Arrived, TRUE) /\ UNCHANGED <<requests, dues>>
  BY ChunkMeans DEF Waiting
<1>2. Arrived \in Seq(Launch) /\ Range(Arrived) \subseteq boundary
  BY ArrivedProperties
<1> DEFINE fresh == Range(DuesOf(Arrived, TRUE))
<1>3. Range(backlog') = Range(backlog) \cup fresh
  <2>1. backlog \in Seq(Due) /\ DuesOf(Arrived, TRUE) \in Seq(Due)
    BY <1>2, DuesOfProperties DEF TypeInv, LaunchTypes
  <2>2. QED
    BY <1>1, <2>1, RangeConcat, ZenonT(30)
<1>4. /\ \A d \in fresh : \E l \in Range(Arrived) : d.token = l.token /\ d.owner = l.owner
      /\ \A l \in Range(Arrived) : \E d \in fresh : d.token = l.token /\ d.owner = l.owner
  <2>1. /\ \A d \in fresh : d.applied = TRUE /\ \E l \in Range(Arrived) :
                               d.token = l.token /\ d.owner = l.owner
        /\ \A l \in Range(Arrived) : \E d \in fresh : d.token = l.token /\ d.owner = l.owner
    BY <1>2, DuesRange
  <2> HIDE DEF fresh
  <2>2. QED
    BY <2>1
<1> HIDE DEF fresh
<1>5. \A t \in Tokens, o \in Owners : Queued(t, o)' => Queued(t, o)
  BY <1>1 DEF Queued
<1>6. \A t \in Tokens, o \in Owners : Delayed(t, o)' => Queued(t, o) \/ Delayed(t, o)
  BY <1>2, <1>3, <1>4 DEF Queued, Delayed
<1>7. \A t \in Tokens, o \in Owners :
         Queued(t, o) \/ Delayed(t, o) => Queued(t, o)' \/ Delayed(t, o)'
  <2>1. SUFFICES ASSUME NEW t \in Tokens, NEW o \in Owners, Queued(t, o) \/ Delayed(t, o)
                 PROVE  Queued(t, o)' \/ Delayed(t, o)'
    OBVIOUS
  <2>2. CASE Delayed(t, o)
    BY <1>3, <2>2 DEF Delayed
  <2>3. CASE Queued(t, o)
    <3>1. PICK l \in pending \cup boundary : l.token = t /\ l.owner = o
      BY <2>3 DEF Queued
    <3>2. CASE l \in Range(Arrived)
      BY <1>3, <1>4, <3>1, <3>2 DEF Delayed
    <3>3. CASE l \notin Range(Arrived)
      BY <1>1, <3>1, <3>3 DEF Queued
    <3>4. QED
      BY <3>2, <3>3
  <2>4. QED
    BY <2>1, <2>2, <2>3
<1>8. \A t \in Tokens, o \in Owners : owned'[o] = t => owned[o] = t
  BY <1>1 DEF Tokens, None
<1>9. QED
  BY <1>1, <1>5, <1>6, <1>7, <1>8

LEMMA LiveStep ==
    ASSUME TypeInv, TokenInv, LiveAll, [Next]_vars PROVE LiveAll'
<1>1. CASE UNCHANGED <<fate, ownerTok, work, requests, dues, launches>>
  <2>1. UNCHANGED <<requests, fate, ownerTok, work>>
    BY <1>1
  <2>2. UNCHANGED <<dues, pending, boundary, owned, backlog>>
    BY <1>1 DEF launches
  <2>3. QED
    BY <2>1, <2>2, MovesAlong DEF Queued, Delayed, Told
<1>2. CASE (Control \/ DrainDues) /\ UNCHANGED <<stage, base, last, clock, launches, histories>>
  <2>1. UNCHANGED launches
    BY <1>2
  <2>2. QED
    BY <1>2, <2>1, ControlLive, TokenStep
<1>3. CASE Receive /\ UNCHANGED control
  BY <1>3, ReceiveLive
<1>4. CASE (SettleStopped \/ SettlePlaying) /\ UNCHANGED control
  <2>1. Report /\ UNCHANGED <<requests, fate, ownerTok, work>>
    BY <1>4 DEF SettleStopped, SettlePlaying, control
  <2>2. QED
    BY <2>1, ReportMoves, MovesAlong
<1>5. CASE ScheduleChunk /\ UNCHANGED control
  <2>1. UNCHANGED <<requests, fate, ownerTok, work>>
    BY <1>5, ChunkMoves DEF control
  <2>2. \A t \in Tokens, o \in Owners : Told(t, o)' <=> Told(t, o)
    BY <1>5, ChunkMoves DEF Told
  <2>3. QED
    BY <1>5, <2>1, <2>2, ChunkMoves, MovesAlong
<1>6. CASE (Load \/ PassDone) /\ UNCHANGED control
  BY <1>1, <1>6 DEF Load, PassDone, control
<1>7. CASE Render \/ UNCHANGED vars
  BY <1>1, <1>7 DEF Render, vars, control
<1>8. QED
  BY <1>2, <1>3, <1>4, <1>5, <1>6, <1>7 DEF Next, Scheduler

\* No launch is lost.  While the control thread keeps a launch's token valid --
\* and shows the launch as queued -- it is in the request channel, waiting at
\* the scheduler, or reported: whatever is cancelled, replaced, dropped by a
\* full channel, stopped or retried meanwhile.
THEOREM NoLaunchIsLost == Spec => []ValidIsLive
<1>1. Init => TypeInv /\ TokenInv /\ LiveAll
  BY InitTypes, InitTokens, InitLive
<1>2. TypeInv /\ TokenInv /\ LiveAll /\ [Next]_vars => TypeInv' /\ TokenInv' /\ LiveAll'
  BY TypeStep, TokenStep, LiveStep
<1>3. TypeInv /\ LiveAll => ValidIsLive
  BY LiveMeans DEF LiveAll
<1>4. QED
  BY <1>1, <1>2, <1>3, PTL DEF Spec

-----------------------------------------------------------------------------
(* Who still owes the release of an installed launch                       *)

\* A launch is early while the scheduler has not started it, late from then on.
At(i, t) == requests[i].op = "schedule" /\ requests[i].req.token = t
AskedFor(t) == \E i \in DOMAIN requests : At(i, t)
WaitingFor(t) == \E l \in pending \cup boundary : l.token = t
Early(t) == AskedFor(t) \/ WaitingFor(t)
ToldOf(t) == \E d \in Range(dues) : d.token = t
Reported(t) == \E d \in Range(backlog) \cup Range(dues) : d.token = t
InForce(t) == \E p \in Range(installed) : p.token = t
Late(t) == Reported(t) \/ Handling(t) \/ InForce(t)
Released(t) == \E m \in Range(requests) : \/ m.op \in {"mirrored", "cancel"} /\ m.token = t
                                          \/ m.op = "cancelAll"

\* No token is at two stages, or twice at one; a launch the scheduler made
\* audible is reported as such, and somebody is going to release it.
EarlyInv == \A t \in Tokens : Early(t) => ~Late(t) /\ fate[t] \in {"valid", "withdrawn"}
InForceBorn == \A t \in Tokens : InForce(t) => Born(t)
OnceInv == /\ \A i, j \in DOMAIN requests, t \in Tokens : At(i, t) /\ At(j, t) => i = j
           /\ \A t \in Tokens : AskedFor(t) => ~WaitingFor(t)
           /\ \A l, m \in pending \cup boundary : l.token = m.token => l = m
           /\ pending \cap boundary = {}
AllApplied(t) == \A j \in Range(work) : j.op = "apply" /\ j.due.token = t => j.due.applied
AppliedInv == \A t \in Tokens : InForce(t) =>
                  /\ \A d \in Range(backlog) \cup Range(dues) : d.token = t => d.applied
                  /\ AllApplied(t)
OwedInv == \A t \in Tokens : InForce(t) /\ fate[t] # "withdrawn" =>
               (fate[t] = "valid" /\ Reported(t)) \/ Handling(t) \/ Released(t)
ReleaseInv == EarlyInv /\ InForceBorn /\ OnceInv /\ AppliedInv /\ OwedInv

LEMMA InitRelease == Init => ReleaseInv
<1>1. SUFFICES ASSUME Init PROVE ReleaseInv
  OBVIOUS
<1>2. /\ requests = <<>> /\ pending = {} /\ boundary = {} /\ installed = <<>>
  BY <1>1 DEF Init
<1>3. DOMAIN requests = {} /\ Range(installed) = {}
  BY <1>2, RangeFew
<1>4. \A t \in Tokens : ~Early(t) /\ ~InForce(t)
  BY <1>2, <1>3 DEF Early, AskedFor, WaitingFor, InForce
<1>5. OnceInv
  BY <1>2, <1>3 DEF OnceInv, AskedFor
<1>6. QED
  BY <1>4, <1>5 DEF ReleaseInv, EarlyInv, InForceBorn, AppliedInv, OwedInv

\* Of a token that is not born nothing is known.
LEMMA AllBorn ==
    ASSUME TypeInv, TokenInv, LiveAll, ReleaseInv
    PROVE  \A t \in Tokens : Early(t) \/ Late(t) => Born(t)
<1>1. SUFFICES ASSUME NEW t \in Tokens, Early(t) \/ Late(t) PROVE Born(t)
  OBVIOUS
<1>2. /\ requests \in Seq(Message) /\ dues \in Seq(Due) /\ backlog \in Seq(Due)
      /\ pending \cup boundary \subseteq Launch
  BY DEF TypeInv, ChannelTypes, LaunchTypes
<1>3. \A o \in Owners : Known(t, o) => Born(t)
  BY DEF LiveAll, BornInv
<1>4. CASE AskedFor(t)
  <2>1. PICK i \in DOMAIN requests : At(i, t)
    BY <1>4 DEF AskedFor
  <2>2. requests[i] \in Message
    BY <1>2, <2>1
  <2>3. requests[i].req.owner \in Owners
    BY <2>1, <2>2, MessageFields DEF At, Request
  <2>4. QED
    BY <1>3, <2>1, <2>3 DEF At, Known, Asked, AskedAt
<1>5. CASE WaitingFor(t)
  <2>1. PICK l \in pending \cup boundary : l.token = t
    BY <1>5 DEF WaitingFor
  <2>2. l.owner \in Owners
    BY <1>2, <2>1 DEF Launch
  <2>3. QED
    BY <1>3, <2>1, <2>2 DEF Known, Held, Queued
<1>6. CASE Reported(t)
  <2>1. PICK d \in Range(backlog) \cup Range(dues) : d.token = t
    BY <1>6 DEF Reported
  <2>2. d \in Due
    BY <1>2, <2>1, RangeTypes
  <2>3. d.owner \in Owners
    BY <2>2 DEF Due
  <2>4. QED
    BY <1>3, <2>1, <2>3 DEF Known, Held, Delayed, Told
<1>7. CASE Handling(t)
  <2>1. fate[t] # "unused"
    BY <1>7 DEF TokenInv, ClosedInv, Closed
  <2>2. PICK j \in Range(work) : JobOf(j, t)
    BY <1>7 DEF Handling
  <2>3. ASSUME NEW k \in Range(work), k.op = "submit" PROVE FALSE
    <3>1. work = <<k>> /\ Range(<<k>>) = {k}
      BY <2>3, RangeFew DEF TokenInv, SubmitInv
    <3>2. j = k
      BY <2>2, <3>1
    <3>3. QED
      BY <2>2, <2>3, <3>2 DEF JobOf
  <2>4. QED
    BY <2>1, <2>3 DEF Born, Submitting
<1>8. CASE InForce(t)
  BY <1>8 DEF ReleaseInv, InForceBorn
<1>9. QED
  BY <1>1, <1>4, <1>5, <1>6, <1>7, <1>8 DEF Early, Late

\* The override of a launch that nobody withdrew is owed its release.
LEMMA OwedMeans ==
    ASSUME TypeInv, OwedInv PROVE OverrideIsOwed
<1>1. SUFFICES ASSUME NEW i \in DOMAIN installed, fate[installed[i].token] # "withdrawn"
               PROVE  Owed(installed[i].token)
  BY DEF OverrideIsOwed
<1>2. installed \in Seq(Placed) /\ backlog \in Seq(Due) /\ dues \in Seq(Due)
  BY DEF TypeInv, LaunchTypes, ChannelTypes
<1>3. PICK t \in Tokens : t = installed[i].token
  <2>1. installed[i] \in Placed
    BY <1>1, <1>2
  <2>2. installed[i].token \in Tokens
    BY <2>1 DEF Placed, Tokens
  <2>3. QED
    BY <2>2
<1>4. InForce(t)
  BY <1>1, <1>3 DEF InForce, Range
<1>5. (fate[t] = "valid" /\ Reported(t)) \/ Handling(t) \/ Released(t)
  BY <1>1, <1>3, <1>4 DEF OwedInv
<1>6. Reported(t) => InTransit(t)
  <2>1. Range(backlog \o dues) = Range(backlog) \cup Range(dues)
    BY <1>2, RangeConcat
  <2>2. QED
    BY <2>1 DEF Reported, InTransit
<1>7. Handling(t) => \E n \in DOMAIN work :
         \/ work[n].op = "apply" /\ work[n].due.token = t
         \/ work[n].op \in {"ack", "forget"} /\ work[n].token = t
  BY DEF Handling, JobOf, Range
<1>8. QED
  BY <1>3, <1>5, <1>6, <1>7 DEF Owed, Released

\* What a step of the control thread does to the requests, the jobs of the
\* handler and the dues.
HandlesWell ==
    /\ \/ requests' = requests
       \/ \E m \in Message :
             /\ requests' = Append(requests, m)
             /\ m.op = "schedule" => /\ m.req.token \in Tokens /\ ~Born(m.req.token)
                                     /\ fate'[m.req.token] = "valid" /\ Range(work') = {}
    /\ \A j \in Range(work') : \/ j \in Range(work) \/ j.op = "submit"
                               \/ j.op \in {"ack", "forget"} /\ Handling(j.token)
                               \/ j.op = "apply" /\ ~Born(j.due.token)
                               \/ j.op = "apply" /\ j.due \in Range(dues)
    /\ \A t \in Tokens : Handling(t) /\ AllApplied(t) => Handling(t)' \/ Released(t)'
    /\ \/ dues' = dues
       \/ /\ dues' = <<>>
          /\ \A t \in Tokens : fate[t] = "valid" /\ ToldOf(t) => Handling(t)'
          /\ \A t \in Tokens : fate[t] = "valid" /\ ~ToldOf(t) => fate'[t] = "valid"

LEMMA NoJobs == work = <<>> => \A t \in Tokens : ~Handling(t)
BY RangeFew DEF Handling

\* Sending a launch, or not.
LEMMA SubmittedHandles ==
    ASSUME TypeInv, NEW req \in Request, Submitted(req), ~Born(req.token),
           fate[req.token] \in {"unused", "taken"}, HasRoom => Range(work') = {}
    PROVE  \/ requests' = requests
           \/ \E m \in Message :
                 /\ requests' = Append(requests, m)
                 /\ m.op = "schedule" => /\ m.req.token \in Tokens /\ ~Born(m.req.token)
                                         /\ fate'[m.req.token] = "valid" /\ Range(work') = {}
<1>1. req.token \in Tokens
  BY DEF Request, Tokens
<1>2. CASE HasRoom
  <2> DEFINE m == [op |-> "schedule", req |-> req]
  <2>1. m \in Message /\ m.req = req
    BY DEF Message
  <2>2. requests' = Append(requests, m)
    BY <1>2 DEF Submitted, Send
  <2>3. fate'[req.token] = "valid"
    BY <1>1, <1>2, SubmittedFates
  <2> HIDE DEF m
  <2>4. QED
    BY <1>1, <1>2, <2>1, <2>2, <2>3
<1>3. CASE ~HasRoom
  BY <1>3 DEF Submitted
<1>4. QED
  BY <1>2, <1>3

\* The releases that are under way stay so.
LEMMA ReleasedStays ==
    ASSUME TypeInv, NEW m \in Message, requests' \in {requests, Append(requests, m)}
    PROVE  \A t \in Tokens : Released(t) => Released(t)'
<1>1. requests \in Seq(Message)
  BY DEF TypeInv, ChannelTypes
<1>2. Range(Append(requests, m)) = Range(requests) \cup {m}
  BY <1>1, RangeAppend
<1>3. Range(requests) \subseteq Range(requests')
  BY <1>2
<1>4. QED
  BY <1>3 DEF Released

LEMMA ControlHandles ==
    ASSUME TypeInv, TokenInv, Control \/ DrainDues, Acknowledge => HasRoom
    PROVE  HandlesWell
<1>1. /\ work \in Seq(Job) /\ requests \in Seq(Message) /\ published \in Snapshot
  BY DEF TypeInv, ControlTypes, ChannelTypes
<1>2. ASSUME NEW o \in Owners, NEW s \in Scenes, Click(o, s), UNCHANGED dues
      PROVE  HandlesWell
  <2>1. NextToken <= MaxToken /\ work = <<>> /\ work' = <<>>
    BY <1>2 DEF Click
  <2>2. NextToken \in Tokens /\ fate[NextToken] = "unused"
    BY <2>1, NextTokenIsUnused DEF TokenInv
  <2> DEFINE click == [token |-> NextToken, owner |-> o, scene |-> s,
                       quantized |-> TRUE, snap |-> published.playing]
  <2>3. click \in Request /\ click.token = NextToken
    BY <1>1, <2>2 DEF Request, Tokens, Snapshot
  <2>4. Submitted(click)
    BY <1>2 DEF Click
  <2> HIDE DEF click
  <2>5. PICK req \in Request : req = click
    BY <2>3
  <2>6. Submitted(req) /\ fate[req.token] = "unused" /\ ~Born(req.token)
    BY <2>2, <2>3, <2>4, <2>5 DEF Born
  <2>7. Range(work') = {} /\ \A t \in Tokens : ~Handling(t)
    BY <2>1, RangeFew, NoJobs
  <2>8. \/ requests' = requests
        \/ \E m \in Message :
              /\ requests' = Append(requests, m)
              /\ m.op = "schedule" => /\ m.req.token \in Tokens /\ ~Born(m.req.token)
                                      /\ fate'[m.req.token] = "valid" /\ Range(work') = {}
    BY <2>6, <2>7, SubmittedHandles
  <2>9. QED
    BY <1>2, <2>7, <2>8 DEF HandlesWell
<1>3. ASSUME NEW o \in Owners, CancelOwner(o), UNCHANGED dues PROVE HandlesWell
  <2> DEFINE m == [op |-> "cancelOwner", owner |-> o]
  <2>1. m \in Message /\ m.op # "schedule"
    BY DEF Message
  <2>2. requests' \in {requests, Append(requests, m)} /\ work = <<>> /\ work' = <<>>
    BY <1>3 DEF CancelOwner, Send
  <2> HIDE DEF m
  <2>3. Range(work') = {} /\ \A t \in Tokens : ~Handling(t)
    BY <2>2, RangeFew, NoJobs
  <2>4. QED
    BY <1>3, <2>1, <2>2, <2>3 DEF HandlesWell
<1>4. ASSUME NEW s \in Scenes, LiveLaunch(s), UNCHANGED dues PROVE HandlesWell
  <2> DEFINE m == [op |-> "cancelAll"]
             req == [token |-> NextToken, owner |-> Transport, scene |-> s,
                     quantized |-> FALSE, snap |-> TRUE]
             due == [token |-> NextToken, owner |-> Transport, scene |-> s, applied |-> FALSE]
             submit == [op |-> "submit", req |-> req]
             apply == [op |-> "apply", due |-> due]
  <2>1. m \in Message /\ m.op # "schedule"
    BY DEF Message
  <2>2. /\ requests' \in {requests, Append(requests, m)} /\ NextToken <= MaxToken
        /\ work = <<>> /\ work' \in {<<submit>>, <<apply>>}
    BY <1>4 DEF LiveLaunch, Send
  <2>3. submit.op = "submit" /\ apply.op = "apply" /\ apply.due.token = NextToken
    OBVIOUS
  <2> HIDE DEF m, submit, apply
  <2>4. Range(work') \subseteq {submit, apply} /\ \A t \in Tokens : ~Handling(t)
    BY <2>2, RangeFew, NoJobs
  <2>5. ~Born(NextToken)
    BY <2>2, NextTokenIsUnused DEF TokenInv, Born
  <2>6. \A j \in Range(work') : j.op = "submit" \/ (j.op = "apply" /\ ~Born(j.due.token))
    BY <2>3, <2>4, <2>5
  <2>7. QED
    BY <1>4, <2>1, <2>2, <2>4, <2>6 DEF HandlesWell
<1>5. ASSUME Submit, UNCHANGED dues PROVE HandlesWell
  <2>1. PICK req \in Request : req = Head(work).req
    BY <1>5, SubmitMeans
  <2>2. /\ Submitted(req) /\ fate[req.token] = "taken" /\ Submitting(req.token)
        /\ Range(work) = {Head(work)} /\ Head(work).op = "submit"
        /\ \/ HasRoom /\ Range(work') = {}
           \/ ~HasRoom /\ \E j \in Job : /\ j.op = "apply" /\ j.due.token = req.token
                                         /\ Range(work') = {j}
    BY <1>5, <2>1, SubmitMeans
  <2>3. ~Born(req.token) /\ \A t \in Tokens : ~Handling(t)
    BY <2>2 DEF Born, Handling, JobOf
  <2>4. \/ requests' = requests
        \/ \E m \in Message :
              /\ requests' = Append(requests, m)
              /\ m.op = "schedule" => /\ m.req.token \in Tokens /\ ~Born(m.req.token)
                                      /\ fate'[m.req.token] = "valid" /\ Range(work') = {}
    BY <2>2, <2>3, SubmittedHandles
  <2>5. \A j \in Range(work') : j.op = "apply" /\ ~Born(j.due.token)
    BY <2>2, <2>3
  <2>6. QED
    BY <1>5, <2>3, <2>4, <2>5 DEF HandlesWell
<1>6. ASSUME Apply \/ ApplyFails, UNCHANGED dues PROVE HandlesWell
  <2>1. PICK d \in Due : d = Head(work).due
    BY <1>6, ApplyMeans
  <2>2. /\ d.token \in Tokens /\ Head(work) \in Range(work) /\ Head(work).op = "apply"
        /\ requests' = requests
    BY <1>6, <2>1, ApplyMeans
  <2>3. PICK more : /\ Range(work') = Range(more) \cup Range(Tail(work))
                    /\ Range(work) = {Head(work)} \cup Range(Tail(work))
                    /\ \A j \in Range(more) : j.op \in {"ack", "forget"} /\ j.token = d.token
                    /\ d.applied => Range(more) # {}
    BY <1>6, <2>1, ApplyMeans
  <2>4. Handling(d.token)
    BY <2>1, <2>2 DEF Handling, JobOf
  <2>5. \A j \in Range(work') : \/ j \in Range(work)
                                \/ j.op \in {"ack", "forget"} /\ Handling(j.token)
    BY <2>3, <2>4
  <2>6. \A t \in Tokens : Handling(t) /\ AllApplied(t) => Handling(t)'
    <3>1. TAKE t \in Tokens
    <3>2. HAVE Handling(t) /\ AllApplied(t)
    <3>3. PICK j \in Range(work) : JobOf(j, t)
      BY <3>2 DEF Handling
    <3>4. CASE j \in Range(Tail(work))
      BY <2>3, <3>3, <3>4 DEF Handling, JobOf
    <3>5. CASE j = Head(work)
      <4>1. t = d.token /\ d.applied
        BY <2>1, <2>2, <3>2, <3>3, <3>5 DEF JobOf, AllApplied
      <4>2. PICK k \in Range(more) : k.op \in {"ack", "forget"} /\ k.token = t
        BY <2>3, <4>1
      <4>3. k \in Range(work')
        BY <2>3, <4>2
      <4>4. QED
        BY <4>2, <4>3 DEF Handling, JobOf
    <3>6. QED
      BY <2>3, <3>3, <3>4, <3>5
  <2>7. QED
    BY <1>6, <2>2, <2>5, <2>6 DEF HandlesWell
<1>7. ASSUME Acknowledge, UNCHANGED dues PROVE HandlesWell
  <2> DEFINE m == [op |-> IF Head(work).op = "ack" THEN "mirrored" ELSE "cancel",
                   token |-> Head(work).token]
  <2>1. /\ work # <<>> /\ Head(work).op \in {"ack", "forget"} /\ HasRoom
        /\ requests' = Append(requests, m) /\ work' = Tail(work)
    BY <1>7 DEF Acknowledge, Send
  <2>2. /\ Head(work) \in Job /\ Range(work) = {Head(work)} \cup Range(work')
    BY <1>1, <2>1, RangeTail
  <2>3. m \in Message /\ m.op \in {"mirrored", "cancel"} /\ m.token = Head(work).token
    BY <2>1, <2>2, JobFields DEF Message
  <2> HIDE DEF m
  <2>4. Range(requests') = Range(requests) \cup {m}
    BY <1>1, <2>1, <2>3, RangeAppend
  <2>5. \A t \in Tokens : Handling(t) => Handling(t)' \/ Released(t)'
    <3>1. TAKE t \in Tokens
    <3>2. HAVE Handling(t)
    <3>3. PICK j \in Range(work) : JobOf(j, t)
      BY <3>2 DEF Handling
    <3>4. CASE j \in Range(work')
      BY <3>3, <3>4 DEF Handling, JobOf
    <3>5. CASE j = Head(work)
      <4>1. m.token = t
        BY <2>1, <2>3, <3>3, <3>5 DEF JobOf
      <4>2. QED
        BY <2>3, <2>4, <4>1 DEF Released
    <3>6. QED
      BY <2>2, <3>3, <3>4, <3>5
  <2>6. QED
    BY <1>7, <2>1, <2>2, <2>3, <2>5 DEF HandlesWell
<1>8. ASSUME TogglePlay, UNCHANGED dues PROVE HandlesWell
  <2>1. work = <<>> /\ work' = work /\ requests' = requests
    BY <1>8 DEF TogglePlay
  <2>2. \A t \in Tokens : ~Handling(t)
    BY <2>1, NoJobs
  <2>3. QED
    BY <1>8, <2>1, <2>2 DEF HandlesWell
<1>9. CASE DrainDues
  <2>1. /\ work = <<>> /\ dues' = <<>> /\ requests' = requests
        /\ \A t \in Tokens :
              fate'[t] = IF fate[t] = "valid" /\ \E d \in Range(dues) : d.token = t
                         THEN "taken" ELSE fate[t]
        /\ \A j \in Range(work') : j.op = "apply" /\ j.due \in Range(dues)
        /\ \A d \in Range(dues) : fate[d.token] = "valid" =>
              \E j \in Range(work') : j.op = "apply" /\ j.due = d
    BY <1>9, DrainMeans
  <2>2. \A t \in Tokens : ~Handling(t)
    BY <2>1, NoJobs
  <2>3. \A t \in Tokens : fate[t] = "valid" /\ ToldOf(t) => Handling(t)'
    <3>1. TAKE t \in Tokens
    <3>2. HAVE fate[t] = "valid" /\ ToldOf(t)
    <3>3. PICK d \in Range(dues) : d.token = t
      BY <3>2 DEF ToldOf
    <3>4. PICK j \in Range(work') : j.op = "apply" /\ j.due = d
      BY <2>1, <3>2, <3>3
    <3>5. QED
      BY <3>3, <3>4 DEF Handling, JobOf
  <2>4. \A t \in Tokens : fate[t] = "valid" /\ ~ToldOf(t) => fate'[t] = "valid"
    BY <2>1 DEF ToldOf
  <2>5. QED
    BY <2>1, <2>2, <2>3, <2>4 DEF HandlesWell
<1>10. QED
  BY <1>2, <1>3, <1>4, <1>5, <1>6, <1>7, <1>8, <1>9 DEF Control

LEMMA ControlRelease ==
    ASSUME TypeInv, TokenInv, LiveAll, ReleaseInv, TypeInv', TokenInv', HandlesWell,
           UNCHANGED launches, \A t \in Tokens : Forward(t)
    PROVE  ReleaseInv'
<1>1. \A t \in Tokens : Early(t) \/ Late(t) => Born(t)
  BY AllBorn
<1>2. /\ \A t \in Tokens : (WaitingFor(t)' <=> WaitingFor(t)) /\ (InForce(t)' <=> InForce(t))
      /\ UNCHANGED <<pending, boundary, installed, backlog>>
  BY DEF launches, WaitingFor, InForce
<1>3. dues' = dues \/ (dues' = <<>> /\ Range(dues') = {})
  BY RangeFew DEF HandlesWell
<1>4. Range(dues') \subseteq Range(dues) /\ \A t \in Tokens : Reported(t)' => Reported(t)
  BY <1>2, <1>3 DEF Reported
<1>5. \A t \in Tokens : Handling(t)' => Handling(t) \/ ~Born(t) \/ Reported(t)
  <2>1. TAKE t \in Tokens
  <2>2. HAVE Handling(t)'
  <2>3. PICK j \in Range(work') : JobOf(j, t)
    BY <2>2 DEF Handling, JobOf
  <2>4. \/ j \in Range(work) \/ j.op = "submit"
        \/ j.op \in {"ack", "forget"} /\ Handling(j.token)
        \/ j.op = "apply" /\ ~Born(j.due.token)
        \/ j.op = "apply" /\ j.due \in Range(dues)
    BY DEF HandlesWell
  <2>5. QED
    BY <2>3, <2>4 DEF JobOf, Handling, Reported
\* The one launch that may be new.
<1>6. \A i \in DOMAIN requests : i \in DOMAIN requests' /\ requests'[i] = requests[i]
  BY SentRequests DEF HandlesWell
<1>7. PICK fresh : /\ fresh \subseteq Tokens
                   /\ \A t \in fresh : /\ ~Born(t) /\ fate'[t] = "valid" /\ ~Handling(t)'
                   /\ \A i, j \in DOMAIN requests', t \in Tokens : At(i, t)' /\ At(j, t)' =>
                         \/ i \in DOMAIN requests /\ j \in DOMAIN requests
                         \/ i = j
                         \/ t \in fresh /\ AskedFor(t)
                   /\ \A t \in Tokens : AskedFor(t)' => AskedFor(t) \/ t \in fresh
  <2>1. CASE requests' = requests
    <3>1. \A t \in Tokens : AskedFor(t)' => AskedFor(t)
      BY <2>1 DEF AskedFor, At
    <3>2. PICK none : none = {}
      OBVIOUS
    <3>3. /\ none \subseteq Tokens
          /\ \A t \in none : ~Born(t) /\ fate'[t] = "valid" /\ ~Handling(t)'
      BY <3>2
    <3>4. \A i, j \in DOMAIN requests', t \in Tokens : At(i, t)' /\ At(j, t)' =>
             \/ i \in DOMAIN requests /\ j \in DOMAIN requests
             \/ i = j
             \/ t \in none /\ AskedFor(t)
      BY <2>1
    <3>5. \A t \in Tokens : AskedFor(t)' => AskedFor(t) \/ t \in none
      BY <3>1
    <3>6. QED
      BY <3>3, <3>4, <3>5
  <2>2. ASSUME NEW m \in Message, requests' = Append(requests, m),
               m.op = "schedule" => /\ m.req.token \in Tokens /\ ~Born(m.req.token)
                                    /\ fate'[m.req.token] = "valid" /\ Range(work') = {}
        PROVE  \E x : /\ x \subseteq Tokens
                      /\ \A t \in x : /\ ~Born(t) /\ fate'[t] = "valid" /\ ~Handling(t)'
                      /\ \A i, j \in DOMAIN requests', t \in Tokens : At(i, t)' /\ At(j, t)' =>
                            \/ i \in DOMAIN requests /\ j \in DOMAIN requests
                            \/ i = j
                            \/ t \in x /\ AskedFor(t)
                      /\ \A t \in Tokens : AskedFor(t)' => AskedFor(t) \/ t \in x
    <3> DEFINE x == {t \in Tokens : m.op = "schedule" /\ t = m.req.token}
    <3>1. PICK n : n = Len(requests) + 1
      OBVIOUS
    <3>2. /\ \A i \in DOMAIN requests' : i \in DOMAIN requests \/ i = n
          /\ \A i \in DOMAIN requests : requests'[i] = requests[i]
          /\ requests'[n] = m
      BY <2>2, <3>1, SentRequests
    <3>3. \A t \in x : ~Born(t) /\ fate'[t] = "valid" /\ ~Handling(t)'
      BY <2>2 DEF Handling
    <3>4. \A t \in Tokens : At(n, t)' => t \in x
      BY <3>2 DEF At
    <3>5. \A i \in DOMAIN requests, t \in Tokens : At(i, t)' => At(i, t)
      BY <3>2 DEF At
    <3>6. \A t \in Tokens : AskedFor(t)' => AskedFor(t) \/ t \in x
      BY <3>2, <3>4, <3>5 DEF AskedFor
    <3>7. \A i, j \in DOMAIN requests', t \in Tokens : At(i, t)' /\ At(j, t)' =>
             \/ i \in DOMAIN requests /\ j \in DOMAIN requests
             \/ i = j
             \/ t \in x /\ AskedFor(t)
      <4>1. TAKE i, j \in DOMAIN requests', t \in Tokens
      <4>2. HAVE At(i, t)' /\ At(j, t)'
      <4>3. CASE i \in DOMAIN requests /\ j = n
        BY <3>4, <3>5, <4>2, <4>3 DEF AskedFor
      <4>4. CASE i = n /\ j \in DOMAIN requests
        BY <3>4, <3>5, <4>2, <4>4 DEF AskedFor
      <4>5. QED
        BY <3>2, <4>3, <4>4
    <3>8. x \subseteq Tokens
      OBVIOUS
    <3> HIDE DEF x
    <3>9. QED
      BY <3>3, <3>6, <3>7, <3>8
  <2>3. QED
    BY <2>1, <2>2 DEF HandlesWell
<1>8. \A t \in fresh : ~Early(t) /\ ~Late(t)
  BY <1>1, <1>7
<1>9. \A t \in Tokens : Early(t)' => Early(t) \/ t \in fresh
  BY <1>2, <1>7 DEF Early
<1>10. EarlyInv'
  <2>1. SUFFICES ASSUME NEW t \in Tokens, Early(t)'
                 PROVE  ~Late(t)' /\ fate'[t] \in {"valid", "withdrawn"}
    BY DEF EarlyInv
  <2>2. CASE Early(t)
    <3>1. ~Late(t) /\ Born(t) /\ fate[t] \in {"valid", "withdrawn"}
      BY <1>1, <2>2 DEF ReleaseInv, EarlyInv
    <3>2. ~Late(t)'
      BY <1>2, <1>4, <1>5, <3>1 DEF Late
    <3>3. fate'[t] \in {"valid", "withdrawn"}
      <4>1. ~ToldOf(t)
        BY <3>1 DEF Late, Reported, ToldOf
      <4>2. Forward(t)
        OBVIOUS
      <4>3. QED
        BY <3>1, <4>1, <4>2 DEF Forward, HandlesWell
    <3>4. QED
      BY <3>2, <3>3
  <2>3. CASE t \in fresh
    <3>1. ~Late(t)'
      BY <1>2, <1>4, <1>7, <1>8, <2>3 DEF Late
    <3>2. QED
      BY <1>7, <2>3, <3>1
  <2>4. QED
    BY <1>9, <2>1, <2>2, <2>3
<1>11. InForceBorn'
  BY <1>2 DEF ReleaseInv, InForceBorn, Forward
<1>12. OnceInv'
  <2>1. ASSUME NEW i \in DOMAIN requests', NEW j \in DOMAIN requests', NEW t \in Tokens,
               At(i, t)', At(j, t)'
        PROVE  i = j
    <3>1. CASE i \in DOMAIN requests /\ j \in DOMAIN requests
      BY <1>6, <2>1, <3>1 DEF ReleaseInv, OnceInv, At
    <3>2. ~(t \in fresh /\ AskedFor(t))
      BY <1>8 DEF Early
    <3>3. QED
      BY <1>7, <2>1, <3>1, <3>2
  <2>2. \A t \in Tokens : AskedFor(t)' => ~WaitingFor(t)'
    BY <1>2, <1>7, <1>8 DEF ReleaseInv, OnceInv, Early
  <2>3. QED
    BY <1>2, <2>1, <2>2 DEF ReleaseInv, OnceInv
<1>13. AppliedInv'
  <2>1. SUFFICES ASSUME NEW t \in Tokens, InForce(t)'
                 PROVE  /\ \A d \in Range(backlog') \cup Range(dues') :
                              d.token = t => d.applied
                        /\ \A j \in Range(work') :
                              j.op = "apply" /\ j.due.token = t => j.due.applied
    BY DEF AppliedInv, AllApplied
  <2>2. InForce(t) /\ Born(t)
    BY <1>2, <2>1 DEF ReleaseInv, InForceBorn
  <2>3. /\ \A d \in Range(backlog) \cup Range(dues) : d.token = t => d.applied
        /\ \A j \in Range(work) : j.op = "apply" /\ j.due.token = t => j.due.applied
    BY <2>2 DEF ReleaseInv, AppliedInv, AllApplied
  <2>4. ASSUME NEW j \in Range(work'), j.op = "apply", j.due.token = t PROVE j.due.applied
    <3>1. \/ j \in Range(work) \/ j.op = "submit"
          \/ j.op \in {"ack", "forget"} /\ Handling(j.token)
          \/ j.op = "apply" /\ ~Born(j.due.token)
          \/ j.op = "apply" /\ j.due \in Range(dues)
      BY DEF HandlesWell
    <3>2. j \in Range(work) \/ j.due \in Range(dues)
      BY <2>2, <2>4, <3>1
    <3>3. QED
      BY <2>3, <2>4, <3>2
  <2>5. QED
    BY <1>2, <1>4, <2>3, <2>4
<1>14. OwedInv'
  <2>1. SUFFICES ASSUME NEW t \in Tokens, InForce(t)', fate'[t] # "withdrawn"
                 PROVE  (fate'[t] = "valid" /\ Reported(t)') \/ Handling(t)' \/ Released(t)'
    BY DEF OwedInv
  <2>2. InForce(t) /\ Forward(t)
    BY <1>2, <2>1
  <2>3. fate[t] # "withdrawn" /\ AllApplied(t)
    BY <2>1, <2>2 DEF Forward, ReleaseInv, AppliedInv
  <2>4. CASE Released(t)
    BY <2>4, ReleasedStays DEF HandlesWell, Released
  <2>5. CASE Handling(t)
    BY <2>3, <2>5 DEF HandlesWell
  <2>6. CASE fate[t] = "valid" /\ Reported(t)
    <3>1. CASE dues' = dues
      <4>1. fate'[t] = "valid"
        BY <2>1, <2>2, <2>6, <3>1 DEF Forward
      <4>2. Reported(t)'
        BY <1>2, <2>6, <3>1 DEF Reported
      <4>3. QED
        BY <4>1, <4>2
    <3>2. CASE dues' # dues
      <4>1. ToldOf(t) => Handling(t)'
        BY <2>6, <3>2 DEF HandlesWell
      <4>2. ~ToldOf(t) => fate'[t] = "valid"
        BY <2>6, <3>2 DEF HandlesWell
      <4>3. ~ToldOf(t) => Reported(t)'
        BY <1>2, <2>6 DEF Reported, ToldOf
      <4>4. QED
        BY <4>1, <4>2, <4>3
    <3>3. QED
      BY <3>1, <3>2
  <2>7. QED
    BY <2>2, <2>3, <2>4, <2>5, <2>6 DEF ReleaseInv, OwedInv
<1>15. QED
  BY <1>10, <1>11, <1>12, <1>13, <1>14 DEF ReleaseInv

\* What receiving a request leaves in force, delays and makes wait.
LEMMA ReceiveRanges ==
    ASSUME TypeInv, Receive, NEW m \in Message, m = Head(requests)
    PROVE  /\ Range(installed') \subseteq Range(installed)
           /\ Range(backlog') \subseteq Range(backlog)
           /\ m.op \in {"mirrored", "cancel"} =>
                 \A p \in Range(installed') : p.token # m.token
           /\ m.op = "cancelAll" => Range(installed') = {}
           /\ \/ pending' \subseteq pending /\ boundary' \subseteq boundary
              \/ \E l : /\ m.op = "schedule" /\ l.token = m.req.token
                        /\ \/ pending' \subseteq pending \cup {l} /\ boundary' \subseteq boundary
                           \/ pending' \subseteq pending /\ boundary' \subseteq boundary \cup {l}
<1>1. installed \in Seq(Placed) /\ backlog \in Seq(Due)
  BY DEF TypeInv, LaunchTypes
<1>2. \A T : /\ Range(Dropped(backlog, T)) = {d \in Range(backlog) : d.token \notin T}
             /\ Range(Dropped(installed, T)) = {p \in Range(installed) : p.token \notin T}
  BY <1>1, DroppedTypes
<1>3. CASE m.op = "schedule" /\ ReceiveSchedule(m.req)
  <2> DEFINE replaced == {owned[m.req.owner]} \ {None}
             own == base.playing /\ m.req.snap
             launch == [token |-> m.req.token, owner |-> m.req.owner, scene |-> m.req.scene,
                        deadline |-> Deadline(IF own THEN frontier ELSE rendered,
                                              base.playing, m.req.quantized)]
  <2>1. /\ pending' = Without(pending, replaced) \cup (IF own THEN {} ELSE {launch})
        /\ boundary' = Without(boundary, replaced) \cup (IF own THEN {launch} ELSE {})
        /\ UNCHANGED <<installed, backlog>>
    BY <1>3 DEF ReceiveSchedule
  <2>2. launch.token = m.req.token
    OBVIOUS
  <2> HIDE DEF launch, own
  <2>3. \/ pending' \subseteq pending \cup {launch} /\ boundary' \subseteq boundary
        \/ pending' \subseteq pending /\ boundary' \subseteq boundary \cup {launch}
    BY <2>1 DEF Without
  <2>4. QED
    BY <1>3, <2>1, <2>2, <2>3
<1>4. CASE m.op = "cancel" /\ ReceiveCancelToken(m.token)
  <2>1. /\ Range(installed') = {p \in Range(installed) : p.token # m.token}
        /\ Range(backlog') \subseteq Range(backlog)
    BY <1>2, <1>4 DEF ReceiveCancelToken
  <2>2. pending' \subseteq pending /\ boundary' \subseteq boundary
    BY <1>4 DEF ReceiveCancelToken, Without
  <2>3. QED
    BY <1>4, <2>1, <2>2
<1>5. CASE m.op = "cancelOwner" /\ ReceiveCancelOwner(m.owner)
  <2> DEFINE others == {d \in Range(backlog) : d.owner # m.owner}
  <2>1. Range(installed') \subseteq Range(installed)
    BY <1>2, <1>5 DEF ReceiveCancelOwner
  <2>2. pending' \subseteq pending /\ boundary' \subseteq boundary
    BY <1>5 DEF ReceiveCancelOwner, Without
  <2>3. backlog' = Kept(backlog, others)
    BY <1>5 DEF ReceiveCancelOwner
  <2> HIDE DEF others
  <2>4. Range(backlog') = Range(backlog) \cap others
    BY <1>1, <2>3, KeptProperties
  <2>5. QED
    BY <1>5, <2>1, <2>2, <2>4
<1>6. CASE m.op = "cancelAll" /\ ReceiveCancelAll
  <2>1. pending' = {} /\ boundary' = {} /\ Range(installed') = {} /\ Range(backlog') = {}
    BY <1>6, RangeFew DEF ReceiveCancelAll
  <2>2. QED
    BY <1>6, <2>1
<1>7. CASE m.op = "mirrored" /\ ReceiveMirrored(m.token)
  <2>1. /\ Range(installed') = {p \in Range(installed) : p.token # m.token}
        /\ UNCHANGED <<pending, boundary, backlog>>
    BY <1>2, <1>7 DEF ReceiveMirrored
  <2>2. QED
    BY <1>7, <2>1
<1>8. QED
  BY <1>3, <1>4, <1>5, <1>6, <1>7 DEF Receive

LEMMA ReceiveRelease ==
    ASSUME TypeInv, LiveAll, ReleaseInv, Receive, UNCHANGED control
    PROVE  ReleaseInv'
<1>1. UNCHANGED <<fate, work>>
  BY DEF control
<1>2. PICK m \in Message : m = Head(requests)
  BY RangeTail DEF TypeInv, ChannelTypes, Receive
<1>3. /\ 1 \in DOMAIN requests /\ requests[1] = m /\ dues' = dues
      /\ DOMAIN requests = 1 .. Len(requests) /\ Len(requests) \in Nat
      /\ DOMAIN requests' = 1 .. Len(requests) - 1
      /\ \A i \in DOMAIN requests' : i + 1 \in DOMAIN requests /\ requests'[i] = requests[i + 1]
      /\ \A i \in DOMAIN requests : i = 1 \/ \E j \in DOMAIN requests' : i = j + 1
  BY <1>2, ReceiveMoves
<1>4. /\ Range(installed') \subseteq Range(installed)
      /\ Range(backlog') \subseteq Range(backlog)
      /\ m.op \in {"mirrored", "cancel"} => \A p \in Range(installed') : p.token # m.token
      /\ m.op = "cancelAll" => Range(installed') = {}
  BY <1>2, ReceiveRanges
<1>5. \A i \in DOMAIN requests', t \in Tokens : At(i, t)' <=> At(i + 1, t)
  BY <1>3 DEF At
<1>6. \A t \in Tokens : AskedFor(t)' => AskedFor(t)
  BY <1>3, <1>5 DEF AskedFor
<1>7. PICK new : /\ \A l \in new : At(1, l.token)
                 /\ \A l, n \in new : l = n
                 /\ pending' \cup boundary' \subseteq pending \cup boundary \cup new
                 /\ pending' \cap boundary' \subseteq (pending \cap boundary)
                       \cup (new \cap (pending \cup boundary))
  <2>1. CASE pending' \subseteq pending /\ boundary' \subseteq boundary
    <3>1. PICK none : none = {}
      OBVIOUS
    <3>2. /\ pending' \cup boundary' \subseteq pending \cup boundary \cup none
          /\ pending' \cap boundary' \subseteq (pending \cap boundary)
                \cup (none \cap (pending \cup boundary))
      BY <2>1
    <3>3. \A l \in none : At(1, l.token) /\ \A n \in none : l = n
      BY <3>1
    <3>4. QED
      BY <3>2, <3>3
  <2>2. CASE ~(pending' \subseteq pending /\ boundary' \subseteq boundary)
    <3>1. PICK l : /\ m.op = "schedule" /\ l.token = m.req.token
                   /\ \/ pending' \subseteq pending \cup {l} /\ boundary' \subseteq boundary
                      \/ pending' \subseteq pending /\ boundary' \subseteq boundary \cup {l}
      BY <1>2, <2>2, ReceiveRanges
    <3>2. PICK one : one = {l}
      OBVIOUS
    <3>3. /\ pending' \cup boundary' \subseteq pending \cup boundary \cup one
          /\ pending' \cap boundary' \subseteq (pending \cap boundary)
                \cup (one \cap (pending \cup boundary))
      BY <3>1, <3>2
    <3>4. At(1, l.token)
      BY <1>3, <3>1 DEF At
    <3>5. \A k \in one : At(1, k.token) /\ \A n \in one : k = n
      BY <3>2, <3>4
    <3>6. QED
      BY <3>3, <3>5
  <2>3. QED
    BY <2>1, <2>2
<1>8. \A l \in new : l.token \in Tokens /\ AskedFor(l.token) /\ ~WaitingFor(l.token)
  <2>1. TAKE l \in new
  <2>2. At(1, l.token) /\ m.op = "schedule"
    BY <1>3, <1>7 DEF At
  <2>3. l.token \in Tokens
    BY <1>3, <2>2, MessageFields DEF At, Request, Tokens
  <2>4. AskedFor(l.token)
    BY <1>3, <2>2 DEF AskedFor
  <2>5. QED
    BY <2>3, <2>4 DEF ReleaseInv, OnceInv
<1>9. new \cap (pending \cup boundary) = {}
  BY <1>8 DEF WaitingFor
<1>10. \A t \in Tokens : WaitingFor(t)' => WaitingFor(t) \/ \E l \in new : l.token = t
  BY <1>7 DEF WaitingFor
<1>11. \A t \in Tokens : /\ Reported(t)' => Reported(t)
                         /\ InForce(t)' => InForce(t)
                         /\ Handling(t)' <=> Handling(t)
                         /\ Born(t)' <=> Born(t)
  BY <1>1, <1>3, <1>4 DEF Reported, InForce, Handling, Born, Submitting
<1>12. EarlyInv'
  <2>1. \A t \in Tokens : Early(t)' => Early(t)
    BY <1>6, <1>8, <1>10 DEF Early
  <2>2. \A t \in Tokens : Late(t)' => Late(t)
    BY <1>11 DEF Late
  <2>3. QED
    BY <1>1, <2>1, <2>2 DEF ReleaseInv, EarlyInv
<1>13. InForceBorn'
  BY <1>11 DEF ReleaseInv, InForceBorn
<1>14. OnceInv'
  <2>1. ASSUME NEW i \in DOMAIN requests', NEW j \in DOMAIN requests', NEW t \in Tokens,
               At(i, t)', At(j, t)'
        PROVE  i = j
    <3>1. i + 1 = j + 1
      BY <1>3, <1>5, <2>1 DEF ReleaseInv, OnceInv
    <3>2. i \in Int /\ j \in Int
      BY <1>3
    <3>3. QED
      BY <3>1, <3>2
  <2>2. ASSUME NEW t \in Tokens, AskedFor(t)' PROVE ~WaitingFor(t)'
    <3>1. PICK i \in DOMAIN requests' : At(i, t)'
      BY <2>2 DEF AskedFor
    <3>2. At(i + 1, t) /\ i + 1 \in DOMAIN requests /\ i + 1 # 1
      BY <1>3, <1>5, <3>1
    <3>3. ~WaitingFor(t)
      BY <3>2 DEF ReleaseInv, OnceInv, AskedFor
    <3>4. ~At(1, t)
      BY <1>3, <3>2 DEF ReleaseInv, OnceInv
    <3>5. QED
      BY <1>7, <1>10, <3>3, <3>4
  <2>3. \A l, n \in pending' \cup boundary' : l.token = n.token => l = n
    <3>1. TAKE l, n \in pending' \cup boundary'
    <3>2. HAVE l.token = n.token
    <3>3. CASE l \in pending \cup boundary /\ n \in pending \cup boundary
      BY <3>2, <3>3 DEF ReleaseInv, OnceInv
    <3>4. CASE l \in new \/ n \in new
      <4>1. l \in new /\ n \in new
        BY <1>7, <1>8, <3>2, <3>4 DEF WaitingFor
      <4>2. QED
        BY <1>7, <4>1
    <3>5. QED
      BY <1>7, <3>3, <3>4
  <2>4. pending' \cap boundary' = {}
    BY <1>7, <1>9 DEF ReleaseInv, OnceInv
  <2>5. QED
    BY <2>1, <2>2, <2>3, <2>4 DEF OnceInv
<1>15. AppliedInv'
  BY <1>1, <1>3, <1>4, <1>11 DEF ReleaseInv, AppliedInv, AllApplied
<1>16. OwedInv'
  <2>1. SUFFICES ASSUME NEW t \in Tokens, InForce(t)', fate[t] # "withdrawn"
                 PROVE  (fate[t] = "valid" /\ Reported(t)') \/ Handling(t)' \/ Released(t)'
    BY <1>1 DEF OwedInv
  <2>2. (fate[t] = "valid" /\ Reported(t)) \/ Handling(t) \/ Released(t)
    BY <1>11, <2>1 DEF ReleaseInv, OwedInv
  <2>3. CASE fate[t] = "valid" /\ Reported(t)
    <3>1. PICK d \in Range(backlog) \cup Range(dues) : d.token = t
      BY <2>3 DEF Reported
    <3>2. CASE d \in Range(dues)
      BY <1>3, <2>3, <3>1, <3>2 DEF Reported
    <3>3. CASE d \in Range(backlog)
      <4>1. d.owner \in Owners
        <5>1. backlog \in Seq(Due)
          BY DEF TypeInv, LaunchTypes
        <5>2. d \in Due
          BY <3>3, <5>1, RangeTypes
        <5>3. QED
          BY <5>2 DEF Due
      <4>2. PICK o \in Owners : o = d.owner
        BY <4>1
      <4>3. Delayed(t, o) /\ Held(t, o)
        BY <3>1, <3>3, <4>2 DEF Delayed, Held
      <4>4. ~Kills(m, t, o)
        BY <1>3, <2>3, <4>3 DEF LiveAll, FifoInv
      <4>5. Delayed(t, o)'
        BY <1>2, <4>3, <4>4, ReceiveMoves
      <4>6. QED
        BY <2>3, <4>5 DEF Delayed, Reported
    <3>4. QED
      BY <3>1, <3>2, <3>3
  <2>4. CASE Handling(t)
    BY <1>11, <2>4
  <2>5. CASE Released(t)
    <3>1. PICK k \in Range(requests) : \/ k.op \in {"mirrored", "cancel"} /\ k.token = t
                                       \/ k.op = "cancelAll"
      BY <2>5 DEF Released
    <3>2. PICK i \in DOMAIN requests : k = requests[i]
      BY <3>1 DEF Range
    <3>3. i # 1
      BY <1>3, <1>4, <2>1, <3>1, <3>2 DEF InForce
    <3>4. PICK j \in DOMAIN requests' : i = j + 1
      BY <1>3, <3>3
    <3>5. requests'[j] = k
      BY <1>3, <3>2, <3>4
    <3>6. QED
      BY <3>1, <3>5 DEF Released, Range
  <2>6. QED
    BY <2>2, <2>3, <2>4, <2>5
<1>17. QED
  BY <1>12, <1>13, <1>14, <1>15, <1>16 DEF ReleaseInv

\* What a report leaves waiting is not what it reports, and stays unique.
LEMMA ReportSplits ==
    ASSUME TypeInv, OnceInv, Report
    PROVE  /\ \A l, n \in pending' \cup boundary' : l.token = n.token => l = n
           /\ pending' \cap boundary' = {}
           /\ \A l \in pending' \cup boundary', n \in Ready : l.token # n.token
           /\ \A l \in pending' \cup boundary' \cup Ready :
                 \E n \in pending \cup boundary : l.token = n.token
<1>1. /\ pending' = (pending \cup Degraded) \ Ready
      /\ boundary' = IF base.playing THEN boundary ELSE {}
  BY ReportMeans
<1>2. Ready \subseteq pending \cup Degraded
  BY DEF Ready
<1>3. /\ base.playing => Degraded = {}
      /\ \A l \in Degraded : \E b \in boundary : l.token = b.token
      /\ \A l, m \in Degraded :
            (\A b, c \in boundary : b.token = c.token => b = c) /\ l.token = m.token => l = m
  BY DegradedProperties
<1>4. /\ \A l, m \in pending \cup boundary : l.token = m.token => l = m
      /\ pending \cap boundary = {}
  BY DEF OnceInv
<1>5. \A l \in pending' \cup boundary' \cup Ready :
         \E n \in pending \cup boundary : l.token = n.token
  <2>1. \A l \in pending \cup boundary \cup Degraded :
           \E n \in pending \cup boundary : l.token = n.token
    BY <1>3
  <2>2. pending' \cup boundary' \cup Ready \subseteq pending \cup boundary \cup Degraded
    BY <1>1, <1>2
  <2>3. QED
    BY <2>1, <2>2
<1>6. CASE base.playing
  <2>1. Ready \subseteq pending /\ pending' = pending \ Ready /\ boundary' = boundary
    BY <1>1, <1>2, <1>3, <1>6
  <2>2. \A l \in pending' \cup boundary', n \in Ready : l # n
    BY <1>4, <2>1
  <2>3. QED
    BY <1>4, <1>5, <2>1, <2>2
<1>7. CASE ~base.playing
  <2>1. Ready \subseteq pending \cup Degraded /\ boundary' = {}
        /\ pending' = (pending \cup Degraded) \ Ready
    BY <1>1, <1>2, <1>7
  <2>2. ASSUME NEW l \in pending \cup Degraded, NEW n \in pending \cup Degraded,
               l.token = n.token
        PROVE  l = n
    <3>1. CASE l \in pending /\ n \in pending
      BY <1>4, <2>2, <3>1
    <3>2. CASE l \in Degraded /\ n \in Degraded
      BY <1>3, <1>4, <2>2, <3>2
    <3>3. CASE (l \in pending /\ n \in Degraded) \/ (l \in Degraded /\ n \in pending)
      <4>1. PICK k \in pending, b \in boundary : k.token = b.token
        BY <1>3, <2>2, <3>3
      <4>2. QED
        BY <1>4, <4>1
    <3>4. QED
      BY <2>2, <3>1, <3>2, <3>3
  <2>3. QED
    BY <1>5, <2>1, <2>2
<1>8. QED
  BY <1>6, <1>7

LEMMA ReportRelease ==
    ASSUME TypeInv, ReleaseInv, Report, UNCHANGED <<requests, fate, work>>
    PROVE  ReleaseInv'
<1>1. /\ \A l, n \in pending' \cup boundary' : l.token = n.token => l = n
      /\ pending' \cap boundary' = {}
      /\ \A l \in pending' \cup boundary', n \in Ready : l.token # n.token
      /\ \A l \in pending' \cup boundary' \cup Ready :
            \E n \in pending \cup boundary : l.token = n.token
  BY ReportSplits DEF ReleaseInv
<1> DEFINE Moving(t) == \E l \in Ready : l.token = t
<1>2. \A t \in Tokens : /\ WaitingFor(t)' => WaitingFor(t) /\ ~Moving(t)
                        /\ Moving(t) => WaitingFor(t)
  BY <1>1 DEF WaitingFor
<1>3. \A t \in Tokens : /\ AskedFor(t)' <=> AskedFor(t)
                        /\ Handling(t)' <=> Handling(t)
                        /\ Born(t)' <=> Born(t)
                        /\ Released(t)' <=> Released(t)
                        /\ AllApplied(t)' <=> AllApplied(t)
  BY DEF AskedFor, At, Handling, Born, Submitting, Released, AllApplied
<1>4. \A t \in Tokens : InForce(t)' => InForce(t)
  <2>1. installed' = installed \/ Range(installed') = {}
    BY RangeFew DEF Report
  <2>2. QED
    BY <2>1 DEF InForce
<1> DEFINE fresh == Range(DuesOf(InTokenOrder(Ready), FALSE))
<1>5. /\ Range(backlog') \cup Range(dues') = Range(backlog) \cup Range(dues) \cup fresh
      /\ \A d \in fresh : \E l \in Ready : d.token = l.token /\ d.owner = l.owner
  BY ReportRanges
<1> HIDE DEF fresh
<1>6. \A t \in Tokens : /\ Reported(t)' => Reported(t) \/ Moving(t)
                        /\ Reported(t) => Reported(t)'
  BY <1>5 DEF Reported
<1>7. EarlyInv'
  <2>1. SUFFICES ASSUME NEW t \in Tokens, Early(t)'
                 PROVE  ~Late(t)' /\ fate[t] \in {"valid", "withdrawn"}
    BY DEF EarlyInv
  <2>2. Early(t) /\ ~Moving(t)
    BY <1>2, <1>3, <2>1 DEF Early, ReleaseInv, OnceInv
  <2>3. ~Late(t) /\ fate[t] \in {"valid", "withdrawn"}
    BY <2>2 DEF ReleaseInv, EarlyInv
  <2>4. ~Late(t)'
    BY <1>3, <1>4, <1>6, <2>2, <2>3 DEF Late
  <2>5. QED
    BY <2>3, <2>4
<1>8. InForceBorn'
  BY <1>3, <1>4 DEF ReleaseInv, InForceBorn
<1>9. OnceInv'
  <2>1. \A i, j \in DOMAIN requests', t \in Tokens : At(i, t)' /\ At(j, t)' => i = j
    BY DEF ReleaseInv, OnceInv, At
  <2>2. \A t \in Tokens : AskedFor(t)' => ~WaitingFor(t)'
    BY <1>2, <1>3 DEF ReleaseInv, OnceInv
  <2>3. QED
    BY <1>1, <2>1, <2>2 DEF OnceInv
<1>10. AppliedInv'
  <2>1. SUFFICES ASSUME NEW t \in Tokens, InForce(t)'
                 PROVE  /\ \A d \in Range(backlog') \cup Range(dues') :
                              d.token = t => d.applied
                        /\ AllApplied(t)'
    BY DEF AppliedInv
  <2>2. InForce(t) /\ ~Moving(t)
    BY <1>2, <1>4, <2>1 DEF ReleaseInv, EarlyInv, Early, Late
  <2>3. \A d \in fresh : d.token # t
    BY <1>5, <2>2
  <2>4. QED
    BY <1>3, <1>5, <2>2, <2>3 DEF ReleaseInv, AppliedInv
<1>11. OwedInv'
  BY <1>3, <1>4, <1>6 DEF ReleaseInv, OwedInv
<1>12. QED
  BY <1>7, <1>8, <1>9, <1>10, <1>11 DEF ReleaseInv

LEMMA ChunkRelease ==
    ASSUME TypeInv, TokenInv, LiveAll, ReleaseInv, ScheduleChunk, UNCHANGED <<fate, work>>
    PROVE  ReleaseInv'
<1>1. /\ boundary' = boundary \ Range(Arrived) /\ UNCHANGED <<pending, requests, dues>>
      /\ installed' = Installs(installed \o Placements(Arrived))
      /\ backlog' = backlog \o DuesOf(Arrived, TRUE)
  BY ChunkMeans DEF Waiting
<1>2. Arrived \in Seq(Launch) /\ Range(Arrived) \subseteq boundary
  BY ArrivedProperties
<1> DEFINE Moving(t) == \E l \in Range(Arrived) : l.token = t
<1>3. /\ \A l, n \in pending \cup boundary : l.token = n.token => l = n
      /\ pending \cap boundary = {}
  BY DEF ReleaseInv, OnceInv
<1>4. \A t \in Tokens : /\ WaitingFor(t)' => WaitingFor(t) /\ ~Moving(t)
                        /\ Moving(t) => WaitingFor(t)
  <2>1. \A l \in pending' \cup boundary', n \in Range(Arrived) : l # n
    BY <1>1, <1>2, <1>3
  <2>2. \A l \in pending' \cup boundary', n \in Range(Arrived) : l.token # n.token
    BY <1>1, <1>2, <1>3, <2>1
  <2>3. QED
    BY <1>1, <1>2, <2>2 DEF WaitingFor
<1>5. \A t \in Tokens : /\ AskedFor(t)' <=> AskedFor(t)
                        /\ Handling(t)' <=> Handling(t)
                        /\ Born(t)' <=> Born(t)
                        /\ Released(t)' <=> Released(t)
                        /\ AllApplied(t)' <=> AllApplied(t)
  BY <1>1 DEF AskedFor, At, Handling, Born, Submitting, Released, AllApplied
<1>6. \A t \in Tokens : InForce(t)' => InForce(t) \/ Moving(t)
  <2>1. /\ installed \in Seq(Placed) /\ Placements(Arrived) \in Seq(Placed)
        /\ DOMAIN Placements(Arrived) = DOMAIN Arrived
        /\ \A i \in DOMAIN Arrived : Placements(Arrived)[i].token = Arrived[i].token
    BY <1>2, PlacementsProperties DEF TypeInv, LaunchTypes
  <2> DEFINE overrides == installed \o Placements(Arrived)
  <2>2. /\ overrides \in Seq(Placed)
        /\ Range(overrides) = Range(installed) \cup Range(Placements(Arrived))
    BY <2>1, RangeConcat
  <2>3. installed' = Installs(overrides)
    BY <1>1
  <2> HIDE DEF overrides
  <2>4. Range(installed') \subseteq Range(installed) \cup Range(Placements(Arrived))
    BY <2>2, <2>3, InstallsProperties
  <2>5. \A p \in Range(Placements(Arrived)) : \E l \in Range(Arrived) : p.token = l.token
    BY <2>1 DEF Range
  <2>6. QED
    BY <2>4, <2>5 DEF InForce
<1> DEFINE fresh == Range(DuesOf(Arrived, TRUE))
<1>7. /\ Range(backlog') = Range(backlog) \cup fresh
      /\ \A d \in fresh : d.applied = TRUE /\ \E l \in Range(Arrived) : d.token = l.token
      /\ \A l \in Range(Arrived) : \E d \in fresh : d.token = l.token
  <2>1. backlog \in Seq(Due) /\ DuesOf(Arrived, TRUE) \in Seq(Due)
    BY <1>2, DuesOfProperties DEF TypeInv, LaunchTypes
  <2>2. Range(backlog') = Range(backlog) \cup fresh
    BY <1>1, <2>1, RangeConcat, ZenonT(30)
  <2>3. /\ \A d \in fresh : d.applied = TRUE /\ \E l \in Range(Arrived) :
                               d.token = l.token /\ d.owner = l.owner
        /\ \A l \in Range(Arrived) : \E d \in fresh : d.token = l.token /\ d.owner = l.owner
    BY <1>2, DuesRange
  <2> HIDE DEF fresh
  <2>4. QED
    BY <2>2, <2>3
<1> HIDE DEF fresh
<1>8. \A t \in Tokens : /\ Reported(t)' => Reported(t) \/ Moving(t)
                        /\ Reported(t) \/ Moving(t) => Reported(t)'
  BY <1>1, <1>7 DEF Reported
\* A launch that arrives was early.
<1>9. \A t \in Tokens : Moving(t) => /\ ~AskedFor(t) /\ ~Late(t) /\ Born(t)
                                     /\ fate[t] \in {"valid", "withdrawn"}
  <2>1. TAKE t \in Tokens
  <2>2. HAVE Moving(t)
  <2>3. WaitingFor(t) /\ Early(t)
    BY <1>4, <2>2 DEF Early
  <2>4. ~AskedFor(t)
    BY <2>3 DEF ReleaseInv, OnceInv
  <2>5. ~Late(t) /\ fate[t] \in {"valid", "withdrawn"}
    BY <2>3 DEF ReleaseInv, EarlyInv
  <2>6. Born(t)
    BY <2>3, AllBorn
  <2>7. QED
    BY <2>4, <2>5, <2>6
<1> HIDE DEF Moving
<1>10. EarlyInv'
  <2>1. SUFFICES ASSUME NEW t \in Tokens, Early(t)'
                 PROVE  ~Late(t)' /\ fate[t] \in {"valid", "withdrawn"}
    BY DEF EarlyInv
  <2>2. Early(t) /\ ~Moving(t)
    BY <1>4, <1>5, <1>9, <2>1 DEF Early
  <2>3. ~Late(t) /\ fate[t] \in {"valid", "withdrawn"}
    BY <2>2 DEF ReleaseInv, EarlyInv
  <2>4. ~Late(t)'
    BY <1>5, <1>6, <1>8, <2>2, <2>3 DEF Late
  <2>5. QED
    BY <2>3, <2>4
<1>11. InForceBorn'
  BY <1>5, <1>6, <1>9 DEF ReleaseInv, InForceBorn
<1>12. OnceInv'
  <2>1. \A i, j \in DOMAIN requests', t \in Tokens : At(i, t)' /\ At(j, t)' => i = j
    BY <1>1 DEF ReleaseInv, OnceInv, At
  <2>2. \A t \in Tokens : AskedFor(t)' => ~WaitingFor(t)'
    BY <1>4, <1>5 DEF ReleaseInv, OnceInv
  <2>3. pending' \cup boundary' \subseteq pending \cup boundary /\ pending' \cap boundary' = {}
    BY <1>1, <1>3
  <2>4. QED
    BY <1>3, <2>1, <2>2, <2>3 DEF OnceInv
<1>13. AppliedInv'
  <2>1. SUFFICES ASSUME NEW t \in Tokens, InForce(t)'
                 PROVE  /\ \A d \in Range(backlog') \cup Range(dues') :
                              d.token = t => d.applied
                        /\ AllApplied(t)'
    BY DEF AppliedInv
  <2>2. \A d \in fresh : d.applied
    BY <1>7
  <2>3. CASE InForce(t)
    BY <1>1, <1>5, <1>7, <2>2, <2>3 DEF ReleaseInv, AppliedInv
  <2>4. CASE Moving(t)
    <3>1. ~Reported(t) /\ ~Handling(t)
      BY <1>9, <2>4 DEF Late
    <3>2. AllApplied(t)
      BY <3>1 DEF Handling, JobOf, AllApplied
    <3>3. \A d \in Range(backlog) \cup Range(dues) : d.token # t
      BY <3>1 DEF Reported
    <3>4. QED
      BY <1>1, <1>5, <1>7, <2>2, <3>2, <3>3
  <2>5. QED
    BY <1>6, <2>1, <2>3, <2>4
<1>14. OwedInv'
  <2>1. SUFFICES ASSUME NEW t \in Tokens, InForce(t)', fate[t] # "withdrawn"
                 PROVE  (fate[t] = "valid" /\ Reported(t)') \/ Handling(t)' \/ Released(t)'
    BY DEF OwedInv
  <2>2. CASE InForce(t)
    BY <1>5, <1>8, <2>1, <2>2 DEF ReleaseInv, OwedInv
  <2>3. CASE Moving(t)
    BY <1>8, <1>9, <2>1, <2>3
  <2>4. QED
    BY <1>6, <2>1, <2>2, <2>3
<1>15. QED
  BY <1>10, <1>11, <1>12, <1>13, <1>14 DEF ReleaseInv

LEMMA ReleaseStep ==
    ASSUME TypeInv, TokenInv, LiveAll, ReleaseInv, [Next]_vars,
           [Acknowledge => HasRoom]_vars
    PROVE  ReleaseInv'
<1>1. CASE UNCHANGED <<fate, work, requests, dues, launches>>
  <2>1. UNCHANGED <<fate, work, requests, dues>>
    BY <1>1
  <2>2. UNCHANGED <<pending, boundary, installed, backlog>>
    BY <1>1 DEF launches
  <2>3. \A t \in Tokens : /\ Early(t)' <=> Early(t)
                          /\ Late(t)' <=> Late(t)
                          /\ InForce(t)' <=> InForce(t)
                          /\ Born(t)' <=> Born(t)
    BY <2>1, <2>2 DEF Early, AskedFor, At, WaitingFor, Late, Reported, Handling, InForce,
                      Born, Submitting
  <2>4. EarlyInv' /\ InForceBorn'
    BY <2>1, <2>3 DEF ReleaseInv, EarlyInv, InForceBorn
  <2>5. OnceInv'
    BY <2>1, <2>2 DEF ReleaseInv, OnceInv, At, AskedFor, WaitingFor
  <2>6. AppliedInv' /\ OwedInv'
    BY <2>1, <2>2 DEF ReleaseInv, AppliedInv, AllApplied, OwedInv, InForce, Reported,
                      Handling, Released
  <2>7. QED
    BY <2>4, <2>5, <2>6 DEF ReleaseInv
<1>2. CASE UNCHANGED vars
  BY <1>1, <1>2 DEF vars, control
<1>3. CASE (Control \/ DrainDues) /\ UNCHANGED <<stage, base, last, clock, launches, histories>>
  <2>1. CASE Acknowledge /\ ~HasRoom
    BY <1>2, <2>1
  <2>2. CASE Acknowledge => HasRoom
    <3>1. TypeInv' /\ TokenInv' /\ \A t \in Tokens : Forward(t)
      BY <1>3, TypeStep, TokenStep
    <3>2. HandlesWell
      BY <1>3, <2>2, ControlHandles
    <3>3. UNCHANGED launches
      BY <1>3
    <3>4. QED
      BY <3>1, <3>2, <3>3, ControlRelease
  <2>3. QED
    BY <2>1, <2>2
<1>4. CASE Receive /\ UNCHANGED control
  BY <1>4, ReceiveRelease
<1>5. CASE (SettleStopped \/ SettlePlaying) /\ UNCHANGED control
  <2>1. Report /\ UNCHANGED <<requests, fate, work>>
    BY <1>5 DEF SettleStopped, SettlePlaying, control
  <2>2. QED
    BY <2>1, ReportRelease
<1>6. CASE ScheduleChunk /\ UNCHANGED control
  BY <1>6, ChunkRelease DEF control
<1>7. CASE (Load \/ PassDone) /\ UNCHANGED control
  BY <1>1, <1>7 DEF Load, PassDone, control
<1>8. CASE Render
  BY <1>1, <1>8 DEF Render, control
<1>9. QED
  BY <1>2, <1>3, <1>4, <1>5, <1>6, <1>7, <1>8 DEF Next, Scheduler

\* No override leaks while its launch stands.  The content of a launch that the
\* scheduler installed on its own is in force until somebody releases it:
\* somebody always will, unless the launch was withdrawn after it was installed.
\* The hypothesis is one the code leaves to the size of the channel:
\* acknowledge_mirror ignores a refused send, so the last link of the chain
\* holds as long as no acknowledgement meets a full request channel.
THEOREM OverridesAreReleased ==
    Spec /\ [][Acknowledge => HasRoom]_vars => []OverrideIsOwed
<1> DEFINE Inv == TypeInv /\ TokenInv /\ LiveAll /\ ReleaseInv
<1>1. Init => Inv
  BY InitTypes, InitTokens, InitLive, InitRelease
<1>2. Inv /\ [Next]_vars /\ [Acknowledge => HasRoom]_vars => Inv'
  BY TypeStep, TokenStep, LiveStep, ReleaseStep
<1>3. Inv => OverrideIsOwed
  BY OwedMeans DEF ReleaseInv
<1>4. QED
  BY <1>1, <1>2, <1>3, PTL DEF Spec

-----------------------------------------------------------------------------
(* The mirror of a launch is silent                                        *)

\* A launch the scheduler is past: it is being released, or its mirror awaited.
Past(t) == \/ \E m \in Range(requests) : m.op = "mirrored" /\ m.token = t
           \/ \E a \in Range(adopted) : a.token = t

\* What the scheduler compares the snapshot of its pass against.
Seen == IF stage = "receive" THEN last.pattern ELSE base.pattern

PastInv == \A t \in Tokens : Past(t) => Born(t) /\ ~Early(t)
OwnedInv == \A o \in Owners : owned[o] # None =>
                \E l \in pending \cup boundary : l.token = owned[o] /\ l.owner = o
LoadedInv == stage = "load" => last.pattern = base.pattern
PlacesInv == PastInv /\ OwnedInv /\ LoadedInv

\* The launches of a sequence of messages, jobs, or dues and the like.
OfMessages(s) == [i \in DOMAIN s |-> IF s[i].op = "mirrored" THEN s[i].token ELSE None]
OfJobs(s) == [i \in DOMAIN s |-> IF s[i].op = "apply" THEN s[i].due.token
                                 ELSE IF s[i].op = "ack" THEN s[i].token ELSE None]
OfDues(s) == [i \in DOMAIN s |-> s[i].token]

\* Some launches are in the order of their ranks, all before some others.
Rising(s, rank) == \A i, j \in DOMAIN s : i < j /\ s[i] # None /\ s[j] # None =>
                       rank[s[i]] < rank[s[j]]
Before(s, u, rank) == \A i \in DOMAIN s, j \in DOMAIN u : s[i] # None /\ u[j] # None =>
                          rank[s[i]] < rank[u[j]]

\* What is reported is applied, acknowledged and released in the order it was
\* reported in.
InLine(m, w, d, b, rank) ==
    /\ Rising(m, rank) /\ Rising(w, rank) /\ Rising(d, rank) /\ Rising(b, rank)
    /\ Before(m, w, rank) /\ Before(m, d, rank) /\ Before(m, b, rank)
    /\ Before(w, d, rank) /\ Before(w, b, rank) /\ Before(d, b, rank)
Ranked(rank) ==
    /\ InLine(OfMessages(requests), OfJobs(work), OfDues(dues), OfDues(backlog), rank)
    /\ Rising(OfDues(installed), rank) /\ Rising(OfDues(adopted), rank)

\* The dues of what the scheduler installed, that are still to be mirrored.
Awaited(d) == /\ d.applied
              /\ \/ d \in Range(backlog) \cup Range(dues)
                 \/ \E j \in Range(work) : j.op = "apply" /\ j.due = d

\* The scheduler adopts up to the rank `seen` what its pass compares against, and
\* up to `shown` what is published; what is awaited comes after both.
Follows(rank, seen, shown) ==
    /\ seen <= shown
    /\ Seen # base.pattern =>
          \E a \in Range(adopted) : a.pattern = base.pattern /\ rank[a.token] <= seen
    /\ published.pattern # base.pattern =>
          \E a \in Range(adopted) : /\ a.pattern = published.pattern
                                    /\ seen < rank[a.token] /\ rank[a.token] <= shown
    /\ \A d \in Due : Awaited(d) /\ Whole(d.owner) =>
          /\ shown < rank[d.token]
          /\ \E a \in Range(adopted) : a.token = d.token /\ a.pattern = d.scene

\* Launch u is the last one installed on track t: as long as it is not released it
\* is installed there and plays, and when it is mirrored the base has it.
LastOn(t, u, rank) ==
    /\ \A d \in Due : Awaited(d) /\ t \in TracksOf[d.owner] =>
          rank[d.token] <= rank[u] /\ (d.token = u => d.scene = launched[t])
    /\ \A p \in Range(installed) : t \in p.tracks =>
          rank[p.token] <= rank[u] /\ (p.token = u => p.scene = launched[t])
    /\ \/ \E d \in Due : Awaited(d) /\ t \in TracksOf[d.owner] /\ d.token = u
       \/ /\ \A d \in Due : Awaited(d) => t \notin TracksOf[d.owner]
          /\ published.content[t] = launched[t]
    /\ \/ \E p \in Range(installed) : t \in p.tracks /\ p.token = u
       \/ /\ \A d \in Due : Awaited(d) => t \notin TracksOf[d.owner]
          /\ \A p \in Range(installed) : t \notin p.tracks
OnTrack(rank) == \A t \in Tracks : launched[t] # None => \E u \in Tokens : LastOn(t, u, rank)

\* Until everything is cancelled, nothing takes a token twice, and as long as no
\* launch is disturbed every reported one is valid.
TakenInv == \A j \in Range(work) : j.op = "apply" => fate[j.due.token] = "taken"
QuietInv ==
    /\ \A m \in Range(requests) : m.op # "cancelAll"
    /\ \A j \in Range(work) : j.op # "submit"
    /\ Undisturbed => /\ \A m \in Range(requests) : m.op # "cancel"
                      /\ \A j \in Range(work) : j.op # "forget"
                      /\ \A d \in Range(backlog) \cup Range(dues) : fate[d.token] = "valid"
RankedBy(rank, n) ==
    /\ Ranked(rank)
    /\ Undisturbed /\ ~forgot => \E seen, shown \in 0 .. n : Follows(rank, seen, shown)
    /\ Undisturbed => OnTrack(rank)
RankInv == \E n \in Nat : \E rank \in [Tokens -> 0 .. n] : RankedBy(rank, n)
SilentInv == PlacesInv /\ (~wiped => TakenInv /\ QuietInv /\ RankInv)

\* One sequence has only elements of another, in its order.
Within(r, s) == /\ \A i \in DOMAIN r : \E k \in DOMAIN s : r[i] = s[k]
                /\ \A i, j \in DOMAIN r : i < j =>
                      \E k, l \in DOMAIN s : k < l /\ r[i] = s[k] /\ r[j] = s[l]
\* The same of the launches of two sequences.
Thinner(r, s) == /\ \A i \in DOMAIN r : r[i] # None => \E k \in DOMAIN s : r[i] = s[k]
                 /\ \A i, j \in DOMAIN r : i < j /\ r[i] # None /\ r[j] # None =>
                       \E k, l \in DOMAIN s : k < l /\ r[i] = s[k] /\ r[j] = s[l]

\* The order is by the keys.
LEMMA InOrderRises ==
    ASSUME NEW S, IsFiniteSet(S), NEW key, \A x \in S : key[x] \in Nat
    PROVE  \A i, j \in DOMAIN InOrder(S, key) :
              i <= j => key[InOrder(S, key)[i]] <= key[InOrder(S, key)[j]]
<1>1. PICK r : Sorted(r, S, key)
  BY SortedExists
<1>2. Sorted(InOrder(S, key), S, key)
  BY <1>1 DEF Sorted, InOrder
<1>3. QED
  BY <1>2 DEF Sorted

\* What is kept is in its order.
LEMMA KeptWithin ==
    ASSUME NEW S, NEW s \in Seq(S), NEW set PROVE Within(Kept(s, set), s)
<1> DEFINE places == {i \in DOMAIN s : s[i] \in set}
           key == [i \in DOMAIN s |-> i]
           at == InOrder(places, key)
           kept == [n \in DOMAIN at |-> s[at[n]]]
<1>1. DOMAIN s = 1 .. Len(s) /\ Len(s) \in Nat
  OBVIOUS
<1>2. IsFiniteSet(places) /\ \A i \in places : key[i] \in Nat
  <2>1. IsFiniteSet(1 .. Len(s))
    BY <1>1, FS_Interval
  <2>2. places \in SUBSET (1 .. Len(s))
    BY <1>1
  <2>3. IsFiniteSet(places)
    BY <2>1, <2>2, FS_Subset
  <2>4. QED
    BY <1>1, <2>3
<1>3. /\ at \in Seq(places) /\ IsInjective(at)
      /\ \A i, j \in DOMAIN at : i <= j => key[at[i]] <= key[at[j]]
  <2> HIDE DEF places, key
  <2>1. QED
    BY <1>2, InOrderProperties, InOrderRises
<1>4. Kept(s, set) = kept
  BY DEF Kept
<1> HIDE DEF at
<1>5. DOMAIN at = 1 .. Len(at) /\ Len(at) \in Nat /\ \A n \in DOMAIN at : at[n] \in DOMAIN s
  BY <1>3
<1>6. \A i, j \in DOMAIN at : i < j => at[i] < at[j]
  <2>1. TAKE i, j \in DOMAIN at
  <2>2. HAVE i < j
  <2>3. i <= j /\ i # j /\ at[i] \in 1 .. Len(s) /\ at[j] \in 1 .. Len(s)
    BY <1>1, <1>5, <2>2
  <2>4. at[i] # at[j]
    BY <1>3, <2>3 DEF IsInjective
  <2>5. at[i] <= at[j]
    BY <1>3, <1>5, <2>3
  <2>6. QED
    BY <2>3, <2>4, <2>5
<1>7. \A i \in DOMAIN kept : kept[i] = s[at[i]] /\ at[i] \in DOMAIN s /\ i \in DOMAIN at
  BY <1>5
<1> HIDE DEF kept
<1>8. QED
  BY <1>4, <1>6, <1>7 DEF Within

LEMMA PartWithin ==
    ASSUME NEW S, NEW s \in Seq(S), NEW a \in Nat \ {0}, NEW b \in 0 .. Len(s)
    PROVE  Within(SubSeq(s, a, b), s)
<1> DEFINE r == SubSeq(s, a, b)
<1>1. /\ r \in Seq(S)
      /\ \A i \in DOMAIN r : a + i - 1 \in DOMAIN s /\ r[i] = s[a + i - 1]
  BY PartProperties
<1>2. a \in Int /\ DOMAIN r \subseteq Int
  BY <1>1
<1> HIDE DEF r
<1>3. \A i, j \in DOMAIN r : i < j => a + i - 1 < a + j - 1
  BY <1>2
<1>4. Within(r, s)
  BY <1>1, <1>3 DEF Within
<1>5. QED
  BY <1>4 DEF r

LEMMA TailWithin ==
    ASSUME NEW S, NEW s \in Seq(S), s # <<>> PROVE Within(Tail(s), s)
<1> DEFINE r == Tail(s)
<1>1. /\ Len(s) \in Nat /\ DOMAIN s = 1 .. Len(s) /\ DOMAIN r = 1 .. Len(s) - 1
      /\ \A i \in 1 .. Len(s) - 1 : r[i] = s[i + 1]
  BY RangeTail
<1>2. \A i \in DOMAIN r : i + 1 \in DOMAIN s /\ r[i] = s[i + 1]
  BY <1>1
<1>3. \A i, j \in DOMAIN r : i < j => i + 1 < j + 1
  BY <1>1
<1> HIDE DEF r
<1>4. Within(r, s)
  BY <1>2, <1>3 DEF Within
<1>5. QED
  BY <1>4 DEF r

LEMMA NothingWithin == \A s : Within(<<>>, s)
BY DEF Within

LEMMA WithinItself == \A s : Within(s, s)
BY DEF Within

LEMMA WithinRange ==
    ASSUME NEW r, NEW s, Within(r, s) PROVE Range(r) \subseteq Range(s)
BY DEF Within, Range

\* So are its launches.
LEMMA WithinThinner ==
    ASSUME NEW r, NEW s, Within(r, s)
    PROVE  /\ Thinner(OfDues(r), OfDues(s)) /\ Thinner(OfJobs(r), OfJobs(s))
           /\ Thinner(OfMessages(r), OfMessages(s))
<1>1. \A i, j \in DOMAIN r : i < j => \E k, l \in DOMAIN s : k < l /\ r[i] = s[k] /\ r[j] = s[l]
  BY DEF Within
<1>2. \A i \in DOMAIN r : \E k \in DOMAIN s : r[i] = s[k]
  BY DEF Within
<1>3. Thinner(OfDues(r), OfDues(s))
  BY <1>1, <1>2 DEF Thinner, OfDues
<1>4. Thinner(OfJobs(r), OfJobs(s))
  BY <1>1, <1>2 DEF Thinner, OfJobs
<1>5. Thinner(OfMessages(r), OfMessages(s))
  BY <1>1, <1>2 DEF Thinner, OfMessages
<1>6. QED
  BY <1>3, <1>4, <1>5

LEMMA ThinnerRises ==
    ASSUME NEW r, NEW s, NEW rank, Thinner(r, s), Rising(s, rank) PROVE Rising(r, rank)
BY DEF Thinner, Rising

LEMMA ThinnerInLine ==
    ASSUME NEW rank, NEW m, NEW w, NEW d, NEW b, InLine(m, w, d, b, rank),
           NEW m2, NEW w2, NEW d2, NEW b2,
           Thinner(m2, m), Thinner(w2, w), Thinner(d2, d), Thinner(b2, b)
    PROVE  InLine(m2, w2, d2, b2, rank)
<1>1. Rising(m2, rank) /\ Rising(w2, rank) /\ Rising(d2, rank) /\ Rising(b2, rank)
  BY ThinnerRises DEF InLine
<1>2. \A r, s, r2, s2 : Thinner(r2, r) /\ Thinner(s2, s) /\ Before(r, s, rank)
         => Before(r2, s2, rank)
  BY DEF Thinner, Before
<1>3. /\ Before(m2, w2, rank) /\ Before(m2, d2, rank) /\ Before(m2, b2, rank)
      /\ Before(w2, d2, rank) /\ Before(w2, b2, rank) /\ Before(d2, b2, rank)
  BY <1>2 DEF InLine
<1>4. QED
  BY <1>1, <1>3 DEF InLine

\* One sequence after another.
LEMMA ConcatPlaces ==
    ASSUME NEW S, NEW s \in Seq(S), NEW x \in Seq(S)
    PROVE  /\ s \o x \in Seq(S) /\ DOMAIN s = 1 .. Len(s) /\ DOMAIN x = 1 .. Len(x)
           /\ Len(s) \in Nat /\ Len(x) \in Nat
           /\ \A i \in DOMAIN s : i \in DOMAIN (s \o x) /\ (s \o x)[i] = s[i]
           /\ \A j \in DOMAIN x : Len(s) + j \in DOMAIN (s \o x) /\ (s \o x)[Len(s) + j] = x[j]
           /\ \A i \in DOMAIN (s \o x) :
                 i \in DOMAIN s \/ \E j \in DOMAIN x : i = Len(s) + j
<1>1. /\ DOMAIN s = 1 .. Len(s) /\ Len(s) \in Nat /\ DOMAIN x = 1 .. Len(x) /\ Len(x) \in Nat
      /\ s \o x \in Seq(S) /\ DOMAIN (s \o x) = 1 .. Len(s) + Len(x)
  OBVIOUS
<1>2. /\ \A i \in 1 .. Len(s) : i \in 1 .. Len(s) + Len(x) /\ (s \o x)[i] = s[i]
      /\ \A i \in 1 .. Len(x) :
            Len(s) + i \in 1 .. Len(s) + Len(x) /\ (s \o x)[Len(s) + i] = x[i]
  BY <1>1, ConcatProperties
<1>3. \A i \in 1 .. Len(s) + Len(x) :
         i \in 1 .. Len(s) \/ \E j \in 1 .. Len(x) : i = Len(s) + j
  <2>1. TAKE i \in 1 .. Len(s) + Len(x)
  <2>2. CASE i <= Len(s)
    BY <1>1, <2>2
  <2>3. CASE i > Len(s)
    <3>1. i - Len(s) \in 1 .. Len(x) /\ i = Len(s) + (i - Len(s))
      BY <1>1, <2>3
    <3>2. QED
      BY <3>1
  <2>4. QED
    BY <1>1, <2>2, <2>3
<1>4. QED
  BY <1>1, <1>2, <1>3

LEMMA ConcatRises ==
    ASSUME NEW S, NEW s \in Seq(S), NEW x \in Seq(S), NEW rank,
           Rising(s, rank), Rising(x, rank), Before(s, x, rank)
    PROVE  Rising(s \o x, rank)
<1>1. SUFFICES ASSUME NEW i \in DOMAIN (s \o x), NEW j \in DOMAIN (s \o x),
                      i < j, (s \o x)[i] # None, (s \o x)[j] # None
               PROVE  rank[(s \o x)[i]] < rank[(s \o x)[j]]
  BY DEF Rising
<1>2. /\ DOMAIN s = 1 .. Len(s) /\ DOMAIN x = 1 .. Len(x) /\ Len(s) \in Nat /\ Len(x) \in Nat
      /\ \A k \in DOMAIN s : (s \o x)[k] = s[k]
      /\ \A k \in DOMAIN x : (s \o x)[Len(s) + k] = x[k]
      /\ i \in DOMAIN s \/ \E k \in DOMAIN x : i = Len(s) + k
      /\ j \in DOMAIN s \/ \E k \in DOMAIN x : j = Len(s) + k
  BY <1>1, ConcatPlaces
<1>3. CASE i \in DOMAIN s /\ j \in DOMAIN s
  BY <1>1, <1>2, <1>3 DEF Rising
<1>4. CASE i \in DOMAIN s /\ j \notin DOMAIN s
  BY <1>1, <1>2, <1>4 DEF Before
<1>5. CASE i \notin DOMAIN s
  <2>1. PICK k \in DOMAIN x : i = Len(s) + k
    BY <1>2, <1>5
  <2>2. j \notin DOMAIN s
    BY <1>1, <1>2, <2>1
  <2>3. PICK l \in DOMAIN x : j = Len(s) + l
    BY <1>2, <2>2
  <2>4. k < l
    BY <1>1, <1>2, <2>1, <2>3
  <2>5. QED
    BY <1>1, <1>2, <2>1, <2>3, <2>4 DEF Rising
<1>6. QED
  BY <1>3, <1>4, <1>5

LEMMA ConcatBefore ==
    ASSUME NEW S, NEW s \in Seq(S), NEW x \in Seq(S), NEW u, NEW rank
    PROVE  /\ Before(s \o x, u, rank) <=> Before(s, u, rank) /\ Before(x, u, rank)
           /\ Before(u, s \o x, rank) <=> Before(u, s, rank) /\ Before(u, x, rank)
<1> DEFINE c == s \o x
<1>1. /\ \A i \in DOMAIN s : i \in DOMAIN c /\ c[i] = s[i]
      /\ \A j \in DOMAIN x : \E i \in DOMAIN c : c[i] = x[j]
      /\ \A i \in DOMAIN c : (\E k \in DOMAIN s : c[i] = s[k]) \/ \E k \in DOMAIN x : c[i] = x[k]
  <2>1. /\ \A i \in DOMAIN s : i \in DOMAIN c /\ c[i] = s[i]
        /\ \A j \in DOMAIN x : Len(s) + j \in DOMAIN c /\ c[Len(s) + j] = x[j]
        /\ \A i \in DOMAIN c : i \in DOMAIN s \/ \E j \in DOMAIN x : i = Len(s) + j
    BY ConcatPlaces
  <2> HIDE DEF c
  <2>2. QED
    BY <2>1
<1> HIDE DEF c
<1>2. /\ Before(c, u, rank) <=> Before(s, u, rank) /\ Before(x, u, rank)
      /\ Before(u, c, rank) <=> Before(u, s, rank) /\ Before(u, x, rank)
  <2>1. Before(c, u, rank) => Before(s, u, rank) /\ Before(x, u, rank)
    BY <1>1 DEF Before
  <2>2. Before(s, u, rank) /\ Before(x, u, rank) => Before(c, u, rank)
    BY <1>1 DEF Before
  <2>3. Before(u, c, rank) => Before(u, s, rank) /\ Before(u, x, rank)
    BY <1>1 DEF Before
  <2>4. Before(u, s, rank) /\ Before(u, x, rank) => Before(u, c, rank)
    BY <1>1 DEF Before
  <2>5. QED
    BY <2>1, <2>2, <2>3, <2>4
<1>3. QED
  BY <1>2 DEF c

\* What arrives after everything else is the end of the line.
LEMMA JoinsLine ==
    ASSUME NEW S, NEW m, NEW w, NEW d, NEW b \in Seq(S), NEW x \in Seq(S), NEW rank,
           InLine(m, w, d, b, rank), Rising(x, rank), Before(m, x, rank),
           Before(w, x, rank), Before(d, x, rank), Before(b, x, rank)
    PROVE  InLine(m, w, d, b \o x, rank)
<1>1. Rising(b \o x, rank)
  BY ConcatRises DEF InLine
<1>2. Before(m, b \o x, rank) /\ Before(w, b \o x, rank) /\ Before(d, b \o x, rank)
  BY ConcatBefore DEF InLine
<1>3. QED
  BY <1>1, <1>2 DEF InLine

\* The first of the backlog go to the dues.
LEMMA ReportsInLine ==
    ASSUME NEW S, NEW m, NEW w, NEW d \in Seq(S), NEW b, NEW x \in Seq(S), NEW rest, NEW rank,
           InLine(m, w, d, b, rank), Thinner(x, b), Thinner(rest, b), Before(x, rest, rank)
    PROVE  InLine(m, w, d \o x, rest, rank)
<1>1. \A s, r, r2 : Thinner(r2, r) /\ Before(s, r, rank) => Before(s, r2, rank)
  BY DEF Thinner, Before
<1>2. Rising(x, rank) /\ Rising(rest, rank)
  BY ThinnerRises DEF InLine
<1>3. /\ Before(m, x, rank) /\ Before(m, rest, rank) /\ Before(w, x, rank)
      /\ Before(w, rest, rank) /\ Before(d, x, rank) /\ Before(d, rest, rank)
  BY <1>1 DEF InLine
<1>4. Rising(d \o x, rank)
  BY <1>2, <1>3, ConcatRises DEF InLine
<1>5. Before(m, d \o x, rank) /\ Before(w, d \o x, rank) /\ Before(d \o x, rest, rank)
  BY <1>3, ConcatBefore DEF InLine
<1>6. QED
  BY <1>2, <1>3, <1>4, <1>5 DEF InLine

\* Dues are taken by a handler that has no other job.
LEMMA DrainsInLine ==
    ASSUME NEW m, NEW w, NEW d, NEW b, NEW w2, NEW rank,
           InLine(m, w, d, b, rank), Thinner(w2, d)
    PROVE  InLine(m, w2, <<>>, b, rank)
<1>1. Rising(w2, rank)
  BY ThinnerRises DEF InLine
<1>2. Before(m, w2, rank) /\ Before(w2, b, rank)
  BY DEF Thinner, Before, InLine
<1>3. \A s : Rising(<<>>, rank) /\ Before(<<>>, s, rank) /\ Before(s, <<>>, rank)
  BY DEF Rising, Before
<1>4. QED
  BY <1>1, <1>2, <1>3 DEF InLine

\* The first job is acknowledged.
LEMMA ReleasesInLine ==
    ASSUME NEW S, NEW m \in Seq(S), NEW w \in Seq(S), NEW d, NEW b, NEW rank,
           w # <<>>, InLine(m, w, d, b, rank)
    PROVE  InLine(Append(m, w[1]), Tail(w), d, b, rank)
<1> DEFINE x == <<w[1]>>
           r == Tail(w)
<1>1. /\ Len(w) \in Nat /\ DOMAIN w = 1 .. Len(w) /\ 1 \in DOMAIN w /\ w[1] \in S
      /\ DOMAIN r = 1 .. Len(w) - 1 /\ \A i \in 1 .. Len(w) - 1 : r[i] = w[i + 1]
  BY HeadTailProperties, RangeTail
<1>2. x \in Seq(S) /\ DOMAIN x = {1} /\ x[1] = w[1] /\ Append(m, w[1]) = m \o x
  BY <1>1, AppendIsConcat
<1>3. \A i \in DOMAIN r : i + 1 \in DOMAIN w /\ r[i] = w[i + 1] /\ 1 < i + 1
  BY <1>1
<1>4. Thinner(x, w)
  BY <1>1, <1>2 DEF Thinner
<1>5. Thinner(r, w)
  <2>1. \A i, j \in DOMAIN r : i < j => i + 1 < j + 1
    BY <1>1
  <2> HIDE DEF r
  <2>2. QED
    BY <1>3, <2>1 DEF Thinner
<1>6. Before(x, r, rank)
  <2>1. Rising(w, rank)
    BY DEF InLine
  <2> HIDE DEF r, x
  <2>2. QED
    BY <1>1, <1>2, <1>3, <2>1 DEF Rising, Before
<1> HIDE DEF x, r
<1>7. \A s, t, s2 : Thinner(s2, s) =>
         /\ Before(s, t, rank) => Before(s2, t, rank)
         /\ Before(t, s, rank) => Before(t, s2, rank)
  BY DEF Thinner, Before
<1>8. Rising(x, rank) /\ Rising(r, rank)
  BY <1>4, <1>5, ThinnerRises DEF InLine
<1>9. /\ Before(m, x, rank) /\ Before(m, r, rank) /\ Before(x, d, rank)
      /\ Before(x, b, rank) /\ Before(r, d, rank) /\ Before(r, b, rank)
  BY <1>4, <1>5, <1>7 DEF InLine
<1>10. Rising(m \o x, rank)
  BY <1>2, <1>8, <1>9, ConcatRises DEF InLine
<1>11. Before(m \o x, r, rank) /\ Before(m \o x, d, rank) /\ Before(m \o x, b, rank)
  BY <1>2, <1>6, <1>9, ConcatBefore DEF InLine
<1>12. InLine(m \o x, r, d, b, rank)
  BY <1>8, <1>9, <1>10, <1>11 DEF InLine
<1>13. QED
  BY <1>2, <1>12 DEF r

Marks == 0 .. MaxToken

LEMMA ConcatTypes ==
    ASSUME NEW S, NEW s \in Seq(S), NEW x \in Seq(S)
    PROVE  s \o x \in Seq(S) /\ Len(s \o x) = Len(s) + Len(x)
OBVIOUS

\* The launches of a sequence are those of its parts.
LEMMA OfDuesProperties ==
    ASSUME NEW S, \A x \in S : x.token \in Tokens, NEW s \in Seq(S)
    PROVE  /\ OfDues(s) \in Seq(Marks) /\ DOMAIN OfDues(s) = DOMAIN s
           /\ \A i \in DOMAIN s : OfDues(s)[i] = s[i].token /\ OfDues(s)[i] \in Tokens
           /\ \A x \in Seq(S) : OfDues(s \o x) = OfDues(s) \o OfDues(x)
<1>1. \A x \in Seq(S) : /\ OfDues(x) \in Seq(Marks) /\ DOMAIN OfDues(x) = DOMAIN x
                        /\ \A i \in DOMAIN x : OfDues(x)[i] = x[i].token /\ x[i].token \in Tokens
                        /\ Len(OfDues(x)) = Len(x)
  <2>1. TAKE x \in Seq(S)
  <2>2. /\ DOMAIN x = 1 .. Len(x) /\ Len(x) \in Nat
        /\ \A i \in DOMAIN x : x[i].token \in Tokens /\ x[i].token \in Marks
    BY DEF Tokens, Marks
  <2>3. OfDues(x) \in [1 .. Len(x) -> Marks]
    BY <2>2 DEF OfDues
  <2>4. OfDues(x) \in Seq(Marks) /\ Len(OfDues(x)) = Len(x)
    BY <2>2, <2>3
  <2>5. QED
    BY <2>2, <2>4 DEF OfDues
<1>2. ASSUME NEW x \in Seq(S) PROVE OfDues(s \o x) = OfDues(s) \o OfDues(x)
  <2> DEFINE c == OfDues(s \o x)
             e == OfDues(s) \o OfDues(x)
  <2>1. s \o x \in Seq(S) /\ Len(s \o x) = Len(s) + Len(x)
    OBVIOUS
  <2>2. c \in Seq(Marks) /\ Len(c) = Len(s) + Len(x)
    BY <1>1, <2>1
  <2>3. e \in Seq(Marks) /\ Len(e) = Len(s) + Len(x)
    <3>1. /\ OfDues(s) \in Seq(Marks) /\ OfDues(x) \in Seq(Marks)
          /\ Len(OfDues(s)) = Len(s) /\ Len(OfDues(x)) = Len(x)
      BY <1>1
    <3>2. \A a, b \in Seq(Marks) : a \o b \in Seq(Marks) /\ Len(a \o b) = Len(a) + Len(b)
      OBVIOUS
    <3>3. QED
      BY <3>1, <3>2
  <2>4. ASSUME NEW i \in 1 .. Len(s) + Len(x) PROVE c[i] = e[i]
    <3> i \in DOMAIN (s \o x)
      BY <2>1
    <3>1. /\ \A k \in DOMAIN s : (s \o x)[k] = s[k]
          /\ \A k \in DOMAIN x : (s \o x)[Len(s) + k] = x[k]
          /\ i \in DOMAIN s \/ \E k \in DOMAIN x : i = Len(s) + k
      <4> HIDE DEF c, e
      <4>1. /\ \A k \in DOMAIN s : (s \o x)[k] = s[k]
            /\ \A k \in DOMAIN x : (s \o x)[Len(s) + k] = x[k]
        BY ConcatPlaces
      <4>2. i \in DOMAIN s \/ \E k \in DOMAIN x : i = Len(s) + k
        BY ConcatPlaces
      <4>3. QED
        BY <4>1, <4>2
    <3>2. /\ \A k \in DOMAIN s : e[k] = s[k].token
          /\ \A k \in DOMAIN x : e[Len(s) + k] = x[k].token
      <4>1. /\ OfDues(s) \in Seq(Marks) /\ OfDues(x) \in Seq(Marks)
            /\ DOMAIN OfDues(s) = DOMAIN s /\ DOMAIN OfDues(x) = DOMAIN x
            /\ Len(OfDues(s)) = Len(s)
        BY <1>1
      <4>2. /\ \A k \in DOMAIN OfDues(s) : e[k] = OfDues(s)[k]
            /\ \A k \in DOMAIN OfDues(x) : e[Len(OfDues(s)) + k] = OfDues(x)[k]
        BY <4>1, ConcatPlaces
      <4>3. QED
        BY <1>1, <4>1, <4>2
    <3>3. c[i] = (s \o x)[i].token
      BY <1>1, <2>1, <3>1
    <3>4. QED
      BY <3>1, <3>2, <3>3
  <2> HIDE DEF c, e
  <2>5. c = e
    BY <2>2, <2>3, <2>4, SeqEqual
  <2>6. QED
    BY <2>5 DEF c, e
<1>3. QED
  BY <1>1, <1>2

LEMMA Tokened ==
    /\ \A d \in Due : d.token \in Tokens
    /\ \A p \in Placed : p.token \in Tokens
    /\ \A a \in Adopted : a.token \in Tokens
    /\ \A l \in Launch : l.token \in Tokens
BY DEF Due, Placed, Adopted, Launch, Tokens

LEMMA OfMessagesProperties ==
    ASSUME NEW s \in Seq(Message)
    PROVE  /\ OfMessages(s) \in Seq(Marks) /\ DOMAIN OfMessages(s) = DOMAIN s
           /\ \A m \in Message :
                 /\ m.op # "mirrored" => Thinner(OfMessages(Append(s, m)), OfMessages(s))
                 /\ m.op = "mirrored" => OfMessages(Append(s, m)) = Append(OfMessages(s), m.token)
<1>1. ASSUME NEW x \in Seq(Message)
      PROVE  /\ OfMessages(x) \in Seq(Marks) /\ DOMAIN OfMessages(x) = DOMAIN x
             /\ Len(OfMessages(x)) = Len(x)
  <2>1. /\ DOMAIN x = 1 .. Len(x) /\ Len(x) \in Nat
        /\ \A i \in DOMAIN x : x[i].op = "mirrored" => x[i].token \in Marks
    BY MessageFields DEF Marks
  <2>2. OfMessages(x) \in [1 .. Len(x) -> Marks]
    BY <2>1, Sizes DEF OfMessages, Marks, None
  <2>3. QED
    BY <2>1, <2>2
<1>2. ASSUME NEW m \in Message
      PROVE  /\ Append(s, m) \in Seq(Message) /\ DOMAIN s = 1 .. Len(s) /\ Len(s) \in Nat
             /\ Len(Append(s, m)) = Len(s) + 1 /\ DOMAIN Append(s, m) = 1 .. Len(s) + 1
             /\ \A i \in DOMAIN s : Append(s, m)[i] = s[i]
             /\ Append(s, m)[Len(s) + 1] = m
  OBVIOUS
<1>3. ASSUME NEW m \in Message, m.op # "mirrored"
      PROVE  Thinner(OfMessages(Append(s, m)), OfMessages(s))
  <2> DEFINE c == OfMessages(Append(s, m))
  <2>1. DOMAIN c = 1 .. Len(s) + 1 /\ c[Len(s) + 1] = None
    BY <1>2, <1>3 DEF OfMessages
  <2>2. \A i \in DOMAIN s : c[i] = OfMessages(s)[i]
    BY <1>2 DEF OfMessages
  <2>3. DOMAIN OfMessages(s) = DOMAIN s
    BY <1>1
  <2> HIDE DEF c
  <2>4. \A i \in DOMAIN c : c[i] # None => i \in DOMAIN s
    BY <1>2, <2>1
  <2>5. Thinner(c, OfMessages(s))
    BY <2>2, <2>3, <2>4 DEF Thinner
  <2>6. QED
    BY <2>5 DEF c
<1>4. ASSUME NEW m \in Message, m.op = "mirrored"
      PROVE  OfMessages(Append(s, m)) = Append(OfMessages(s), m.token)
  <2> DEFINE c == OfMessages(Append(s, m))
             e == Append(OfMessages(s), m.token)
  <2>1. m.token \in Marks
    BY <1>4, MessageFields DEF Marks
  <2>2. c \in Seq(Marks) /\ Len(c) = Len(s) + 1
    BY <1>1, <1>2
  <2>3. OfMessages(s) \in Seq(Marks) /\ Len(OfMessages(s)) = Len(s)
    BY <1>1
  <2>4. e \in Seq(Marks) /\ Len(e) = Len(s) + 1 /\ e[Len(s) + 1] = m.token
        /\ \A i \in 1 .. Len(s) : e[i] = OfMessages(s)[i]
    BY <2>1, <2>3, AppendProperties
  <2>5. c[Len(s) + 1] = m.token
    BY <1>2, <1>4 DEF OfMessages
  <2>6. \A i \in 1 .. Len(s) : c[i] = OfMessages(s)[i]
    BY <1>2 DEF OfMessages
  <2> HIDE DEF c, e
  <2>7. \A i \in 1 .. Len(s) + 1 : c[i] = e[i]
    BY <1>2, <2>4, <2>5, <2>6
  <2>8. c = e
    BY <2>2, <2>4, <2>7, SeqEqual
  <2>9. QED
    BY <2>8 DEF c, e
<1>5. QED
  BY <1>1, <1>3, <1>4

LEMMA OfJobsProperties ==
    ASSUME NEW s \in Seq(Job)
    PROVE  /\ OfJobs(s) \in Seq(Marks) /\ DOMAIN OfJobs(s) = DOMAIN s
           /\ s # <<>> => OfJobs(Tail(s)) = Tail(OfJobs(s)) /\ OfJobs(s) # <<>>
<1>1. ASSUME NEW x \in Seq(Job)
      PROVE  /\ OfJobs(x) \in Seq(Marks) /\ DOMAIN OfJobs(x) = DOMAIN x
             /\ Len(OfJobs(x)) = Len(x)
  <2>1. /\ DOMAIN x = 1 .. Len(x) /\ Len(x) \in Nat
        /\ \A i \in DOMAIN x : /\ x[i].op = "apply" => x[i].due.token \in Marks
                               /\ x[i].op = "ack" => x[i].token \in Marks
    BY JobFields DEF Marks, Due
  <2>2. OfJobs(x) \in [1 .. Len(x) -> Marks]
    BY <2>1, Sizes DEF OfJobs, Marks, None
  <2>3. QED
    BY <2>1, <2>2
<1>2. ASSUME s # <<>> PROVE OfJobs(Tail(s)) = Tail(OfJobs(s)) /\ OfJobs(s) # <<>>
  <2> DEFINE c == OfJobs(Tail(s))
             o == OfJobs(s)
             e == Tail(o)
  <2>1. /\ Tail(s) \in Seq(Job) /\ Len(s) \in Nat \ {0} /\ Len(Tail(s)) = Len(s) - 1
        /\ DOMAIN Tail(s) = 1 .. Len(s) - 1 /\ DOMAIN s = 1 .. Len(s)
        /\ \A i \in 1 .. Len(s) - 1 : Tail(s)[i] = s[i + 1]
    BY <1>2, HeadTailProperties, RangeTail
  <2>2. o \in Seq(Marks) /\ Len(o) = Len(s) /\ c \in Seq(Marks) /\ Len(c) = Len(s) - 1
    BY <1>1, <2>1
  <2>3. o # <<>>
    BY <2>1, <2>2
  <2>4. /\ e \in Seq(Marks) /\ Len(e) = Len(s) - 1
        /\ \A i \in 1 .. Len(s) - 1 : e[i] = o[i + 1]
    <3> HIDE DEF o
    <3>1. QED
      BY <2>1, <2>2, <2>3, HeadTailProperties, RangeTail
  <2>5. \A i \in 1 .. Len(s) - 1 : i \in DOMAIN Tail(s) /\ i + 1 \in DOMAIN s
    BY <2>1
  <2>6. \A i \in 1 .. Len(s) - 1 : c[i] = o[i + 1]
    BY <2>1, <2>5 DEF OfJobs
  <2> HIDE DEF c, e, o
  <2>7. c = e
    BY <2>1, <2>2, <2>4, <2>6, SeqEqual
  <2>8. QED
    BY <2>3, <2>7 DEF c, e, o
<1>3. QED
  BY <1>1, <1>2

\* The ranks when some launches that have none get the next ones, in order.
NewRank(rank, batch, n) ==
    [t \in Tokens |-> IF \E i \in DOMAIN batch : batch[i].token = t
                      THEN n + (CHOOSE i \in DOMAIN batch : batch[i].token = t)
                      ELSE rank[t]]

LEMMA NewRankProperties ==
    ASSUME NEW n \in Nat, NEW rank \in [Tokens -> 0 .. n], NEW batch \in Seq(Launch),
           \A i, j \in DOMAIN batch : batch[i].token = batch[j].token => i = j
    PROVE  /\ NewRank(rank, batch, n) \in [Tokens -> 0 .. n + Len(batch)]
           /\ n + Len(batch) \in Nat
           /\ \A i \in DOMAIN batch : NewRank(rank, batch, n)[batch[i].token] = n + i
           /\ \A t \in Tokens : (\A i \in DOMAIN batch : batch[i].token # t) =>
                 NewRank(rank, batch, n)[t] = rank[t] /\ rank[t] \in 0 .. n
<1> DEFINE r == NewRank(rank, batch, n)
<1>1. /\ Len(batch) \in Nat /\ DOMAIN batch = 1 .. Len(batch)
      /\ \A i \in DOMAIN batch : batch[i].token \in Tokens
  BY Tokened
<1>2. \A i \in DOMAIN batch : r[batch[i].token] = n + i
  <2>1. TAKE i \in DOMAIN batch
  <2> DEFINE k == CHOOSE k \in DOMAIN batch : batch[k].token = batch[i].token
  <2>2. k \in DOMAIN batch /\ batch[k].token = batch[i].token
    OBVIOUS
  <2>3. k = i
    BY <2>2
  <2>4. r[batch[i].token] = n + k
    BY <1>1, <2>1 DEF NewRank
  <2>5. QED
    BY <2>3, <2>4
<1>3. \A t \in Tokens : (\A i \in DOMAIN batch : batch[i].token # t) => r[t] = rank[t]
  BY DEF NewRank
<1>4. DOMAIN r = Tokens /\ r = [t \in Tokens |-> r[t]]
  BY DEF NewRank
<1>5. ASSUME NEW t \in Tokens PROVE r[t] \in 0 .. n + Len(batch)
  <2>1. CASE \E i \in DOMAIN batch : batch[i].token = t
    <3>1. PICK i \in DOMAIN batch : batch[i].token = t
      BY <2>1
    <3>2. r[t] = n + i /\ i \in 1 .. Len(batch)
      BY <1>1, <1>2, <3>1
    <3>3. QED
      BY <1>1, <3>2
  <2>2. CASE ~\E i \in DOMAIN batch : batch[i].token = t
    <3>1. r[t] = rank[t] /\ rank[t] \in 0 .. n
      BY <1>3, <2>2
    <3>2. QED
      BY <1>1, <3>1
  <2>3. QED
    BY <2>1, <2>2
<1> HIDE DEF r
<1>6. r \in [Tokens -> 0 .. n + Len(batch)]
  BY <1>4, <1>5
<1>7. QED
  BY <1>1, <1>2, <1>3, <1>6 DEF r

-----------------------------------------------------------------------------
(* Where a launch has been                                                 *)

\* Receiving a request only takes from what is installed, adopted and delayed.
LEMMA ReceiveThins ==
    ASSUME TypeInv, Receive
    PROVE  /\ Within(installed', installed) /\ Within(adopted', adopted)
           /\ Within(backlog', backlog)
<1>1. /\ installed \in Seq(Placed) /\ adopted \in Seq(Adopted) /\ backlog \in Seq(Due)
  BY DEF TypeInv, LaunchTypes
<1>2. \A set : /\ Within(Kept(installed, set), installed)
               /\ Within(Kept(adopted, set), adopted)
               /\ Within(Kept(backlog, set), backlog)
  BY <1>1, KeptWithin
<1>3. PICK m : m = Head(requests)
  OBVIOUS
<1>4. CASE ReceiveSchedule(m.req)
  BY <1>4, WithinItself DEF ReceiveSchedule
<1>5. CASE ReceiveCancelToken(m.token)
  BY <1>2, <1>5 DEF ReceiveCancelToken, Dropped
<1>6. CASE ReceiveCancelOwner(m.owner)
  BY <1>2, <1>6 DEF ReceiveCancelOwner, Dropped
<1>7. CASE ReceiveCancelAll
  BY <1>7, NothingWithin DEF ReceiveCancelAll
<1>8. CASE ReceiveMirrored(m.token)
  BY <1>2, <1>8, WithinItself DEF ReceiveMirrored, Dropped
<1>9. QED
  BY <1>3, <1>4, <1>5, <1>6, <1>7, <1>8 DEF Receive

LEMMA SettleThins ==
    ASSUME TypeInv, SettleStopped \/ SettlePlaying
    PROVE  /\ Within(adopted', adopted) /\ installed' \in {installed, <<>>}
           /\ Within(installed', installed)
<1>1. adopted \in Seq(Adopted) /\ Len(adopted) \in 0 .. Len(adopted)
  BY DEF TypeInv, LaunchTypes
<1>2. \/ adopted' = <<>> \/ adopted' = adopted
      \/ Adopts /\ adopted' = SubSeq(adopted, Min(Adoption(base.pattern)) + 1, Len(adopted))
  BY DEF SettleStopped, SettlePlaying
<1>3. ASSUME Adopts
      PROVE  Within(SubSeq(adopted, Min(Adoption(base.pattern)) + 1, Len(adopted)), adopted)
  <2> DEFINE places == Adoption(base.pattern)
  <2>1. places \subseteq Nat /\ places # {}
    BY <1>1, <1>3 DEF Adoption, Adopts
  <2> HIDE DEF places
  <2>2. Min(places) \in Nat
    BY <2>1, MinProperties
  <2>3. Min(places) + 1 \in Nat \ {0}
    BY <2>2
  <2>4. QED
    BY <1>1, <2>3, PartWithin DEF places
<1>4. Within(adopted', adopted)
  BY <1>2, <1>3, NothingWithin, WithinItself
<1>5. installed' \in {installed, <<>>}
  BY ReportMeans DEF SettleStopped, SettlePlaying
<1>6. QED
  BY <1>4, <1>5, NothingWithin, WithinItself

AdoptionsOf(now) == [i \in DOMAIN now |-> [token |-> now[i].token, pattern |-> now[i].scene]]

LEMMA AdoptionsOfProperties ==
    ASSUME NEW now \in Seq(Launch)
    PROVE  /\ AdoptionsOf(now) \in Seq(Adopted) /\ DOMAIN AdoptionsOf(now) = DOMAIN now
           /\ \A i \in DOMAIN now : /\ AdoptionsOf(now)[i].token = now[i].token
                                    /\ AdoptionsOf(now)[i].pattern = now[i].scene
           /\ OfDues(AdoptionsOf(now)) = OfDues(now)
<1>1. DOMAIN now = 1 .. Len(now) /\ Len(now) \in Nat /\ \A i \in DOMAIN now : now[i] \in Launch
  OBVIOUS
<1>2. \A l \in Launch : [token |-> l.token, pattern |-> l.scene] \in Adopted
  BY DEF Launch, Adopted
<1>3. AdoptionsOf(now) \in [1 .. Len(now) -> Adopted]
  BY <1>1, <1>2 DEF AdoptionsOf
<1>4. AdoptionsOf(now) \in Seq(Adopted)
  BY <1>1, <1>3
<1>5. QED
  BY <1>1, <1>4 DEF AdoptionsOf, OfDues

\* What a chunk adopts: the scenes of the launches it installs.
LEMMA ChunkAdopts ==
    ASSUME TypeInv, ScheduleChunk
    PROVE  /\ Scenic \in Seq(Launch) /\ Within(Scenic, Arrived)
           /\ Range(Scenic) = {l \in Range(Arrived) : Whole(l.owner)}
           /\ Adoptions = adopted \o AdoptionsOf(Scenic) /\ Adoptions \in Seq(Adopted)
           /\ Within(adopted', Adoptions)
           /\ ~forgot' => adopted' = Adoptions
<1>1. Arrived \in Seq(Launch)
  BY ArrivedProperties
<1> DEFINE whole == {l \in Range(Arrived) : Whole(l.owner)}
<1>2. /\ Scenic = Kept(Arrived, whole) /\ whole \subseteq Range(Arrived)
      /\ Scenic \in Seq(Launch) /\ Within(Scenic, Arrived)
      /\ Range(Scenic) = Range(Arrived) \cap whole
  <2>1. Scenic = Kept(Arrived, whole)
    BY DEF Scenic
  <2>2. whole \subseteq Range(Arrived)
    OBVIOUS
  <2> HIDE DEF whole
  <2>3. QED
    BY <1>1, <2>1, <2>2, KeptProperties, KeptWithin
<1>3. adopted \in Seq(Adopted) /\ Adoptions = adopted \o AdoptionsOf(Scenic)
      /\ AdoptionsOf(Scenic) \in Seq(Adopted)
  BY <1>2, AdoptionsOfProperties DEF TypeInv, LaunchTypes, Adoptions, AdoptionsOf
<1>4. Adoptions \in Seq(Adopted)
  BY <1>3, ConcatTypes
<1> DEFINE n == Len(Adoptions)
           start == Max({0, n - MaxAdopted}) + 1
<1>5. n \in Nat /\ n \in 0 .. n
  BY <1>4
<1>6. start \in Nat \ {0} /\ (n <= MaxAdopted => start = 1)
  <2>1. \A x \in Int : Max({0, x}) \in {0, x} /\ Max({0, x}) >= 0 /\ Max({0, x}) >= x
    BY DEF Max
  <2>2. n - MaxAdopted \in Int /\ MaxAdopted = 8
    BY <1>5 DEF MaxAdopted
  <2> DEFINE x == n - MaxAdopted
  <2>3. Max({0, x}) \in {0, x} /\ Max({0, x}) >= 0 /\ Max({0, x}) >= x
    BY <2>1, <2>2
  <2>4. QED
    BY <1>5, <2>2, <2>3
<1>7. adopted' = SubSeq(Adoptions, start, n) /\ forgot' = (forgot \/ n > MaxAdopted)
  BY ChunkMeans
<1> HIDE DEF start
<1>8. Within(adopted', Adoptions)
  BY <1>4, <1>5, <1>6, <1>7, PartWithin
<1>9. ASSUME ~forgot' PROVE adopted' = Adoptions
  <2>1. n <= MaxAdopted
    <3>1. ~(n > MaxAdopted)
      BY <1>7, <1>9
    <3>2. QED
      BY <1>5, <3>1 DEF MaxAdopted
  <2>2. adopted' = SubSeq(Adoptions, 1, n)
    BY <1>6, <1>7, <2>1
  <2>3. SubSeq(Adoptions, 1, n) = Adoptions
    BY <1>4, SubSeqFull
  <2>4. QED
    BY <2>2, <2>3
<1>10. QED
  BY <1>2, <1>3, <1>4, <1>8, <1>9

\* Only what the handler acknowledges is told to be mirrored.
LEMMA ControlMirrors ==
    ASSUME TypeInv, TokenInv, Control \/ DrainDues
    PROVE  \A m \in Range(requests') :
              m.op = "mirrored" => m \in Range(requests) \/ Handling(m.token)
<1>1. /\ work \in Seq(Job) /\ requests \in Seq(Message) /\ published \in Snapshot
  BY DEF TypeInv, ControlTypes, ChannelTypes
<1>2. CASE requests' = requests
  BY <1>2
<1>3. ASSUME NEW m \in Message, requests' = Append(requests, m),
             m.op = "mirrored" => Handling(m.token)
      PROVE  \A x \in Range(requests') :
                x.op = "mirrored" => x \in Range(requests) \/ Handling(x.token)
  <2>1. Range(requests') = Range(requests) \cup {m}
    BY <1>1, <1>3, RangeAppend
  <2>2. QED
    BY <1>3, <2>1
<1>4. ASSUME NEW req \in Request, Submitted(req)
      PROVE  requests' = requests \/ \E m \in Message : /\ requests' = Append(requests, m)
                                                        /\ m.op # "mirrored"
  <2> DEFINE m == [op |-> "schedule", req |-> req]
  <2>1. m \in Message /\ m.op # "mirrored"
    BY DEF Message
  <2>2. requests' \in {requests, Append(requests, m)}
    BY <1>4 DEF Submitted, Send
  <2> HIDE DEF m
  <2>3. QED
    BY <2>1, <2>2
<1>5. ASSUME NEW o \in Owners, NEW s \in Scenes, Click(o, s)
      PROVE  requests' = requests \/ \E m \in Message : /\ requests' = Append(requests, m)
                                                        /\ m.op # "mirrored"
  <2> DEFINE click == [token |-> NextToken, owner |-> o, scene |-> s,
                       quantized |-> TRUE, snap |-> published.playing]
  <2>1. NextToken \in Tokens
    BY <1>5, NextTokenIsUnused DEF TokenInv, Click
  <2>2. click \in Request
    BY <1>1, <2>1 DEF Request, Tokens, Snapshot
  <2>3. Submitted(click)
    BY <1>5 DEF Click
  <2> HIDE DEF click
  <2>4. QED
    BY <1>4, <2>2, <2>3
<1>6. ASSUME NEW o \in Owners, CancelOwner(o)
      PROVE  requests' = requests \/ \E m \in Message : /\ requests' = Append(requests, m)
                                                        /\ m.op # "mirrored"
  <2> DEFINE m == [op |-> "cancelOwner", owner |-> o]
  <2>1. m \in Message /\ m.op # "mirrored"
    BY DEF Message
  <2>2. requests' \in {requests, Append(requests, m)}
    BY <1>6 DEF CancelOwner, Send
  <2> HIDE DEF m
  <2>3. QED
    BY <2>1, <2>2
<1>7. ASSUME NEW s \in Scenes, LiveLaunch(s)
      PROVE  requests' = requests \/ \E m \in Message : /\ requests' = Append(requests, m)
                                                        /\ m.op # "mirrored"
  <2> DEFINE m == [op |-> "cancelAll"]
  <2>1. m \in Message /\ m.op # "mirrored"
    BY DEF Message
  <2>2. requests' \in {requests, Append(requests, m)}
    BY <1>7 DEF LiveLaunch, Send
  <2> HIDE DEF m
  <2>3. QED
    BY <2>1, <2>2
<1>8. ASSUME Submit
      PROVE  requests' = requests \/ \E m \in Message : /\ requests' = Append(requests, m)
                                                        /\ m.op # "mirrored"
  <2>1. PICK req \in Request : req = Head(work).req
    BY <1>8, SubmitMeans
  <2>2. Submitted(req)
    BY <1>8, <2>1, SubmitMeans
  <2>3. QED
    BY <1>4, <2>2
<1>9. CASE Acknowledge
  <2> DEFINE m == [op |-> IF Head(work).op = "ack" THEN "mirrored" ELSE "cancel",
                   token |-> Head(work).token]
  <2>1. /\ work # <<>> /\ Head(work).op \in {"ack", "forget"}
        /\ requests' \in {requests, Append(requests, m)}
    BY <1>9 DEF Acknowledge, Send
  <2>2. Head(work) \in Job /\ Head(work) \in Range(work)
    BY <1>1, <2>1, RangeTail
  <2>3. m \in Message /\ m.token = Head(work).token
    BY <2>1, <2>2, JobFields DEF Message
  <2>4. Handling(m.token)
    BY <2>1, <2>2, <2>3 DEF Handling, JobOf
  <2> HIDE DEF m
  <2>5. QED
    BY <1>2, <1>3, <2>1, <2>3, <2>4
<1>10. CASE Apply \/ ApplyFails \/ TogglePlay \/ DrainDues
  BY <1>2, <1>10 DEF Apply, ApplyFails, TogglePlay, DrainDues
<1>11. QED
  BY <1>2, <1>3, <1>5, <1>6, <1>7, <1>8, <1>9, <1>10 DEF Control

LEMMA InitPlaces == Init => PlacesInv
<1>1. SUFFICES ASSUME Init PROVE PlacesInv
  OBVIOUS
<1>2. requests = <<>> /\ adopted = <<>> /\ owned = [o \in Owners |-> None]
      /\ stage = "load" /\ last = Observed
  BY <1>1 DEF Init
<1>3. Range(requests) = {} /\ Range(adopted) = {}
  BY <1>2, RangeFew
<1>4. PastInv
  BY <1>3 DEF PastInv, Past
<1>5. OwnedInv
  BY <1>2 DEF OwnedInv
<1>6. LoadedInv
  BY <1>2 DEF LoadedInv, Observed
<1>7. QED
  BY <1>4, <1>5, <1>6 DEF PlacesInv

\* A launch that is early was early, or not born.
LEMMA ControlPast ==
    ASSUME TypeInv, TokenInv, LiveAll, ReleaseInv, PlacesInv, Control \/ DrainDues,
           Acknowledge => HasRoom, UNCHANGED launches, \A t \in Tokens : Forward(t)
    PROVE  PastInv'
<1>1. HandlesWell /\ UNCHANGED <<pending, boundary, adopted>>
  BY ControlHandles DEF launches
<1>2. \A m \in Range(requests') : m.op = "mirrored" => m \in Range(requests) \/ Handling(m.token)
  BY ControlMirrors
<1>3. requests \in Seq(Message)
  BY DEF TypeInv, ChannelTypes
<1>4. SUFFICES ASSUME NEW t \in Tokens, Past(t)' PROVE Born(t)' /\ ~Early(t)'
  BY DEF PastInv
<1>5. Born(t) /\ ~Early(t)
  <2>1. CASE Past(t)
    BY <2>1 DEF PlacesInv, PastInv
  <2>2. CASE Handling(t)
    <3>1. Late(t)
      BY <2>2 DEF Late
    <3>2. QED
      BY <3>1, AllBorn DEF ReleaseInv, EarlyInv
  <2>3. QED
    BY <1>1, <1>2, <1>4, <2>1, <2>2 DEF Past
<1>6. AskedFor(t)' => AskedFor(t) \/ ~Born(t)
  <2>1. CASE requests' = requests
    BY <2>1 DEF AskedFor, At
  <2>2. ASSUME NEW m \in Message, requests' = Append(requests, m),
               m.op = "schedule" => ~Born(m.req.token)
        PROVE  AskedFor(t)' => AskedFor(t) \/ ~Born(t)
    <3>1. SUFFICES ASSUME AskedFor(t)' PROVE AskedFor(t) \/ ~Born(t)
      OBVIOUS
    <3>2. PICK i \in DOMAIN requests' : At(i, t)'
      BY <3>1 DEF AskedFor
    <3>3. \/ i \in DOMAIN requests /\ requests'[i] = requests[i]
          \/ requests'[i] = m
      BY <2>2, SentRequests
    <3>4. QED
      BY <2>2, <3>2, <3>3 DEF AskedFor, At
  <2>3. QED
    BY <1>1, <2>1, <2>2 DEF HandlesWell
<1>7. Early(t)' => Early(t) \/ ~Born(t)
  BY <1>1, <1>6 DEF Early, WaitingFor
<1>8. Born(t)'
  BY <1>5 DEF Forward
<1>9. QED
  BY <1>5, <1>7, <1>8

\* Receiving makes nothing early that was not.
LEMMA ReceiveEarly ==
    ASSUME TypeInv, Receive
    PROVE  /\ \A t \in Tokens : Early(t)' => Early(t)
           /\ Range(requests') \subseteq Range(requests)
<1>1. PICK m : m = Head(requests)
  OBVIOUS
<1>2. /\ 1 \in DOMAIN requests
      /\ \A i \in DOMAIN requests' : i + 1 \in DOMAIN requests /\ requests'[i] = requests[i + 1]
      /\ \A t \in Tokens, o \in Owners : Queued(t, o)' => Queued(t, o) \/ AskedAt(1, t, o)
  BY <1>1, ReceiveMoves
<1>3. Range(requests') \subseteq Range(requests)
  BY <1>2 DEF Range
<1>4. ASSUME NEW t \in Tokens, AskedFor(t)' PROVE AskedFor(t)
  BY <1>2, <1>4 DEF AskedFor, At
<1>5. ASSUME NEW t \in Tokens, WaitingFor(t)' PROVE Early(t)
  <2>1. PICK l \in pending' \cup boundary' : l.token = t
    BY <1>5 DEF WaitingFor
  <2>2. PICK o \in Owners : o = l.owner
    <3>1. pending' \cup boundary' \subseteq Launch
      BY ReceiveKeepsTypes DEF LaunchTypes
    <3>2. QED
      BY <2>1, <3>1 DEF Launch
  <2>3. Queued(t, o)'
    BY <2>1, <2>2 DEF Queued
  <2>4. Queued(t, o) \/ AskedAt(1, t, o)
    BY <1>2, <2>3
  <2>5. QED
    BY <1>2, <2>4 DEF Queued, AskedAt, Early, WaitingFor, AskedFor, At
<1>6. QED
  BY <1>3, <1>4, <1>5 DEF Early

\* What arrives is no longer early.
LEMMA ChunkEarly ==
    ASSUME TypeInv, ReleaseInv, ScheduleChunk
    PROVE  \A t \in Tokens : /\ Early(t)' => Early(t)
                             /\ (\E l \in Range(Arrived) : l.token = t) => Early(t) /\ ~Early(t)'
<1>1. boundary' = boundary \ Range(Arrived) /\ UNCHANGED <<pending, requests, dues>>
  BY ChunkMeans DEF Waiting
<1>2. Range(Arrived) \subseteq boundary
  BY ArrivedProperties
<1>3. \A l, n \in pending \cup boundary : l.token = n.token => l = n
  BY DEF ReleaseInv, OnceInv
<1>4. pending \cap boundary = {}
  BY DEF ReleaseInv, OnceInv
<1>5. TAKE t \in Tokens
<1>6. Early(t)' => Early(t)
  BY <1>1 DEF Early, AskedFor, At, WaitingFor
<1>7. ASSUME NEW l \in Range(Arrived), l.token = t PROVE Early(t) /\ ~Early(t)'
  <2>1. WaitingFor(t)
    BY <1>2, <1>7 DEF WaitingFor
  <2>2. ~AskedFor(t)
    BY <2>1 DEF ReleaseInv, OnceInv
  <2>3. ~WaitingFor(t)'
    <3>1. ASSUME NEW n \in pending' \cup boundary', n.token = t PROVE FALSE
      <4>1. n \in pending \cup boundary /\ l \in pending \cup boundary
        BY <1>1, <1>2, <1>7, <3>1
      <4>2. n = l
        BY <1>3, <1>7, <3>1, <4>1
      <4>3. QED
        BY <1>1, <1>2, <1>4, <1>7, <3>1, <4>2
    <3>2. QED
      BY <3>1 DEF WaitingFor
  <2>4. QED
    BY <1>1, <2>1, <2>2, <2>3 DEF Early, AskedFor, At
<1>8. QED
  BY <1>6, <1>7

LEMMA ReportEarly ==
    ASSUME TypeInv, ReleaseInv, Report, requests' = requests
    PROVE  \A t \in Tokens : /\ Early(t)' => Early(t)
                             /\ (\E l \in Ready : l.token = t) => Early(t) /\ ~Early(t)'
<1>1. /\ \A l \in pending' \cup boundary', n \in Ready : l.token # n.token
      /\ \A l \in pending' \cup boundary' \cup Ready :
            \E n \in pending \cup boundary : l.token = n.token
  BY ReportSplits DEF ReleaseInv
<1>2. \A t \in Tokens : WaitingFor(t)' => WaitingFor(t)
  BY <1>1 DEF WaitingFor
<1>3. \A t \in Tokens : AskedFor(t)' <=> AskedFor(t)
  BY DEF AskedFor, At
<1>4. \A t \in Tokens : (\E l \in Ready : l.token = t) => WaitingFor(t) /\ ~WaitingFor(t)'
  BY <1>1 DEF WaitingFor
<1>5. QED
  BY <1>2, <1>3, <1>4 DEF Early, ReleaseInv, OnceInv

LEMMA SchedulerPast ==
    ASSUME TypeInv, TokenInv, LiveAll, ReleaseInv, PlacesInv, Scheduler, UNCHANGED control
    PROVE  PastInv'
<1>1. \A t \in Tokens : Born(t)' <=> Born(t)
  BY DEF control, Born, Submitting
<1>2. \A t \in Tokens : Past(t) => Born(t) /\ ~Early(t)
  BY DEF PlacesInv, PastInv
<1>3. CASE Load \/ PassDone
  <2>1. UNCHANGED <<requests, pending, boundary, adopted>>
    BY <1>3 DEF Load, PassDone, launches
  <2>2. \A t \in Tokens : (Past(t)' <=> Past(t)) /\ (Early(t)' <=> Early(t))
    BY <2>1 DEF Past, Early, AskedFor, At, WaitingFor
  <2>3. QED
    BY <1>1, <1>2, <2>2 DEF PastInv
<1>4. CASE Receive
  <2>1. Range(requests') \subseteq Range(requests) /\ Range(adopted') \subseteq Range(adopted)
    BY <1>4, ReceiveEarly, ReceiveThins, WithinRange
  <2>2. \A t \in Tokens : Early(t)' => Early(t)
    BY <1>4, ReceiveEarly
  <2>3. \A t \in Tokens : Past(t)' => Past(t)
    BY <2>1 DEF Past
  <2>4. QED
    BY <1>1, <1>2, <2>2, <2>3 DEF PastInv
<1>5. CASE SettleStopped \/ SettlePlaying
  <2>1. requests' = requests /\ Report
    BY <1>5 DEF SettleStopped, SettlePlaying
  <2>2. Range(adopted') \subseteq Range(adopted)
    BY <1>5, SettleThins, WithinRange
  <2>3. \A t \in Tokens : Early(t)' => Early(t)
    BY <2>1, ReportEarly
  <2>4. \A t \in Tokens : Past(t)' => Past(t)
    BY <2>1, <2>2 DEF Past
  <2>5. QED
    BY <1>1, <1>2, <2>3, <2>4 DEF PastInv
<1>6. CASE ScheduleChunk
  <2>1. requests' = requests
    BY <1>6, ChunkMeans
  <2>2. \A a \in Range(adopted') : a \in Range(adopted) \/ \E l \in Range(Arrived) : l.token = a.token
    <3>1. /\ Scenic \in Seq(Launch) /\ Within(Scenic, Arrived)
          /\ Adoptions = adopted \o AdoptionsOf(Scenic) /\ Within(adopted', Adoptions)
      BY <1>6, ChunkAdopts
    <3>2. Range(adopted') \subseteq Range(Adoptions) /\ Range(Scenic) \subseteq Range(Arrived)
      BY <3>1, WithinRange
    <3>3. /\ AdoptionsOf(Scenic) \in Seq(Adopted)
          /\ \A a \in Range(AdoptionsOf(Scenic)) : \E l \in Range(Scenic) : l.token = a.token
      BY <3>1, AdoptionsOfProperties DEF Range
    <3>4. Range(Adoptions) = Range(adopted) \cup Range(AdoptionsOf(Scenic))
      BY <3>1, <3>3, RangeConcat DEF TypeInv, LaunchTypes
    <3>5. QED
      BY <3>2, <3>3, <3>4
  <2>3. \A t \in Tokens : /\ Early(t)' => Early(t)
                          /\ (\E l \in Range(Arrived) : l.token = t) => Early(t) /\ ~Early(t)'
    BY <1>6, ChunkEarly
  <2>4. \A t \in Tokens : Past(t)' => Past(t) \/ \E l \in Range(Arrived) : l.token = t
    BY <2>1, <2>2 DEF Past
  <2>5. \A t \in Tokens : Early(t) => Born(t)
    BY AllBorn
  <2>6. QED
    BY <1>1, <1>2, <2>3, <2>4, <2>5 DEF PastInv
<1>7. QED
  BY <1>3, <1>4, <1>5, <1>6 DEF Scheduler

\* A launch that an owner is known to have waits.
LEMMA ReceiveOwned ==
    ASSUME TypeInv, ReleaseInv, OwnedInv, Receive PROVE OwnedInv'
<1>1. /\ owned \in [Owners -> 0 .. MaxToken] /\ requests \in Seq(Message)
      /\ \A l, n \in pending \cup boundary : l.token = n.token => l = n
  BY DEF TypeInv, LaunchTypes, ChannelTypes, ReleaseInv, OnceInv
<1>2. PICK m \in Message : m = Head(requests)
  BY <1>1, RangeTail DEF Receive
<1>3. \A o \in Owners : owned[o] # None =>
         \E l \in pending \cup boundary : l.token = owned[o] /\ l.owner = o
  BY DEF OwnedInv
<1>4. \A o, p \in Owners : owned[o] # None /\ owned[o] = owned[p] => o = p
  BY <1>1, <1>3
<1>5. CASE m.op = "schedule" /\ ReceiveSchedule(m.req)
  <2> DEFINE replaced == {owned[m.req.owner]} \ {None}
             own == base.playing /\ m.req.snap
             launch == [token |-> m.req.token, owner |-> m.req.owner, scene |-> m.req.scene,
                        deadline |-> Deadline(IF own THEN frontier ELSE rendered,
                                              base.playing, m.req.quantized)]
  <2>1. /\ pending' = Without(pending, replaced) \cup (IF own THEN {} ELSE {launch})
        /\ boundary' = Without(boundary, replaced) \cup (IF own THEN {launch} ELSE {})
        /\ owned' = [owned EXCEPT ![m.req.owner] = m.req.token]
    BY <1>5 DEF ReceiveSchedule
  <2>2. launch.token = m.req.token /\ launch.owner = m.req.owner
    OBVIOUS
  <2>3. m.req.owner \in Owners
    BY <1>2, <1>5, MessageFields DEF Request
  <2> HIDE DEF launch, own
  <2>4. launch \in pending' \cup boundary'
    BY <2>1
  <2>5. ASSUME NEW o \in Owners, owned'[o] # None
        PROVE  \E l \in pending' \cup boundary' : l.token = owned'[o] /\ l.owner = o
    <3>1. CASE o = m.req.owner
      <4>1. owned'[o] = m.req.token
        BY <1>1, <2>1, <2>3, <3>1
      <4>2. QED
        BY <2>2, <2>4, <3>1, <4>1
    <3>2. CASE o # m.req.owner
      <4>1. owned'[o] = owned[o]
        BY <1>1, <2>1, <3>2
      <4>2. PICK l \in pending \cup boundary : l.token = owned[o] /\ l.owner = o
        BY <1>3, <2>5, <4>1
      <4>3. l.token \notin replaced
        BY <1>4, <2>3, <2>5, <3>2, <4>1, <4>2
      <4>4. l \in pending' \cup boundary'
        BY <2>1, <4>2, <4>3 DEF Without
      <4>5. QED
        BY <4>1, <4>2, <4>4
    <3>3. QED
      BY <3>1, <3>2
  <2>6. QED
    BY <2>5 DEF OwnedInv
<1>6. CASE m.op = "cancel" /\ ReceiveCancelToken(m.token)
  <2>1. /\ pending' = Without(pending, {m.token}) /\ boundary' = Without(boundary, {m.token})
        /\ owned' = [o \in Owners |->
                       IF owned[o] = m.token /\ \E l \in pending \cup boundary : l.token = m.token
                       THEN None ELSE owned[o]]
    BY <1>6 DEF ReceiveCancelToken
  <2>2. ASSUME NEW o \in Owners, owned'[o] # None
        PROVE  \E l \in pending' \cup boundary' : l.token = owned'[o] /\ l.owner = o
    <3>1. owned'[o] = owned[o]
      BY <2>1, <2>2
    <3>2. PICK l \in pending \cup boundary : l.token = owned[o] /\ l.owner = o
      BY <1>3, <2>2, <3>1
    <3>3. l.token # m.token
      BY <2>1, <2>2, <3>1, <3>2
    <3>4. l \in pending' \cup boundary'
      BY <2>1, <3>2, <3>3 DEF Without
    <3>5. QED
      BY <3>1, <3>2, <3>4
  <2>3. QED
    BY <2>2 DEF OwnedInv
<1>7. CASE m.op = "cancelOwner" /\ ReceiveCancelOwner(m.owner)
  <2> DEFINE token == {owned[m.owner]} \ {None}
  <2>1. /\ owned' = [owned EXCEPT ![m.owner] = None] /\ pending' = Without(pending, token)
        /\ boundary' = {l \in boundary : l.token \notin token /\ l.owner # m.owner}
    BY <1>7 DEF ReceiveCancelOwner
  <2>2. m.owner \in Owners
    BY <1>2, <1>7, MessageFields
  <2>3. ASSUME NEW o \in Owners, owned'[o] # None
        PROVE  \E l \in pending' \cup boundary' : l.token = owned'[o] /\ l.owner = o
    <3>1. o # m.owner /\ owned'[o] = owned[o]
      BY <1>1, <2>1, <2>2, <2>3
    <3>2. PICK l \in pending \cup boundary : l.token = owned[o] /\ l.owner = o
      BY <1>3, <2>3, <3>1
    <3>3. l.token \notin token
      BY <1>4, <2>2, <2>3, <3>1, <3>2
    <3>4. l \in pending' \cup boundary'
      BY <2>1, <3>1, <3>2, <3>3 DEF Without
    <3>5. QED
      BY <3>1, <3>2, <3>4
  <2>4. QED
    BY <2>3 DEF OwnedInv
<1>8. CASE m.op = "cancelAll" /\ ReceiveCancelAll
  BY <1>8 DEF ReceiveCancelAll, OwnedInv
<1>9. CASE m.op = "mirrored" /\ ReceiveMirrored(m.token)
  BY <1>3, <1>9 DEF ReceiveMirrored, OwnedInv
<1>10. QED
  BY <1>2, <1>5, <1>6, <1>7, <1>8, <1>9 DEF Receive

LEMMA SchedulerOwned ==
    ASSUME TypeInv, ReleaseInv, OwnedInv, Scheduler PROVE OwnedInv'
<1>1. /\ owned \in [Owners -> 0 .. MaxToken]
      /\ \A l, n \in pending \cup boundary : l.token = n.token => l = n
  BY DEF TypeInv, LaunchTypes, ReleaseInv, OnceInv
<1>2. \A o \in Owners : owned[o] # None =>
         \E l \in pending \cup boundary : l.token = owned[o] /\ l.owner = o
  BY DEF OwnedInv
<1>3. CASE Load \/ PassDone
  <2>1. UNCHANGED <<pending, boundary, owned>>
    BY <1>3 DEF Load, PassDone, launches
  <2>2. QED
    BY <1>2, <2>1 DEF OwnedInv
<1>4. CASE Receive
  BY <1>4, ReceiveOwned
<1>5. CASE SettleStopped \/ SettlePlaying
  <2>1. /\ pending' = (pending \cup Degraded) \ Ready
        /\ boundary' = IF base.playing THEN boundary ELSE {}
        /\ owned' = [o \in Owners |-> IF \E l \in Ready : l.token = owned[o]
                                      THEN None ELSE owned[o]]
    BY <1>5, ReportMeans DEF SettleStopped, SettlePlaying
  <2>2. ~base.playing => \A b \in boundary :
                            \E l \in Degraded : l.token = b.token /\ l.owner = b.owner
    BY DegradedProperties
  <2>3. ASSUME NEW o \in Owners, owned'[o] # None
        PROVE  \E l \in pending' \cup boundary' : l.token = owned'[o] /\ l.owner = o
    <3>1. owned'[o] = owned[o] /\ \A l \in Ready : l.token # owned[o]
      BY <2>1, <2>3
    <3>2. PICK l \in pending \cup boundary : l.token = owned[o] /\ l.owner = o
      BY <1>2, <2>3, <3>1
    <3>3. CASE l \in pending \/ base.playing
      BY <2>1, <3>1, <3>2, <3>3
    <3>4. CASE l \in boundary /\ ~base.playing
      <4>1. PICK n \in Degraded : n.token = l.token /\ n.owner = l.owner
        BY <2>2, <3>4
      <4>2. n \in pending'
        BY <2>1, <3>1, <3>2, <4>1
      <4>3. QED
        BY <3>1, <3>2, <4>1, <4>2
    <3>5. QED
      BY <3>2, <3>3, <3>4
  <2>4. QED
    BY <2>3 DEF OwnedInv
<1>6. CASE ScheduleChunk
  <2>1. /\ boundary' = boundary \ Range(Arrived) /\ pending' = pending
        /\ owned' = [o \in Owners |-> IF \E l \in Range(Arrived) : l.token = owned[o]
                                      THEN None ELSE owned[o]]
    BY <1>6, ChunkMeans DEF Waiting
  <2>2. ASSUME NEW o \in Owners, owned'[o] # None
        PROVE  \E l \in pending' \cup boundary' : l.token = owned'[o] /\ l.owner = o
    <3>1. owned'[o] = owned[o] /\ \A l \in Range(Arrived) : l.token # owned[o]
      BY <2>1, <2>2
    <3>2. PICK l \in pending \cup boundary : l.token = owned[o] /\ l.owner = o
      BY <1>2, <2>2, <3>1
    <3>3. l \in pending' \cup boundary'
      BY <2>1, <3>1, <3>2
    <3>4. QED
      BY <3>1, <3>2, <3>3
  <2>3. QED
    BY <2>2 DEF OwnedInv
<1>7. QED
  BY <1>3, <1>4, <1>5, <1>6 DEF Scheduler

LEMMA PlacesStep ==
    ASSUME TypeInv, TokenInv, LiveAll, ReleaseInv, PlacesInv, [Next]_vars,
           [Acknowledge => HasRoom]_vars
    PROVE  PlacesInv'
<1>1. CASE UNCHANGED <<fate, work, requests, launches, stage, base, last>>
  <2>1. UNCHANGED <<fate, work, requests, stage, base, last>>
    BY <1>1
  <2>2. UNCHANGED <<pending, boundary, owned, adopted>>
    BY <1>1 DEF launches
  <2>3. \A t \in Tokens : (Past(t)' <=> Past(t)) /\ (Early(t)' <=> Early(t)) /\ (Born(t)' <=> Born(t))
    BY <2>1, <2>2 DEF Past, Early, AskedFor, At, WaitingFor, Born, Submitting
  <2>4. PastInv'
    BY <2>3 DEF PlacesInv, PastInv
  <2>5. OwnedInv' /\ LoadedInv'
    BY <2>1, <2>2 DEF PlacesInv, OwnedInv, LoadedInv
  <2>6. QED
    BY <2>4, <2>5 DEF PlacesInv
<1>2. CASE UNCHANGED vars
  BY <1>1, <1>2 DEF vars, control
<1>3. CASE (Control \/ DrainDues) /\ UNCHANGED <<stage, base, last, clock, launches, histories>>
  <2>1. CASE Acknowledge /\ ~HasRoom
    BY <1>2, <2>1
  <2>2. CASE Acknowledge => HasRoom
    <3>1. \A t \in Tokens : Forward(t)
      BY <1>3, TokenStep
    <3>2. UNCHANGED <<launches, stage, base, last>>
      BY <1>3
    <3>3. PastInv'
      BY <1>3, <2>2, <3>1, <3>2, ControlPast
    <3>4. OwnedInv' /\ LoadedInv'
      BY <3>2 DEF PlacesInv, OwnedInv, LoadedInv, launches
    <3>5. QED
      BY <3>3, <3>4 DEF PlacesInv
  <2>3. QED
    BY <2>1, <2>2
<1>4. CASE Scheduler /\ UNCHANGED control
  <2>1. PastInv' /\ OwnedInv'
    BY <1>4, SchedulerPast, SchedulerOwned DEF PlacesInv
  <2>2. LoadedInv'
    <3>1. CASE Load
      BY <3>1 DEF Load, LoadedInv
    <3>2. CASE Receive
      BY <3>2 DEF Receive, LoadedInv
    <3>3. CASE SettleStopped \/ PassDone
      <4>1. last' = Observed /\ base' = base
        BY <3>3 DEF SettleStopped, PassDone
      <4>2. QED
        BY <4>1 DEF LoadedInv, Observed
    <3>4. CASE SettlePlaying
      BY <3>4 DEF SettlePlaying, LoadedInv
    <3>5. CASE ScheduleChunk
      BY <3>5, ChunkMeans DEF LoadedInv
    <3>6. QED
      BY <1>4, <3>1, <3>2, <3>3, <3>4, <3>5 DEF Scheduler
  <2>3. QED
    BY <2>1, <2>2 DEF PlacesInv
<1>5. CASE Render
  BY <1>1, <1>5 DEF Render, control
<1>6. QED
  BY <1>2, <1>3, <1>4, <1>5 DEF Next

-----------------------------------------------------------------------------
(* As long as nothing is disturbed                                         *)

LEMMA WipedStays ==
    ASSUME [Next]_vars, ~wiped' PROVE ~wiped /\ \A s \in Scenes : ~LiveLaunch(s)
<1>1. ASSUME NEW s \in Scenes, LiveLaunch(s) PROVE FALSE
  BY <1>1 DEF LiveLaunch
<1>2. ASSUME NEW o \in Owners, NEW s \in Scenes, Click(o, s) PROVE wiped' = wiped
  BY <1>2 DEF Click
<1>3. ASSUME NEW o \in Owners, CancelOwner(o) PROVE wiped' = wiped
  BY <1>3 DEF CancelOwner
<1>4. Submit \/ Acknowledge \/ TogglePlay => wiped' = wiped
  BY DEF Submit, Acknowledge, TogglePlay
<1>5. Apply \/ ApplyFails => wiped' = wiped
  BY DEF Apply, ApplyFails
<1>6. Control => wiped' = wiped
  BY <1>1, <1>2, <1>3, <1>4, <1>5 DEF Control
<1>7. DrainDues => wiped' = wiped
  BY DEF DrainDues
<1>8. UNCHANGED vars \/ UNCHANGED control \/ Render => wiped' = wiped
  BY DEF vars, control, Render
<1>9. QED
  BY <1>1, <1>6, <1>7, <1>8 DEF Next

\* The control thread asks for something, or toggles the transport.
Asks ==
    /\ work = <<>> /\ work' = <<>> /\ dues' = dues
    /\ published'.pattern = published.pattern /\ published'.content = published.content
    /\ \/ requests' = requests
       \/ \E m \in Message : /\ requests' = Append(requests, m)
                             /\ m.op \in {"schedule", "cancelOwner"}
    /\ \A t \in Tokens : fate'[t] # fate[t] => fate[t] \in {"unused", "valid"}

LEMMA ControlAsks ==
    ASSUME TypeInv, TokenInv, QuietInv, Control, \A s \in Scenes : ~LiveLaunch(s)
    PROVE  dues' = dues /\ (Asks \/ Apply \/ ApplyFails \/ Acknowledge)
<1>1. /\ work \in Seq(Job) /\ requests \in Seq(Message) /\ published \in Snapshot
      /\ dues' = dues /\ fate \in [1 .. MaxToken -> Fates]
  BY DEF TypeInv, ControlTypes, ChannelTypes, Control
<1>2. ~Submit
  <2>1. SUFFICES ASSUME Submit PROVE FALSE
    OBVIOUS
  <2>2. work # <<>> /\ Head(work).op = "submit"
    BY <2>1 DEF Submit
  <2>3. Head(work) \in Range(work)
    BY <1>1, <2>2, RangeTail
  <2>4. QED
    BY <2>2, <2>3 DEF QuietInv
<1>3. ASSUME NEW o \in Owners, NEW s \in Scenes, Click(o, s) PROVE Asks
  <2> DEFINE click == [token |-> NextToken, owner |-> o, scene |-> s,
                       quantized |-> TRUE, snap |-> published.playing]
             m == [op |-> "schedule", req |-> click]
  <2>1. NextToken \in Tokens /\ fate[NextToken] = "unused"
    BY <1>3, NextTokenIsUnused DEF TokenInv, Click
  <2>2. click \in Request /\ click.token = NextToken
    BY <1>1, <2>1 DEF Request, Tokens, Snapshot
  <2>3. m \in Message /\ m.op = "schedule"
    BY <2>2 DEF Message
  <2>4. Submitted(click) /\ UNCHANGED <<work, published>> /\ work = <<>>
    BY <1>3 DEF Click
  <2>5. requests' \in {requests, Append(requests, m)}
    BY <2>4 DEF Submitted, Send
  <2> HIDE DEF click, m
  <2>6. \A t \in Tokens : fate'[t] # fate[t] => fate[t] \in {"unused", "valid"}
    BY <2>1, <2>2, <2>4, SubmittedFates
  <2>7. QED
    BY <1>1, <2>3, <2>4, <2>5, <2>6 DEF Asks
<1>4. ASSUME NEW o \in Owners, CancelOwner(o) PROVE Asks
  <2> DEFINE m == [op |-> "cancelOwner", owner |-> o]
  <2>1. m \in Message /\ m.op = "cancelOwner"
    BY DEF Message
  <2>2. requests' \in {requests, Append(requests, m)} /\ work = <<>>
        /\ UNCHANGED <<work, published>>
    BY <1>4 DEF CancelOwner, Send
  <2> HIDE DEF m
  <2>3. \A t \in Tokens : fate'[t] # fate[t] => fate[t] = "valid"
    BY <1>1, <1>4, WithdrawnTypes DEF CancelOwner, Tokens
  <2>4. QED
    BY <1>1, <2>1, <2>2, <2>3 DEF Asks
<1>5. ASSUME TogglePlay PROVE Asks
  <2>1. /\ work = <<>> /\ work' = work /\ requests' = requests /\ fate' = fate
        /\ published' = [published EXCEPT !.playing = ~@, !.epoch = @ + 1]
    BY <1>5 DEF TogglePlay
  <2>2. published'.pattern = published.pattern /\ published'.content = published.content
    BY <1>1, <2>1 DEF Snapshot
  <2>3. QED
    BY <1>1, <2>1, <2>2 DEF Asks
<1>6. QED
  BY <1>1, <1>2, <1>3, <1>4, <1>5 DEF Control

\* What becomes of the jobs when the first is applied.
LEMMA ApplyJobs ==
    ASSUME TypeInv, Apply \/ ApplyFails
    PROVE  \E more \in Seq(Job) :
              /\ work' = more \o Tail(work)
              /\ \A i \in DOMAIN more : /\ more[i].op \in {"ack", "forget"}
                                        /\ more[i].token = Head(work).due.token
                                        /\ more[i].op = "ack" => i = 1
                                        /\ Apply => more[i].op = "ack"
<1> DEFINE d == Head(work).due
           ack == [op |-> "ack", token |-> d.token]
           forget == [op |-> "forget", token |-> d.token]
<1>1. /\ work \in Seq(Job) /\ work # <<>> /\ Head(work).op = "apply"
  BY DEF TypeInv, ControlTypes, Apply, ApplyFails
<1>2. d \in Due
  BY <1>1, RangeTail, JobFields
<1>3. ack \in Job /\ forget \in Job /\ ack.op = "ack" /\ forget.op = "forget"
      /\ ack.token = d.token /\ forget.token = d.token
  BY <1>2 DEF Job, Due
<1>4. \/ work' = <<ack>> \o Tail(work) \/ work' = <<>> \o Tail(work)
      \/ ~Apply /\ work' = <<ack, forget>> \o Tail(work)
  <2>1. CASE Apply
    BY <2>1 DEF Apply
  <2>2. CASE ~Apply
    BY <2>2 DEF ApplyFails, AfterFailure
  <2>3. QED
    BY <2>1, <2>2
<1> HIDE DEF ack, forget, d
<1>5. /\ <<ack>> \in Seq(Job) /\ DOMAIN <<ack>> = {1} /\ <<ack>>[1] = ack
      /\ <<>> \in Seq(Job) /\ DOMAIN <<>> = {}
      /\ <<ack, forget>> \in Seq(Job) /\ DOMAIN <<ack, forget>> = {1, 2}
      /\ <<ack, forget>>[1] = ack /\ <<ack, forget>>[2] = forget
  BY <1>3
<1> DEFINE Good(more) == \A i \in DOMAIN more : /\ more[i].op \in {"ack", "forget"}
                                                /\ more[i].token = d.token
                                                /\ more[i].op = "ack" => i = 1
                                                /\ Apply => more[i].op = "ack"
<1>6. Good(<<ack>>) /\ Good(<<>>) /\ (~Apply => Good(<<ack, forget>>))
  BY <1>3, <1>5
<1>7. \E more \in Seq(Job) : work' = more \o Tail(work) /\ Good(more)
  <2> HIDE DEF Good
  <2>1. QED
    BY <1>4, <1>5, <1>6
<1>8. QED
  BY <1>7 DEF d

\* The jobs stay in line when the first is applied.
LEMMA ApplyThins ==
    ASSUME TypeInv, Apply \/ ApplyFails PROVE Thinner(OfJobs(work'), OfJobs(work))
<1>1. /\ work \in Seq(Job) /\ work # <<>> /\ Head(work).op = "apply"
  BY DEF TypeInv, ControlTypes, Apply, ApplyFails
<1>2. /\ Head(work) = work[1] /\ Tail(work) \in Seq(Job) /\ Len(work) \in Nat
      /\ DOMAIN work = 1 .. Len(work) /\ DOMAIN Tail(work) = 1 .. Len(work) - 1
      /\ \A i \in 1 .. Len(work) - 1 : Tail(work)[i] = work[i + 1]
      /\ 1 \in DOMAIN work
  BY <1>1, RangeTail
<1>3. PICK more \in Seq(Job) :
         /\ work' = more \o Tail(work)
         /\ \A i \in DOMAIN more : /\ more[i].op \in {"ack", "forget"}
                                   /\ more[i].token = Head(work).due.token
                                   /\ more[i].op = "ack" => i = 1
  BY ApplyJobs
<1> DEFINE rest == Tail(work)
           c == OfJobs(more \o rest)
           o == OfJobs(work)
<1>4. /\ DOMAIN c = DOMAIN (more \o rest) /\ DOMAIN o = DOMAIN work
      /\ \A i \in DOMAIN (more \o rest) :
            c[i] = IF (more \o rest)[i].op = "apply" THEN (more \o rest)[i].due.token
                   ELSE IF (more \o rest)[i].op = "ack" THEN (more \o rest)[i].token ELSE None
      /\ \A i \in DOMAIN work :
            o[i] = IF work[i].op = "apply" THEN work[i].due.token
                   ELSE IF work[i].op = "ack" THEN work[i].token ELSE None
  BY DEF OfJobs
<1>5. /\ DOMAIN more = 1 .. Len(more) /\ Len(more) \in Nat
      /\ \A i \in DOMAIN more : (more \o rest)[i] = more[i]
      /\ \A j \in DOMAIN rest : (more \o rest)[Len(more) + j] = rest[j]
  BY <1>2, ConcatPlaces
<1>6. \A i \in DOMAIN (more \o rest) : i \in DOMAIN more \/ \E j \in DOMAIN rest : i = Len(more) + j
  BY <1>2, ConcatPlaces
<1> HIDE DEF c, o, rest
<1>7. o[1] = Head(work).due.token
  BY <1>1, <1>2, <1>4
<1>8. ASSUME NEW i \in DOMAIN c, i \in DOMAIN more, c[i] # None PROVE i = 1 /\ c[i] = o[1]
  BY <1>3, <1>4, <1>5, <1>7, <1>8
<1>9. ASSUME NEW i \in DOMAIN c, NEW j \in DOMAIN rest, i = Len(more) + j
      PROVE  j + 1 \in DOMAIN o /\ c[i] = o[j + 1]
  <2>1. j + 1 \in DOMAIN work /\ rest[j] = work[j + 1]
    BY <1>2, <1>9 DEF rest
  <2>2. (more \o rest)[i] = work[j + 1]
    BY <1>5, <1>9, <2>1
  <2>3. QED
    BY <1>4, <1>9, <2>1, <2>2
<1>10. DOMAIN rest \subseteq Nat \ {0}
  BY <1>2 DEF rest
<1>11. \A i \in DOMAIN c : c[i] # None => \E k \in DOMAIN o : c[i] = o[k]
  BY <1>2, <1>4, <1>6, <1>8, <1>9
<1>12. ASSUME NEW i \in DOMAIN c, NEW j \in DOMAIN c, i < j, c[i] # None, c[j] # None
       PROVE  \E k, l \in DOMAIN o : k < l /\ c[i] = o[k] /\ c[j] = o[l]
  <2>1. PICK q \in DOMAIN rest : j = Len(more) + q
    <3>1. j \in DOMAIN more => i \in DOMAIN more
      BY <1>4, <1>5, <1>6, <1>10, <1>12
    <3>2. j \notin DOMAIN more
      BY <1>8, <1>12, <3>1
    <3>3. QED
      BY <1>4, <1>6, <3>2
  <2>2. CASE i \in DOMAIN more
    BY <1>2, <1>4, <1>8, <1>9, <1>10, <1>12, <2>1, <2>2
  <2>3. CASE i \notin DOMAIN more
    <3>1. PICK p \in DOMAIN rest : i = Len(more) + p
      BY <1>4, <1>6, <2>3
    <3>2. p + 1 < q + 1
      BY <1>5, <1>10, <1>12, <2>1, <3>1
    <3>3. QED
      BY <1>9, <2>1, <3>1, <3>2
  <2>4. QED
    BY <2>2, <2>3
<1>13. Thinner(c, o)
  BY <1>11, <1>12 DEF Thinner
<1>14. QED
  BY <1>3, <1>13 DEF c, o, rest

\* No job has the token of the one that is applied.
LEMMA HeadOnce ==
    ASSUME TypeInv, NEW n \in Nat, NEW rank \in [Tokens -> 0 .. n],
           Rising(OfJobs(work), rank), work # <<>>, Head(work).op = "apply"
    PROVE  \A j \in Range(Tail(work)) : j.op = "apply" => j.due.token # Head(work).due.token
<1>1. /\ work \in Seq(Job) /\ Head(work) = work[1] /\ Tail(work) \in Seq(Job)
      /\ Len(work) \in Nat /\ DOMAIN work = 1 .. Len(work)
      /\ DOMAIN Tail(work) = 1 .. Len(work) - 1
      /\ \A i \in 1 .. Len(work) - 1 : Tail(work)[i] = work[i + 1]
      /\ 1 \in DOMAIN work
  BY RangeTail DEF TypeInv, ControlTypes
<1>2. SUFFICES ASSUME NEW j \in Range(Tail(work)), j.op = "apply",
                      j.due.token = Head(work).due.token
               PROVE  FALSE
  OBVIOUS
<1>3. PICK i \in 1 .. Len(work) - 1 : j = work[i + 1]
  BY <1>1, <1>2 DEF Range
<1>4. i + 1 \in DOMAIN work /\ 1 < i + 1
  BY <1>1
<1>5. Head(work).due.token \in Tokens
  BY <1>1, JobFields DEF Due, Tokens
<1>6. OfJobs(work)[1] = Head(work).due.token /\ OfJobs(work)[i + 1] = Head(work).due.token
  BY <1>1, <1>2, <1>3, <1>4 DEF OfJobs
<1>7. Head(work).due.token # None /\ DOMAIN OfJobs(work) = DOMAIN work
  BY <1>5 DEF None, Tokens, OfJobs
<1>8. rank[Head(work).due.token] < rank[Head(work).due.token]
  BY <1>1, <1>4, <1>6, <1>7 DEF Rising
<1>9. QED
  BY <1>5, <1>8

\* No due is in the backlog and reported as well.
LEMMA DelayedOnce ==
    ASSUME TypeInv, NEW n \in Nat, NEW rank \in [Tokens -> 0 .. n],
           Before(OfDues(dues), OfDues(backlog), rank)
    PROVE  \A d \in Range(dues), e \in Range(backlog) : d.token # e.token
<1>1. dues \in Seq(Due) /\ backlog \in Seq(Due) /\ \A d \in Due : d.token \in Tokens
  BY Tokened DEF TypeInv, ChannelTypes, LaunchTypes
<1>2. TAKE d \in Range(dues), e \in Range(backlog)
<1>3. PICK i \in DOMAIN dues, j \in DOMAIN backlog : d = dues[i] /\ e = backlog[j]
  BY DEF Range
<1>4. /\ OfDues(dues)[i] = d.token /\ OfDues(backlog)[j] = e.token
      /\ d.token \in Tokens /\ e.token \in Tokens
      /\ i \in DOMAIN OfDues(dues) /\ j \in DOMAIN OfDues(backlog)
  BY <1>1, <1>3 DEF OfDues
<1>5. rank[d.token] < rank[e.token]
  BY <1>4 DEF Before, None, Tokens
<1>6. QED
  BY <1>4, <1>5

LEMMA ControlQuiet ==
    ASSUME TypeInv, TokenInv, TakenInv, QuietInv, RankInv, Control \/ DrainDues,
           \A s \in Scenes : ~LiveLaunch(s), \A t \in Tokens : Forward(t), backlog' = backlog
    PROVE  TakenInv' /\ QuietInv' /\ (Undisturbed' => Undisturbed)
<1> DEFINE Disturbed(t) == fate[t] \in {"withdrawn", "failed", "applied"}
<1>1. /\ work \in Seq(Job) /\ requests \in Seq(Message) /\ fate \in [Tokens -> Fates]
      /\ dues \in Seq(Due) /\ backlog \in Seq(Due)
      /\ \A d \in Due : d.token \in Tokens
  BY Tokened DEF TypeInv, ControlTypes, ChannelTypes, LaunchTypes, Tokens
<1>2. /\ \A d \in Range(backlog) \cup Range(dues) : d.token \in Tokens
      /\ \A j \in Range(work) : j \in Job
      /\ \A j \in Range(work) : j.op = "apply" => j.due.token \in Tokens
  <2>1. Range(backlog) \subseteq Due /\ Range(dues) \subseteq Due /\ Range(work) \subseteq Job
    BY <1>1, RangeTypes
  <2>2. QED
    BY <1>1, <2>1, JobFields
<1>3. ASSUME dues' = dues, Undisturbed', Undisturbed' => Undisturbed
      PROVE  \A d \in Range(backlog') \cup Range(dues') : fate'[d.token] = "valid"
  <2>1. \A d \in Range(backlog) \cup Range(dues) : fate[d.token] = "valid"
    BY <1>3 DEF QuietInv
  <2>2. \A t \in Tokens : fate[t] = "valid" => fate'[t] \in {"valid", "withdrawn"}
    BY <1>3 DEF Forward
  <2>3. \A t \in Tokens : fate'[t] # "withdrawn"
    BY <1>3 DEF Undisturbed, Tokens
  <2>4. QED
    BY <1>2, <1>3, <2>1, <2>2, <2>3
<1>4. (\A t \in Tokens : Disturbed(t) => Disturbed(t)') => (Undisturbed' => Undisturbed)
  BY DEF Undisturbed, Tokens
<1>5. ASSUME Asks, dues' = dues PROVE TakenInv' /\ QuietInv' /\ (Undisturbed' => Undisturbed)
  <2>1. Range(work') = {} /\ Range(work) = {}
    BY <1>5, RangeFew DEF Asks
  <2>2. TakenInv'
    BY <2>1 DEF TakenInv
  <2>3. \A t \in Tokens : Disturbed(t) => Disturbed(t)'
    BY <1>5 DEF Asks
  <2>4. Undisturbed' => Undisturbed
    BY <1>4, <2>3
  <2>5. \A m \in Range(requests') : m \in Range(requests) \/ m.op \in {"schedule", "cancelOwner"}
    <3>1. CASE requests' = requests
      BY <3>1
    <3>2. ASSUME NEW m \in Message, requests' = Append(requests, m),
                 m.op \in {"schedule", "cancelOwner"}
          PROVE  \A x \in Range(requests') :
                    x \in Range(requests) \/ x.op \in {"schedule", "cancelOwner"}
      BY <1>1, <3>2, RangeAppend
    <3>3. QED
      BY <1>5, <3>1, <3>2 DEF Asks
  <2>6. /\ \A m \in Range(requests') : m.op # "cancelAll"
        /\ Undisturbed' => \A m \in Range(requests') : m.op # "cancel"
    BY <2>4, <2>5 DEF QuietInv
  <2>7. Undisturbed' => \A d \in Range(backlog') \cup Range(dues') : fate'[d.token] = "valid"
    BY <1>3, <1>5, <2>4
  <2>8. QuietInv'
    BY <2>1, <2>6, <2>7 DEF QuietInv
  <2>9. QED
    BY <2>2, <2>4, <2>8
<1>6. ASSUME Apply \/ ApplyFails, dues' = dues
      PROVE  TakenInv' /\ QuietInv' /\ (Undisturbed' => Undisturbed)
  <2> DEFINE d == Head(work).due
  <2>1. /\ d.token \in Tokens /\ Head(work) \in Range(work) /\ Head(work).op = "apply"
        /\ \A t \in Tokens : t # d.token => fate'[t] = fate[t]
        /\ requests' = requests /\ work # <<>>
    BY <1>6, ApplyMeans DEF Apply, ApplyFails
  <2>2. PICK more \in Seq(Job) :
           /\ work' = more \o Tail(work)
           /\ \A i \in DOMAIN more : more[i].op \in {"ack", "forget"} /\ (Apply => more[i].op = "ack")
    BY <1>6, ApplyJobs
  <2>3. /\ Tail(work) \in Seq(Job) /\ Range(Tail(work)) \subseteq Range(work)
        /\ Range(work') = Range(more) \cup Range(Tail(work))
    <3>1. Tail(work) \in Seq(Job) /\ Range(Tail(work)) \subseteq Range(work)
      BY <1>1, <2>1, RangeTail
    <3>2. Range(more \o Tail(work)) = Range(more) \cup Range(Tail(work))
      BY <3>1, RangeConcat, ZenonT(30)
    <3>3. QED
      BY <2>2, <3>1, <3>2
  <2>4. \A j \in Range(more) : j.op \in {"ack", "forget"} /\ (Apply => j.op = "ack")
    BY <2>2 DEF Range
  <2>5a. PICK n \in Nat : \E rank \in [Tokens -> 0 .. n] : RankedBy(rank, n)
    BY DEF RankInv
  <2>5. PICK rank \in [Tokens -> 0 .. n] : RankedBy(rank, n)
    BY <2>5a
  <2>6. \A j \in Range(Tail(work)) : j.op = "apply" => j.due.token # d.token
    <3>1. Rising(OfJobs(work), rank)
      BY <2>5 DEF RankedBy, Ranked, InLine
    <3>2. QED
      BY <2>1, <3>1, HeadOnce
  <2>7. fate[d.token] = "taken"
    BY <2>1 DEF TakenInv
  <2>8. TakenInv'
    BY <1>2, <2>1, <2>3, <2>4, <2>6 DEF TakenInv
  <2> HIDE DEF d
  <2>9. \A t \in Tokens : Disturbed(t) => Disturbed(t)'
    BY <2>1, <2>7
  <2>10. Undisturbed' => Undisturbed
    BY <1>4, <2>9
  <2>11. Undisturbed' => Apply
    <3>1. SUFFICES ASSUME ApplyFails PROVE ~Undisturbed'
      BY <1>6
    <3>2. fate' = [fate EXCEPT ![d.token] = "failed"]
      BY <3>1 DEF ApplyFails, d
    <3>3. fate'[d.token] = "failed"
      BY <1>1, <2>1, <3>2
    <3>4. QED
      BY <2>1, <3>3 DEF Undisturbed, Tokens
  <2>12. \A j \in Range(work') : j.op # "submit"
    BY <2>3, <2>4 DEF QuietInv
  <2>13. Undisturbed' => \A j \in Range(work') : j.op # "forget"
    BY <2>3, <2>4, <2>10, <2>11 DEF QuietInv
  <2>14. Undisturbed' => \A e \in Range(backlog') \cup Range(dues') : fate'[e.token] = "valid"
    BY <1>3, <1>6, <2>10
  <2>15. QuietInv'
    BY <2>1, <2>10, <2>12, <2>13, <2>14 DEF QuietInv
  <2>16. QED
    BY <2>8, <2>10, <2>15
<1>7. ASSUME Acknowledge, dues' = dues
      PROVE  TakenInv' /\ QuietInv' /\ (Undisturbed' => Undisturbed)
  <2> DEFINE m == [op |-> IF Head(work).op = "ack" THEN "mirrored" ELSE "cancel",
                   token |-> Head(work).token]
  <2>1. /\ work # <<>> /\ Head(work).op \in {"ack", "forget"} /\ work' = Tail(work)
        /\ fate' = fate /\ requests' \in {requests, Append(requests, m)}
    BY <1>7 DEF Acknowledge, Send
  <2>2. Head(work) \in Range(work) /\ Range(Tail(work)) \subseteq Range(work)
    BY <1>1, <2>1, RangeTail
  <2>3. m \in Message /\ m.op \in {"mirrored", "cancel"}
        /\ (m.op = "cancel" => Head(work).op = "forget")
    BY <1>2, <2>1, <2>2, JobFields DEF Message
  <2> HIDE DEF m
  <2>4. Range(requests') \subseteq Range(requests) \cup {m}
    BY <1>1, <2>1, <2>3, RangeAppend
  <2>5. Undisturbed' <=> Undisturbed
    BY <2>1 DEF Undisturbed
  <2>6. TakenInv'
    BY <2>1, <2>2 DEF TakenInv
  <2>7. Undisturbed' => \A x \in Range(requests') : x.op # "cancel"
    BY <2>2, <2>3, <2>4, <2>5 DEF QuietInv
  <2>8. \A x \in Range(requests') : x.op # "cancelAll"
    BY <2>3, <2>4 DEF QuietInv
  <2>9. QuietInv'
    BY <1>7, <2>1, <2>2, <2>5, <2>7, <2>8 DEF QuietInv
  <2>10. QED
    BY <2>5, <2>6, <2>9
<1>8. ASSUME DrainDues PROVE TakenInv' /\ QuietInv' /\ (Undisturbed' => Undisturbed)
  <2>1. /\ work = <<>> /\ dues' = <<>> /\ requests' = requests
        /\ \A t \in Tokens :
              fate'[t] = IF fate[t] = "valid" /\ \E d \in Range(dues) : d.token = t
                         THEN "taken" ELSE fate[t]
        /\ \A j \in Range(work') : /\ j.op = "apply" /\ j.due \in Range(dues)
                                   /\ fate[j.due.token] = "valid"
    BY <1>8, DrainMeans
  <2>2. TakenInv'
    BY <1>2, <2>1 DEF TakenInv
  <2>3. \A t \in Tokens : Disturbed(t) => Disturbed(t)'
    BY <2>1
  <2>4. Undisturbed' => Undisturbed
    BY <1>4, <2>3
  <2>5a. PICK n \in Nat : \E rank \in [Tokens -> 0 .. n] : RankedBy(rank, n)
    BY DEF RankInv
  <2>5. PICK rank \in [Tokens -> 0 .. n] : RankedBy(rank, n)
    BY <2>5a
  <2>6. \A d \in Range(dues), e \in Range(backlog) : d.token # e.token
    BY <2>5, DelayedOnce DEF RankedBy, Ranked, InLine
  <2>7. Undisturbed => \A e \in Range(backlog') \cup Range(dues') : fate'[e.token] = "valid"
    <3>1. Range(dues') = {}
      BY <2>1, RangeFew
    <3>2. \A e \in Range(backlog) : fate'[e.token] = fate[e.token]
      BY <1>2, <2>1, <2>6
    <3>3. QED
      BY <3>1, <3>2 DEF QuietInv
  <2>8. QuietInv'
    BY <2>1, <2>4, <2>7 DEF QuietInv
  <2>9. QED
    BY <2>2, <2>4, <2>8
<1>9. QED
  BY <1>5, <1>6, <1>7, <1>8, ControlAsks

\* What the scheduler reports anew was early.
LEMMA SchedulerReports ==
    ASSUME TypeInv, ReleaseInv, Scheduler
    PROVE  /\ Range(requests') \subseteq Range(requests)
           /\ \A d \in Range(backlog') \cup Range(dues') :
                 \/ d \in Range(backlog) \cup Range(dues)
                 \/ d.token \in Tokens /\ Early(d.token)
<1>1. CASE Load \/ PassDone
  <2>1. UNCHANGED <<requests, backlog, dues>>
    BY <1>1 DEF Load, PassDone, launches
  <2>2. QED
    BY <2>1
<1>2. CASE Receive
  <2>1. dues' = dues /\ Range(requests') \subseteq Range(requests)
    BY <1>2, ReceiveEarly DEF Receive
  <2>2. Range(backlog') \subseteq Range(backlog)
    BY <1>2, ReceiveThins, WithinRange
  <2>3. QED
    BY <2>1, <2>2
<1>3. CASE SettleStopped \/ SettlePlaying
  <2>1. Report /\ requests' = requests
    BY <1>3 DEF SettleStopped, SettlePlaying
  <2> DEFINE fresh == Range(DuesOf(InTokenOrder(Ready), FALSE))
  <2>2. /\ Range(backlog') \cup Range(dues') = Range(backlog) \cup Range(dues) \cup fresh
        /\ \A d \in fresh : \E l \in Ready : d.token = l.token
    BY <2>1, ReportRanges
  <2>3. \A l \in Ready : l.token \in Tokens
    BY ReadyProperties, Tokened
  <2> HIDE DEF fresh
  <2>4. \A d \in fresh : d.token \in Tokens /\ Early(d.token)
    BY <2>1, <2>2, <2>3, ReportEarly
  <2>5. QED
    BY <2>1, <2>2, <2>4
<1>4. CASE ScheduleChunk
  <2> DEFINE fresh == Range(DuesOf(Arrived, TRUE))
  <2>1. /\ requests' = requests /\ dues' = dues /\ backlog' = backlog \o DuesOf(Arrived, TRUE)
    BY <1>4, ChunkMeans
  <2>2. Arrived \in Seq(Launch) /\ \A l \in Range(Arrived) : l.token \in Tokens
    BY ArrivedProperties, RangeTypes, Tokened
  <2> DEFINE more == DuesOf(Arrived, TRUE)
  <2>3. \A d \in fresh : \E l \in Range(Arrived) : d.token = l.token
    <3>1. \A d \in fresh : d.applied = TRUE /\ \E l \in Range(Arrived) :
                                d.token = l.token /\ d.owner = l.owner
      BY <2>2, DuesRange
    <3> HIDE DEF fresh
    <3>2. QED
      BY <3>1
  <2>4. Range(backlog') = Range(backlog) \cup fresh
    <3>1. more \in Seq(Due)
      BY <2>2, DuesOfProperties
    <3> HIDE DEF more
    <3>2. Range(backlog \o more) = Range(backlog) \cup Range(more)
      BY <3>1, RangeConcat DEF TypeInv, LaunchTypes
    <3>3. QED
      BY <2>1, <3>2 DEF more
  <2> HIDE DEF fresh
  <2>5. \A d \in fresh : d.token \in Tokens /\ Early(d.token)
    BY <1>4, <2>2, <2>3, ChunkEarly
  <2>6. QED
    BY <2>1, <2>4, <2>5
<1>5. QED
  BY <1>1, <1>2, <1>3, <1>4 DEF Scheduler

LEMMA SchedulerQuiet ==
    ASSUME TypeInv, ReleaseInv, TakenInv, QuietInv, Scheduler, UNCHANGED control
    PROVE  TakenInv' /\ QuietInv' /\ (Undisturbed' <=> Undisturbed)
<1>1. fate' = fate /\ work' = work /\ (Undisturbed' <=> Undisturbed)
  BY DEF control, Undisturbed
<1>2. /\ Range(requests') \subseteq Range(requests)
      /\ \A d \in Range(backlog') \cup Range(dues') :
            \/ d \in Range(backlog) \cup Range(dues)
            \/ d.token \in Tokens /\ Early(d.token)
  BY SchedulerReports
<1>3. TakenInv'
  BY <1>1 DEF TakenInv
<1>4. \A t \in Tokens : Undisturbed /\ Early(t) => fate[t] = "valid"
  BY DEF ReleaseInv, EarlyInv, Undisturbed, Tokens
<1>5. Undisturbed => \A d \in Range(backlog') \cup Range(dues') : fate[d.token] = "valid"
  BY <1>2, <1>4 DEF QuietInv
<1>6. QuietInv'
  BY <1>1, <1>2, <1>5 DEF QuietInv
<1>7. QED
  BY <1>1, <1>3, <1>6

-----------------------------------------------------------------------------
(* The line of the launches                                                *)

\* A step that gives no launch a new rank only thins out the line.
Thins ==
    /\ Thinner(OfMessages(requests'), OfMessages(requests))
    /\ Thinner(OfJobs(work'), OfJobs(work)) /\ Thinner(OfDues(dues'), OfDues(dues))
    /\ Thinner(OfDues(backlog'), OfDues(backlog))
    /\ Thinner(OfDues(installed'), OfDues(installed))
    /\ Thinner(OfDues(adopted'), OfDues(adopted))

LEMMA ThinsKeeps == ASSUME NEW rank, Ranked(rank), Thins PROVE Ranked(rank)'
<1>1. /\ InLine(OfMessages(requests), OfJobs(work), OfDues(dues), OfDues(backlog), rank)
      /\ Rising(OfDues(installed), rank) /\ Rising(OfDues(adopted), rank)
  BY DEF Ranked
<1>2. InLine(OfMessages(requests'), OfJobs(work'), OfDues(dues'), OfDues(backlog'), rank)
  BY <1>1, ThinnerInLine DEF Thins
<1>3. Rising(OfDues(installed'), rank) /\ Rising(OfDues(adopted'), rank)
  BY <1>1, ThinnerRises DEF Thins
<1>4. QED
  BY <1>2, <1>3 DEF Ranked

LEMMA ThinnerItself ==
    /\ \A s : Thinner(OfMessages(s), OfMessages(s))
    /\ \A s : Thinner(OfJobs(s), OfJobs(s))
    /\ \A s : Thinner(OfDues(s), OfDues(s))
BY WithinItself, WithinThinner

LEMMA AcknowledgeRanked ==
    ASSUME TypeInv, NEW rank, Ranked(rank), Acknowledge, HasRoom,
           UNCHANGED <<dues, backlog, installed, adopted>>
    PROVE  Ranked(rank)'
<1> DEFINE m == [op |-> IF Head(work).op = "ack" THEN "mirrored" ELSE "cancel",
                 token |-> Head(work).token]
<1>1. /\ work \in Seq(Job) /\ requests \in Seq(Message) /\ work # <<>>
      /\ Head(work).op \in {"ack", "forget"} /\ work' = Tail(work)
      /\ requests' = Append(requests, m)
  BY DEF TypeInv, ControlTypes, ChannelTypes, Acknowledge, Send
<1>2. Head(work) \in Job /\ Head(work) = work[1] /\ 1 \in DOMAIN work
  BY <1>1, RangeTail
<1>3. m \in Message /\ m.token = Head(work).token
      /\ (m.op = "mirrored" <=> Head(work).op = "ack")
  BY <1>1, <1>2, JobFields DEF Message
<1> HIDE DEF m
<1> DEFINE ms == OfMessages(requests)
           ws == OfJobs(work)
<1>4. ms \in Seq(Marks) /\ ws \in Seq(Marks) /\ ws # <<>> /\ OfJobs(work') = Tail(ws)
  BY <1>1, OfMessagesProperties, OfJobsProperties
<1>5. CASE Head(work).op = "ack"
  <2>1. ws[1] = m.token
    BY <1>2, <1>3, <1>5 DEF OfJobs
  <2>2. OfMessages(requests') = Append(ms, m.token)
    BY <1>1, <1>3, <1>5, OfMessagesProperties
  <2>3. InLine(ms, ws, OfDues(dues), OfDues(backlog), rank)
    BY DEF Ranked
  <2> HIDE DEF ms, ws
  <2>4. InLine(Append(ms, ws[1]), Tail(ws), OfDues(dues), OfDues(backlog), rank)
    BY <1>4, <2>3, ReleasesInLine
  <2>5. QED
    BY <1>4, <2>1, <2>2, <2>4 DEF Ranked
<1>6. CASE Head(work).op = "forget"
  <2>1. Thinner(OfMessages(requests'), ms)
    BY <1>1, <1>3, <1>6, OfMessagesProperties
  <2>2. Within(Tail(work), work)
    BY <1>1, TailWithin
  <2>3. Thinner(OfJobs(work'), ws)
    BY <1>1, <2>2, WithinThinner
  <2>4. Thins
    BY <2>1, <2>3, ThinnerItself DEF Thins
  <2>5. QED
    BY <2>4, ThinsKeeps
<1>7. QED
  BY <1>1, <1>5, <1>6

LEMMA DrainRanked ==
    ASSUME TypeInv, NEW rank, Ranked(rank), DrainDues,
           UNCHANGED <<backlog, installed, adopted>>
    PROVE  Ranked(rank)'
<1> DEFINE mine == Kept(dues, {d \in Range(dues) : fate[d.token] = "valid"})
<1>1. /\ work' = [i \in DOMAIN mine |-> [op |-> "apply", due |-> mine[i]]]
      /\ dues' = <<>> /\ requests' = requests
  BY DEF DrainDues
<1>2. dues \in Seq(Due)
  BY DEF TypeInv, ChannelTypes
<1>3. Within(mine, dues)
  BY <1>2, KeptWithin
<1> HIDE DEF mine
<1>4. Thinner(OfDues(mine), OfDues(dues))
  BY <1>3, WithinThinner
<1>5. OfJobs(work') = OfDues(mine)
  BY <1>1 DEF OfJobs, OfDues
<1>6. OfDues(dues') = <<>>
  BY <1>1 DEF OfDues
<1>7. InLine(OfMessages(requests), OfJobs(work'), <<>>, OfDues(backlog), rank)
  BY <1>4, <1>5, DrainsInLine DEF Ranked
<1>8. QED
  BY <1>1, <1>6, <1>7 DEF Ranked

LEMMA ControlRanked ==
    ASSUME TypeInv, TokenInv, QuietInv, NEW rank, Ranked(rank), Control \/ DrainDues,
           \A s \in Scenes : ~LiveLaunch(s), Acknowledge => HasRoom, UNCHANGED launches
    PROVE  Ranked(rank)'
<1>1. UNCHANGED <<backlog, installed, adopted>>
  BY DEF launches
<1>2. ASSUME Asks PROVE Ranked(rank)'
  <2>1. requests \in Seq(Message)
    BY DEF TypeInv, ChannelTypes
  <2>2. Thinner(OfMessages(requests'), OfMessages(requests))
    <3>1. CASE requests' = requests
      BY <3>1, ThinnerItself
    <3>2. ASSUME NEW m \in Message, requests' = Append(requests, m), m.op # "mirrored"
          PROVE  Thinner(OfMessages(requests'), OfMessages(requests))
      BY <2>1, <3>2, OfMessagesProperties
    <3>3. QED
      BY <1>2, <3>1, <3>2 DEF Asks
  <2>3. work' = work /\ dues' = dues
    BY <1>2 DEF Asks
  <2>4. Thins
    BY <1>1, <2>2, <2>3, ThinnerItself DEF Thins
  <2>5. QED
    BY <2>4, ThinsKeeps
<1>3. ASSUME Apply \/ ApplyFails, dues' = dues PROVE Ranked(rank)'
  <2>1. requests' = requests
    BY <1>3 DEF Apply, ApplyFails
  <2>2. Thins
    BY <1>1, <1>3, <2>1, ApplyThins, ThinnerItself DEF Thins
  <2>3. QED
    BY <2>2, ThinsKeeps
<1>4. QED
  BY <1>1, <1>2, <1>3, AcknowledgeRanked, DrainRanked, ControlAsks

LEMMA ReceiveRanked ==
    ASSUME TypeInv, NEW rank, Ranked(rank), Receive, work' = work PROVE Ranked(rank)'
<1>1. requests # <<>> /\ requests' = Tail(requests) /\ dues' = dues /\ requests \in Seq(Message)
  BY DEF Receive, TypeInv, ChannelTypes
<1>2. Within(requests', requests)
  BY <1>1, TailWithin
<1>3. Within(installed', installed) /\ Within(adopted', adopted) /\ Within(backlog', backlog)
  BY ReceiveThins
<1>4. Thins
  BY <1>1, <1>2, <1>3, WithinThinner, ThinnerItself DEF Thins
<1>5. QED
  BY <1>4, ThinsKeeps

LEMMA SameRanked ==
    ASSUME NEW rank, Ranked(rank), UNCHANGED <<requests, work, dues, backlog, installed, adopted>>
    PROVE  Ranked(rank)'
<1>1. Thins
  BY ThinnerItself DEF Thins
<1>2. QED
  BY <1>1, ThinsKeeps

\* Launches with a rank among the first n, and launches with the next ranks.
Ancient(s, rank, n) == \A i \in DOMAIN s : s[i] # None => rank[s[i]] \in 0 .. n
Recent(s, rank, n) == \A i \in DOMAIN s : i \in Nat \ {0} /\ s[i] # None /\ rank[s[i]] = n + i

LEMMA RecentFollows ==
    ASSUME NEW n \in Nat, NEW rank, NEW s, NEW x, Ancient(s, rank, n), Recent(x, rank, n)
    PROVE  Before(s, x, rank) /\ Rising(x, rank)
<1>1. \A i \in DOMAIN s, j \in DOMAIN x : s[i] # None => rank[s[i]] < rank[x[j]]
  BY DEF Ancient, Recent
<1>2. \A i, j \in DOMAIN x : i < j => rank[x[i]] < rank[x[j]]
  BY DEF Recent
<1>3. QED
  BY <1>1, <1>2 DEF Before, Rising

\* What is no longer early keeps its place when early launches get new ranks.
LEMMA RanksStay ==
    ASSUME TypeInv, NEW n \in Nat, NEW rank \in [Tokens -> 0 .. n], Ranked(rank), NEW r2,
           \A t \in Tokens : Late(t) \/ Past(t) => r2[t] = rank[t]
    PROVE  /\ Ranked(r2)
           /\ Ancient(OfMessages(requests), r2, n) /\ Ancient(OfJobs(work), r2, n)
           /\ Ancient(OfDues(dues), r2, n) /\ Ancient(OfDues(backlog), r2, n)
           /\ Ancient(OfDues(installed), r2, n) /\ Ancient(OfDues(adopted), r2, n)
<1> DEFINE Same(s) == \A i \in DOMAIN s : s[i] # None => s[i] \in Tokens /\ r2[s[i]] = rank[s[i]]
<1>1. /\ requests \in Seq(Message) /\ work \in Seq(Job) /\ dues \in Seq(Due)
      /\ backlog \in Seq(Due) /\ installed \in Seq(Placed) /\ adopted \in Seq(Adopted)
  BY DEF TypeInv, ControlTypes, ChannelTypes, LaunchTypes
<1>2. Same(OfMessages(requests))
  <2>1. ASSUME NEW i \in DOMAIN requests, requests[i].op = "mirrored"
        PROVE  requests[i].token \in Tokens /\ Past(requests[i].token)
    <3>1. requests[i] \in Message /\ requests[i] \in Range(requests)
      BY <1>1 DEF Range
    <3>2. QED
      BY <2>1, <3>1, MessageFields DEF Past, Tokens
  <2>2. QED
    BY <2>1 DEF OfMessages
<1>3. Same(OfJobs(work))
  <2>1. ASSUME NEW i \in DOMAIN work
        PROVE  /\ work[i].op = "apply" => /\ work[i].due.token \in Tokens
                                          /\ Late(work[i].due.token)
               /\ work[i].op = "ack" => work[i].token \in Tokens /\ Late(work[i].token)
    <3>1. work[i] \in Job /\ work[i] \in Range(work)
      BY <1>1 DEF Range
    <3>2. QED
      BY <2>1, <3>1, JobFields DEF Late, Handling, JobOf, Due, Tokens
  <2>2. QED
    BY <2>1 DEF OfJobs
<1>4. Same(OfDues(dues)) /\ Same(OfDues(backlog))
  <2>1. \A s \in {dues, backlog} : \A i \in DOMAIN s : s[i].token \in Tokens /\ Late(s[i].token)
    <3>1. TAKE s \in {dues, backlog}
    <3>2. TAKE i \in DOMAIN s
    <3>3. s[i] \in Due /\ s[i] \in Range(backlog) \cup Range(dues)
      BY <1>1 DEF Range
    <3>4. QED
      BY <3>3, Tokened DEF Late, Reported
  <2>2. QED
    BY <2>1 DEF OfDues
<1>5. Same(OfDues(installed))
  <2>1. ASSUME NEW i \in DOMAIN installed
        PROVE  installed[i].token \in Tokens /\ Late(installed[i].token)
    <3>1. installed[i] \in Placed /\ installed[i] \in Range(installed)
      BY <1>1 DEF Range
    <3>2. QED
      BY <3>1, Tokened DEF Late, InForce
  <2>2. QED
    BY <2>1 DEF OfDues
<1>6. Same(OfDues(adopted))
  <2>1. ASSUME NEW i \in DOMAIN adopted
        PROVE  adopted[i].token \in Tokens /\ Past(adopted[i].token)
    <3>1. adopted[i] \in Adopted /\ adopted[i] \in Range(adopted)
      BY <1>1 DEF Range
    <3>2. QED
      BY <3>1, Tokened DEF Past
  <2>2. QED
    BY <2>1 DEF OfDues
<1>7. \A s : Same(s) => Ancient(s, r2, n)
  BY DEF Ancient
<1>8. \A s : Same(s) /\ Rising(s, rank) => Rising(s, r2)
  BY DEF Rising
<1>9. \A s, u : Same(s) /\ Same(u) /\ Before(s, u, rank) => Before(s, u, r2)
  BY DEF Before
<1> HIDE DEF Same
<1>10. Ranked(r2)
  BY <1>2, <1>3, <1>4, <1>5, <1>6, <1>8, <1>9 DEF Ranked, InLine
<1>11. QED
  BY <1>2, <1>3, <1>4, <1>5, <1>6, <1>7, <1>10

\* The ranks of a batch of launches that were early so far.
LEMMA BatchRanks ==
    ASSUME TypeInv, TokenInv, LiveAll, ReleaseInv, PlacesInv,
           NEW n \in Nat, NEW rank \in [Tokens -> 0 .. n], Ranked(rank),
           NEW batch \in Seq(Launch), \A i \in DOMAIN batch : Early(batch[i].token),
           \A i, j \in DOMAIN batch : batch[i].token = batch[j].token => i = j,
           NEW r2, r2 = NewRank(rank, batch, n)
    PROVE  /\ r2 \in [Tokens -> 0 .. n + Len(batch)] /\ n + Len(batch) \in Nat
           /\ \A t \in Tokens : Late(t) \/ Past(t) => r2[t] = rank[t]
           /\ \A i \in DOMAIN batch : r2[batch[i].token] = n + i
           /\ Recent(OfDues(batch), r2, n) /\ Ranked(r2)
<1>1. /\ r2 \in [Tokens -> 0 .. n + Len(batch)] /\ n + Len(batch) \in Nat
      /\ \A i \in DOMAIN batch : r2[batch[i].token] = n + i
      /\ \A t \in Tokens : (\A i \in DOMAIN batch : batch[i].token # t) => r2[t] = rank[t]
  <2> DEFINE q == NewRank(rank, batch, n)
  <2>1. /\ q \in [Tokens -> 0 .. n + Len(batch)] /\ n + Len(batch) \in Nat
        /\ \A i \in DOMAIN batch : q[batch[i].token] = n + i
        /\ \A t \in Tokens : (\A i \in DOMAIN batch : batch[i].token # t) =>
              q[t] = rank[t] /\ rank[t] \in 0 .. n
    BY NewRankProperties, Zenon
  <2> HIDE DEF q
  <2>2. r2 = q
    BY DEF q
  <2>3. QED
    BY <2>1, <2>2
<1>2. \A t \in Tokens : Late(t) \/ Past(t) => ~Early(t)
  BY DEF ReleaseInv, EarlyInv, PlacesInv, PastInv
<1>3. \A t \in Tokens : Late(t) \/ Past(t) => r2[t] = rank[t]
  BY <1>1, <1>2
<1>4. Recent(OfDues(batch), r2, n)
  <2>1. DOMAIN batch = 1 .. Len(batch) /\ \A i \in DOMAIN batch : batch[i].token \in Tokens
    BY Tokened
  <2>2. QED
    BY <1>1, <2>1 DEF Recent, OfDues, None, Tokens
<1>5. Ranked(r2)
  BY <1>3, RanksStay
<1>6. QED
  BY <1>1, <1>3, <1>4, <1>5

\* What is delayed next comes last.
LEMMA BatchInLine ==
    ASSUME TypeInv, NEW n \in Nat, NEW rank \in [Tokens -> 0 .. n], Ranked(rank), NEW r2,
           \A t \in Tokens : Late(t) \/ Past(t) => r2[t] = rank[t],
           NEW x \in Seq(Marks), Recent(x, r2, n)
    PROVE  InLine(OfMessages(requests), OfJobs(work), OfDues(dues), OfDues(backlog) \o x, r2)
<1>1. /\ Ranked(r2)
      /\ Ancient(OfMessages(requests), r2, n) /\ Ancient(OfJobs(work), r2, n)
      /\ Ancient(OfDues(dues), r2, n) /\ Ancient(OfDues(backlog), r2, n)
  BY RanksStay
<1>2. /\ Before(OfMessages(requests), x, r2) /\ Before(OfJobs(work), x, r2)
      /\ Before(OfDues(dues), x, r2) /\ Before(OfDues(backlog), x, r2) /\ Rising(x, r2)
  BY <1>1, RecentFollows
<1>3. OfDues(backlog) \in Seq(Marks)
  BY OfDuesProperties, Tokened DEF TypeInv, LaunchTypes
<1>4. InLine(OfMessages(requests), OfJobs(work), OfDues(dues), OfDues(backlog), r2)
  BY <1>1 DEF Ranked
<1>5. QED
  BY <1>2, <1>3, <1>4, JoinsLine

\* The launches a report or a chunk takes were early, and are all different.
LEMMA ReadyBatch ==
    ASSUME TypeInv, ReleaseInv, Report, requests' = requests
    PROVE  LET batch == InTokenOrder(Ready)
           IN  /\ batch \in Seq(Launch) /\ \A i \in DOMAIN batch : Early(batch[i].token)
               /\ \A i, j \in DOMAIN batch : batch[i].token = batch[j].token => i = j
<1> DEFINE batch == InTokenOrder(Ready)
<1>1. batch \in Seq(Launch) /\ Range(batch) = Ready /\ IsInjective(batch)
  BY ReadyProperties
<1>2. \A i \in DOMAIN batch : batch[i] \in Ready /\ batch[i].token \in Tokens
  BY <1>1, Tokened DEF Range
<1>3. \A l, m \in Ready : l.token = m.token => l = m
  <2>1. \A l, m \in pending \cup boundary : l.token = m.token => l = m
    BY DEF ReleaseInv, OnceInv
  <2>2. pending \cap boundary = {}
    BY DEF ReleaseInv, OnceInv
  <2>3. /\ \A l \in Degraded : \E b \in boundary : l.token = b.token
        /\ \A l, m \in Degraded : l.token = m.token => l = m
    BY <2>1, DegradedProperties
  <2>4. \A l \in pending, m \in Degraded : l.token # m.token
    BY <2>1, <2>2, <2>3
  <2>5. \A l, m \in pending \cup Degraded : l.token = m.token => l = m
    BY <2>1, <2>3, <2>4
  <2>6. QED
    BY <2>5 DEF Ready
<1> HIDE DEF batch
<1>4. \A i, j \in DOMAIN batch : batch[i].token = batch[j].token => i = j
  BY <1>1, <1>2, <1>3 DEF IsInjective
<1>5. \A i \in DOMAIN batch : Early(batch[i].token)
  BY <1>2, ReportEarly
<1>6. QED
  BY <1>1, <1>4, <1>5 DEF batch

LEMMA ArrivedBatch ==
    ASSUME TypeInv, ReleaseInv, ScheduleChunk
    PROVE  /\ Arrived \in Seq(Launch) /\ \A i \in DOMAIN Arrived : Early(Arrived[i].token)
           /\ \A i, j \in DOMAIN Arrived : Arrived[i].token = Arrived[j].token => i = j
<1> DEFINE batch == Arrived
<1>1. batch \in Seq(Launch) /\ Range(batch) \subseteq boundary /\ IsInjective(batch)
  BY ArrivedProperties
<1>2. \A t \in Tokens : (\E l \in Range(batch) : l.token = t) => Early(t)
  BY ChunkEarly
<1> HIDE DEF batch
<1>3. \A i \in DOMAIN batch : batch[i] \in Range(batch) /\ batch[i].token \in Tokens
  BY <1>1, Tokened DEF Range
<1>4. \A l, m \in boundary : l.token = m.token => l = m
  BY DEF ReleaseInv, OnceInv
<1>5. \A i, j \in DOMAIN batch : batch[i].token = batch[j].token => i = j
  BY <1>1, <1>3, <1>4 DEF IsInjective
<1>6. \A i \in DOMAIN batch : Early(batch[i].token)
  BY <1>2, <1>3
<1>7. QED
  BY <1>1, <1>5, <1>6 DEF batch

\* The rest of a sequence has everything from its start on.
LEMMA RestKeeps ==
    ASSUME NEW S, NEW s \in Seq(S), NEW m \in Nat \ {0}
    PROVE  \A i \in DOMAIN s : m <= i => s[i] \in Range(SubSeq(s, m, Len(s)))
<1> DEFINE r == SubSeq(s, m, Len(s))
<1>1. Len(s) \in Nat /\ DOMAIN s = 1 .. Len(s) /\ Len(s) \in 0 .. Len(s)
  OBVIOUS
<1>2. /\ r \in Seq(S) /\ Len(r) = IF m <= Len(s) THEN Len(s) - m + 1 ELSE 0
      /\ \A i \in DOMAIN r : m + i - 1 \in DOMAIN s /\ r[i] = s[m + i - 1]
  BY <1>1, PartProperties
<1> HIDE DEF r
<1>3. ASSUME NEW i \in DOMAIN s, m <= i PROVE s[i] \in Range(r)
  <2>1. i - m + 1 \in 1 .. Len(r) /\ m + (i - m + 1) - 1 = i
    BY <1>1, <1>2, <1>3
  <2>2. i - m + 1 \in DOMAIN r
    BY <1>2, <2>1
  <2>3. r[i - m + 1] = s[i]
    BY <1>2, <2>1, <2>2
  <2>4. QED
    BY <2>2, <2>3 DEF Range
<1>4. QED
  BY <1>3 DEF r

\* Installing keeps the order, and drops only what a later scene launch replaces.
LEMMA InstallsMeans ==
    ASSUME NEW s \in Seq(Placed)
    PROVE  /\ Within(Installs(s), s)
           /\ \A i \in DOMAIN s : \/ s[i] \in Range(Installs(s))
                                  \/ \E k \in DOMAIN s : i < k /\ s[k].tracks = Tracks
<1> DEFINE whole == {i \in DOMAIN s : s[i].tracks = Tracks}
           m == Max(whole)
           r == SubSeq(s, m, Len(s))
<1>1. Len(s) \in Nat /\ DOMAIN s = 1 .. Len(s) /\ Len(s) \in 0 .. Len(s)
  OBVIOUS
<1>2. Installs(s) = IF whole = {} THEN s ELSE r
  BY DEF Installs
<1>3. whole \subseteq 0 .. Len(s) /\ whole \subseteq DOMAIN s
  BY <1>1
<1>4. \A i \in whole : i \in DOMAIN s /\ s[i].tracks = Tracks
  OBVIOUS
<1>5. CASE whole = {}
  <2>1. Installs(s) = s
    BY <1>2, <1>5
  <2>2. QED
    BY <2>1, WithinItself DEF Range
<1>6. CASE whole # {}
  <2> HIDE DEF whole
  <2>1. m \in whole /\ m \in 1 .. Len(s)
    BY <1>1, <1>3, <1>6, MaxProperties
  <2>2. Installs(s) = r
    BY <1>2, <1>6
  <2>3. m \in Nat \ {0}
    BY <1>1, <2>1
  <2> HIDE DEF m
  <2>4. Within(r, s)
    BY <1>1, <2>3, PartWithin
  <2>6. \A i \in DOMAIN s : m <= i => s[i] \in Range(r)
    BY <2>3, RestKeeps
  <2> HIDE DEF r
  <2>7. \A i \in DOMAIN s : m <= i \/ i < m
    BY <1>1, <2>1
  <2>8. QED
    BY <1>4, <2>1, <2>2, <2>4, <2>6, <2>7
<1>7. QED
  BY <1>5, <1>6

\* The dues of a batch are in its order.
LEMMA BatchDues ==
    ASSUME NEW now \in Seq(Launch), NEW applied \in BOOLEAN
    PROVE  /\ DuesOf(now, applied) \in Seq(Due) /\ DOMAIN DuesOf(now, applied) = DOMAIN now
           /\ OfDues(DuesOf(now, applied)) = OfDues(now)
<1>1. DuesOf(now, applied) \in Seq(Due) /\ DOMAIN DuesOf(now, applied) = DOMAIN now
  BY DuesOfProperties
<1>2. OfDues(DuesOf(now, applied)) = OfDues(now)
  BY DEF OfDues, DuesOf, DueOf
<1>3. QED
  BY <1>1, <1>2

LEMMA CutBefore ==
    ASSUME NEW s \in Seq(Due), NEW n \in 0 .. Len(s), NEW rank, Rising(OfDues(s), rank)
    PROVE  Before(OfDues(SubSeq(s, 1, n)), OfDues(SubSeq(s, n + 1, Len(s))), rank)
<1> DEFINE x == SubSeq(s, 1, n)
           y == SubSeq(s, n + 1, Len(s))
<1>1. Len(s) \in Nat /\ n \in Nat /\ n + 1 \in Nat \ {0} /\ 1 \in Nat \ {0}
      /\ n \in 0 .. Len(s) /\ Len(s) \in 0 .. Len(s) /\ DOMAIN s = 1 .. Len(s)
  OBVIOUS
<1>2. /\ x \in Seq(Due) /\ Len(x) = IF 1 <= n THEN n - 1 + 1 ELSE 0
      /\ \A i \in DOMAIN x : 1 + i - 1 \in DOMAIN s /\ x[i] = s[1 + i - 1]
  BY <1>1, PartProperties
<1>3. /\ y \in Seq(Due)
      /\ \A i \in DOMAIN y : n + 1 + i - 1 \in DOMAIN s /\ y[i] = s[n + 1 + i - 1]
  BY <1>1, PartProperties
<1> HIDE DEF x, y
<1>4. Len(x) <= n /\ DOMAIN x = 1 .. Len(x) /\ Len(x) \in Nat
      /\ DOMAIN y = 1 .. Len(y) /\ Len(y) \in Nat
  BY <1>1, <1>2, <1>3
<1>5. ASSUME NEW i \in DOMAIN x, NEW j \in DOMAIN y
      PROVE  /\ 1 + i - 1 \in DOMAIN s /\ n + 1 + j - 1 \in DOMAIN s
             /\ 1 + i - 1 < n + 1 + j - 1
             /\ x[i] = s[1 + i - 1] /\ y[j] = s[n + 1 + j - 1]
  BY <1>1, <1>2, <1>3, <1>4
<1>6. Before(OfDues(x), OfDues(y), rank)
  BY <1>5 DEF Before, Rising, OfDues
<1>7. QED
  BY <1>6 DEF x, y

LEMMA ReportRanked ==
    ASSUME TypeInv, TokenInv, LiveAll, ReleaseInv, PlacesInv,
           NEW n \in Nat, NEW rank \in [Tokens -> 0 .. n], Ranked(rank),
           SettleStopped \/ SettlePlaying, work' = work,
           NEW r2, r2 = NewRank(rank, InTokenOrder(Ready), n)
    PROVE  /\ \E n2 \in Nat : n <= n2 /\ r2 \in [Tokens -> 0 .. n2]
           /\ \A t \in Tokens : Late(t) \/ Past(t) => r2[t] = rank[t]
           /\ Ranked(r2)'
<1>1. Report /\ requests' = requests
  BY DEF SettleStopped, SettlePlaying
<1>2. PICK batch : batch = InTokenOrder(Ready)
  OBVIOUS
<1>3. /\ batch \in Seq(Launch) /\ \A i \in DOMAIN batch : Early(batch[i].token)
      /\ \A i, j \in DOMAIN batch : batch[i].token = batch[j].token => i = j
  BY <1>1, <1>2, ReadyBatch
<1>4. r2 = NewRank(rank, batch, n)
  BY <1>2
<1>5. /\ r2 \in [Tokens -> 0 .. n + Len(batch)] /\ n + Len(batch) \in Nat
      /\ \A t \in Tokens : Late(t) \/ Past(t) => r2[t] = rank[t]
      /\ Recent(OfDues(batch), r2, n) /\ Ranked(r2)
  BY <1>3, <1>4, BatchRanks
<1>6. /\ dues \in Seq(Due) /\ backlog \in Seq(Due) /\ \A d \in Due : d.token \in Tokens
      /\ \A l \in Launch : l.token \in Tokens
  BY Tokened DEF TypeInv, ChannelTypes, LaunchTypes
<1> DEFINE more == DuesOf(batch, FALSE)
           x == SubSeq(Out, 1, Sent)
           y == SubSeq(Out, Sent + 1, Len(Out))
<1>7. more \in Seq(Due) /\ OfDues(more) = OfDues(batch)
  BY <1>3, BatchDues
<1>8. Out = backlog \o more /\ Out \in Seq(Due) /\ Sent \in 0 .. Len(Out) /\ Len(Out) \in Nat
  BY <1>2, OutProperties DEF Out
<1>9. OfDues(batch) \in Seq(Marks)
  BY <1>3, <1>6, OfDuesProperties
<1> HIDE DEF more
<1>10. OfDues(Out) = OfDues(backlog) \o OfDues(batch)
  BY <1>6, <1>7, <1>8, OfDuesProperties
<1>11. InLine(OfMessages(requests), OfJobs(work), OfDues(dues), OfDues(Out), r2)
  BY <1>5, <1>9, <1>10, BatchInLine
<1>12. 1 \in Nat \ {0} /\ Sent + 1 \in Nat \ {0} /\ Len(Out) \in 0 .. Len(Out)
  BY <1>8
<1>13. /\ Thinner(OfDues(x), OfDues(Out)) /\ Thinner(OfDues(y), OfDues(Out))
       /\ x \in Seq(Due) /\ Before(OfDues(x), OfDues(y), r2)
  <2>1. Within(x, Out) /\ Within(y, Out)
    BY <1>8, <1>12, PartWithin
  <2>2. x \in Seq(Due)
    BY <1>8, <1>12, PartProperties
  <2>3. Before(OfDues(x), OfDues(y), r2)
    BY <1>8, <1>11, CutBefore DEF InLine
  <2>4. QED
    BY <2>1, <2>2, <2>3, WithinThinner
<1>14. dues' = dues \o x /\ backlog' = y
  BY <1>1, ReportMeans
<1> HIDE DEF x, y
<1>15. /\ OfDues(dues \o x) = OfDues(dues) \o OfDues(x)
       /\ OfDues(dues) \in Seq(Marks) /\ OfDues(x) \in Seq(Marks)
  BY <1>6, <1>13, OfDuesProperties
<1>16. InLine(OfMessages(requests), OfJobs(work), OfDues(dues) \o OfDues(x), OfDues(y), r2)
  BY <1>11, <1>13, <1>15, ReportsInLine
<1>17. InLine(OfMessages(requests'), OfJobs(work'), OfDues(dues'), OfDues(backlog'), r2)
  BY <1>1, <1>14, <1>15, <1>16
<1>18. Rising(OfDues(installed'), r2) /\ Rising(OfDues(adopted'), r2)
  <2>1. Within(installed', installed) /\ Within(adopted', adopted)
    BY SettleThins
  <2>2. QED
    BY <1>5, <2>1, WithinThinner, ThinnerRises DEF Ranked
<1>19. Ranked(r2)'
  BY <1>17, <1>18 DEF Ranked
<1>20. n <= n + Len(batch)
  BY <1>3
<1>21. QED
  BY <1>5, <1>19, <1>20

LEMMA ChunkRanked ==
    ASSUME TypeInv, TokenInv, LiveAll, ReleaseInv, PlacesInv,
           NEW n \in Nat, NEW rank \in [Tokens -> 0 .. n], Ranked(rank),
           ScheduleChunk, work' = work,
           NEW r2, r2 = NewRank(rank, Arrived, n)
    PROVE  /\ \E n2 \in Nat : n <= n2 /\ r2 \in [Tokens -> 0 .. n2]
           /\ \A t \in Tokens : Late(t) \/ Past(t) => r2[t] = rank[t]
           /\ \A i \in DOMAIN Arrived : r2[Arrived[i].token] = n + i
           /\ Ranked(r2)'
<1>1. PICK batch : batch = Arrived
  OBVIOUS
<1>2. /\ batch \in Seq(Launch) /\ \A i \in DOMAIN batch : Early(batch[i].token)
      /\ \A i, j \in DOMAIN batch : batch[i].token = batch[j].token => i = j
  BY <1>1, ArrivedBatch
<1>3. r2 = NewRank(rank, batch, n)
  BY <1>1
<1>4. /\ r2 \in [Tokens -> 0 .. n + Len(batch)] /\ n + Len(batch) \in Nat
      /\ \A t \in Tokens : Late(t) \/ Past(t) => r2[t] = rank[t]
      /\ Recent(OfDues(batch), r2, n) /\ Ranked(r2)
  BY <1>2, <1>3, BatchRanks
<1>4a. \A i \in DOMAIN batch : r2[batch[i].token] = n + i
  BY <1>4 DEF Recent, OfDues
<1>5. /\ backlog \in Seq(Due) /\ installed \in Seq(Placed) /\ adopted \in Seq(Adopted)
      /\ \A d \in Due : d.token \in Tokens /\ \A l \in Launch : l.token \in Tokens
      /\ \A p \in Placed : p.token \in Tokens /\ \A a \in Adopted : a.token \in Tokens
  BY Tokened DEF TypeInv, LaunchTypes
<1> DEFINE more == DuesOf(batch, TRUE)
           over == Placements(batch)
<1>6. more \in Seq(Due) /\ OfDues(more) = OfDues(batch)
  BY <1>2, BatchDues
<1>7. over \in Seq(Placed) /\ OfDues(over) = OfDues(batch)
  BY <1>2, PlacementsProperties DEF OfDues
<1>8. OfDues(batch) \in Seq(Marks)
  BY <1>2, Tokened, OfDuesProperties
<1>9. /\ requests' = requests /\ dues' = dues /\ backlog' = backlog \o more
      /\ installed' = Installs(installed \o over)
  BY <1>1, ChunkMeans
<1> HIDE DEF more, over
<1>10. InLine(OfMessages(requests'), OfJobs(work'), OfDues(dues'), OfDues(backlog'), r2)
  <2>1. OfDues(backlog') = OfDues(backlog) \o OfDues(batch)
    BY <1>5, <1>6, <1>9, Tokened, OfDuesProperties
  <2>2. QED
    BY <1>4, <1>8, <1>9, <2>1, BatchInLine
<1>11. /\ Ancient(OfDues(installed), r2, n) /\ Ancient(OfDues(adopted), r2, n)
  BY <1>4, RanksStay
<1>12. Rising(OfDues(installed'), r2)
  <2>1. Before(OfDues(installed), OfDues(batch), r2) /\ Rising(OfDues(batch), r2)
    BY <1>4, <1>11, RecentFollows
  <2>2. OfDues(installed \o over) = OfDues(installed) \o OfDues(batch)
        /\ OfDues(installed) \in Seq(Marks)
    BY <1>5, <1>7, Tokened, OfDuesProperties
  <2>3. Rising(OfDues(installed \o over), r2)
    BY <1>4, <1>8, <2>1, <2>2, ConcatRises DEF Ranked
  <2>4. Within(installed', installed \o over)
    <3>1. installed \o over \in Seq(Placed)
      BY <1>5, <1>7, ConcatTypes
    <3>2. QED
      BY <1>9, <3>1, InstallsMeans
  <2>5. QED
    BY <2>3, <2>4, WithinThinner, ThinnerRises
<1>13. Rising(OfDues(adopted'), r2)
  <2>1. /\ Scenic \in Seq(Launch) /\ Within(Scenic, batch)
        /\ Adoptions = adopted \o AdoptionsOf(Scenic) /\ Within(adopted', Adoptions)
    BY <1>1, ChunkAdopts
  <2>2. /\ AdoptionsOf(Scenic) \in Seq(Adopted) /\ OfDues(AdoptionsOf(Scenic)) = OfDues(Scenic)
    BY <2>1, AdoptionsOfProperties
  <2>3. Thinner(OfDues(Scenic), OfDues(batch))
    BY <2>1, WithinThinner
  <2>4. Before(OfDues(adopted), OfDues(batch), r2) /\ Rising(OfDues(batch), r2)
    BY <1>4, <1>11, RecentFollows
  <2>5. Before(OfDues(adopted), OfDues(Scenic), r2) /\ Rising(OfDues(Scenic), r2)
    BY <2>3, <2>4, ThinnerRises DEF Thinner, Before
  <2>6. /\ OfDues(Adoptions) = OfDues(adopted) \o OfDues(Scenic)
        /\ OfDues(adopted) \in Seq(Marks) /\ OfDues(Scenic) \in Seq(Marks)
    <3> DEFINE new == AdoptionsOf(Scenic)
    <3>1. new \in Seq(Adopted) /\ OfDues(new) = OfDues(Scenic) /\ Adoptions = adopted \o new
      BY <2>1, <2>2
    <3> HIDE DEF new
    <3>2. OfDues(adopted \o new) = OfDues(adopted) \o OfDues(new)
          /\ OfDues(adopted) \in Seq(Marks) /\ OfDues(new) \in Seq(Marks)
      BY <1>5, <3>1, Tokened, OfDuesProperties
    <3>3. QED
      BY <3>1, <3>2
  <2>7. Rising(OfDues(Adoptions), r2)
    BY <1>4, <2>5, <2>6, ConcatRises DEF Ranked
  <2>8. QED
    BY <2>1, <2>7, WithinThinner, ThinnerRises
<1>14. Ranked(r2)'
  BY <1>10, <1>12, <1>13 DEF Ranked
<1>15. n <= n + Len(batch)
  BY <1>2
<1>16. QED
  BY <1>1, <1>4, <1>4a, <1>14, <1>15

-----------------------------------------------------------------------------
(* Mirrors are adopted in line                                             *)

LEMMA AwaitedLate ==
    \A d \in Due : Awaited(d) => d.token \in Tokens /\ Late(d.token)
<1>1. TAKE d \in Due
<1>2. d.token \in Tokens
  BY Tokened
<1>3. QED
  BY <1>2 DEF Awaited, Late, Reported, Handling, JobOf

LEMMA AdoptedPast ==
    ASSUME TypeInv
    PROVE  \A a \in Range(adopted) : a \in Adopted /\ a.token \in Tokens /\ Past(a.token)
<1>1. Range(adopted) \subseteq Adopted
  BY RangeTypes DEF TypeInv, LaunchTypes
<1>2. QED
  BY <1>1, Tokened DEF Past

\* A step that publishes and adopts nothing.
LEMMA FollowsAlong ==
    ASSUME TypeInv, NEW n \in Nat, NEW rank \in [Tokens -> 0 .. n],
           NEW seen \in 0 .. n, NEW shown \in 0 .. n, Follows(rank, seen, shown),
           base'.pattern = base.pattern, published'.pattern = published.pattern,
           \A d \in Due : Awaited(d)' => Awaited(d),
           \/ Seen' \in {Seen, base.pattern} /\ Range(adopted) \subseteq Range(adopted')
           \/ /\ Seen' = base.pattern
              /\ \A a \in Range(adopted) : seen < rank[a.token] => a \in Range(adopted')
    PROVE  Follows(rank, seen, shown)'
<1>1. /\ seen <= shown
      /\ Seen # base.pattern =>
            \E a \in Range(adopted) : a.pattern = base.pattern /\ rank[a.token] <= seen
      /\ published.pattern # base.pattern =>
            \E a \in Range(adopted) : /\ a.pattern = published.pattern
                                      /\ seen < rank[a.token] /\ rank[a.token] <= shown
      /\ \A d \in Due : Awaited(d) /\ Whole(d.owner) =>
            /\ shown < rank[d.token]
            /\ \E a \in Range(adopted) : a.token = d.token /\ a.pattern = d.scene
  BY DEF Follows
<1>2. \A a \in Range(adopted) : seen < rank[a.token] => a \in Range(adopted')
  OBVIOUS
<1>3. Seen' # base'.pattern =>
         \E a \in Range(adopted') : a.pattern = base'.pattern /\ rank[a.token] <= seen
  BY <1>1
<1>4. published'.pattern # base'.pattern =>
         \E a \in Range(adopted') : /\ a.pattern = published'.pattern
                                    /\ seen < rank[a.token] /\ rank[a.token] <= shown
  BY <1>1, <1>2
<1>5. ASSUME NEW d \in Due, Awaited(d)', Whole(d.owner)
      PROVE  /\ shown < rank[d.token]
             /\ \E a \in Range(adopted') : a.token = d.token /\ a.pattern = d.scene
  <2>1. Awaited(d) /\ d.token \in Tokens
    BY <1>5, Tokened
  <2>2. shown < rank[d.token]
    BY <1>1, <1>5, <2>1
  <2>3. PICK a \in Range(adopted) : a.token = d.token /\ a.pattern = d.scene
    BY <1>1, <1>5, <2>1
  <2>4. seen < rank[a.token]
    BY <1>1, <2>1, <2>2, <2>3
  <2>5. QED
    BY <1>2, <2>2, <2>3, <2>4
<1>6. QED
  BY <1>1, <1>3, <1>4, <1>5 DEF Follows

\* New ranks for early launches change nothing here.
LEMMA FollowsStays ==
    ASSUME TypeInv, NEW n \in Nat, NEW rank \in [Tokens -> 0 .. n], NEW seen, NEW shown,
           Follows(rank, seen, shown), NEW r2,
           \A t \in Tokens : Late(t) \/ Past(t) => r2[t] = rank[t]
    PROVE  Follows(r2, seen, shown)
<1>1. \A a \in Range(adopted) : r2[a.token] = rank[a.token]
  BY AdoptedPast
<1>2. \A d \in Due : Awaited(d) => r2[d.token] = rank[d.token]
  BY AwaitedLate
<1>3. QED
  BY <1>1, <1>2 DEF Follows

\* The job being applied is the first in line.
LEMMA HeadFirst ==
    ASSUME TypeInv, NEW n \in Nat, NEW rank \in [Tokens -> 0 .. n], Ranked(rank),
           work # <<>>, Head(work).op = "apply"
    PROVE  \A d \in Due :
              \/ d \in Range(backlog) \cup Range(dues)
              \/ \E j \in Range(Tail(work)) : j.op = "apply" /\ j.due = d
              => rank[Head(work).due.token] < rank[d.token]
<1>1. /\ work \in Seq(Job) /\ Head(work) = work[1] /\ Tail(work) \in Seq(Job)
      /\ Len(work) \in Nat /\ DOMAIN work = 1 .. Len(work)
      /\ DOMAIN Tail(work) = 1 .. Len(work) - 1
      /\ \A i \in 1 .. Len(work) - 1 : Tail(work)[i] = work[i + 1]
      /\ 1 \in DOMAIN work
  BY RangeTail DEF TypeInv, ControlTypes
<1>2. Head(work).due.token \in Tokens
  BY <1>1, JobFields, Tokened
<1>3. OfJobs(work)[1] = Head(work).due.token /\ DOMAIN OfJobs(work) = DOMAIN work
  BY <1>1 DEF OfJobs
<1>4. TAKE d \in Due
<1>5. d.token \in Tokens
  BY Tokened
<1>6. /\ Rising(OfJobs(work), rank) /\ Before(OfJobs(work), OfDues(dues), rank)
      /\ Before(OfJobs(work), OfDues(backlog), rank)
  BY DEF Ranked, InLine
<1>7. ASSUME NEW s, Before(OfJobs(work), OfDues(s), rank), d \in Range(s)
      PROVE  rank[Head(work).due.token] < rank[d.token]
  <2>1. PICK i \in DOMAIN s : d = s[i]
    BY <1>7 DEF Range
  <2>2. i \in DOMAIN OfDues(s) /\ OfDues(s)[i] = d.token
    BY <2>1 DEF OfDues
  <2>3. QED
    BY <1>1, <1>2, <1>3, <1>5, <1>7, <2>2 DEF Before, None, Tokens
<1>8. ASSUME NEW j \in Range(Tail(work)), j.op = "apply", j.due = d
      PROVE  rank[Head(work).due.token] < rank[d.token]
  <2>1. PICK i \in 1 .. Len(work) - 1 : j = work[i + 1]
    BY <1>1, <1>8 DEF Range
  <2>2. i + 1 \in DOMAIN work /\ 1 < i + 1
    BY <1>1
  <2>3. OfJobs(work)[i + 1] = d.token
    BY <1>8, <2>1, <2>2 DEF OfJobs
  <2>4. QED
    BY <1>1, <1>2, <1>3, <1>5, <1>6, <2>2, <2>3 DEF Rising, None, Tokens
<1>9. QED
  BY <1>6, <1>7, <1>8

\* What is awaited after a job is applied.
LEMMA ApplyAwaits ==
    ASSUME TypeInv, Apply \/ ApplyFails, UNCHANGED <<dues, backlog>>
    PROVE  \A d \in Due : Awaited(d)' =>
              /\ Awaited(d)
              /\ \/ d \in Range(backlog) \cup Range(dues)
                 \/ \E j \in Range(Tail(work)) : j.op = "apply" /\ j.due = d
<1>1. PICK more \in Seq(Job) :
         /\ work' = more \o Tail(work)
         /\ \A i \in DOMAIN more : more[i].op \in {"ack", "forget"}
  BY ApplyJobs
<1>2. work \in Seq(Job) /\ work # <<>>
  BY DEF TypeInv, ControlTypes, Apply, ApplyFails
<1>3. Tail(work) \in Seq(Job) /\ Range(Tail(work)) \subseteq Range(work)
  BY <1>2, RangeTail
<1>4. Range(work') = Range(more) \cup Range(Tail(work))
  <2>1. Range(more \o Tail(work)) = Range(more) \cup Range(Tail(work))
    BY <1>3, RangeConcat, ZenonT(30)
  <2>2. QED
    BY <1>1, <2>1
<1>5. \A j \in Range(more) : j.op # "apply"
  BY <1>1 DEF Range
<1>6. QED
  BY <1>3, <1>4, <1>5 DEF Awaited

\* Taking dues or asking for something makes nothing awaited.
LEMMA ControlAwaits ==
    ASSUME TypeInv, UNCHANGED <<backlog>>,
           DrainDues \/ (Asks /\ dues' = dues) \/ (Acknowledge /\ dues' = dues)
    PROVE  \A d \in Due : Awaited(d)' => Awaited(d)
<1>1. CASE DrainDues
  <2>1. /\ dues' = <<>>
        /\ \A j \in Range(work') : j.due \in Range(dues)
    BY <1>1, DrainMeans
  <2>2. Range(dues') = {}
    BY <2>1, RangeFew
  <2>3. QED
    BY <2>1, <2>2 DEF Awaited
<1>2. CASE Asks /\ dues' = dues
  BY <1>2 DEF Awaited, Asks
<1>3. CASE Acknowledge /\ dues' = dues
  <2>1. work \in Seq(Job) /\ work # <<>> /\ work' = Tail(work)
    BY <1>3 DEF TypeInv, ControlTypes, Acknowledge
  <2>2. Range(work') \subseteq Range(work)
    BY <2>1, RangeTail
  <2>3. QED
    BY <1>3, <2>2 DEF Awaited
<1>4. QED
  BY <1>1, <1>2, <1>3

\* An undisturbed application is a mirror.
LEMMA ApplyMirrors ==
    ASSUME TypeInv, TokenInv, Apply \/ ApplyFails, Undisturbed'
    PROVE  LET d == Head(work).due
           IN  /\ Apply /\ d \in Due /\ d.applied /\ Awaited(d)
               /\ published'.pattern = (IF Whole(d.owner) THEN d.scene ELSE published.pattern)
               /\ published'.content = [t \in Tracks |-> IF t \in TracksOf[d.owner] THEN d.scene
                                                         ELSE published.content[t]]
<1>1. PICK d : d = Head(work).due
  OBVIOUS
<1>2. /\ d \in Due /\ d.token \in Tokens /\ Head(work) \in Range(work) /\ Head(work).op = "apply"
  BY <1>1, ApplyMeans
<1>3. fate \in [Tokens -> Fates] /\ published \in Snapshot
  BY DEF TypeInv, ControlTypes, Tokens
<1>4. fate'[d.token] \notin {"failed", "applied"}
  BY <1>2 DEF Undisturbed, Tokens
<1>5. ~ApplyFails
  <2>1. SUFFICES ASSUME ApplyFails PROVE FALSE
    OBVIOUS
  <2>2. fate' = [fate EXCEPT ![d.token] = "failed"]
    BY <1>1, <2>1 DEF ApplyFails
  <2>3. QED
    BY <1>2, <1>3, <1>4, <2>2
<1>6. Apply
  BY <1>5
<1>7. d.applied
  <2>1. SUFFICES ASSUME ~d.applied PROVE FALSE
    OBVIOUS
  <2>2. fate' = [fate EXCEPT ![d.token] = "applied"]
    BY <1>1, <1>6, <2>1 DEF Apply
  <2>3. QED
    BY <1>2, <1>3, <1>4, <2>2
<1>8. Awaited(d)
  BY <1>1, <1>2, <1>7 DEF Awaited
<1>9. published' = [published EXCEPT
                      !.pattern = IF Whole(d.owner) THEN d.scene ELSE @,
                      !.epoch = IF d.applied THEN @ ELSE @ + 1,
                      !.content = [t \in Tracks |-> IF t \in TracksOf[d.owner] THEN d.scene ELSE @[t]]]
  BY <1>1, <1>6 DEF Apply
<1>10. /\ published'.pattern = (IF Whole(d.owner) THEN d.scene ELSE published.pattern)
       /\ published'.content = [t \in Tracks |-> IF t \in TracksOf[d.owner] THEN d.scene
                                                 ELSE published.content[t]]
  BY <1>3, <1>9 DEF Snapshot
<1>11. QED
  BY <1>1, <1>2, <1>6, <1>7, <1>8, <1>10

LEMMA ControlFollows ==
    ASSUME TypeInv, TokenInv, QuietInv, NEW n \in Nat, NEW rank \in [Tokens -> 0 .. n],
           Ranked(rank), NEW seen \in 0 .. n, NEW shown \in 0 .. n, Follows(rank, seen, shown),
           Control \/ DrainDues, \A s \in Scenes : ~LiveLaunch(s), Undisturbed',
           UNCHANGED <<stage, base, last, launches>>
    PROVE  \E seen2, shown2 \in 0 .. n : Follows(rank, seen2, shown2)'
<1>1. UNCHANGED <<backlog, adopted>> /\ Seen' = Seen /\ base'.pattern = base.pattern
  BY DEF launches, Seen
<1>2. ASSUME published'.pattern = published.pattern, \A d \in Due : Awaited(d)' => Awaited(d)
      PROVE  \E seen2, shown2 \in 0 .. n : Follows(rank, seen2, shown2)'
  <2>1. Range(adopted) \subseteq Range(adopted')
    BY <1>1
  <2>2. Follows(rank, seen, shown)'
    BY <1>1, <1>2, <2>1, FollowsAlong
  <2>3. QED
    BY <2>2
<1>3. CASE DrainDues \/ (Asks /\ dues' = dues) \/ (Acknowledge /\ dues' = dues)
  <2>1. published'.pattern = published.pattern
    BY <1>3 DEF DrainDues, Asks, Acknowledge
  <2>2. \A d \in Due : Awaited(d)' => Awaited(d)
    BY <1>1, <1>3, ControlAwaits
  <2>3. QED
    BY <1>2, <2>1, <2>2
<1>4. CASE (Apply \/ ApplyFails) /\ dues' = dues
  <2>1. PICK d : d = Head(work).due
    OBVIOUS
  <2>2. /\ d \in Due /\ d.applied /\ Awaited(d) /\ d.token \in Tokens /\ Apply
        /\ published'.pattern = (IF Whole(d.owner) THEN d.scene ELSE published.pattern)
    BY <1>4, <2>1, ApplyMirrors, Tokened
  <2>3. \A e \in Due : Awaited(e)' => Awaited(e) /\ rank[d.token] < rank[e.token]
    <3>1. work # <<>> /\ Head(work).op = "apply"
      BY <2>2 DEF Apply
    <3>2. \A e \in Due : \/ e \in Range(backlog) \cup Range(dues)
                         \/ \E j \in Range(Tail(work)) : j.op = "apply" /\ j.due = e
                         => rank[d.token] < rank[e.token]
      BY <2>1, <3>1, HeadFirst
    <3>3. \A e \in Due : Awaited(e)' => 
             /\ Awaited(e)
             /\ \/ e \in Range(backlog) \cup Range(dues)
                \/ \E j \in Range(Tail(work)) : j.op = "apply" /\ j.due = e
      BY <1>1, <1>4, ApplyAwaits
    <3>4. QED
      BY <3>2, <3>3
  <2>4. CASE ~Whole(d.owner)
    BY <1>2, <2>2, <2>3, <2>4
  <2>5. CASE Whole(d.owner)
    <3> DEFINE up == rank[d.token]
    <3>1. /\ seen <= shown /\ shown < up /\ up \in 0 .. n
          /\ \E a \in Range(adopted) : a.token = d.token /\ a.pattern = d.scene
      BY <2>2, <2>5 DEF Follows
    <3>2. published'.pattern = d.scene
      BY <2>2, <2>5
    <3>3. \E a \in Range(adopted) : /\ a.pattern = d.scene
                                    /\ seen < rank[a.token] /\ rank[a.token] <= up
      BY <3>1
    <3>4. Seen # base.pattern =>
             \E a \in Range(adopted) : a.pattern = base.pattern /\ rank[a.token] <= seen
      BY DEF Follows
    <3>5. \A e \in Due : Awaited(e)' /\ Whole(e.owner) =>
             /\ up < rank[e.token]
             /\ \E a \in Range(adopted) : a.token = e.token /\ a.pattern = e.scene
      BY <2>3 DEF Follows
    <3>6. adopted' = adopted /\ seen <= up
      BY <1>1, <3>1
    <3> HIDE DEF up
    <3>7. Follows(rank, seen, up)'
      BY <1>1, <3>2, <3>3, <3>4, <3>5, <3>6 DEF Follows
    <3>8. QED
      BY <3>1, <3>7
  <2>6. QED
    BY <2>4, <2>5
<1>5. QED
  BY <1>3, <1>4, ControlAsks

LEMMA LoadFollows ==
    ASSUME TypeInv, LoadedInv, NEW n \in Nat, NEW rank \in [Tokens -> 0 .. n],
           NEW seen \in 0 .. n, NEW shown \in 0 .. n, Follows(rank, seen, shown), Load,
           UNCHANGED <<work, published>>
    PROVE  \E seen2, shown2 \in 0 .. n : Follows(rank, seen2, shown2)'
<1>1. /\ stage = "load" /\ stage' = "receive" /\ base' = published
      /\ UNCHANGED <<last, backlog, dues, adopted>>
  BY DEF Load, launches
<1>2. Seen' = base.pattern
  BY <1>1 DEF Seen, LoadedInv
<1>3. \A d \in Due : Awaited(d)' => Awaited(d)
  BY <1>1 DEF Awaited
<1>4. Follows(rank, shown, shown)'
  BY <1>1, <1>2, <1>3 DEF Follows
<1>5. QED
  BY <1>4

\* Undisturbed, receiving releases what was mirrored, and nothing else.
LEMMA QuietReceive ==
    ASSUME TypeInv, LiveAll, ReleaseInv, PlacesInv, QuietInv, Undisturbed, Receive
    PROVE  LET m == Head(requests) IN
           /\ m \in Message /\ m \in Range(requests)
           /\ m.op \in {"schedule", "cancelOwner", "mirrored"} /\ dues' = dues
           /\ Range(adopted') = Range(adopted) /\ Range(backlog') = Range(backlog)
           /\ m.op # "mirrored" => Range(installed') = Range(installed)
           /\ m.op = "mirrored" =>
                 Range(installed') = {p \in Range(installed) : p.token # m.token}
<1>1. /\ requests \in Seq(Message) /\ requests # <<>> /\ dues' = dues
      /\ installed \in Seq(Placed) /\ adopted \in Seq(Adopted) /\ backlog \in Seq(Due)
      /\ owned \in [Owners -> 0 .. MaxToken]
  BY DEF TypeInv, ChannelTypes, LaunchTypes, Receive
<1>2. PICK m \in Message : m = Head(requests) /\ m \in Range(requests) /\ m = requests[1]
                           /\ 1 \in DOMAIN requests
  BY <1>1, RangeTail
<1>3. m.op \in {"schedule", "cancelOwner", "mirrored"}
  BY <1>2, MessageFields DEF QuietInv
<1>4. CASE m.op = "schedule"
  <2>1. ReceiveSchedule(m.req)
    BY <1>2, <1>4 DEF Receive
  <2>2. UNCHANGED <<installed, adopted, backlog>>
    BY <2>1 DEF ReceiveSchedule
  <2>3. QED
    BY <1>1, <1>2, <1>4, <2>2
<1>5. CASE m.op = "mirrored"
  <2>1. ReceiveMirrored(m.token)
    BY <1>2, <1>5 DEF Receive
  <2>2. installed' = Dropped(installed, {m.token}) /\ UNCHANGED <<adopted, backlog>>
    BY <2>1 DEF ReceiveMirrored
  <2>3. Range(installed') = {p \in Range(installed) : p.token \notin {m.token}}
    BY <1>1, <2>2, DroppedTypes
  <2>4. QED
    BY <1>1, <1>2, <1>5, <2>2, <2>3
<1>6. CASE m.op = "cancelOwner"
  <2> DEFINE token == {owned[m.owner]} \ {None}
             other == {d \in Range(backlog) : d.owner # m.owner}
  <2>1. ReceiveCancelOwner(m.owner) /\ m.owner \in Owners
    BY <1>2, <1>6, MessageFields DEF Receive
  <2>2. /\ installed' = Dropped(installed, token) /\ adopted' = Dropped(adopted, token)
        /\ backlog' = Kept(backlog, other)
    BY <2>1 DEF ReceiveCancelOwner
  <2>3. \A t \in token : t \in Tokens /\ Early(t)
    <3>1. SUFFICES ASSUME owned[m.owner] # None
                   PROVE  owned[m.owner] \in Tokens /\ Early(owned[m.owner])
      OBVIOUS
    <3>2. owned[m.owner] \in Tokens
      BY <1>1, <2>1, <3>1 DEF None, Tokens
    <3>3. WaitingFor(owned[m.owner])
      BY <2>1, <3>1 DEF PlacesInv, OwnedInv, WaitingFor
    <3>4. QED
      BY <3>2, <3>3 DEF Early
  <2> HIDE DEF token
  <2>4. Range(installed') = Range(installed)
    <3>1. Range(installed') = {p \in Range(installed) : p.token \notin token}
      BY <1>1, <2>2, DroppedTypes
    <3>2. \A p \in Range(installed) : p.token \notin token
      BY <2>3 DEF ReleaseInv, EarlyInv, Late, InForce
    <3>3. QED
      BY <3>1, <3>2
  <2>5. Range(adopted') = Range(adopted)
    <3>1. Range(adopted') = {a \in Range(adopted) : a.token \notin token}
      BY <1>1, <2>2, DroppedTypes
    <3>2. \A a \in Range(adopted) : a.token \notin token
      BY <2>3 DEF PlacesInv, PastInv, Past
    <3>3. QED
      BY <3>1, <3>2
  <2>6. Range(backlog') = Range(backlog)
    <3>1. ASSUME NEW d \in Range(backlog) PROVE d.owner # m.owner
      <4>0. d \in Due
        BY <1>1, <3>1, RangeTypes
      <4>1. d.token \in Tokens /\ d.owner \in Owners
        BY <4>0, Tokened DEF Due
      <4>2. Held(d.token, d.owner)
        BY <3>1 DEF Held, Delayed
      <4>3. fate[d.token] = "valid"
        BY <3>1 DEF QuietInv
      <4>4. ~Kills(requests[1], d.token, d.owner)
        BY <1>2, <4>1, <4>2, <4>3 DEF LiveAll, FifoInv
      <4>5. QED
        BY <1>2, <1>6, <4>4 DEF Kills
    <3>2. other = Range(backlog)
      BY <3>1
    <3>3. Range(backlog') = Range(backlog) \cap other
      BY <1>1, <2>2, KeptProperties
    <3>4. QED
      BY <3>2, <3>3
  <2>7. QED
    BY <1>1, <1>2, <1>6, <2>4, <2>5, <2>6
<1>7. QED
  BY <1>3, <1>4, <1>5, <1>6

LEMMA ReceiveFollows ==
    ASSUME TypeInv, LiveAll, ReleaseInv, PlacesInv, QuietInv, Undisturbed, Receive,
           UNCHANGED <<work, published>>, NEW n \in Nat, NEW rank \in [Tokens -> 0 .. n],
           NEW seen \in 0 .. n, NEW shown \in 0 .. n, Follows(rank, seen, shown)
    PROVE  Follows(rank, seen, shown)'
<1>1. UNCHANGED <<stage, base, last, dues>>
  BY DEF Receive
<1>2. Range(adopted') = Range(adopted) /\ Range(backlog') = Range(backlog)
  BY QuietReceive
<1>3. \A d \in Due : Awaited(d)' => Awaited(d)
  BY <1>1, <1>2 DEF Awaited
<1>4. Seen' = Seen
  BY <1>1 DEF Seen
<1>5. QED
  BY <1>1, <1>2, <1>3, <1>4, FollowsAlong

LEMMA ReportAwaits ==
    ASSUME TypeInv, Report, work' = work
    PROVE  \A d \in Due : Awaited(d)' <=> Awaited(d)
<1> DEFINE fresh == Range(DuesOf(InTokenOrder(Ready), FALSE))
<1>1. /\ Range(backlog') \cup Range(dues') = Range(backlog) \cup Range(dues) \cup fresh
      /\ \A d \in fresh : ~d.applied
  BY ReportRanges
<1> HIDE DEF fresh
<1>2. QED
  BY <1>1 DEF Awaited

\* The adoptions behind what the pass compares against are kept.
LEMMA AdoptionsStay ==
    ASSUME TypeInv, NEW n \in Nat, NEW rank \in [Tokens -> 0 .. n], Ranked(rank),
           NEW seen \in 0 .. n, NEW shown \in 0 .. n, Follows(rank, seen, shown), SettlePlaying
    PROVE  \A a \in Range(adopted) : seen < rank[a.token] => a \in Range(adopted')
<1>1. /\ stage = "receive"
      /\ adopted' = IF ~PatternSwitched THEN adopted
                    ELSE IF Adopts THEN SubSeq(adopted, Min(Adoption(base.pattern)) + 1, Len(adopted))
                    ELSE <<>>
  BY DEF SettlePlaying
<1>2. CASE ~PatternSwitched
  BY <1>1, <1>2
<1>3. CASE PatternSwitched
  <2> DEFINE places == Adoption(base.pattern)
             k == Min(places)
             r == SubSeq(adopted, k + 1, Len(adopted))
  <2>1. /\ adopted \in Seq(Adopted) /\ DOMAIN adopted = 1 .. Len(adopted)
        /\ Len(adopted) \in Nat /\ Len(adopted) \in 0 .. Len(adopted)
    BY DEF TypeInv, LaunchTypes
  <2>2. PICK b \in Range(adopted) : b.pattern = base.pattern /\ rank[b.token] <= seen
    BY <1>1, <1>3 DEF PatternSwitched, Follows, Seen
  <2>3. PICK j \in DOMAIN adopted : b = adopted[j]
    BY DEF Range
  <2>4. places \subseteq Nat /\ places \subseteq DOMAIN adopted /\ j \in places
    BY <2>1, <2>2, <2>3 DEF Adoption
  <2>5. Adopts
    BY <1>3, <2>4 DEF Adopts
  <2> HIDE DEF places
  <2>6. k \in places /\ k <= j
    BY <2>4, MinProperties
  <2> HIDE DEF k
  <2>7. k \in DOMAIN adopted /\ k \in Nat /\ k + 1 \in Nat \ {0} /\ j \in Nat
    BY <2>1, <2>4, <2>6
  <2>8. adopted' = r
    BY <1>1, <1>3, <2>5 DEF r, k, places
  <2>9. \A i \in DOMAIN adopted : k + 1 <= i => adopted[i] \in Range(r)
    BY <2>1, <2>7, RestKeeps
  <2> HIDE DEF r
  <2>10. \A i \in DOMAIN adopted : adopted[i].token \in Tokens
    BY <2>1, Tokened
  <2>11. ASSUME NEW i \in DOMAIN adopted, i <= k PROVE rank[adopted[i].token] <= seen
    <3>1. i <= j /\ i \in Nat
      BY <2>1, <2>6, <2>7, <2>11
    <3>2. CASE i = j
      BY <2>2, <2>3, <3>2
    <3>3. CASE i # j
      <4>1. i < j
        BY <2>7, <3>1, <3>3
      <4>2. /\ OfDues(adopted)[i] = adopted[i].token /\ OfDues(adopted)[j] = adopted[j].token
            /\ DOMAIN OfDues(adopted) = DOMAIN adopted
        BY DEF OfDues
      <4>3. adopted[i].token # None /\ adopted[j].token # None
        BY <2>10 DEF None, Tokens
      <4>4. rank[adopted[i].token] < rank[adopted[j].token]
        BY <4>1, <4>2, <4>3 DEF Ranked, Rising
      <4>5. QED
        BY <2>2, <2>3, <2>10, <4>4
    <3>4. QED
      BY <3>2, <3>3
  <2>12. \A i \in DOMAIN adopted : k < i => adopted[i] \in Range(r)
    BY <2>1, <2>7, <2>9
  <2>13. \A i \in DOMAIN adopted : i <= k \/ k < i
    BY <2>1, <2>7
  <2>14. ASSUME NEW a \in Range(adopted), seen < rank[a.token] PROVE a \in Range(r)
    <3>1. PICK i \in DOMAIN adopted : a = adopted[i]
      BY DEF Range
    <3>2. rank[a.token] \in 0 .. n
      BY <2>10, <3>1
    <3>3. ~(i <= k)
      BY <2>11, <2>14, <3>1, <3>2
    <3>4. QED
      BY <2>12, <2>13, <3>1, <3>3
  <2>15. QED
    BY <2>8, <2>14
<1>4. QED
  BY <1>2, <1>3

LEMMA SettleFollows ==
    ASSUME TypeInv, SettleStopped \/ SettlePlaying, ~forgot', UNCHANGED <<work, published>>,
           NEW n \in Nat, NEW rank \in [Tokens -> 0 .. n], Ranked(rank),
           NEW seen \in 0 .. n, NEW shown \in 0 .. n, Follows(rank, seen, shown)
    PROVE  Follows(rank, seen, shown)'
<1>1. Report /\ base' = base /\ stage' \in {"load", "schedule"}
  BY DEF SettleStopped, SettlePlaying
<1>2. \A d \in Due : Awaited(d)' => Awaited(d)
  BY <1>1, ReportAwaits
<1>3. Seen' = base.pattern
  BY <1>1 DEF Seen
<1>4. \A a \in Range(adopted) : seen < rank[a.token] => a \in Range(adopted')
  <2>1. CASE SettleStopped
    <3>1. adopted = <<>>
      BY <2>1 DEF SettleStopped
    <3>2. QED
      BY <3>1, RangeFew
  <2>2. CASE SettlePlaying
    BY <2>2, AdoptionsStay
  <2>3. QED
    BY <2>1, <2>2
<1>5. QED
  BY <1>1, <1>2, <1>3, <1>4, FollowsAlong

LEMMA PassDoneFollows ==
    ASSUME TypeInv, PassDone, UNCHANGED <<work, published>>,
           NEW n \in Nat, NEW rank \in [Tokens -> 0 .. n],
           NEW seen \in 0 .. n, NEW shown \in 0 .. n, Follows(rank, seen, shown)
    PROVE  Follows(rank, seen, shown)'
<1>1. stage' = "load" /\ UNCHANGED <<dues, base, backlog, adopted>>
  BY DEF PassDone, launches
<1>2. Seen' = base.pattern
  BY <1>1 DEF Seen
<1>3. \A d \in Due : Awaited(d)' => Awaited(d)
  BY <1>1 DEF Awaited
<1>4. QED
  BY <1>1, <1>2, <1>3, FollowsAlong

\* What is awaited after a chunk: what was, and what arrived.
LEMMA ChunkAwaits ==
    ASSUME TypeInv, ScheduleChunk, work' = work, NEW now, now = Arrived
    PROVE  /\ \A i \in DOMAIN now : /\ now[i] \in Launch /\ DueOf(now[i], TRUE) \in Due
                                    /\ Awaited(DueOf(now[i], TRUE))'
           /\ \A d \in Due : Awaited(d)' <=>
                 Awaited(d) \/ \E i \in DOMAIN now : d = DueOf(now[i], TRUE)
<1>2. now \in Seq(Launch)
  BY ArrivedProperties
<1>3. backlog' = backlog \o DuesOf(now, TRUE) /\ dues' = dues
  BY ChunkMeans
<1>4. DuesOf(now, TRUE) \in Seq(Due)
  BY <1>2, DuesOfProperties
<1>5. Range(backlog') = Range(backlog) \cup Range(DuesOf(now, TRUE))
  <2> DEFINE more == DuesOf(now, TRUE)
  <2>1. more \in Seq(Due) /\ backlog \in Seq(Due)
    BY <1>4 DEF TypeInv, LaunchTypes
  <2> HIDE DEF more
  <2>2. Range(backlog \o more) = Range(backlog) \cup Range(more)
    BY <2>1, RangeConcat
  <2>3. QED
    BY <1>3, <2>2 DEF more
<1> DEFINE due(i) == DueOf(now[i], TRUE)
<1>6. Range(DuesOf(now, TRUE)) = {due(i) : i \in DOMAIN now}
  BY DEF DuesOf, Range
<1>7. \A i \in DOMAIN now : now[i] \in Launch
  BY <1>2
<1>8. \A i \in DOMAIN now : due(i).applied
  BY DEF DueOf
<1>9. \A i \in DOMAIN now : due(i) \in Due
  BY <1>7 DEF DueOf, Launch, Due
<1>10. Range(backlog') = Range(backlog) \cup {due(i) : i \in DOMAIN now}
  BY <1>5, <1>6
<1>11. \A i \in DOMAIN now : now[i] \in Launch /\ due(i) \in Due /\ Awaited(due(i))'
  <2> HIDE DEF due
  <2>1. QED
    BY <1>7, <1>8, <1>9, <1>10 DEF Awaited
<1>12. \A d \in Due : Awaited(d)' <=> Awaited(d) \/ \E i \in DOMAIN now : d = due(i)
  <2> HIDE DEF due
  <2>1. QED
    BY <1>3, <1>8, <1>9, <1>10 DEF Awaited
<1>13. QED
  BY <1>11, <1>12

LEMMA ChunkFollows ==
    ASSUME TypeInv, ScheduleChunk, ~forgot', UNCHANGED <<work, published>>,
           NEW n \in Nat, NEW rank \in [Tokens -> 0 .. n],
           NEW seen \in 0 .. n, NEW shown \in 0 .. n, Follows(rank, seen, shown),
           NEW n2 \in Nat, NEW r2 \in [Tokens -> 0 .. n2],
           \A t \in Tokens : Late(t) \/ Past(t) => r2[t] = rank[t],
           \A i \in DOMAIN Arrived : r2[Arrived[i].token] = n + i
    PROVE  Follows(r2, seen, shown)'
<1>1. Follows(r2, seen, shown)
  BY FollowsStays
<1>2. UNCHANGED <<stage, base, last, published>>
  BY ChunkMeans
<1>3. Seen' = Seen
  BY <1>2 DEF Seen
<1>4. PICK now : now = Arrived
  OBVIOUS
<1>5. now \in Seq(Launch) /\ DOMAIN now \subseteq Nat \ {0}
  BY <1>4, ArrivedProperties
<1>6. /\ Scenic \in Seq(Launch)
      /\ Range(Scenic) = {l \in Range(now) : Whole(l.owner)}
      /\ adopted' = adopted \o AdoptionsOf(Scenic)
  BY <1>4, ChunkAdopts
<1> DEFINE new == AdoptionsOf(Scenic)
<1>7. /\ new \in Seq(Adopted) /\ DOMAIN new = DOMAIN Scenic
      /\ \A i \in DOMAIN Scenic : new[i].token = Scenic[i].token /\ new[i].pattern = Scenic[i].scene
  BY <1>6, AdoptionsOfProperties
<1> HIDE DEF new
<1>8. Range(adopted') = Range(adopted) \cup Range(new)
  <2>1. Range(adopted \o new) = Range(adopted) \cup Range(new)
    BY <1>7, RangeConcat DEF TypeInv, LaunchTypes
  <2>2. QED
    BY <1>6, <2>1 DEF new
<1>9. ASSUME NEW i \in DOMAIN now, Whole(now[i].owner)
      PROVE  \E a \in Range(adopted') : a.token = now[i].token /\ a.pattern = now[i].scene
  <2>1. now[i] \in Range(Scenic)
    BY <1>6, <1>9 DEF Range
  <2>2. PICK k \in DOMAIN Scenic : Scenic[k] = now[i]
    BY <2>1 DEF Range
  <2>3. new[k] \in Range(new)
    BY <1>7, <2>2 DEF Range
  <2>4. QED
    BY <1>7, <1>8, <2>2, <2>3
<1>10. ASSUME NEW d \in Due, Awaited(d)', Whole(d.owner)
       PROVE  /\ shown < r2[d.token]
              /\ \E a \in Range(adopted') : a.token = d.token /\ a.pattern = d.scene
  <2>1. CASE Awaited(d)
    BY <1>1, <1>8, <1>10, <2>1 DEF Follows
  <2>2. ASSUME NEW i \in DOMAIN now, d = DueOf(now[i], TRUE)
        PROVE  /\ shown < r2[d.token]
               /\ \E a \in Range(adopted') : a.token = d.token /\ a.pattern = d.scene
    <3>1. d.token = now[i].token /\ d.owner = now[i].owner /\ d.scene = now[i].scene
      BY <2>2 DEF DueOf
    <3>2. r2[d.token] = n + i /\ i \in Nat \ {0}
      BY <1>4, <1>5, <3>1
    <3>3. shown < r2[d.token]
      BY <3>2
    <3>4. QED
      BY <1>9, <1>10, <3>1, <3>3
  <2>3. QED
    <3>1. Awaited(d)' <=> Awaited(d) \/ \E i \in DOMAIN now : d = DueOf(now[i], TRUE)
      BY <1>4, ChunkAwaits
    <3>2. QED
      BY <1>10, <2>1, <2>2, <3>1
<1>11. seen <= shown
  BY <1>1 DEF Follows
<1>12. Seen' # base'.pattern =>
          \E a \in Range(adopted') : a.pattern = base'.pattern /\ r2[a.token] <= seen
  BY <1>1, <1>2, <1>3, <1>8 DEF Follows
<1>13. published'.pattern # base'.pattern =>
          \E a \in Range(adopted') : /\ a.pattern = published'.pattern
                                     /\ seen < r2[a.token] /\ r2[a.token] <= shown
  BY <1>1, <1>2, <1>8 DEF Follows
<1>14. QED
  BY <1>10, <1>11, <1>12, <1>13 DEF Follows

-----------------------------------------------------------------------------
(* What plays on a track                                                   *)

\* A step that touches neither what is installed, awaited nor published.
LEMMA OnTrackAlong ==
    ASSUME NEW rank, OnTrack(rank), launched' = launched,
           published'.content = published.content, Range(installed') = Range(installed),
           \A d \in Due : Awaited(d)' <=> Awaited(d)
    PROVE  OnTrack(rank)'
<1>1. SUFFICES ASSUME NEW t \in Tracks, launched'[t] # None
               PROVE  \E u \in Tokens : LastOn(t, u, rank)'
  BY DEF OnTrack
<1>2. PICK u \in Tokens : LastOn(t, u, rank)
  BY <1>1 DEF OnTrack
<1>3. LastOn(t, u, rank)'
  BY <1>2 DEF LastOn
<1>4. QED
  BY <1>3

\* New ranks for early launches change nothing here either.
LEMMA OnTrackStays ==
    ASSUME TypeInv, NEW n \in Nat, NEW rank \in [Tokens -> 0 .. n], OnTrack(rank), NEW r2,
           \A t \in Tokens : Late(t) \/ Past(t) => r2[t] = rank[t]
    PROVE  OnTrack(r2)
<1>1. \A d \in Due : Awaited(d) => r2[d.token] = rank[d.token]
  BY AwaitedLate
<1>2. \A p \in Range(installed) : r2[p.token] = rank[p.token]
  BY RangeTypes, Tokened DEF TypeInv, LaunchTypes, Late, InForce
<1>3. SUFFICES ASSUME NEW t \in Tracks, launched[t] # None
               PROVE  \E u \in Tokens : LastOn(t, u, r2)
  BY DEF OnTrack
<1>4. PICK u \in Tokens : LastOn(t, u, rank)
  BY <1>3 DEF OnTrack
<1>5. \/ r2[u] = rank[u]
      \/ /\ \A d \in Due : Awaited(d) => t \notin TracksOf[d.owner]
         /\ \A p \in Range(installed) : t \notin p.tracks
  BY <1>1, <1>2, <1>4 DEF LastOn
<1>6. LastOn(t, u, r2)
  BY <1>1, <1>2, <1>4, <1>5 DEF LastOn
<1>7. QED
  BY <1>6

LEMMA DrainAwaits ==
    ASSUME TypeInv, QuietInv, Undisturbed, DrainDues, backlog' = backlog
    PROVE  \A d \in Due : Awaited(d)' <=> Awaited(d)
<1>1. /\ work = <<>> /\ dues' = <<>>
      /\ \A j \in Range(work') : j.op = "apply" /\ j.due \in Range(dues)
      /\ \A d \in Range(dues) : fate[d.token] = "valid" =>
            \E j \in Range(work') : j.op = "apply" /\ j.due = d
  BY DrainMeans
<1>2. Range(work) = {} /\ Range(dues') = {}
  BY <1>1, RangeFew
<1>3. \A d \in Range(dues) : fate[d.token] = "valid"
  BY DEF QuietInv
<1>4. QED
  BY <1>1, <1>2, <1>3 DEF Awaited

LEMMA AcknowledgeAwaits ==
    ASSUME TypeInv, Acknowledge, UNCHANGED <<dues, backlog>>
    PROVE  \A d \in Due : Awaited(d)' <=> Awaited(d)
<1>1. /\ work \in Seq(Job) /\ work # <<>> /\ work' = Tail(work)
      /\ Head(work).op \in {"ack", "forget"}
  BY DEF TypeInv, ControlTypes, Acknowledge
<1>2. Range(work) = {Head(work)} \cup Range(work')
  BY <1>1, RangeTail
<1>3. QED
  BY <1>1, <1>2 DEF Awaited

LEMMA ApplyTrack ==
    ASSUME TypeInv, TokenInv, NEW n \in Nat, NEW rank \in [Tokens -> 0 .. n],
           Ranked(rank), OnTrack(rank), Apply \/ ApplyFails, Undisturbed',
           UNCHANGED <<dues, launches, launched>>
    PROVE  OnTrack(rank)'
<1>1. UNCHANGED <<backlog, installed>>
  BY DEF launches
<1>2. PICK d : d = Head(work).due
  OBVIOUS
<1>3. /\ d \in Due /\ Awaited(d) /\ d.token \in Tokens
      /\ published'.content = [t \in Tracks |-> IF t \in TracksOf[d.owner] THEN d.scene
                                                ELSE published.content[t]]
  BY <1>2, ApplyMirrors, Tokened
<1>4. work # <<>> /\ Head(work).op = "apply"
  BY DEF Apply, ApplyFails
<1>5. \A e \in Due : Awaited(e)' => Awaited(e) /\ rank[d.token] < rank[e.token]
  <2>1. \A e \in Due : \/ e \in Range(backlog) \cup Range(dues)
                       \/ \E j \in Range(Tail(work)) : j.op = "apply" /\ j.due = e
                       => rank[d.token] < rank[e.token]
    BY <1>2, <1>4, HeadFirst
  <2>2. \A e \in Due : Awaited(e)' => 
           /\ Awaited(e)
           /\ \/ e \in Range(backlog) \cup Range(dues)
              \/ \E j \in Range(Tail(work)) : j.op = "apply" /\ j.due = e
    BY <1>1, ApplyAwaits
  <2>3. QED
    BY <2>1, <2>2
<1>6. \A e \in Due : Awaited(e) /\ e # d => Awaited(e)'
  <2>1. Range(work) = {Head(work)} \cup Range(Tail(work)) /\ Range(Tail(work)) \subseteq Range(work')
    BY ApplyMeans
  <2>2. QED
    BY <1>1, <1>2, <2>1 DEF Awaited
<1>7. SUFFICES ASSUME NEW t \in Tracks, launched'[t] # None
               PROVE  \E u \in Tokens : LastOn(t, u, rank)'
  BY DEF OnTrack
<1>8. PICK u \in Tokens : LastOn(t, u, rank)
  BY <1>7 DEF OnTrack
<1>9. CASE t \notin TracksOf[d.owner]
  <2>1. \A e \in Due : t \in TracksOf[e.owner] => (Awaited(e)' <=> Awaited(e))
    BY <1>5, <1>6, <1>9
  <2>2. published'.content[t] = published.content[t]
    BY <1>3, <1>9
  <2>3. LastOn(t, u, rank)'
    BY <1>1, <1>8, <2>1, <2>2 DEF LastOn
  <2>4. QED
    BY <2>3
<1>10. CASE t \in TracksOf[d.owner]
  <2>1. rank[d.token] <= rank[u] /\ (d.token = u => d.scene = launched[t])
    BY <1>3, <1>8, <1>10 DEF LastOn
  <2>2. published'.content[t] = d.scene
    BY <1>3, <1>10
  <2>3. CASE d.token = u
    <3>1. ASSUME NEW e \in Due, Awaited(e)', t \in TracksOf[e.owner] PROVE FALSE
      <4>1. rank[e.token] <= rank[u] /\ rank[u] < rank[e.token]
        BY <1>5, <1>8, <2>3, <3>1 DEF LastOn
      <4>2. rank[e.token] \in Nat /\ rank[u] \in Nat
        BY Tokened
      <4>3. QED
        BY <4>1, <4>2
    <3>2. LastOn(t, u, rank)'
      BY <1>1, <1>8, <2>1, <2>2, <2>3, <3>1 DEF LastOn
    <3>3. QED
      BY <3>2
  <2>4. CASE d.token # u
    <3>1. PICK w \in Due : Awaited(w) /\ t \in TracksOf[w.owner] /\ w.token = u
      BY <1>3, <1>8, <1>10 DEF LastOn
    <3>2. Awaited(w)'
      BY <1>6, <2>4, <3>1
    <3>3. \E p \in Range(installed) : t \in p.tracks /\ p.token = u
      BY <1>3, <1>8, <1>10 DEF LastOn
    <3>4. LastOn(t, u, rank)'
      BY <1>1, <1>5, <1>8, <3>1, <3>2, <3>3 DEF LastOn
    <3>5. QED
      BY <3>4
  <2>5. QED
    BY <2>3, <2>4
<1>11. QED
  BY <1>9, <1>10

LEMMA ControlTrack ==
    ASSUME TypeInv, TokenInv, QuietInv, Undisturbed,
           NEW n \in Nat, NEW rank \in [Tokens -> 0 .. n], Ranked(rank), OnTrack(rank),
           Control \/ DrainDues, \A s \in Scenes : ~LiveLaunch(s), Undisturbed',
           UNCHANGED <<launches, launched>>
    PROVE  OnTrack(rank)'
<1>1. UNCHANGED <<backlog, installed, launched>>
  BY DEF launches
<1>2. ASSUME published'.content = published.content, \A d \in Due : Awaited(d)' <=> Awaited(d)
      PROVE  OnTrack(rank)'
  BY <1>1, <1>2, OnTrackAlong
<1>3. CASE DrainDues
  <2>1. published'.content = published.content
    BY <1>3 DEF DrainDues
  <2>2. QED
    BY <1>1, <1>2, <1>3, <2>1, DrainAwaits
<1>4. CASE Acknowledge /\ dues' = dues
  <2>1. published'.content = published.content
    BY <1>4 DEF Acknowledge
  <2>2. QED
    BY <1>1, <1>2, <1>4, <2>1, AcknowledgeAwaits
<1>5. CASE Asks /\ dues' = dues
  <2>1. \A d \in Due : Awaited(d)' <=> Awaited(d)
    BY <1>1, <1>5 DEF Asks, Awaited
  <2>2. QED
    BY <1>2, <1>5, <2>1 DEF Asks
<1>6. CASE (Apply \/ ApplyFails) /\ dues' = dues
  BY <1>6, ApplyTrack
<1>7. QED
  BY <1>3, <1>4, <1>5, <1>6, ControlAsks

\* The launch acknowledged first is before all that are still to be released.
LEMMA FirstInLine ==
    ASSUME TypeInv, QuietInv, Undisturbed, NEW n \in Nat, NEW rank \in [Tokens -> 0 .. n],
           Ranked(rank), requests # <<>>, NEW x, x = Head(requests).token,
           Head(requests).op = "mirrored"
    PROVE  /\ x \in Tokens
           /\ \A y \in Tokens : Reported(y) \/ Handling(y) \/ (Released(y) /\ y # x) =>
                 rank[x] < rank[y]
<1>1. /\ requests \in Seq(Message) /\ DOMAIN requests = 1 .. Len(requests)
      /\ Len(requests) \in Nat /\ 1 \in DOMAIN requests /\ Head(requests) = requests[1]
  BY DEF TypeInv, ChannelTypes
<1>2. requests[1] \in Message /\ requests[1].op = "mirrored" /\ x = requests[1].token
  BY <1>1
<1>3. x \in Tokens
  BY <1>2, MessageFields DEF Tokens
<1>4. OfMessages(requests)[1] = x /\ 1 \in DOMAIN OfMessages(requests) /\ x # None
  BY <1>1, <1>2, <1>3 DEF OfMessages, None, Tokens
<1>5. /\ Rising(OfMessages(requests), rank)
      /\ Before(OfMessages(requests), OfJobs(work), rank)
      /\ Before(OfMessages(requests), OfDues(dues), rank)
      /\ Before(OfMessages(requests), OfDues(backlog), rank)
  BY DEF Ranked, InLine
<1>6. ASSUME NEW y \in Tokens, NEW s, Before(OfMessages(requests), OfDues(s), rank),
             NEW e \in Range(s), e.token = y
      PROVE  rank[x] < rank[y]
  <2>1. PICK i \in DOMAIN s : e = s[i]
    BY DEF Range
  <2>2. i \in DOMAIN OfDues(s) /\ OfDues(s)[i] = y
    BY <1>6, <2>1 DEF OfDues
  <2>3. QED
    BY <1>4, <1>6, <2>2 DEF Before, None, Tokens
<1>7. ASSUME NEW y \in Tokens, Reported(y) PROVE rank[x] < rank[y]
  BY <1>5, <1>6, <1>7 DEF Reported
<1>8. ASSUME NEW y \in Tokens, Handling(y) PROVE rank[x] < rank[y]
  <2>1. PICK j \in Range(work) : JobOf(j, y)
    BY <1>8 DEF Handling
  <2>2. j.op # "forget"
    BY <2>1 DEF QuietInv
  <2>3. PICK i \in DOMAIN work : j = work[i]
    BY <2>1 DEF Range
  <2>4. i \in DOMAIN OfJobs(work) /\ OfJobs(work)[i] = y
    BY <2>1, <2>2, <2>3 DEF OfJobs, JobOf
  <2>5. QED
    BY <1>4, <1>5, <1>8, <2>4 DEF Before, None, Tokens
<1>9. ASSUME NEW y \in Tokens, Released(y), y # x PROVE rank[x] < rank[y]
  <2>1. PICK m \in Range(requests) : m.op = "mirrored" /\ m.token = y
    BY <1>9 DEF Released, QuietInv
  <2>2. PICK i \in DOMAIN requests : m = requests[i]
    BY DEF Range
  <2>3. 1 < i
    BY <1>1, <1>2, <1>9, <2>1, <2>2
  <2>4. i \in DOMAIN OfMessages(requests) /\ OfMessages(requests)[i] = y
    BY <2>1, <2>2 DEF OfMessages
  <2>5. QED
    BY <1>4, <1>5, <1>9, <2>3, <2>4 DEF Rising, None, Tokens
<1>10. QED
  BY <1>3, <1>7, <1>8, <1>9

LEMMA ReceiveTrack ==
    ASSUME TypeInv, LiveAll, ReleaseInv, PlacesInv, QuietInv, Undisturbed, Receive,
           UNCHANGED <<work, published>>, NEW n \in Nat, NEW rank \in [Tokens -> 0 .. n],
           Ranked(rank), OnTrack(rank)
    PROVE  OnTrack(rank)'
<1>1. UNCHANGED <<launched, dues, published, work>> /\ requests # <<>>
  BY DEF Receive, histories
<1>2. PICK m : m = Head(requests)
  OBVIOUS
<1>3. /\ Range(backlog') = Range(backlog)
      /\ m.op # "mirrored" => Range(installed') = Range(installed)
      /\ m.op = "mirrored" => Range(installed') = {p \in Range(installed) : p.token # m.token}
  BY <1>2, QuietReceive
<1>4. \A d \in Due : Awaited(d)' <=> Awaited(d)
  BY <1>1, <1>3 DEF Awaited
<1>5. CASE m.op # "mirrored"
  BY <1>1, <1>3, <1>4, <1>5, OnTrackAlong
<1>6. CASE m.op = "mirrored"
  <2>1. PICK x : x = m.token
    OBVIOUS
  <2>2. /\ x \in Tokens
        /\ \A y \in Tokens : Reported(y) \/ Handling(y) \/ (Released(y) /\ y # x) =>
              rank[x] < rank[y]
    BY <1>1, <1>2, <1>6, <2>1, FirstInLine
  <2>3. \A d \in Due : Awaited(d) => d.token \in Tokens /\ rank[x] < rank[d.token]
    <3>1. \A d \in Due : d.token \in Tokens
      BY Tokened
    <3>2. \A d \in Due : Awaited(d) => Reported(d.token) \/ Handling(d.token)
      BY DEF Awaited, Reported, Handling, JobOf
    <3>3. QED
      BY <2>2, <3>1, <3>2
  <2>4. \A p \in Range(installed) : p.token \in Tokens /\ (p.token # x => rank[x] < rank[p.token])
    <3>1. SUFFICES ASSUME NEW p \in Range(installed)
                   PROVE  p.token \in Tokens /\ (p.token # x => rank[x] < rank[p.token])
      OBVIOUS
    <3>2. p.token \in Tokens
      BY RangeTypes, Tokened DEF TypeInv, LaunchTypes
    <3>3. InForce(p.token) /\ fate[p.token] # "withdrawn"
      BY <3>2 DEF InForce, Undisturbed, Tokens
    <3>4. (fate[p.token] = "valid" /\ Reported(p.token)) \/ Handling(p.token) \/ Released(p.token)
      BY <3>2, <3>3 DEF ReleaseInv, OwedInv
    <3>5. QED
      BY <2>2, <3>2, <3>4
  <2>5. SUFFICES ASSUME NEW t \in Tracks, launched'[t] # None
                 PROVE  \E u \in Tokens : LastOn(t, u, rank)'
    BY DEF OnTrack
  <2>6. PICK u \in Tokens : LastOn(t, u, rank)
    BY <1>1, <2>5 DEF OnTrack
  <2>7. CASE u # x
    <3>1. Range(installed') = {p \in Range(installed) : p.token # x}
      BY <1>3, <1>6, <2>1
    <3>2. /\ \A p \in Range(installed') : p \in Range(installed)
          /\ \A p \in Range(installed) : p.token = u => p \in Range(installed')
      BY <2>7, <3>1
    <3>3. LastOn(t, u, rank)'
      BY <1>1, <1>4, <2>6, <3>2 DEF LastOn
    <3>4. QED
      BY <3>3
  <2>8. CASE u = x
    <3>0. rank[u] \in Nat
      OBVIOUS
    <3>1. ASSUME NEW d \in Due, Awaited(d), t \in TracksOf[d.owner] PROVE FALSE
      <4>1. rank[d.token] <= rank[u] /\ rank[u] < rank[d.token] /\ rank[d.token] \in Nat
        BY <2>3, <2>6, <2>8, <3>1 DEF LastOn
      <4>2. QED
        BY <3>0, <4>1
    <3>2. ASSUME NEW p \in Range(installed'), t \in p.tracks PROVE FALSE
      <4>1. p \in Range(installed) /\ p.token # x
        BY <1>3, <1>6, <2>1
      <4>2. rank[p.token] <= rank[u] /\ rank[u] < rank[p.token] /\ rank[p.token] \in Nat
        BY <2>4, <2>6, <2>8, <3>2, <4>1 DEF LastOn
      <4>3. QED
        BY <3>0, <4>2
    <3>3. published.content[t] = launched[t]
      BY <2>6, <3>1 DEF LastOn
    <3>4. LastOn(t, u, rank)'
      BY <1>1, <1>4, <3>1, <3>2, <3>3 DEF LastOn
    <3>5. QED
      BY <3>4
  <2>9. QED
    BY <2>7, <2>8
<1>7. QED
  BY <1>5, <1>6

\* Settling, the scheduler either starts over or keeps what is installed.
LEMMA SettleTrack ==
    ASSUME TypeInv, SettleStopped \/ SettlePlaying, UNCHANGED <<work, published>>,
           NEW n \in Nat, NEW rank \in [Tokens -> 0 .. n], OnTrack(rank)
    PROVE  OnTrack(rank)'
<1>1. CASE launched' = Nothing
  BY <1>1 DEF OnTrack, Nothing
<1>2. CASE SettlePlaying /\ launched' = launched
  <2>1. Report /\ base.playing
    BY <1>2 DEF SettlePlaying
  <2>2. installed' = installed
    BY <2>1, ReportMeans
  <2>3. QED
    BY <1>2, <2>1, <2>2, ReportAwaits, OnTrackAlong
<1>3. QED
  BY <1>1, <1>2 DEF SettleStopped, SettlePlaying

\* The newest override of a track is the last of those that have it.
LEMMA NewestMeans ==
    ASSUME NEW s \in Seq(Placed), NEW t, NEW otherwise
    PROVE  \/ /\ \A i \in DOMAIN s : t \notin s[i].tracks
              /\ Newest(s, t, otherwise) = otherwise
           \/ \E k \in DOMAIN s : /\ t \in s[k].tracks /\ Newest(s, t, otherwise) = s[k].scene
                                  /\ \A i \in DOMAIN s : t \in s[i].tracks => i <= k
<1> DEFINE over == {i \in DOMAIN s : t \in s[i].tracks}
<1>1. Len(s) \in Nat /\ DOMAIN s = 1 .. Len(s)
  OBVIOUS
<1>2. Newest(s, t, otherwise) = IF over = {} THEN otherwise ELSE s[Max(over)].scene
  BY DEF Newest
<1>3. over \subseteq 0 .. Len(s) /\ over \subseteq DOMAIN s
  BY <1>1
<1>4. \A i \in DOMAIN s : i \in over <=> t \in s[i].tracks
  OBVIOUS
<1> HIDE DEF over
<1>5. CASE over # {}
  <2>1. Max(over) \in over /\ \A i \in over : Max(over) >= i
    BY <1>1, <1>3, <1>5, MaxProperties
  <2>2. Max(over) \in Nat /\ \A i \in over : i \in Nat
    BY <1>3, <2>1
  <2>3. QED
    BY <1>2, <1>3, <1>4, <1>5, <2>1, <2>2
<1>6. QED
  BY <1>2, <1>4, <1>5

\* What is installed after a chunk.
LEMMA ChunkInstalls ==
    ASSUME TypeInv, ScheduleChunk, NEW now, now = Arrived
    PROVE  /\ installed' = Installs(installed \o Placements(now))
           /\ installed \o Placements(now) \in Seq(Placed)
           /\ Placements(now) \in Seq(Placed) /\ DOMAIN Placements(now) = DOMAIN now
           /\ DOMAIN now \subseteq Nat \ {0} /\ now \in Seq(Launch)
           /\ \A i \in DOMAIN now : /\ now[i].token \in Tokens /\ now[i].owner \in Owners
                                    /\ Placements(now)[i] = Override(now[i])
           /\ \A p \in Range(installed') :
                 \/ p \in Range(installed)
                 \/ \E i \in DOMAIN now : p = Override(now[i])
<1>1. installed' = Installs(installed \o Placements(now))
  BY ChunkMeans
<1>2. now \in Seq(Launch) /\ installed \in Seq(Placed)
  BY ArrivedProperties DEF TypeInv, LaunchTypes
<1>3. Placements(now) \in Seq(Placed) /\ DOMAIN Placements(now) = DOMAIN now
  BY <1>2, PlacementsProperties
<1>4. \A i \in DOMAIN now : Placements(now)[i] = Override(now[i])
  BY DEF Placements
<1>5. DOMAIN now \subseteq Nat \ {0} /\ \A i \in DOMAIN now : now[i] \in Launch
  BY <1>2
<1>6. \A i \in DOMAIN now : now[i].token \in Tokens /\ now[i].owner \in Owners
  BY <1>5, Tokened DEF Launch
<1> DEFINE q == Placements(now)
<1>7. q \in Seq(Placed) /\ DOMAIN q = DOMAIN now /\ \A i \in DOMAIN now : q[i] = Override(now[i])
  BY <1>3, <1>4
<1> HIDE DEF q
<1>8. /\ installed \o q \in Seq(Placed)
      /\ Range(installed \o q) = Range(installed) \cup Range(q)
  BY <1>2, <1>7, RangeConcat, ConcatTypes
<1>9. Range(Installs(installed \o q)) \subseteq Range(installed) \cup Range(q)
  BY <1>8, InstallsProperties
<1>10. \A p \in Range(q) : \E i \in DOMAIN now : p = Override(now[i])
  BY <1>7 DEF Range
<1>11. \A p \in Range(installed') :
          \/ p \in Range(installed)
          \/ \E i \in DOMAIN now : p = Override(now[i])
  BY <1>1, <1>9, <1>10 DEF q
<1>12. installed \o Placements(now) \in Seq(Placed)
  BY <1>8 DEF q
<1>13. QED
  BY <1>1, <1>2, <1>3, <1>4, <1>5, <1>6, <1>11, <1>12

\* A track on which nothing arrives keeps its last launch.
LEMMA ChunkSpares ==
    ASSUME TypeInv, ScheduleChunk, UNCHANGED <<work, published>>,
           NEW n \in Nat, NEW rank \in [Tokens -> 0 .. n], Ranked(rank),
           NEW t \in Tracks, NEW u \in Tokens, LastOn(t, u, rank), NEW now, now = Arrived,
           \A i \in DOMAIN now : t \notin TracksOf[now[i].owner]
    PROVE  launched'[t] = launched[t] /\ LastOn(t, u, rank)'
<1> DEFINE q == Placements(now)
           s == installed \o q
<1>1. /\ installed' = Installs(s) /\ s \in Seq(Placed) /\ q \in Seq(Placed)
      /\ DOMAIN q = DOMAIN now /\ \A i \in DOMAIN now : q[i] = Override(now[i])
      /\ \A p \in Range(installed') :
            \/ p \in Range(installed)
            \/ \E i \in DOMAIN now : p = Override(now[i])
  BY ChunkInstalls
<1>2. \A i \in DOMAIN now : t \notin Override(now[i]).tracks
  BY DEF Override
<1>3. \A i \in DOMAIN q : t \notin q[i].tracks
  BY <1>1, <1>2
<1>4. launched'[t] = Newest(q, t, launched[t])
  BY ChunkMeans
<1> HIDE DEF q
<1>5. launched'[t] = launched[t]
  BY <1>1, <1>3, <1>4, NewestMeans
<1>6. ASSUME NEW d \in Due, t \in TracksOf[d.owner] PROVE Awaited(d)' <=> Awaited(d)
  <2>1. Awaited(d)' <=> Awaited(d) \/ \E i \in DOMAIN now : d = DueOf(now[i], TRUE)
    BY ChunkAwaits
  <2>2. \A i \in DOMAIN now : DueOf(now[i], TRUE).owner = now[i].owner
    BY DEF DueOf
  <2>3. QED
    BY <1>6, <2>1, <2>2
<1>7. \A p \in Range(installed') : t \in p.tracks => p \in Range(installed)
  BY <1>1, <1>2
<1>8. ASSUME NEW p \in Range(installed), t \in p.tracks, p.token = u
      PROVE  p \in Range(installed')
  <2>1. PICK i \in DOMAIN installed : p = installed[i]
    BY DEF Range
  <2>2. installed \in Seq(Placed)
    BY DEF TypeInv, LaunchTypes
  <2>3. /\ i \in DOMAIN s /\ s[i] = p
        /\ \A k \in DOMAIN s : \/ k \in DOMAIN installed /\ s[k] = installed[k]
                               \/ \E j \in DOMAIN q : s[k] = q[j]
    <3>1. /\ \A k \in DOMAIN installed : k \in DOMAIN s /\ s[k] = installed[k]
          /\ \A j \in DOMAIN q : s[Len(installed) + j] = q[j]
          /\ \A k \in DOMAIN s : k \in DOMAIN installed \/ \E j \in DOMAIN q : k = Len(installed) + j
      BY <1>1, <2>2, ConcatPlaces
    <3>2. QED
      BY <2>1, <3>1
  <2> HIDE DEF s
  <2>4. SUFFICES ASSUME NEW k \in DOMAIN s, i < k, s[k].tracks = Tracks PROVE FALSE
    BY <1>1, <2>3, InstallsMeans DEF Range
  <2>5. k \in DOMAIN installed /\ s[k] = installed[k] /\ t \in installed[k].tracks
    BY <1>3, <2>3, <2>4
  <2>6. installed[k].token \in Tokens
    BY <2>2, <2>5, Tokened
  <2>7. rank[u] < rank[installed[k].token]
    <3>1. /\ OfDues(installed)[i] = u /\ OfDues(installed)[k] = installed[k].token
          /\ i \in DOMAIN OfDues(installed) /\ k \in DOMAIN OfDues(installed)
      BY <1>8, <2>1, <2>5 DEF OfDues
    <3>2. QED
      BY <2>4, <2>6, <3>1 DEF Ranked, Rising, None, Tokens
  <2>8. rank[installed[k].token] <= rank[u]
    BY <2>5 DEF LastOn, Range
  <2>9. rank[u] \in Nat /\ rank[installed[k].token] \in Nat
    BY <2>6
  <2>10. QED
    BY <2>7, <2>8, <2>9
<1>9. LastOn(t, u, rank)'
  BY <1>5, <1>6, <1>7, <1>8 DEF LastOn
<1>10. QED
  BY <1>5, <1>9

\* On a track on which something arrives, the last to arrive is the last.
LEMMA ChunkTakes ==
    ASSUME TypeInv, ScheduleChunk, UNCHANGED <<work, published>>,
           NEW n \in Nat, NEW r2, NEW t \in Tracks, NEW now, now = Arrived,
           \A d \in Due : Awaited(d) => r2[d.token] \in 0 .. n,
           \A p \in Range(installed) : r2[p.token] \in 0 .. n,
           \A i \in DOMAIN now : r2[now[i].token] = n + i,
           NEW h \in DOMAIN now, t \in TracksOf[now[h].owner]
    PROVE  \E u \in Tokens : LastOn(t, u, r2)'
<1> DEFINE q == Placements(now)
           s == installed \o q
<1>1. /\ installed' = Installs(s) /\ s \in Seq(Placed) /\ q \in Seq(Placed)
      /\ DOMAIN q = DOMAIN now /\ DOMAIN now \subseteq Nat \ {0}
      /\ \A i \in DOMAIN now : /\ now[i].token \in Tokens /\ now[i].owner \in Owners
                               /\ q[i] = Override(now[i])
      /\ \A p \in Range(installed') :
            \/ p \in Range(installed)
            \/ \E i \in DOMAIN now : p = Override(now[i])
  BY ChunkInstalls
<1>2. \A i \in DOMAIN now : /\ q[i].tracks = TracksOf[now[i].owner]
                            /\ q[i].scene = now[i].scene /\ q[i].token = now[i].token
  <2>1. \A l : /\ Override(l).tracks = TracksOf[l.owner] /\ Override(l).scene = l.scene
               /\ Override(l).token = l.token
    BY DEF Override
  <2>2. \A i \in DOMAIN now : q[i] = Override(now[i])
    BY <1>1
  <2> HIDE DEF q
  <2>3. QED
    BY <2>1, <2>2, Zenon
<1>3. launched'[t] = Newest(q, t, launched[t])
  BY ChunkMeans
<1>4. \A k \in DOMAIN s : \/ k \in DOMAIN installed
                          \/ \E j \in DOMAIN q : k = Len(installed) + j /\ s[k] = q[j]
  <2>1. installed \in Seq(Placed)
    BY DEF TypeInv, LaunchTypes
  <2> HIDE DEF q
  <2>2. QED
    BY <1>1, <2>1, ConcatPlaces
<1>5. \A j \in DOMAIN q : Len(installed) + j \in DOMAIN s /\ s[Len(installed) + j] = q[j]
  <2>1. installed \in Seq(Placed)
    BY DEF TypeInv, LaunchTypes
  <2> HIDE DEF q
  <2>2. QED
    BY <1>1, <2>1, ConcatPlaces
<1>6. Len(installed) \in Nat /\ \A k \in DOMAIN installed : k <= Len(installed)
  BY DEF TypeInv, LaunchTypes
<1> HIDE DEF q
<1>7. PICK k \in DOMAIN now : /\ t \in TracksOf[now[k].owner] /\ launched'[t] = now[k].scene
                              /\ \A i \in DOMAIN now : t \in TracksOf[now[i].owner] => i <= k
  <2>1. h \in DOMAIN q /\ t \in q[h].tracks
    BY <1>1, <1>2
  <2>2. PICK k \in DOMAIN q : /\ t \in q[k].tracks /\ launched'[t] = q[k].scene
                              /\ \A i \in DOMAIN q : t \in q[i].tracks => i <= k
    <3>1. \A x : \/ \A i \in DOMAIN q : t \notin q[i].tracks
                 \/ \E k \in DOMAIN q : /\ t \in q[k].tracks /\ Newest(q, t, x) = q[k].scene
                                        /\ \A i \in DOMAIN q : t \in q[i].tracks => i <= k
      <4>1. q \in Seq(Placed)
        BY <1>1
      <4>2. QED
        BY <4>1, NewestMeans, Zenon
    <3>2. QED
      BY <1>3, <2>1, <3>1, Zenon
  <2>3. \A i \in DOMAIN now : t \in TracksOf[now[i].owner] => i <= k
    BY <1>1, <1>2, <2>2, Zenon
  <2>4. k \in DOMAIN now /\ t \in TracksOf[now[k].owner] /\ launched'[t] = now[k].scene
    BY <1>1, <1>2, <2>2, Zenon
  <2>5. QED
    BY <2>3, <2>4
<1>8. PICK u \in Tokens : u = now[k].token
  BY <1>1
<1>9. r2[u] = n + k /\ k \in Nat \ {0}
  BY <1>1, <1>8
<1>10. ASSUME NEW d \in Due, Awaited(d)', t \in TracksOf[d.owner]
       PROVE  r2[d.token] <= r2[u] /\ (d.token = u => d.scene = launched'[t])
  <2>1. CASE Awaited(d)
    <3>1. r2[d.token] \in 0 .. n
      BY <2>1
    <3>2. QED
      BY <1>9, <3>1
  <2>2. ASSUME NEW i \in DOMAIN now, d = DueOf(now[i], TRUE)
        PROVE  r2[d.token] <= r2[u] /\ (d.token = u => d.scene = launched'[t])
    <3>1. d.token = now[i].token /\ d.owner = now[i].owner /\ d.scene = now[i].scene
      BY <2>2 DEF DueOf
    <3>2. r2[d.token] = n + i /\ i \in Nat /\ i <= k
      BY <1>1, <1>7, <1>10, <3>1
    <3>3. d.token = u => i = k
      BY <1>9, <3>2
    <3>4. QED
      BY <1>7, <1>9, <3>1, <3>2, <3>3
  <2>3. Awaited(d)' <=> Awaited(d) \/ \E i \in DOMAIN now : d = DueOf(now[i], TRUE)
    BY ChunkAwaits
  <2>4. QED
    BY <1>10, <2>1, <2>2, <2>3
<1>11. ASSUME NEW p \in Range(installed'), t \in p.tracks
       PROVE  r2[p.token] <= r2[u] /\ (p.token = u => p.scene = launched'[t])
  <2>1. CASE p \in Range(installed)
    <3>1. r2[p.token] \in 0 .. n
      BY <2>1
    <3>2. QED
      BY <1>9, <3>1
  <2>2. ASSUME NEW i \in DOMAIN now, p = Override(now[i])
        PROVE  r2[p.token] <= r2[u] /\ (p.token = u => p.scene = launched'[t])
    <3>1. p.token = now[i].token /\ p.tracks = TracksOf[now[i].owner] /\ p.scene = now[i].scene
      BY <1>1, <1>2, <2>2
    <3>2. r2[p.token] = n + i /\ i \in Nat /\ i <= k
      BY <1>1, <1>7, <1>11, <3>1
    <3>3. p.token = u => i = k
      BY <1>9, <3>2
    <3>4. QED
      BY <1>7, <1>9, <3>1, <3>2, <3>3
  <2>3. QED
    BY <1>1, <2>1, <2>2
<1>12. \E d \in Due : Awaited(d)' /\ t \in TracksOf[d.owner] /\ d.token = u
  <2>1. DueOf(now[k], TRUE) \in Due /\ Awaited(DueOf(now[k], TRUE))'
    BY ChunkAwaits
  <2>2. DueOf(now[k], TRUE).owner = now[k].owner /\ DueOf(now[k], TRUE).token = u
    BY <1>8 DEF DueOf
  <2>3. QED
    BY <1>7, <2>1, <2>2
<1>13. \E p \in Range(installed') : t \in p.tracks /\ p.token = u
  <2> DEFINE at == Len(installed) + k
  <2>1. at \in DOMAIN s /\ s[at] = q[k] /\ at \in Nat /\ Len(installed) < at
    BY <1>1, <1>5, <1>6, <1>9
  <2>2. t \in s[at].tracks /\ s[at].token = u
    BY <1>2, <1>7, <1>8, <2>1
  <2>3. \/ s[at] \in Range(Installs(s))
        \/ \E j \in DOMAIN s : at < j /\ s[j].tracks = Tracks
    <3> HIDE DEF s, at
    <3>1. QED
      BY <1>1, <2>1, InstallsMeans
  <2>4. ASSUME NEW j \in DOMAIN s, at < j, s[j].tracks = Tracks PROVE FALSE
    <3>1. j \notin DOMAIN installed
      BY <1>6, <2>1, <2>4 DEF TypeInv, LaunchTypes
    <3>2. PICK i \in DOMAIN q : j = Len(installed) + i /\ s[j] = q[i]
      BY <1>4, <3>1
    <3>3. i \in DOMAIN now /\ t \in TracksOf[now[i].owner]
      BY <1>1, <1>2, <2>4, <3>2, Zenon
    <3>4. i <= k /\ i \in Nat
      BY <1>1, <1>7, <3>3
    <3>5. QED
      BY <1>6, <1>9, <2>4, <3>2, <3>4
  <2>5. QED
    BY <1>1, <2>2, <2>3, <2>4
<1>14. LastOn(t, u, r2)'
  BY <1>10, <1>11, <1>12, <1>13 DEF LastOn
<1>15. QED
  BY <1>14

LEMMA ChunkTrack ==
    ASSUME TypeInv, ScheduleChunk, UNCHANGED <<work, published>>,
           NEW n \in Nat, NEW rank \in [Tokens -> 0 .. n], Ranked(rank), OnTrack(rank),
           NEW n2 \in Nat, NEW r2 \in [Tokens -> 0 .. n2], Ranked(r2),
           \A t \in Tokens : Late(t) \/ Past(t) => r2[t] = rank[t],
           \A i \in DOMAIN Arrived : r2[Arrived[i].token] = n + i
    PROVE  OnTrack(r2)'
<1>1. PICK now : now = Arrived
  OBVIOUS
<1>2. OnTrack(r2)
  BY OnTrackStays
<1>3. \A d \in Due : Awaited(d) => r2[d.token] \in 0 .. n
  BY AwaitedLate
<1>4. \A p \in Range(installed) : r2[p.token] \in 0 .. n
  BY RangeTypes, Tokened DEF TypeInv, LaunchTypes, Late, InForce
<1>5. \A i \in DOMAIN now : r2[now[i].token] = n + i
  BY <1>1
<1>6. SUFFICES ASSUME NEW t \in Tracks, launched'[t] # None
               PROVE  \E u \in Tokens : LastOn(t, u, r2)'
  BY DEF OnTrack
<1>7. ASSUME NEW h \in DOMAIN now, t \in TracksOf[now[h].owner]
      PROVE  \E u \in Tokens : LastOn(t, u, r2)'
  BY <1>1, <1>3, <1>4, <1>5, <1>7, ChunkTakes
<1>8. CASE \A i \in DOMAIN now : t \notin TracksOf[now[i].owner]
  <2> DEFINE q == Placements(now)
  <2>1. launched'[t] = Newest(q, t, launched[t])
    BY <1>1, ChunkMeans
  <2>2. q \in Seq(Placed) /\ \A i \in DOMAIN q : t \notin q[i].tracks
    <3>1. /\ q \in Seq(Placed) /\ DOMAIN q = DOMAIN now
          /\ \A i \in DOMAIN now : q[i] = Override(now[i])
      BY <1>1, ChunkInstalls
    <3>2. \A i \in DOMAIN now : t \notin Override(now[i]).tracks
      BY <1>8 DEF Override
    <3> HIDE DEF q
    <3>3. QED
      BY <3>1, <3>2
  <2> HIDE DEF q
  <2>3. launched'[t] = launched[t]
    BY <2>1, <2>2, NewestMeans
  <2>4. PICK u \in Tokens : LastOn(t, u, r2)
    BY <1>2, <1>6, <2>3 DEF OnTrack
  <2>5. LastOn(t, u, r2)'
    BY <1>1, <1>8, <2>4, ChunkSpares
  <2>6. QED
    BY <2>5
<1>9. QED
  BY <1>7, <1>8

-----------------------------------------------------------------------------
(* Every step leaves the launches in line                                  *)

\* One ranking shows that the launches are in line.
LEMMA InLineBy ==
    ASSUME NEW n \in Nat, NEW rank \in [Tokens -> 0 .. n], Ranked(rank)',
           Undisturbed' /\ ~forgot' => \E seen, shown \in 0 .. n : Follows(rank, seen, shown)',
           Undisturbed' => OnTrack(rank)'
    PROVE  RankInv'
<1>1. RankedBy(rank, n)'
  BY DEF RankedBy
<1>2. QED
  BY <1>1 DEF RankInv

LEMMA RankSame ==
    ASSUME RankInv, UNCHANGED <<fate, requests, work, dues, launches, stage, base, last,
                                published, launched, forgot>>
    PROVE  RankInv'
<1>1. PICK n \in Nat : \E rank \in [Tokens -> 0 .. n] : RankedBy(rank, n)
  BY DEF RankInv
<1>2. PICK rank \in [Tokens -> 0 .. n] : RankedBy(rank, n)
  BY <1>1
<1>3. UNCHANGED <<backlog, installed, adopted>> /\ (Undisturbed' <=> Undisturbed)
  BY DEF launches, Undisturbed
<1>4. \A d \in Due : Awaited(d)' <=> Awaited(d)
  BY <1>3 DEF Awaited
<1>5. Ranked(rank)'
  BY <1>2, <1>3, SameRanked DEF RankedBy
<1>6. Seen' = Seen
  BY DEF Seen
<1>7. \A seen, shown \in 0 .. n : Follows(rank, seen, shown) => Follows(rank, seen, shown)'
  BY <1>3, <1>4, <1>6 DEF Follows
<1>8. OnTrack(rank) => OnTrack(rank)'
  BY <1>3, <1>4, OnTrackAlong
<1>9. QED
  BY <1>2, <1>3, <1>5, <1>7, <1>8, InLineBy DEF RankedBy

LEMMA ControlRank ==
    ASSUME TypeInv, TokenInv, TakenInv, QuietInv, RankInv, Control \/ DrainDues,
           Acknowledge => HasRoom, \A s \in Scenes : ~LiveLaunch(s),
           \A t \in Tokens : Forward(t),
           UNCHANGED <<stage, base, last, launches, launched, forgot>>
    PROVE  RankInv'
<1>1. PICK n \in Nat : \E rank \in [Tokens -> 0 .. n] : RankedBy(rank, n)
  BY DEF RankInv
<1>2. PICK rank \in [Tokens -> 0 .. n] : RankedBy(rank, n)
  BY <1>1
<1>3. Undisturbed' => Undisturbed
  BY ControlQuiet DEF launches
<1>4. Ranked(rank) /\ Ranked(rank)'
  BY <1>2, ControlRanked DEF RankedBy
<1>5. ASSUME Undisturbed', ~forgot'
      PROVE  \E seen, shown \in 0 .. n : Follows(rank, seen, shown)'
  <2>1. PICK seen, shown \in 0 .. n : Follows(rank, seen, shown)
    BY <1>2, <1>3, <1>5 DEF RankedBy
  <2>2. QED
    BY <1>4, <1>5, <2>1, ControlFollows
<1>6. ASSUME Undisturbed' PROVE OnTrack(rank)'
  BY <1>2, <1>3, <1>4, <1>6, ControlTrack DEF RankedBy
<1>7. QED
  BY <1>4, <1>5, <1>6, InLineBy

LEMMA ReceiveRank ==
    ASSUME TypeInv, LiveAll, ReleaseInv, PlacesInv, QuietInv, RankInv, Receive,
           UNCHANGED control
    PROVE  RankInv'
<1>1. PICK n \in Nat : \E rank \in [Tokens -> 0 .. n] : RankedBy(rank, n)
  BY DEF RankInv
<1>2. PICK rank \in [Tokens -> 0 .. n] : RankedBy(rank, n)
  BY <1>1
<1>3. UNCHANGED <<fate, work, published, forgot>>
  BY DEF control, Receive, histories
<1>4. Undisturbed' => Undisturbed
  BY <1>3 DEF Undisturbed
<1>5. Ranked(rank) /\ Ranked(rank)'
  BY <1>2, <1>3, ReceiveRanked DEF RankedBy
<1>6. ASSUME Undisturbed', ~forgot'
      PROVE  \E seen, shown \in 0 .. n : Follows(rank, seen, shown)'
  <2>1. PICK seen, shown \in 0 .. n : Follows(rank, seen, shown)
    BY <1>2, <1>3, <1>4, <1>6 DEF RankedBy
  <2>2. Follows(rank, seen, shown)'
    BY <1>3, <1>4, <1>6, <2>1, ReceiveFollows
  <2>3. QED
    BY <2>2
<1>7. ASSUME Undisturbed' PROVE OnTrack(rank)'
  BY <1>2, <1>3, <1>4, <1>5, <1>7, ReceiveTrack DEF RankedBy
<1>8. QED
  BY <1>5, <1>6, <1>7, InLineBy

LEMMA PassRank ==
    ASSUME TypeInv, PlacesInv, RankInv, Load \/ PassDone, UNCHANGED control
    PROVE  RankInv'
<1>1. PICK n \in Nat : \E rank \in [Tokens -> 0 .. n] : RankedBy(rank, n)
  BY DEF RankInv
<1>2. PICK rank \in [Tokens -> 0 .. n] : RankedBy(rank, n)
  BY <1>1
<1>3. UNCHANGED <<fate, work, published, forgot, launched, requests, dues, backlog, installed,
                  adopted>>
  BY DEF control, Load, PassDone, histories, launches
<1>4. Undisturbed' => Undisturbed
  BY <1>3 DEF Undisturbed
<1>5. Ranked(rank) /\ Ranked(rank)'
  BY <1>2, <1>3, SameRanked DEF RankedBy
<1>6. ASSUME Undisturbed', ~forgot'
      PROVE  \E seen, shown \in 0 .. n : Follows(rank, seen, shown)'
  <2>1. PICK seen, shown \in 0 .. n : Follows(rank, seen, shown)
    BY <1>2, <1>3, <1>4, <1>6 DEF RankedBy
  <2>2. CASE Load
    BY <1>3, <2>1, <2>2, LoadFollows DEF PlacesInv
  <2>3. CASE PassDone
    <3>1. Follows(rank, seen, shown)'
      BY <1>3, <2>1, <2>3, PassDoneFollows
    <3>2. QED
      BY <3>1
  <2>4. QED
    BY <2>2, <2>3
<1>7. ASSUME Undisturbed' PROVE OnTrack(rank)'
  <2>1. OnTrack(rank)
    BY <1>2, <1>4, <1>7 DEF RankedBy
  <2>2. \A d \in Due : Awaited(d)' <=> Awaited(d)
    BY <1>3 DEF Awaited
  <2>3. QED
    BY <1>3, <2>1, <2>2, OnTrackAlong
<1>8. QED
  BY <1>5, <1>6, <1>7, InLineBy

LEMMA SettleRank ==
    ASSUME TypeInv, TokenInv, LiveAll, ReleaseInv, PlacesInv, RankInv,
           SettleStopped \/ SettlePlaying, UNCHANGED control
    PROVE  RankInv'
<1>1. PICK n \in Nat : \E rank \in [Tokens -> 0 .. n] : RankedBy(rank, n)
  BY DEF RankInv
<1>2. PICK rank \in [Tokens -> 0 .. n] : RankedBy(rank, n)
  BY <1>1
<1>3. UNCHANGED <<fate, work, published>> /\ (forgot => forgot')
  <2>1. UNCHANGED <<fate, work, published>>
    BY DEF control
  <2>2. forgot' = (forgot \/ adopted # <<>>) \/ forgot' = forgot
    BY Zenon DEF SettleStopped, SettlePlaying
  <2>3. forgot => forgot'
    BY <2>2, Zenon
  <2>4. QED
    BY <2>1, <2>3
<1>4. Undisturbed' => Undisturbed
  BY <1>3 DEF Undisturbed
<1>5. Ranked(rank)
  BY <1>2 DEF RankedBy
<1>6. PICK r2 : r2 = NewRank(rank, InTokenOrder(Ready), n)
  OBVIOUS
<1>7. /\ \E n2 \in Nat : n <= n2 /\ r2 \in [Tokens -> 0 .. n2]
      /\ \A t \in Tokens : Late(t) \/ Past(t) => r2[t] = rank[t]
      /\ Ranked(r2)'
  BY <1>3, <1>5, <1>6, ReportRanked
<1>8. PICK n2 \in Nat : n <= n2 /\ r2 \in [Tokens -> 0 .. n2]
  BY <1>7
<1>9. Ranked(r2)
  BY <1>5, <1>7, RanksStay
<1>10. ASSUME Undisturbed', ~forgot'
       PROVE  \E seen, shown \in 0 .. n2 : Follows(r2, seen, shown)'
  <2>1. PICK seen, shown \in 0 .. n : Follows(rank, seen, shown)
    BY <1>2, <1>3, <1>4, <1>10 DEF RankedBy
  <2>2. seen \in 0 .. n2 /\ shown \in 0 .. n2
    BY <1>8
  <2>3. Follows(r2, seen, shown)
    BY <1>7, <2>1, FollowsStays
  <2>4. Follows(r2, seen, shown)'
    BY <1>3, <1>8, <1>9, <1>10, <2>2, <2>3, SettleFollows
  <2>5. QED
    BY <2>2, <2>4
<1>11. ASSUME Undisturbed' PROVE OnTrack(r2)'
  <2>1. OnTrack(r2)
    BY <1>2, <1>4, <1>7, <1>11, OnTrackStays DEF RankedBy
  <2>2. QED
    BY <1>3, <1>8, <2>1, SettleTrack
<1>12. QED
  BY <1>7, <1>8, <1>10, <1>11, InLineBy

LEMMA ChunkRank ==
    ASSUME TypeInv, TokenInv, LiveAll, ReleaseInv, PlacesInv, RankInv, ScheduleChunk,
           UNCHANGED control
    PROVE  RankInv'
<1>1. PICK n \in Nat : \E rank \in [Tokens -> 0 .. n] : RankedBy(rank, n)
  BY DEF RankInv
<1>2. PICK rank \in [Tokens -> 0 .. n] : RankedBy(rank, n)
  BY <1>1
<1>3. UNCHANGED <<fate, work, published>> /\ (forgot => forgot')
  BY ChunkMeans DEF control
<1>4. Undisturbed' => Undisturbed
  BY <1>3 DEF Undisturbed
<1>5. Ranked(rank)
  BY <1>2 DEF RankedBy
<1>6. PICK r2 : r2 = NewRank(rank, Arrived, n)
  OBVIOUS
<1>7. /\ \E n2 \in Nat : n <= n2 /\ r2 \in [Tokens -> 0 .. n2]
      /\ \A t \in Tokens : Late(t) \/ Past(t) => r2[t] = rank[t]
      /\ \A i \in DOMAIN Arrived : r2[Arrived[i].token] = n + i
      /\ Ranked(r2)'
  BY <1>3, <1>5, <1>6, ChunkRanked
<1>8. PICK n2 \in Nat : n <= n2 /\ r2 \in [Tokens -> 0 .. n2]
  BY <1>7
<1>9. Ranked(r2)
  BY <1>5, <1>7, RanksStay
<1>10. ASSUME Undisturbed', ~forgot'
       PROVE  \E seen, shown \in 0 .. n2 : Follows(r2, seen, shown)'
  <2>1. PICK seen, shown \in 0 .. n : Follows(rank, seen, shown)
    BY <1>2, <1>3, <1>4, <1>10 DEF RankedBy
  <2>2. Follows(r2, seen, shown)'
    BY <1>3, <1>7, <1>8, <1>10, <2>1, ChunkFollows
  <2>3. seen \in 0 .. n2 /\ shown \in 0 .. n2
    BY <1>8
  <2>4. QED
    BY <2>2, <2>3
<1>11. ASSUME Undisturbed' PROVE OnTrack(r2)'
  BY <1>2, <1>3, <1>4, <1>5, <1>7, <1>8, <1>9, <1>11, ChunkTrack DEF RankedBy
<1>12. QED
  BY <1>7, <1>8, <1>10, <1>11, InLineBy

LEMMA SilentStep ==
    ASSUME TypeInv, TokenInv, LiveAll, ReleaseInv, SilentInv, [Next]_vars,
           [Acknowledge => HasRoom]_vars
    PROVE  SilentInv'
<1>1. PlacesInv /\ PlacesInv'
  BY PlacesStep DEF SilentInv
<1>2. SUFFICES ASSUME ~wiped' PROVE TakenInv' /\ QuietInv' /\ RankInv'
  BY <1>1 DEF SilentInv
<1>3. ~wiped /\ \A s \in Scenes : ~LiveLaunch(s)
  BY <1>2, WipedStays
<1>4. TakenInv /\ QuietInv /\ RankInv
  BY <1>3 DEF SilentInv
<1>5. CASE UNCHANGED <<fate, requests, work, dues, launches, stage, base, last, published,
                       launched, forgot>>
  <2>1. RankInv'
    BY <1>4, <1>5, RankSame
  <2>2. UNCHANGED <<fate, requests, work, dues, backlog>>
    BY <1>5 DEF launches
  <2>3. TakenInv' /\ QuietInv'
    BY <1>4, <2>2 DEF TakenInv, QuietInv, Undisturbed
  <2>4. QED
    BY <2>1, <2>3
<1>6. CASE UNCHANGED vars
  BY <1>5, <1>6 DEF vars, control, histories
<1>7. CASE (Control \/ DrainDues) /\ UNCHANGED <<stage, base, last, clock, launches, histories>>
  <2>1. CASE Acknowledge /\ ~HasRoom
    BY <1>6, <2>1
  <2>2. CASE Acknowledge => HasRoom
    <3>1. \A t \in Tokens : Forward(t)
      BY TokenStep
    <3>2. UNCHANGED <<launched, forgot, backlog>>
      BY <1>7 DEF histories, launches
    <3>3. TakenInv' /\ QuietInv'
      BY <1>3, <1>4, <1>7, <3>1, <3>2, ControlQuiet
    <3>4. RankInv'
      BY <1>3, <1>4, <1>7, <2>2, <3>1, <3>2, ControlRank
    <3>5. QED
      BY <3>3, <3>4
  <2>3. QED
    BY <2>1, <2>2
<1>8. CASE Scheduler /\ UNCHANGED control
  <2>1. TakenInv' /\ QuietInv'
    BY <1>4, <1>8, SchedulerQuiet
  <2>2. CASE Receive
    BY <1>1, <1>4, <1>8, <2>2, <2>1, ReceiveRank
  <2>3. CASE Load \/ PassDone
    BY <1>1, <1>4, <1>8, <2>3, <2>1, PassRank
  <2>4. CASE SettleStopped \/ SettlePlaying
    BY <1>1, <1>4, <1>8, <2>4, <2>1, SettleRank
  <2>5. CASE ScheduleChunk
    BY <1>1, <1>4, <1>8, <2>5, <2>1, ChunkRank
  <2>6. QED
    BY <1>8, <2>1, <2>2, <2>3, <2>4, <2>5 DEF Scheduler
<1>9. CASE Render
  BY <1>5, <1>9 DEF Render, control, histories
<1>10. QED
  BY <1>6, <1>7, <1>8, <1>9 DEF Next

LEMMA InitSilent == Init => SilentInv
<1>1. SUFFICES ASSUME Init PROVE SilentInv
  OBVIOUS
<1>2. PlacesInv
  BY <1>1, InitPlaces
<1>3. /\ work = <<>> /\ requests = <<>> /\ dues = <<>> /\ backlog = <<>>
      /\ installed = <<>> /\ adopted = <<>> /\ launched = Nothing
      /\ stage = "load" /\ base = published
  BY <1>1 DEF Init
<1>4. /\ Range(work) = {} /\ Range(requests) = {} /\ Range(dues) = {} /\ Range(backlog) = {}
  BY <1>3, RangeFew
<1>5. TakenInv /\ QuietInv
  BY <1>4 DEF TakenInv, QuietInv
<1> DEFINE rank == [t \in Tokens |-> 0]
<1>6. rank \in [Tokens -> 0 .. 0] /\ 0 \in Nat
  OBVIOUS
<1>7. /\ DOMAIN OfMessages(requests) = {} /\ DOMAIN OfJobs(work) = {}
      /\ DOMAIN OfDues(dues) = {} /\ DOMAIN OfDues(backlog) = {}
      /\ DOMAIN OfDues(installed) = {} /\ DOMAIN OfDues(adopted) = {}
  BY <1>3 DEF OfMessages, OfJobs, OfDues
<1> HIDE DEF rank
<1>8. Ranked(rank)
  BY <1>7 DEF Ranked, InLine, Rising, Before
<1>9. \A d \in Due : ~Awaited(d)
  BY <1>4 DEF Awaited
<1>10. Seen = base.pattern
  BY <1>3 DEF Seen
<1>11. Follows(rank, 0, 0) /\ 0 \in 0 .. 0
  BY <1>3, <1>9, <1>10 DEF Follows
<1>12. OnTrack(rank)
  BY <1>3 DEF OnTrack, Nothing
<1>13. RankedBy(rank, 0)
  BY <1>8, <1>11, <1>12 DEF RankedBy
<1>14. RankInv
  BY <1>6, <1>13 DEF RankInv
<1>15. QED
  BY <1>2, <1>5, <1>14 DEF SilentInv

\* What the scheduler's pass finds switched, it finds adopted.
LEMMA SwitchAdopts ==
    ASSUME TypeInv, SilentInv, Undisturbed, ~wiped, ~forgot PROVE MirrorIsNoSwitch
<1>1. PICK n \in Nat : \E rank \in [Tokens -> 0 .. n] : RankedBy(rank, n)
  BY DEF SilentInv, RankInv
<1>2. PICK rank \in [Tokens -> 0 .. n] : RankedBy(rank, n)
  BY <1>1
<1>3. PICK seen, shown \in 0 .. n : Follows(rank, seen, shown)
  BY <1>2 DEF RankedBy
<1>4. SUFFICES ASSUME SettlePlaying, PatternSwitched PROVE Adopts
  BY DEF MirrorIsNoSwitch
<1>5. Seen # base.pattern
  BY <1>4 DEF SettlePlaying, PatternSwitched, Seen
<1>6. PICK a \in Range(adopted) : a.pattern = base.pattern
  BY <1>3, <1>5 DEF Follows
<1>7. PICK i \in DOMAIN adopted : a = adopted[i]
  BY DEF Range
<1>8. i \in Adoption(base.pattern)
  BY <1>6, <1>7 DEF Adoption
<1>9. QED
  BY <1>4, <1>8 DEF Adopts

\* The launch that is last on a track plays there.
LastOf(s, t, u, rank, scene, otherwise) ==
    /\ Rising(OfDues(s), rank)
    /\ \A p \in Range(s) : t \in p.tracks =>
           rank[p.token] <= rank[u] /\ (p.token = u => p.scene = scene)
    /\ \/ \E p \in Range(s) : t \in p.tracks /\ p.token = u
       \/ otherwise = scene /\ \A p \in Range(s) : t \notin p.tracks

LEMMA LastPlays ==
    ASSUME NEW s \in Seq(Placed), NEW n \in Nat, NEW rank \in [Tokens -> 0 .. n],
           NEW t, NEW u \in Tokens, NEW scene, NEW otherwise,
           LastOf(s, t, u, rank, scene, otherwise)
    PROVE  Newest(s, t, otherwise) = scene
<1>0. /\ Rising(OfDues(s), rank)
      /\ \A p \in Range(s) : t \in p.tracks =>
             rank[p.token] <= rank[u] /\ (p.token = u => p.scene = scene)
      /\ \/ \E p \in Range(s) : t \in p.tracks /\ p.token = u
         \/ otherwise = scene /\ \A p \in Range(s) : t \notin p.tracks
  BY DEF LastOf
<1>1. CASE otherwise = scene /\ \A p \in Range(s) : t \notin p.tracks
  <2>1. \A i \in DOMAIN s : t \notin s[i].tracks
    BY <1>1 DEF Range
  <2>2. QED
    BY <1>1, <2>1, NewestMeans
<1>2. ASSUME NEW p \in Range(s), t \in p.tracks, p.token = u
      PROVE  Newest(s, t, otherwise) = scene
  <2>1. PICK i \in DOMAIN s : p = s[i]
    BY DEF Range
  <2>2. PICK k \in DOMAIN s : /\ t \in s[k].tracks /\ Newest(s, t, otherwise) = s[k].scene
                              /\ \A j \in DOMAIN s : t \in s[j].tracks => j <= k
    BY <1>2, <2>1, NewestMeans
  <2>3. /\ rank[s[k].token] <= rank[u] /\ (s[k].token = u => s[k].scene = scene)
    BY <1>0, <2>2 DEF Range
  <2>4. i <= k /\ i \in Nat /\ k \in Nat
    BY <1>2, <2>1, <2>2
  <2>5. CASE i = k
    BY <1>2, <2>1, <2>2, <2>3, <2>5
  <2>6. CASE i < k
    <3>1. s[k].token \in Tokens /\ s[i].token = u
      BY <1>2, <2>1, Tokened
    <3>2. /\ OfDues(s)[i] = u /\ OfDues(s)[k] = s[k].token
          /\ i \in DOMAIN OfDues(s) /\ k \in DOMAIN OfDues(s)
      BY <3>1 DEF OfDues
    <3>3. rank[u] < rank[s[k].token]
      BY <1>0, <2>6, <3>1, <3>2 DEF Rising, None, Tokens
    <3>4. rank[u] \in Nat /\ rank[s[k].token] \in Nat
      BY <3>1
    <3>5. QED
      BY <2>3, <3>3, <3>4
  <2>7. QED
    BY <2>4, <2>5, <2>6
<1>3. QED
  BY <1>0, <1>1, <1>2

LEMMA ChunkPlays ==
    ASSUME TypeInv, SilentInv, [Next]_vars, TypeInv', SilentInv', Undisturbed, ~wiped,
           base.content = published.content
    PROVE  PlaysLaunched
<1>1. SUFFICES ASSUME ScheduleChunk, NEW t \in Tracks, launched'[t] # None
               PROVE  Plays(installed', t) = launched'[t]
  BY DEF PlaysLaunched
<1>2. CASE UNCHANGED <<launches, histories>>
  <2>1. PICK n \in Nat : \E rank \in [Tokens -> 0 .. n] : RankedBy(rank, n)
    BY DEF SilentInv, RankInv
  <2>2. PICK rank \in [Tokens -> 0 .. n] : RankedBy(rank, n)
    BY <2>1
  <2>3. UNCHANGED <<installed, launched>> /\ installed \in Seq(Placed)
    BY <1>2 DEF launches, histories, TypeInv, LaunchTypes
  <2>4. PICK u \in Tokens : LastOn(t, u, rank)
    BY <1>1, <2>2, <2>3 DEF RankedBy, OnTrack
  <2>5. Rising(OfDues(installed), rank)
    BY <2>2 DEF RankedBy, Ranked
  <2>6. /\ \A p \in Range(installed) : t \in p.tracks =>
               rank[p.token] <= rank[u] /\ (p.token = u => p.scene = launched[t])
        /\ \/ \E p \in Range(installed) : t \in p.tracks /\ p.token = u
           \/ base.content[t] = launched[t] /\ \A p \in Range(installed) : t \notin p.tracks
    BY <2>4 DEF LastOn
  <2>7. Newest(installed, t, base.content[t]) = launched[t]
    <3>1. SUFFICES ASSUME NEW s, s = installed, NEW x, x = launched[t], NEW c, c = base.content[t]
                   PROVE  Newest(s, t, c) = x
      OBVIOUS
    <3>2. s \in Seq(Placed) /\ LastOf(s, t, u, rank, x, c)
      BY <2>3, <2>5, <2>6, <3>1 DEF LastOf
    <3>3. QED
      BY <3>2, LastPlays
  <2>8. QED
    BY <2>3, <2>7 DEF Plays
<1>3. CASE UNCHANGED control
  <2>1. ~wiped' /\ Undisturbed' /\ base' = base /\ published' = published
    BY <1>1, <1>3, ChunkMeans DEF control, Undisturbed
  <2>2. PICK n \in Nat : \E rank \in [Tokens -> 0 .. n] : RankedBy(rank, n)'
    BY <2>1 DEF SilentInv, RankInv
  <2>3. PICK rank \in [Tokens -> 0 .. n] : RankedBy(rank, n)'
    BY <2>2
  <2>4. PICK u \in Tokens : LastOn(t, u, rank)'
    BY <1>1, <2>1, <2>3 DEF RankedBy, OnTrack
  <2>5. Rising(OfDues(installed'), rank) /\ installed' \in Seq(Placed)
    BY <2>3 DEF RankedBy, Ranked, TypeInv, LaunchTypes, OfDues, Rising
  <2>6. /\ \A p \in Range(installed') : t \in p.tracks =>
               rank[p.token] <= rank[u] /\ (p.token = u => p.scene = launched'[t])
        /\ \/ \E p \in Range(installed') : t \in p.tracks /\ p.token = u
           \/ base.content[t] = launched'[t] /\ \A p \in Range(installed') : t \notin p.tracks
    BY <2>1, <2>4 DEF LastOn
  <2>7. Newest(installed', t, base.content[t]) = launched'[t]
    <3>1. SUFFICES ASSUME NEW s, s = installed', NEW x, x = launched'[t], NEW c, c = base.content[t]
                   PROVE  Newest(s, t, c) = x
      OBVIOUS
    <3>2. s \in Seq(Placed) /\ LastOf(s, t, u, rank, x, c)
      BY <2>5, <2>6, <3>1 DEF LastOf
    <3>3. QED
      BY <3>2, LastPlays
  <2>8. QED
    BY <2>7 DEF Plays
<1>4. QED
  BY <1>2, <1>3 DEF Next, vars, Render

\* The mirror of a launch is silent (quantized_launch.rs, adopted_patterns).  As
\* long as no launch is disturbed, no live launch cancels everything, and neither a
\* stop nor the bound on adoptions drops one, the scheduler that finds a mirrored
\* pattern in its snapshot has adopted it and does not start over.  And with an
\* up-to-date base every chunk schedules on each track what the last launch put
\* there.  Both however publications, acknowledgements, stops and the next launches
\* interleave.  The hypothesis is that of OverridesAreReleased: no acknowledgement
\* meets a full request channel.
THEOREM MirrorsAreSilent ==
    Spec /\ [][Acknowledge => HasRoom]_vars => MirrorIsSilent
<1> DEFINE Inv == TypeInv /\ TokenInv /\ LiveAll /\ ReleaseInv /\ SilentInv
<1>1. Init => Inv
  BY InitTypes, InitTokens, InitLive, InitRelease, InitSilent
<1>2. Inv /\ [Next]_vars /\ [Acknowledge => HasRoom]_vars => Inv'
  BY TypeStep, TokenStep, LiveStep, ReleaseStep, SilentStep
<1>3. Inv => (Undisturbed /\ ~wiped /\ ~forgot => MirrorIsNoSwitch)
  BY SwitchAdopts
<1>4. Inv /\ [Next]_vars /\ Inv' =>
         (Undisturbed /\ ~wiped /\ base.content = published.content => PlaysLaunched)
  BY ChunkPlays
<1>5. QED
  BY <1>1, <1>2, <1>3, <1>4, PTL
     DEF Spec, MirrorIsSilent, OnlyForgottenResyncs, TakenBackOnlyByStaleBase
=============================================================================
