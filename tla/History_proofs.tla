---------------------------- MODULE History_proofs ----------------------------
(***************************************************************************)
(* Proofs about History, for any device, any names, budgets and bounds.    *)
(* Both stacks are seen as one trail of entries, oldest first, in which    *)
(* undo and redo only move the place where the document stands.            *)
(***************************************************************************)
EXTENDS History, SequenceTheorems, WellFoundedInduction, TLAPS

-----------------------------------------------------------------------------
(* The invariant                                                           *)

Trail(u, r) ==
    [i \in 1 .. Len(u) + Len(r) |->
        IF i <= Len(u) THEN u[i] ELSE r[Len(r) + 1 - (i - Len(u))]]

\* Entries meet in one revision, which no other entry starts from and none
\* comes back to.
Ordered(t) ==
    /\ \A i, j \in DOMAIN t : i # j => t[i].revision # t[j].revision
    /\ \A i, j \in DOMAIN t : j <= i => t[i].after # t[j].revision
    /\ \A i \in 1 .. Len(t) - 1 : t[i].after = t[i + 1].revision

Below(t, next) == \A i \in DOMAIN t : t[i].revision < next /\ t[i].after < next

\* A history is numbered: its trail is in order and current is where it stands.
Numbered(h) ==
    /\ Ordered(Trail(h.undo, h.redo)) /\ Below(Trail(h.undo, h.redo), h.next)
    /\ h.undo # <<>> => h.undo[Len(h.undo)].after = h.current
    /\ h.redo # <<>> => h.redo[Len(h.redo)].revision = h.current
    /\ h.current < h.next
    /\ Len(h.undo) + Len(h.redo) <= MaxEntries

\* The document d without the frames of an unfinished drag.
SettledAt(h, d) == IF h.pending = None THEN d ELSE h.pending.before

\* Entries meet in one document.
Walks(t) == \A i \in 1 .. Len(t) - 1 : t[i].patch.after = t[i + 1].patch.before

\* A history describes a document: it is where the trail stands.
Describes(h, d) ==
    /\ Walks(Trail(h.undo, h.redo))
    /\ h.undo # <<>> => h.undo[Len(h.undo)].patch.after = SettledAt(h, d)
    /\ h.redo # <<>> => h.redo[Len(h.redo)].patch.before = SettledAt(h, d)
    /\ h.pending # None => h.pending.after = d

\* A history h and document d inside a transaction that began with c and b.
Inside(h, d, c, b) ==
    /\ c.next <= h.next
    /\ h.undo = c.undo \/ h.redo = <<>>
    /\ c.pending = None =>
        /\ h.pending = None
        /\ h.current = c.current => d = b
        /\ h.current # c.current =>
              /\ h.redo = <<>>
              /\ h.undo # <<>> => h.undo[Len(h.undo)].patch.after = d
        /\ \A i \in DOMAIN h.undo :
              h.undo[i].revision = c.current => h.undo[i].patch.before = b

HistoryInv ==
    /\ TypeOK
    /\ Numbered(history)
    /\ fits => Describes(history, doc)
    /\ txn # None =>
        /\ Numbered(txn.checkpoint)
        /\ fits => Describes(txn.checkpoint, txn.doc)
        /\ Inside(history, doc, txn.checkpoint, txn.doc)

-----------------------------------------------------------------------------
(* Trails                                                                  *)

\* A stretch of a trail, and that it is as good as the trail.
LEMMA StretchProperties ==
    ASSUME NEW t \in Seq(Entries), NEW a \in Nat \ {0}, NEW b \in Nat, a <= b + 1, b <= Len(t)
    PROVE  /\ SubSeq(t, a, b) \in Seq(Entries) /\ Len(SubSeq(t, a, b)) = b + 1 - a
           /\ \A i \in 1 .. b + 1 - a :
                 SubSeq(t, a, b)[i] = t[a - 1 + i] /\ a - 1 + i \in DOMAIN t
OBVIOUS

LEMMA StretchKeeps ==
    ASSUME NEW t \in Seq(Entries), NEW a \in Nat \ {0}, NEW b \in Nat, a <= b + 1, b <= Len(t)
    PROVE  /\ Ordered(t) => Ordered(SubSeq(t, a, b))
           /\ \A next : Below(t, next) => Below(SubSeq(t, a, b), next)
           /\ Walks(t) => Walks(SubSeq(t, a, b))
<1> DEFINE s == SubSeq(t, a, b)
           n == b + 1 - a
           at(i) == a - 1 + i
<1>1. /\ s \in Seq(Entries) /\ Len(s) = n /\ DOMAIN s = 1 .. n /\ n \in Nat
      /\ \A i \in 1 .. n : s[i] = t[at(i)] /\ at(i) \in DOMAIN t
  BY StretchProperties
<1>2. /\ \A i \in 1 .. n - 1 :
            i \in 1 .. n /\ i + 1 \in 1 .. n /\ at(i) \in 1 .. Len(t) - 1 /\ at(i + 1) = at(i) + 1
      /\ \A i, j \in 1 .. n : (i # j => at(i) # at(j)) /\ (j <= i => at(j) <= at(i))
  OBVIOUS
<1> HIDE DEF s, n, at
<1>3. ASSUME Ordered(t) PROVE Ordered(s)
  <2>1. \A i, j \in DOMAIN s : i # j => s[i].revision # s[j].revision
    BY <1>1, <1>2, <1>3 DEF Ordered
  <2>2. \A i, j \in DOMAIN s : j <= i => s[i].after # s[j].revision
    <3>1. TAKE i, j \in DOMAIN s
    <3>2. HAVE j <= i
    <3>3. at(i) \in DOMAIN t /\ at(j) \in DOMAIN t /\ at(j) <= at(i)
      BY <1>1, <1>2, <3>2
    <3>4. t[at(i)].after # t[at(j)].revision
      BY <1>3, <3>3 DEF Ordered
    <3>5. QED
      BY <1>1, <3>4
  <2>3. \A i \in 1 .. n - 1 : s[i].after = s[i + 1].revision
    <3>1. TAKE i \in 1 .. n - 1
    <3>2. t[at(i)].after = t[at(i) + 1].revision
      BY <1>2, <1>3 DEF Ordered
    <3>3. s[i] = t[at(i)] /\ s[i + 1] = t[at(i) + 1]
      BY <1>1, <1>2
    <3>4. QED
      BY <3>2, <3>3
  <2>4. QED
    BY <1>1, <2>1, <2>2, <2>3 DEF Ordered
<1>4. \A next : Below(t, next) => Below(s, next)
  BY <1>1 DEF Below
<1>5. ASSUME Walks(t) PROVE Walks(s)
  <2>1. \A i \in 1 .. n - 1 : s[i].patch.after = s[i + 1].patch.before
    <3>1. TAKE i \in 1 .. n - 1
    <3>2. t[at(i)].patch.after = t[at(i) + 1].patch.before
      BY <1>2, <1>5 DEF Walks
    <3>3. s[i] = t[at(i)] /\ s[i + 1] = t[at(i) + 1]
      BY <1>1, <1>2
    <3>4. QED
      BY <3>2, <3>3
  <2>2. QED
    BY <1>1, <2>1 DEF Walks
<1>6. QED
  BY <1>3, <1>4, <1>5 DEF s

\* An entry that starts where the trail ends, and leads to a revision of its own.
LEMMA AppendKeeps ==
    ASSUME NEW t \in Seq(Entries), NEW e \in Entries, NEW next \in Nat, Ordered(t),
           t # <<>> => t[Len(t)].after = e.revision,
           e.after # e.revision, \A j \in DOMAIN t : t[j].revision # e.after
    PROVE  /\ Append(t, e) \in Seq(Entries) /\ Ordered(Append(t, e))
           /\ Below(t, next) /\ e.revision < next /\ e.after < next => Below(Append(t, e), next)
           /\ Walks(t) /\ (t # <<>> => t[Len(t)].patch.after = e.patch.before)
                 => Walks(Append(t, e))
<1> DEFINE s == Append(t, e)
           n == Len(t)
<1>1. /\ s \in Seq(Entries) /\ Len(s) = n + 1 /\ n \in Nat
      /\ DOMAIN s = 1 .. n + 1 /\ DOMAIN t = 1 .. n /\ s[n + 1] = e
      /\ \A i \in 1 .. n : s[i] = t[i]
  OBVIOUS
<1>2. \A j \in 1 .. n : t[j].revision # e.revision
  <2>1. TAKE j \in 1 .. n
  <2>2. t # <<>> /\ n \in DOMAIN t /\ j <= n /\ j \in DOMAIN t
    BY <1>1
  <2>3. QED
    BY <2>2 DEF Ordered
<1>3. \A i \in 1 .. n + 1 : i = n + 1 \/ i \in 1 .. n
  BY <1>1
<1>4. \A i \in 1 .. Len(s) - 1 : (i = n /\ t # <<>>) \/ (i \in 1 .. n - 1 /\ i + 1 \in 1 .. n)
  <2>1. n # 0 => t # <<>>
    OBVIOUS
  <2>2. Len(s) - 1 = n /\ n \in Nat
    BY <1>1
  <2> HIDE DEF s, n
  <2>3. \A i \in 1 .. n : i = n \/ (i \in 1 .. n - 1 /\ i + 1 \in 1 .. n)
    BY <2>2
  <2>4. \A i \in 1 .. n : n # 0
    BY <2>2
  <2>5. QED
    BY <2>1, <2>2, <2>3, <2>4
<1> HIDE DEF s, n
<1>5. Ordered(s)
  <2>1. \A i, j \in DOMAIN s : i # j => s[i].revision # s[j].revision
    BY <1>1, <1>2, <1>3 DEF Ordered
  <2>2. \A i, j \in DOMAIN s : j <= i => s[i].after # s[j].revision
    <3>1. TAKE i, j \in DOMAIN s
    <3>2. HAVE j <= i
    <3>3. CASE i = n + 1
      BY <1>1, <1>3, <3>3
    <3>4. CASE i # n + 1
      <4>1. i \in 1 .. n /\ j \in 1 .. n
        BY <1>1, <1>3, <3>2, <3>4
      <4>2. QED
        BY <1>1, <3>2, <4>1 DEF Ordered
    <3>5. QED
      BY <3>3, <3>4
  <2>3. \A i \in 1 .. Len(s) - 1 : s[i].after = s[i + 1].revision
    <3>1. TAKE i \in 1 .. Len(s) - 1
    <3>2. CASE i = n /\ t # <<>>
      <4>1. n \in 1 .. n /\ s[n] = t[n]
        BY <1>1, <3>2
      <4>2. QED
        BY <1>1, <3>2, <4>1 DEF n
    <3>3. CASE i \in 1 .. n - 1 /\ i + 1 \in 1 .. n
      BY <1>1, <3>3 DEF Ordered, n
    <3>4. QED
      BY <1>4, <3>2, <3>3
  <2>4. QED
    BY <2>1, <2>2, <2>3 DEF Ordered
<1>6. Below(t, next) /\ e.revision < next /\ e.after < next => Below(s, next)
  BY <1>1, <1>3 DEF Below
<1>7. ASSUME Walks(t), t # <<>> => t[Len(t)].patch.after = e.patch.before PROVE Walks(s)
  <2>1. \A i \in 1 .. Len(s) - 1 : s[i].patch.after = s[i + 1].patch.before
    <3>1. TAKE i \in 1 .. Len(s) - 1
    <3>2. CASE i = n /\ t # <<>>
      <4>1. n \in 1 .. n /\ s[n] = t[n]
        BY <1>1, <3>2
      <4>2. QED
        BY <1>1, <1>7, <3>2, <4>1 DEF n
    <3>3. CASE i \in 1 .. n - 1 /\ i + 1 \in 1 .. n
      BY <1>1, <1>7, <3>3 DEF Walks, n
    <3>4. QED
      BY <1>4, <3>2, <3>3
  <2>2. QED
    BY <2>1 DEF Walks
<1>8. QED
  BY <1>1, <1>5, <1>6, <1>7 DEF s

\* With nothing to redo the trail is the undo stack, which is part of it always.
LEMMA TrailProperties ==
    ASSUME NEW u \in Seq(Entries), NEW r \in Seq(Entries)
    PROVE  /\ Trail(u, r) \in Seq(Entries) /\ Len(Trail(u, r)) = Len(u) + Len(r)
           /\ u = SubSeq(Trail(u, r), 1, Len(u))
           /\ r = <<>> => Trail(u, r) = u
<1> DEFINE t == Trail(u, r)
           n == Len(u)
           m == Len(r)
<1>1. /\ n \in Nat /\ m \in Nat /\ DOMAIN u = 1 .. n /\ DOMAIN r = 1 .. m
      /\ \A i \in 1 .. n : u[i] \in Entries
      /\ \A i \in 1 .. m : r[i] \in Entries
  OBVIOUS
<1>2. DOMAIN t = 1 .. n + m
  BY DEF Trail
<1>3. \A i \in 1 .. n + m : t[i] = IF i <= n THEN u[i] ELSE r[m + 1 - (i - n)]
  BY DEF Trail
<1> HIDE DEF n, m
<1>4. \A i \in 1 .. n + m : i <= n => i \in 1 .. n
  BY <1>1
<1>5. \A i \in 1 .. n + m : ~(i <= n) => m + 1 - (i - n) \in 1 .. m
  BY <1>1
<1>6. \A i \in 1 .. n + m : t[i] \in Entries
  BY <1>1, <1>3, <1>4, <1>5
<1>7. t = [i \in 1 .. n + m |-> t[i]] /\ n + m \in Nat
  BY <1>1 DEF Trail, n, m
<1>8. t \in Seq(Entries) /\ Len(t) = n + m
  <2> HIDE DEF t
  <2>1. QED
    BY <1>2, <1>6, <1>7
<1> HIDE DEF t
<1>9. u = SubSeq(t, 1, n)
  <2>1. n <= n + m
    BY <1>1
  <2>2. /\ SubSeq(t, 1, n) \in Seq(Entries) /\ Len(SubSeq(t, 1, n)) = n
        /\ \A i \in 1 .. n : SubSeq(t, 1, n)[i] = t[i]
    BY <1>1, <1>8, <2>1
  <2>3. \A i \in 1 .. n : t[i] = u[i]
    BY <1>1, <1>3
  <2>4. QED
    BY <2>2, <2>3, SeqEqual DEF n
<1>10. ASSUME r = <<>> PROVE t = u
  <2>1. m = 0
    BY <1>10 DEF m
  <2>2. Len(t) = Len(u) /\ \A i \in 1 .. n : t[i] = u[i]
    BY <1>1, <1>3, <1>8, <2>1 DEF n
  <2>3. QED
    BY <1>8, <2>2, SeqEqual DEF n
<1>11. QED
  BY <1>8, <1>9, <1>10 DEF t, n, m

\* Moving the top entry from one stack to the other moves nothing in the trail.
LEMMA TrailStays ==
    ASSUME NEW u \in Seq(Entries), NEW r \in Seq(Entries), NEW e \in Entries
    PROVE  Trail(u, Append(r, e)) = Trail(Append(u, e), r)
<1> DEFINE s == Trail(u, Append(r, e))
           t == Trail(Append(u, e), r)
           n == Len(u)
           m == Len(r)
<1>1. /\ n \in Nat /\ m \in Nat
      /\ Append(r, e) \in Seq(Entries) /\ Len(Append(r, e)) = m + 1
      /\ Append(u, e) \in Seq(Entries) /\ Len(Append(u, e)) = n + 1
      /\ \A i \in 1 .. n : Append(u, e)[i] = u[i]
      /\ \A i \in 1 .. m : Append(r, e)[i] = r[i]
      /\ Append(u, e)[n + 1] = e /\ Append(r, e)[m + 1] = e
  OBVIOUS
<1>2. /\ s \in Seq(Entries) /\ Len(s) = n + (m + 1)
      /\ t \in Seq(Entries) /\ Len(t) = (n + 1) + m
  <2>1. ASSUME NEW v \in Seq(Entries), NEW w \in Seq(Entries)
        PROVE  Trail(v, w) \in Seq(Entries) /\ Len(Trail(v, w)) = Len(v) + Len(w)
    BY TrailProperties
  <2>2. s \in Seq(Entries) /\ Len(s) = Len(u) + Len(Append(r, e))
    <3>1. Append(r, e) \in Seq(Entries)
      BY <1>1
    <3>2. QED
      BY <2>1, <3>1, Zenon
  <2>3. t \in Seq(Entries) /\ Len(t) = Len(Append(u, e)) + Len(r)
    <3>1. Append(u, e) \in Seq(Entries)
      BY <1>1
    <3>2. QED
      BY <2>1, <3>1, Zenon
  <2> HIDE DEF s, t
  <2>4. QED
    BY <1>1, <2>2, <2>3
<1>3. /\ DOMAIN s = 1 .. n + (m + 1) /\ DOMAIN t = 1 .. (n + 1) + m
      /\ \A i \in 1 .. n + (m + 1) :
            s[i] = IF i <= n THEN u[i] ELSE Append(r, e)[(m + 1) + 1 - (i - n)]
      /\ \A i \in 1 .. (n + 1) + m :
            t[i] = IF i <= n + 1 THEN Append(u, e)[i] ELSE r[m + 1 - (i - (n + 1))]
  BY <1>1 DEF Trail
<1> HIDE DEF s, t, n, m
<1>4. n + (m + 1) = (n + 1) + m
  BY <1>1
<1>5. ASSUME NEW i \in 1 .. (n + 1) + m PROVE s[i] = t[i]
  <2>1. CASE i <= n
    <3>1. i \in 1 .. n /\ i <= n + 1
      BY <1>1, <2>1
    <3>2. QED
      BY <1>1, <1>3, <1>4, <2>1, <3>1
  <2>2. CASE i = n + 1
    <3>1. ~(i <= n) /\ i <= n + 1 /\ (m + 1) + 1 - (i - n) = m + 1
      BY <1>1, <2>2
    <3>2. s[i] = Append(r, e)[m + 1] /\ t[i] = Append(u, e)[n + 1]
      BY <1>3, <1>4, <2>2, <3>1
    <3>3. QED
      BY <1>1, <3>2
  <2>3. CASE i > n + 1
    <3>1. /\ ~(i <= n) /\ ~(i <= n + 1) /\ m + 1 - (i - (n + 1)) \in 1 .. m
          /\ (m + 1) + 1 - (i - n) = m + 1 - (i - (n + 1))
      BY <1>1, <2>3
    <3>2. /\ s[i] = Append(r, e)[m + 1 - (i - (n + 1))]
          /\ t[i] = r[m + 1 - (i - (n + 1))]
      BY <1>3, <1>4, <3>1
    <3>3. QED
      BY <1>1, <3>1, <3>2
  <2>4. QED
    BY <1>1, <2>1, <2>2, <2>3
<1>6. s = t
  BY <1>2, <1>4, <1>5, SeqEqual
<1>7. QED
  BY <1>6 DEF s, t

\* Nor does moving several.
LEMMA TrailStaysUndoing ==
    ASSUME NEW u \in Seq(Entries), NEW r \in Seq(Entries), NEW k \in Nat, k <= Len(u)
    PROVE  LET back == r \o Reverse(SubSeq(u, k + 1, Len(u)))
           IN  /\ back \in Seq(Entries) /\ Len(back) = Len(r) + (Len(u) - k)
               /\ k < Len(u) => back[Len(back)] = u[k + 1]
               /\ Trail(SubSeq(u, 1, k), back) = Trail(u, r)
<1> DEFINE top == SubSeq(u, k + 1, Len(u))
           low == SubSeq(u, 1, k)
           back == r \o Reverse(top)
           s == Trail(low, back)
           t == Trail(u, r)
           n == Len(u)
           m == Len(r)
<1>1. /\ n \in Nat /\ m \in Nat /\ DOMAIN r = 1 .. m /\ DOMAIN u = 1 .. n
      /\ top \in Seq(Entries) /\ Len(top) = n - k
      /\ \A i \in 1 .. n - k : top[i] = u[k + i]
      /\ low \in Seq(Entries) /\ Len(low) = k
      /\ \A i \in 1 .. k : low[i] = u[i]
  <2>1. n \in Nat /\ m \in Nat /\ DOMAIN r = 1 .. m /\ DOMAIN u = 1 .. n
    OBVIOUS
  <2>2. /\ top \in Seq(Entries) /\ Len(top) = n - k
        /\ \A i \in 1 .. n - k : top[i] = u[k + i]
    OBVIOUS
  <2>3. /\ low \in Seq(Entries) /\ Len(low) = k
        /\ \A i \in 1 .. k : low[i] = u[i]
    OBVIOUS
  <2>4. QED
    BY <2>1, <2>2, <2>3
<1> HIDE DEF top, low, n, m
<1>2. /\ Reverse(top) \in Seq(Entries) /\ Len(Reverse(top)) = n - k
      /\ \A i \in 1 .. n - k : Reverse(top)[i] = u[n + 1 - i]
  <2>1. Reverse(top) = [i \in 1 .. Len(top) |-> top[(Len(top) - i) + 1]]
    BY DEF Reverse
  <2>2. \A i \in 1 .. n - k : /\ (n - k - i) + 1 \in 1 .. n - k
                              /\ k + ((n - k - i) + 1) = n + 1 - i
    BY <1>1
  <2>3. \A i \in 1 .. n - k : top[i] \in Entries
    BY <1>1
  <2>4. Reverse(top) \in [1 .. n - k -> Entries] /\ n - k \in Nat
    <3>1. n - k \in Nat
      BY <1>1 DEF n
    <3>2. \A i \in 1 .. n - k : top[(n - k - i) + 1] \in Entries
      BY <2>2, <2>3
    <3>3. QED
      BY <1>1, <2>1, <3>1, <3>2
  <2>5. Reverse(top) \in Seq(Entries) /\ Len(Reverse(top)) = n - k
    BY <2>4
  <2>6. \A i \in 1 .. n - k : Reverse(top)[i] = u[n + 1 - i]
    <3>1. TAKE i \in 1 .. n - k
    <3>2. Reverse(top)[i] = top[(n - k - i) + 1]
      BY <1>1, <2>1
    <3>3. top[(n - k - i) + 1] = u[k + ((n - k - i) + 1)]
      BY <1>1, <2>2
    <3>4. k + ((n - k - i) + 1) = n + 1 - i
      BY <2>2
    <3>5. QED
      BY <3>2, <3>3, <3>4
  <2>7. QED
    BY <2>5, <2>6
<1>3. /\ back \in Seq(Entries) /\ Len(back) = m + (n - k)
      /\ \A i \in 1 .. m : back[i] = r[i]
      /\ \A i \in 1 .. n - k : back[m + i] = u[n + 1 - i]
  <2>1. /\ back \in Seq(Entries) /\ Len(back) = Len(r) + Len(Reverse(top))
        /\ \A i \in 1 .. Len(r) : back[i] = r[i]
        /\ \A i \in 1 .. Len(Reverse(top)) : back[Len(r) + i] = Reverse(top)[i]
    <3> DEFINE w == Reverse(top)
    <3>1. w \in Seq(Entries) /\ Len(w) \in Nat /\ Len(r) \in Nat
      BY <1>2
    <3> HIDE DEF w
    <3>2. /\ r \o w \in Seq(Entries) /\ Len(r \o w) = Len(r) + Len(w)
          /\ \A i \in 1 .. Len(r) + Len(w) :
                (r \o w)[i] = IF i <= Len(r) THEN r[i] ELSE w[i - Len(r)]
      BY <3>1, ConcatProperties
    <3>3. \A i \in 1 .. Len(r) : (r \o w)[i] = r[i]
      BY <3>1, <3>2
    <3>4. \A i \in 1 .. Len(w) : (r \o w)[Len(r) + i] = w[i]
      BY <3>1, <3>2
    <3>5. QED
      BY <3>2, <3>3, <3>4 DEF w
  <2>2. QED
    BY <1>2, <2>1 DEF m
<1> HIDE DEF back
<1>4. k <= n
  BY DEF n
<1>5. ASSUME k < n PROVE back[Len(back)] = u[k + 1]
  <2>1. n - k \in 1 .. n - k /\ n + 1 - (n - k) = k + 1
    BY <1>1, <1>5
  <2>2. QED
    BY <1>3, <2>1
<1>6. /\ s \in Seq(Entries) /\ Len(s) = k + (m + (n - k))
      /\ t \in Seq(Entries) /\ Len(t) = n + m
  BY <1>1, <1>3, TrailProperties DEF n, m
<1>7. k + (m + (n - k)) = n + m
  BY <1>1, <1>4
<1>8. /\ \A i \in 1 .. n + m :
            s[i] = IF i <= k THEN low[i] ELSE back[(m + (n - k)) + 1 - (i - k)]
      /\ \A i \in 1 .. n + m : t[i] = IF i <= n THEN u[i] ELSE r[m + 1 - (i - n)]
  BY <1>1, <1>3, <1>7 DEF Trail, n, m
<1> HIDE DEF s, t
<1>9. ASSUME NEW i \in 1 .. n + m PROVE s[i] = t[i]
  <2>1. CASE i <= k
    <3>1. i \in 1 .. k /\ i <= n
      BY <1>1, <1>4, <2>1
    <3>2. QED
      BY <1>1, <1>8, <2>1, <3>1
  <2>2. CASE i > k /\ i <= n
    <3>1. /\ ~(i <= k) /\ n + 1 - i \in 1 .. n - k
          /\ (m + (n - k)) + 1 - (i - k) = m + (n + 1 - i)
          /\ n + 1 - (n + 1 - i) = i
      BY <1>1, <1>4, <2>2
    <3>2. s[i] = back[m + (n + 1 - i)] /\ back[m + (n + 1 - i)] = u[i] /\ t[i] = u[i]
      BY <1>3, <1>8, <2>2, <3>1
    <3>3. QED
      BY <3>2
  <2>3. CASE i > n
    <3>1. /\ ~(i <= k) /\ ~(i <= n) /\ m + 1 - (i - n) \in 1 .. m
          /\ (m + (n - k)) + 1 - (i - k) = m + 1 - (i - n)
      BY <1>1, <1>4, <2>3
    <3>2. QED
      BY <1>3, <1>8, <3>1
  <2>4. QED
    BY <1>1, <1>4, <2>1, <2>2, <2>3
<1>10. s = t
  BY <1>6, <1>7, <1>9, SeqEqual
<1>11. QED
  BY <1>3, <1>5, <1>10 DEF s, t, back, top, low, n, m

-----------------------------------------------------------------------------
(* The operations of the history                                           *)

\* A set of natural numbers has a least one.
LEMMA LeastNatural ==
    ASSUME NEW T, T \subseteq Nat, T # {}
    PROVE  \E x \in T : \A y \in T : x <= y
<1> DEFINE R == OpToRel(<, Nat)
<1>1. IsWellFoundedOn(R, Nat)
  BY NatLessThanWellFounded
<1>2. \A x, y \in Nat : x < y => <<x, y>> \in R
  BY DEF OpToRel
<1> HIDE DEF R
<1>3. PICK x \in T : \A y \in T : <<y, x>> \notin R
  BY <1>1, WFMin
<1>4. \A y \in T : ~(y < x)
  BY <1>2, <1>3, Zenon
<1>5. \A y \in T : x <= y
  BY <1>4
<1>6. QED
  BY <1>5

\* Enforcing the budget after an entry was pushed drops the oldest entries, and
\* never the one just pushed.
LEMMA BudgetKeeps ==
    ASSUME NEW h \in Histories, h.redo = <<>>, h.undo # <<>>,
           NEW protected, h.undo[Len(h.undo)].after = protected,
           \A i \in 1 .. Len(h.undo) - 1 : h.undo[i].after # protected
    PROVE  \E n \in Nat :
              /\ n < Len(h.undo) /\ Len(h.undo) - n <= MaxEntries
              /\ Len(h.undo) <= MaxEntries => n = 0
              /\ EnforceBudget(h, protected) =
                    [h EXCEPT !.undo = SubSeq(h.undo, n + 1, Len(h.undo))]
<1> DEFINE all == h.undo \o Reverse(h.redo)
           Stop(n) == Len(all) - n <= MaxEntries \/ all[n + 1].after = protected
           Drop(n) == /\ Stop(n)
                      /\ \A m \in 0 .. (n - 1) :
                            Len(all) - m > MaxEntries /\ all[m + 1].after # protected
           l == Len(h.undo)
<1>1. h.undo \in Seq(Entries) /\ h.redo \in Seq(Entries) /\ l \in Nat /\ l # 0
  BY DEF Histories
<1>2. all = h.undo
  <2>1. Reverse(h.redo) = <<>>
    BY DEF Reverse
  <2>2. QED
    BY <1>1, <2>1
<1> HIDE DEF all
<1>3. MaxEntries \in Nat \ {0}
  BY BudgetAssumption
<1>4. PICK n \in 0 .. l : Stop(n) /\ \A m \in 0 .. l : Stop(m) => n <= m
  <2> DEFINE stops == {m \in 0 .. l : Stop(m)}
  <2>1. l \in stops
    BY <1>1, <1>2, <1>3
  <2>2. stops \subseteq Nat /\ stops # {}
    BY <1>1, <2>1
  <2>3. PICK n \in stops : \A m \in stops : n <= m
    <3> HIDE DEF stops
    <3>1. QED
      BY <2>2, LeastNatural
  <2>4. QED
    BY <2>3
<1>5. Drop(n)
  <2>1. ASSUME NEW m \in 0 .. (n - 1) PROVE ~Stop(m)
    <3>1. m \in 0 .. l /\ ~(n <= m)
      BY <1>1, <1>4
    <3>2. QED
      BY <1>4, <3>1
  <2>2. \A m \in 0 .. (n - 1) : Len(all) - m > MaxEntries /\ all[m + 1].after # protected
    <3>1. TAKE m \in 0 .. (n - 1)
    <3>2. ~Stop(m) /\ Len(all) - m \in Int
      BY <1>1, <1>2, <2>1
    <3>3. QED
      BY <1>3, <3>2
  <2>3. QED
    BY <1>4, <2>2
<1>6. \A m \in 0 .. l : Drop(m) => m = n
  <2>1. TAKE m \in 0 .. l
  <2>2. HAVE Drop(m)
  <2>3. n <= m
    BY <1>4, <2>2
  <2>4. ~(n < m)
    <3>1. SUFFICES ASSUME n \in 0 .. (m - 1) PROVE FALSE
      BY <1>1
    <3>2. Len(all) - n > MaxEntries /\ all[n + 1].after # protected
      BY <2>2, <3>1
    <3>3. Len(all) - n \in Int
      BY <1>1, <1>2
    <3>4. QED
      BY <1>3, <1>4, <3>2, <3>3
  <2>5. QED
    BY <1>1, <2>3, <2>4
<1>7. n = CHOOSE m \in 0 .. Len(all) : Drop(m)
  <2>1. Len(all) = l
    BY <1>2
  <2> HIDE DEF Drop, l
  <2>2. QED
    BY <1>5, <1>6, <2>1
<1>8. n < l /\ l - n <= MaxEntries /\ (l <= MaxEntries => n = 0)
  <2>1. Stop(l - 1) /\ l - 1 \in 0 .. l
    BY <1>1, <1>2
  <2>2. n <= l - 1
    <3> HIDE DEF Stop, l
    <3>1. QED
      BY <1>4, <2>1
  <2>3. l - n <= MaxEntries
    <3>1. CASE n = l - 1
      BY <1>1, <1>3, <3>1
    <3>2. CASE n # l - 1
      <4>1. n + 1 \in 1 .. l - 1
        BY <1>1, <2>2, <3>2
      <4>2. h.undo[n + 1].after # protected
        BY <4>1
      <4>3. QED
        BY <1>2, <1>4, <4>2
    <3>3. QED
      BY <3>1, <3>2
  <2>4. ASSUME l <= MaxEntries PROVE n = 0
    <3>1. 0 \in 0 .. l /\ Stop(0)
      BY <1>1, <1>2, <2>4
    <3>2. n <= 0
      BY <1>4, <3>1
    <3>3. QED
      BY <1>1, <3>2
  <2>5. QED
    BY <1>1, <2>2, <2>3, <2>4
<1>9. EnforceBudget(h, protected) = [h EXCEPT !.undo = SubSeq(h.undo, n + 1, Len(h.undo))]
  <2>1. EnforceBudget(h, protected) =
           [h EXCEPT !.undo = SubSeq(@, n + 1, Len(@)),
                     !.redo = SubSeq(@, 1, Len(@) - (n - n))]
    <3>1. (IF n <= Len(h.undo) THEN n ELSE Len(h.undo)) = n
      BY <1>8
    <3>2. QED
      BY <1>7, <3>1 DEF EnforceBudget, all
  <2>2. SubSeq(h.redo, 1, Len(h.redo) - (n - n)) = h.redo
    BY <1>1
  <2>3. QED
    BY <2>1, <2>2 DEF Histories
<1>10. n \in Nat
  BY <1>1
<1>11. QED
  BY <1>8, <1>9, <1>10

\* What a numbered history says of its undo stack.
LEMMA UndoProperties ==
    ASSUME NEW h \in Histories, Numbered(h)
    PROVE  /\ h.undo \in Seq(Entries) /\ h.redo \in Seq(Entries)
           /\ h.current \in Nat /\ h.next \in Nat
           /\ Ordered(h.undo) /\ Below(h.undo, h.next)
           /\ \A i \in DOMAIN h.undo : h.undo[i].revision # h.current
           /\ Walks(Trail(h.undo, h.redo)) => Walks(h.undo)
<1> DEFINE u == h.undo
           t == Trail(h.undo, h.redo)
<1>1. /\ u \in Seq(Entries) /\ h.redo \in Seq(Entries) /\ h.current \in Nat /\ h.next \in Nat
      /\ Len(u) \in Nat /\ Len(h.redo) \in Nat
  BY DEF Histories
<1>2. Ordered(t) /\ Below(t, h.next) /\ (u # <<>> => u[Len(u)].after = h.current)
  BY DEF Numbered
<1>3. t \in Seq(Entries) /\ Len(t) = Len(u) + Len(h.redo) /\ u = SubSeq(t, 1, Len(u))
  BY <1>1, TrailProperties
<1> HIDE DEF u, t
<1>4. Ordered(u) /\ Below(u, h.next) /\ (Walks(t) => Walks(u))
  <2>1. Len(u) <= Len(t) /\ 1 \in Nat \ {0} /\ 1 <= Len(u) + 1
    BY <1>1, <1>3
  <2>2. QED
    BY <1>1, <1>2, <1>3, <2>1, StretchKeeps
<1>5. ASSUME NEW i \in DOMAIN u PROVE u[i].revision # h.current
  <2>1. u # <<>> /\ Len(u) \in DOMAIN u /\ i <= Len(u)
    BY <1>1
  <2>2. QED
    BY <1>2, <1>4, <2>1 DEF Ordered
<1>6. QED
  BY <1>1, <1>4, <1>5 DEF u, t

\* Dropping the oldest entries and pushing one go in either order.
LEMMA PushAndDrop ==
    ASSUME NEW u \in Seq(Entries), NEW e \in Entries, NEW n \in Nat, n <= Len(u)
    PROVE  /\ SubSeq(u, n + 1, Len(u)) \in Seq(Entries)
           /\ Len(SubSeq(u, n + 1, Len(u))) = Len(u) - n
           /\ Len(Append(SubSeq(u, n + 1, Len(u)), e)) = Len(u) - n + 1
           /\ SubSeq(Append(u, e), n + 1, Len(u) + 1) = Append(SubSeq(u, n + 1, Len(u)), e)
<1> DEFINE l == Len(u)
           w == SubSeq(u, n + 1, l)
           all == Append(u, e)
           s == SubSeq(all, n + 1, l + 1)
           t == Append(w, e)
<1>1. /\ l \in Nat /\ all \in Seq(Entries) /\ Len(all) = l + 1 /\ all[l + 1] = e
      /\ \A i \in 1 .. l : all[i] = u[i]
  OBVIOUS
<1>2. w \in Seq(Entries) /\ Len(w) = l - n /\ \A i \in 1 .. l - n : w[i] = u[n + i]
  OBVIOUS
<1> HIDE DEF l, w, all
<1>3. /\ s \in Seq(Entries) /\ Len(s) = l + 1 - n
      /\ \A i \in 1 .. l + 1 - n : s[i] = all[n + i]
  <2>1. n <= l
    BY DEF l
  <2>2. QED
    BY <1>1, <2>1
<1>4. /\ t \in Seq(Entries) /\ Len(t) = l - n + 1 /\ t[l - n + 1] = e
      /\ \A i \in 1 .. l - n : t[i] = w[i]
  BY <1>1, <1>2
<1> HIDE DEF s, t
<1>5. ASSUME NEW i \in 1 .. l + 1 - n PROVE s[i] = t[i]
  <2>1. CASE i = l - n + 1
    <3>1. n + i = l + 1
      BY <1>1, <2>1
    <3>2. QED
      BY <1>1, <1>3, <1>4, <2>1, <3>1
  <2>2. CASE i # l - n + 1
    <3>1. i \in 1 .. l - n /\ n + i \in 1 .. l
      BY <1>1, <2>2
    <3>2. QED
      BY <1>1, <1>2, <1>3, <1>4, <3>1
  <2>3. QED
    BY <2>1, <2>2
<1>6. s = t
  <2>1. Len(s) = Len(t)
    BY <1>1, <1>3, <1>4
  <2>2. QED
    BY <1>3, <1>4, <1>5, <2>1, SeqEqual
<1>7. QED
  BY <1>2, <1>4, <1>6 DEF s, t, all, w, l

EntryOf(h, patch) == [revision |-> h.current, after |-> h.next, patch |-> patch]

\* The entry of the patch is the newest of g, above the newest ones of h.
Pushed(h, patch, g) ==
    /\ g.current = h.next
    /\ \E n \in Nat :
          /\ n <= Len(h.undo)
          /\ g.undo = Append(SubSeq(h.undo, n + 1, Len(h.undo)), EntryOf(h, patch))

\* A history whose newest entry leads to where it stands, with nothing to redo.
LEMMA PushedKeeps ==
    ASSUME NEW g \in Histories, NEW w \in Seq(Entries), NEW e \in Entries,
           g.undo = Append(w, e), g.redo = <<>>, e.after = g.current,
           Ordered(w), w # <<>> => w[Len(w)].after = e.revision,
           e.after # e.revision, \A j \in DOMAIN w : w[j].revision # e.after,
           Below(w, g.next), e.revision < g.next, e.after < g.next,
           Len(g.undo) <= MaxEntries
    PROVE  /\ Numbered(g)
           /\ \A d : /\ Walks(w) /\ (w # <<>> => w[Len(w)].patch.after = e.patch.before)
                     /\ e.patch.after = SettledAt(g, d)
                     /\ g.pending # None => g.pending.after = d
                     => Describes(g, d)
<1> DEFINE u == Append(w, e)
<1>1. u \in Seq(Entries) /\ Len(u) \in Nat /\ u[Len(u)] = e /\ g.next \in Nat /\ u # <<>>
  BY DEF Histories
<1>2. /\ Ordered(u) /\ Below(u, g.next)
      /\ Walks(w) /\ (w # <<>> => w[Len(w)].patch.after = e.patch.before) => Walks(u)
  BY <1>1, AppendKeeps
<1> HIDE DEF u
<1>3. /\ g.undo = u /\ g.redo = <<>> /\ Trail(g.undo, g.redo) = u
      /\ Len(g.undo) + Len(g.redo) = Len(u)
  <2>1. g.undo = u
    BY DEF u
  <2>2. <<>> \in Seq(Entries) /\ Len(<<>>) = 0
    OBVIOUS
  <2>3. Trail(u, <<>>) = u
    BY <1>1, <2>2, TrailProperties
  <2>4. QED
    BY <1>1, <2>1, <2>2, <2>3
<1>4. Numbered(g)
  BY <1>1, <1>2, <1>3 DEF Numbered
<1>5. ASSUME NEW d, Walks(w), w # <<>> => w[Len(w)].patch.after = e.patch.before,
             e.patch.after = SettledAt(g, d), g.pending # None => g.pending.after = d
      PROVE  Describes(g, d)
  BY <1>1, <1>2, <1>3, <1>5 DEF Describes
<1>6. QED
  BY <1>4, <1>5

\* The newest entries of a trail.
LEMMA NewestProperties ==
    ASSUME NEW u \in Seq(Entries), NEW n \in Nat, n <= Len(u)
    PROVE  LET w == SubSeq(u, n + 1, Len(u)) IN
           /\ w \in Seq(Entries) /\ Len(w) = Len(u) - n
           /\ Ordered(u) => Ordered(w)
           /\ Walks(u) => Walks(w)
           /\ \A next : Below(u, next) => Below(w, next)
           /\ \A i \in DOMAIN w : \E j \in DOMAIN u : w[i] = u[j]
           /\ w # <<>> => u # <<>> /\ w[Len(w)] = u[Len(u)]
<1> DEFINE l == Len(u)
           w == SubSeq(u, n + 1, l)
<1>1. l \in Nat /\ n + 1 \in Nat \ {0} /\ n + 1 <= l + 1 /\ l <= Len(u)
  OBVIOUS
<1>2. w = SubSeq(u, n + 1, l)
  OBVIOUS
<1> HIDE DEF l, w
<1>3. (Ordered(u) => Ordered(w)) /\ (Walks(u) => Walks(w))
      /\ \A next : Below(u, next) => Below(w, next)
  BY <1>1, <1>2, StretchKeeps
<1>4. /\ w \in Seq(Entries) /\ Len(w) = l + 1 - (n + 1)
      /\ \A i \in 1 .. l + 1 - (n + 1) : w[i] = u[(n + 1) - 1 + i] /\ (n + 1) - 1 + i \in DOMAIN u
  BY <1>1, <1>2, StretchProperties
<1>5. Len(w) = l - n /\ DOMAIN w = 1 .. l + 1 - (n + 1)
  BY <1>1, <1>4
<1>6. \A i \in DOMAIN w : \E j \in DOMAIN u : w[i] = u[j]
  BY <1>4, <1>5
<1>7. ASSUME w # <<>> PROVE u # <<>> /\ w[Len(w)] = u[l]
  <2>1. Len(w) \in 1 .. l + 1 - (n + 1)
    <3>1. w \in Seq(Entries)
      BY <1>4
    <3>2. Len(w) \in Nat /\ Len(w) # 0
      BY <1>7, <3>1
    <3>3. QED
      BY <1>1, <1>5, <3>2
  <2>2. (n + 1) - 1 + Len(w) = l
    BY <1>1, <1>5
  <2>3. w[Len(w)] = u[l] /\ l \in DOMAIN u
    BY <1>4, <2>1, <2>2
  <2>4. QED
    BY <2>3
<1>8. QED
  BY <1>3, <1>4, <1>5, <1>6, <1>7 DEF l, w

\* The end of a trail is the end of no other of its entries.
LEMMA EndIsUnique ==
    ASSUME NEW t \in Seq(Entries), Ordered(t), NEW i \in 1 .. Len(t) - 1
    PROVE  t[i].after # t[Len(t)].after
<1>1. i + 1 \in DOMAIN t /\ Len(t) \in DOMAIN t /\ i + 1 <= Len(t)
  OBVIOUS
<1>2. t[i].after = t[i + 1].revision
  BY DEF Ordered
<1>3. t[Len(t)].after # t[i + 1].revision
  BY <1>1 DEF Ordered
<1>4. QED
  BY <1>2, <1>3

\* So it is when the budget has been enforced, for what was pushed stays.
LEMMA BudgetedKeeps ==
    ASSUME NEW x \in Histories, NEW w \in Seq(Entries), NEW e \in Entries,
           x.undo = Append(w, e), x.redo = <<>>, e.after = x.current,
           Ordered(w), w # <<>> => w[Len(w)].after = e.revision,
           e.after # e.revision, \A j \in DOMAIN w : w[j].revision # e.after,
           Below(w, x.next), e.revision < x.next, e.after < x.next
    PROVE  LET g == EnforceBudget(x, e.after) IN
           /\ g \in Histories /\ Numbered(g) /\ g.redo = <<>>
           /\ g.current = x.current /\ g.next = x.next /\ g.saved = x.saved
           /\ g.generation = x.generation /\ g.gesture = x.gesture /\ g.pending = x.pending
           /\ g.undo # <<>> /\ g.undo[Len(g.undo)] = e
           /\ \E n \in Nat :
                 /\ n <= Len(w) /\ (Len(w) + 1 <= MaxEntries => n = 0)
                 /\ g.undo = Append(SubSeq(w, n + 1, Len(w)), e)
           /\ \A d : /\ Walks(w) /\ (w # <<>> => w[Len(w)].patch.after = e.patch.before)
                     /\ e.patch.after = SettledAt(x, d)
                     /\ x.pending # None => x.pending.after = d
                     => Describes(g, d)
<1> DEFINE all == Append(w, e)
           g == EnforceBudget(x, e.after)
<1>1. /\ all \in Seq(Entries) /\ Len(all) = Len(w) + 1 /\ Len(w) \in Nat /\ all # <<>>
      /\ all[Len(all)] = e
  OBVIOUS
<1>2. Ordered(all)
  BY AppendKeeps
<1> HIDE DEF all, g
<1>3. x.undo = all
  BY DEF all
<1>4. PICK n \in Nat :
         /\ n < Len(x.undo) /\ Len(x.undo) - n <= MaxEntries
         /\ Len(x.undo) <= MaxEntries => n = 0
         /\ EnforceBudget(x, e.after) = [x EXCEPT !.undo = SubSeq(x.undo, n + 1, Len(x.undo))]
  <2>1. /\ x.undo # <<>> /\ x.undo[Len(x.undo)].after = e.after
        /\ \A i \in 1 .. Len(x.undo) - 1 : x.undo[i].after # e.after
    BY <1>1, <1>2, <1>3, EndIsUnique
  <2>2. QED
    BY <2>1, BudgetKeeps
<1> DEFINE v == SubSeq(w, n + 1, Len(w))
<1>5. n <= Len(w) /\ (Len(w) + 1 <= MaxEntries => n = 0) /\ Len(all) - n = Len(w) - n + 1
  BY <1>1, <1>3, <1>4
<1>6. /\ v \in Seq(Entries) /\ Len(v) = Len(w) - n /\ Ordered(v) /\ Below(v, x.next)
      /\ Walks(w) => Walks(v)
      /\ \A i \in DOMAIN v : \E j \in DOMAIN w : v[i] = w[j]
      /\ v # <<>> => w # <<>> /\ v[Len(v)] = w[Len(w)]
  <2>1. n <= Len(w)
    BY <1>5
  <2>2. QED
    BY <2>1, NewestProperties
<1>7. SubSeq(all, n + 1, Len(all)) = Append(v, e) /\ Len(Append(v, e)) = Len(w) - n + 1
  <2>1. Len(all) = Len(w) + 1 /\ n <= Len(w)
    BY <1>1, <1>5
  <2>2. /\ Len(Append(v, e)) = Len(w) - n + 1
        /\ SubSeq(Append(w, e), n + 1, Len(w) + 1) = Append(v, e)
    BY <2>1, PushAndDrop
  <2>3. QED
    BY <2>1, <2>2 DEF all
<1> HIDE DEF v
<1>8. /\ Append(v, e) \in Seq(Entries) /\ Append(v, e) # <<>>
      /\ Append(v, e)[Len(Append(v, e))] = e
  <2>1. v \in Seq(Entries)
    BY <1>6
  <2>2. QED
    BY <2>1
<1>9. /\ g \in Histories /\ g.undo = Append(v, e) /\ g.redo = <<>>
      /\ g.current = x.current /\ g.next = x.next /\ g.saved = x.saved
      /\ g.generation = x.generation /\ g.gesture = x.gesture /\ g.pending = x.pending
  <2>1. g = [x EXCEPT !.undo = Append(v, e)]
    BY <1>3, <1>4, <1>7 DEF g
  <2>2. QED
    BY <1>8, <2>1 DEF Histories
<1>10. Len(g.undo) <= MaxEntries
  BY <1>3, <1>4, <1>5, <1>7, <1>9
<1>11. /\ v # <<>> => v[Len(v)].after = e.revision
       /\ \A j \in DOMAIN v : v[j].revision # e.after
  BY <1>6
<1>12. /\ Numbered(g)
       /\ \A d : /\ Walks(v) /\ (v # <<>> => v[Len(v)].patch.after = e.patch.before)
                 /\ e.patch.after = SettledAt(g, d)
                 /\ g.pending # None => g.pending.after = d
                 => Describes(g, d)
  <2>1. e.after = g.current /\ Below(v, g.next) /\ e.revision < g.next /\ e.after < g.next
    BY <1>6, <1>9
  <2>2. v \in Seq(Entries) /\ Ordered(v)
    BY <1>6
  <2>3. QED
    BY <1>9, <1>10, <1>11, <2>1, <2>2, PushedKeeps
<1>13. \A d : /\ Walks(w) /\ (w # <<>> => w[Len(w)].patch.after = e.patch.before)
              /\ e.patch.after = SettledAt(x, d)
              /\ x.pending # None => x.pending.after = d
              => Describes(g, d)
  BY <1>6, <1>9, <1>12 DEF SettledAt
<1>14. \E k \in Nat :
         /\ k <= Len(w) /\ (Len(w) + 1 <= MaxEntries => k = 0)
         /\ g.undo = Append(SubSeq(w, k + 1, Len(w)), e)
  BY <1>5, <1>9 DEF v
<1>15. g.undo # <<>> /\ g.undo[Len(g.undo)] = e
  BY <1>8, <1>9
<1>16. QED
  BY <1>9, <1>12, <1>13, <1>14, <1>15 DEF g

\* A commit pushes its entry, forgets what could be redone and the oldest of
\* what could be undone.  It keeps a history numbered, and if that described the
\* document the patch starts from it then describes the one it ends in.
LEMMA CommitKeeps ==
    ASSUME NEW h \in Histories, Numbered(h), NEW patch \in Patches
    PROVE  LET g == Commit(h, patch) IN
           /\ g \in Histories /\ Numbered(g)
           /\ g.redo = <<>> /\ g.next = h.next + 1 /\ Pushed(h, patch, g)
           /\ g.saved = h.saved /\ g.generation = h.generation
           /\ g.gesture = h.gesture /\ g.pending = h.pending
           /\ g.undo # <<>> /\ g.undo[Len(g.undo)] = EntryOf(h, patch)
           /\ \A d : Describes(h, d) /\ h.pending = None /\ patch.before = d
                        => Describes(g, patch.after)
<1> DEFINE e == EntryOf(h, patch)
           u == h.undo
           x == [h EXCEPT !.undo = Append(u, e), !.redo = <<>>,
                          !.current = h.next, !.next = h.next + 1]
           g == Commit(h, patch)
<1>1. /\ u \in Seq(Entries) /\ h.current \in Nat /\ h.next \in Nat /\ h.current < h.next
      /\ Ordered(u) /\ Below(u, h.next) /\ (Walks(Trail(u, h.redo)) => Walks(u))
      /\ u # <<>> => u[Len(u)].after = h.current
  BY UndoProperties DEF Numbered
<1>2. e \in Entries /\ e.after = h.next /\ e.revision = h.current /\ e.patch = patch
  BY <1>1 DEF EntryOf, Entries
<1>3. g = EnforceBudget(x, e.after)
  BY <1>2 DEF Commit, EntryOf, Histories
<1> HIDE DEF e, g
<1>4. Append(u, e) \in Seq(Entries)
  <2>1. u \in Seq(Entries) /\ e \in Entries
    BY <1>1, <1>2
  <2> HIDE DEF u
  <2>2. QED
    BY <2>1
<1>5. /\ x \in Histories /\ x.undo = Append(u, e) /\ x.redo = <<>>
      /\ x.current = h.next /\ x.next = h.next + 1 /\ x.saved = h.saved
      /\ x.generation = h.generation /\ x.gesture = h.gesture /\ x.pending = h.pending
  <2>1. h.next + 1 \in Nat \ {0} /\ <<>> \in Seq(Entries)
    BY <1>1
  <2>2. QED
    BY <1>1, <1>4, <2>1 DEF Histories
<1> HIDE DEF x, u
<1>6. /\ \A j \in DOMAIN u : u[j].revision # e.after
      /\ Below(u, x.next) /\ e.after # e.revision /\ e.revision < x.next /\ e.after < x.next
  <2>1. \A j \in DOMAIN u : /\ u[j].revision \in Nat /\ u[j].revision < h.next
                            /\ u[j].after \in Nat /\ u[j].after < h.next
    <3>1. \A j \in DOMAIN u : u[j] \in Entries
      BY <1>1
    <3>2. QED
      BY <1>1, <3>1 DEF Below, Entries
  <2>2. QED
    BY <1>1, <1>2, <1>5, <2>1 DEF Below
<1>7. /\ g \in Histories /\ Numbered(g) /\ g.redo = <<>>
      /\ g.current = x.current /\ g.next = x.next /\ g.saved = x.saved
      /\ g.generation = x.generation /\ g.gesture = x.gesture /\ g.pending = x.pending
      /\ g.undo # <<>> /\ g.undo[Len(g.undo)] = e
      /\ \E n \in Nat :
            /\ n <= Len(u) /\ (Len(u) + 1 <= MaxEntries => n = 0)
            /\ g.undo = Append(SubSeq(u, n + 1, Len(u)), e)
      /\ \A d : /\ Walks(u) /\ (u # <<>> => u[Len(u)].patch.after = e.patch.before)
                /\ e.patch.after = SettledAt(x, d)
                /\ x.pending # None => x.pending.after = d
                => Describes(g, d)
  <2>1. e.after = x.current /\ (u # <<>> => u[Len(u)].after = e.revision)
    BY <1>1, <1>2, <1>5
  <2>2. /\ x \in Histories /\ u \in Seq(Entries) /\ e \in Entries /\ Ordered(u)
        /\ x.undo = Append(u, e) /\ x.redo = <<>>
    BY <1>1, <1>2, <1>5
  <2>3. QED
    BY <1>3, <1>6, <2>1, <2>2, BudgetedKeeps
<1>8. ASSUME NEW d, Describes(h, d), h.pending = None, patch.before = d
      PROVE  Describes(g, patch.after)
  <2>1. Walks(u)
    BY <1>1, <1>8 DEF Describes, u
  <2>2. u # <<>> => u[Len(u)].patch.after = e.patch.before
    BY <1>2, <1>8 DEF Describes, SettledAt, u
  <2>3. SettledAt(x, patch.after) = patch.after /\ x.pending = None
    BY <1>5, <1>8 DEF SettledAt
  <2>4. QED
    BY <1>2, <1>7, <2>1, <2>2, <2>3
<1>9. Pushed(h, patch, g)
  BY <1>5, <1>7 DEF Pushed, e, u
<1>10. QED
  BY <1>5, <1>7, <1>8, <1>9 DEF e, u, g

LEMMA NumberedAlike ==
    ASSUME NEW h, NEW g, Numbered(h), g.undo = h.undo, g.redo = h.redo,
           g.current = h.current, g.next = h.next
    PROVE  Numbered(g)
BY DEF Numbered

\* The end of a gesture commits what it staged, if anything.
LEMMA FinishKeeps ==
    ASSUME NEW h \in Histories, Numbered(h)
    PROVE  LET g == FinishGesture(h) IN
           /\ g \in Histories /\ Numbered(g) /\ g.pending = None /\ g.gesture = None
           /\ g.saved = h.saved /\ g.generation = h.generation
           /\ h.next <= g.next /\ g.redo \in {h.redo, <<>>}
           /\ h.pending = None => /\ g.undo = h.undo /\ g.redo = h.redo
                                  /\ g.current = h.current /\ g.next = h.next
           /\ h.pending # None => /\ g.redo = <<>> /\ g.current = h.next
                                  /\ g.undo # <<>> /\ g.undo[Len(g.undo)].patch = h.pending
                                  /\ Pushed(h, h.pending, g)
           /\ \A d : Describes(h, d) => Describes(g, d)
<1> DEFINE closed == [h EXCEPT !.gesture = None, !.pending = None]
           g == FinishGesture(h)
<1>1. g = IF h.pending = None THEN closed ELSE Commit(closed, h.pending)
  BY DEF FinishGesture
<1>2. /\ closed \in Histories /\ closed.pending = None /\ closed.gesture = None
      /\ closed.undo = h.undo /\ closed.redo = h.redo /\ closed.next = h.next
      /\ closed.current = h.current /\ closed.saved = h.saved
      /\ closed.generation = h.generation
      /\ h.next \in Nat /\ h.pending \in Patches \cup {None}
  BY DEF Histories
<1> HIDE DEF closed, g
<1>3. Numbered(closed)
  BY <1>2, NumberedAlike
<1>4. \A d : Describes(h, d) => Describes(closed, SettledAt(h, d))
  BY <1>2 DEF Describes, SettledAt
<1>5. CASE h.pending = None
  <2>1. g = closed
    BY <1>1, <1>5
  <2>2. \A d : Describes(h, d) => Describes(g, d)
    BY <1>4, <1>5, <2>1 DEF SettledAt
  <2>3. QED
    BY <1>2, <1>3, <1>5, <2>1, <2>2 DEF g
<1>6. CASE h.pending # None
  <2>1. g = Commit(closed, h.pending) /\ h.pending \in Patches
    BY <1>1, <1>2, <1>6
  <2>2. /\ g \in Histories /\ Numbered(g) /\ g.redo = <<>>
        /\ Pushed(closed, h.pending, g) /\ g.next = closed.next + 1
        /\ g.saved = closed.saved /\ g.generation = closed.generation
        /\ g.gesture = closed.gesture /\ g.pending = closed.pending
        /\ g.undo # <<>> /\ g.undo[Len(g.undo)] = EntryOf(closed, h.pending)
        /\ \A d : Describes(closed, d) /\ closed.pending = None /\ h.pending.before = d
                     => Describes(g, h.pending.after)
    BY <1>2, <1>3, <2>1, CommitKeeps
  <2>3. g.undo[Len(g.undo)].patch = h.pending
    BY <2>2 DEF EntryOf
  <2>4. ASSUME NEW d, Describes(h, d) PROVE Describes(g, d)
    <3>1. h.pending.after = d /\ SettledAt(h, d) = h.pending.before
      BY <1>6, <2>4 DEF Describes, SettledAt
    <3>2. Describes(closed, h.pending.before)
      BY <1>4, <2>4, <3>1
    <3>3. QED
      BY <1>2, <2>2, <3>1, <3>2
  <2>5. h.next <= g.next /\ g.current = h.next /\ Pushed(h, h.pending, g)
    <3>1. EntryOf(closed, h.pending) = EntryOf(h, h.pending)
      BY <1>2 DEF EntryOf
    <3>2. Pushed(h, h.pending, g)
      BY <1>2, <2>2, <3>1 DEF Pushed
    <3>3. g.current = h.next
      BY <3>2 DEF Pushed
    <3>4. h.next <= g.next
      BY <1>2, <2>2
    <3>5. QED
      BY <3>2, <3>3, <3>4
  <2>6. QED
    BY <1>2, <1>6, <2>2, <2>3, <2>4, <2>5 DEF g
<1>7. QED
  BY <1>5, <1>6

LEMMA FrontAndLast ==
    ASSUME NEW s \in Seq(Entries), s # <<>>
    PROVE  /\ Front(s) \in Seq(Entries) /\ Len(Front(s)) = Len(s) - 1
           /\ \A i \in 1 .. Len(s) - 1 : Front(s)[i] = s[i]
           /\ Last(s) = s[Len(s)] /\ Last(s) \in Entries /\ s = Append(Front(s), Last(s))
<1> DEFINE f == Front(s)
<1>1. Len(s) \in Nat /\ Len(s) # 0 /\ Len(s) \in DOMAIN s
  OBVIOUS
<1>2. Last(s) = s[Len(s)] /\ Last(s) \in Entries
  BY <1>1 DEF Last
<1>3. f \in Seq(Entries) /\ Len(f) = Len(s) - 1 /\ \A i \in 1 .. Len(s) - 1 : f[i] = s[i]
  <2>1. /\ f = SubSeq(s, 1, Len(s) - 1) /\ Len(s) - 1 \in Nat /\ 1 \in Nat \ {0}
        /\ 1 <= (Len(s) - 1) + 1 /\ Len(s) - 1 <= Len(s)
    BY <1>1 DEF Front
  <2>2. (Len(s) - 1) + 1 - 1 = Len(s) - 1 /\ \A i \in Int : 1 - 1 + i = i
    BY <1>1
  <2> HIDE DEF f
  <2>3. QED
    BY <2>1, <2>2, StretchProperties
<1> HIDE DEF f
<1> DEFINE a == Append(f, Last(s))
<1>4. /\ a \in Seq(Entries) /\ Len(a) = Len(s) /\ a[Len(s)] = Last(s)
      /\ \A i \in 1 .. Len(s) - 1 : a[i] = f[i]
  BY <1>1, <1>2, <1>3
<1> HIDE DEF a
<1>5. \A i \in 1 .. Len(s) : a[i] = s[i]
  <2>1. \A i \in 1 .. Len(s) : i = Len(s) \/ i \in 1 .. Len(s) - 1
    BY <1>1
  <2>2. QED
    BY <1>2, <1>3, <1>4, <2>1
<1>6. a = s
  BY <1>4, <1>5, SeqEqual
<1>7. QED
  BY <1>2, <1>3, <1>6 DEF f, a

\* An undo moves the newest entry over, and the document to where it began.
LEMMA UndoKeeps ==
    ASSUME NEW h \in Histories, Numbered(h), h.undo # <<>>, h.pending = None
    PROVE  LET g == UndoEntry(h) IN
           /\ g \in Histories /\ Numbered(g) /\ g.pending = None
           /\ \A d : Describes(h, d) => Describes(g, Last(h.undo).patch.before)
<1> DEFINE u == h.undo
           r == h.redo
           e == Last(h.undo)
           l == Len(u)
           g == UndoEntry(h)
<1>1. /\ u \in Seq(Entries) /\ r \in Seq(Entries) /\ h.current \in Nat /\ h.next \in Nat
      /\ Ordered(u) /\ Below(u, h.next) /\ (Walks(Trail(u, r)) => Walks(u))
  BY UndoProperties
<1>2. /\ Front(u) \in Seq(Entries) /\ Len(Front(u)) = l - 1
      /\ \A i \in 1 .. l - 1 : Front(u)[i] = u[i]
      /\ e = u[l] /\ e \in Entries /\ u = Append(Front(u), e)
  BY <1>1, FrontAndLast
<1>3. l \in Nat /\ l # 0 /\ Len(r) \in Nat
  BY <1>1
<1>4. /\ Append(r, e) \in Seq(Entries) /\ Len(Append(r, e)) = Len(r) + 1
      /\ Append(r, e) # <<>> /\ Append(r, e)[Len(r) + 1] = e
  <2>1. r \in Seq(Entries) /\ e \in Entries
    BY <1>1, <1>2
  <2> HIDE DEF r, e
  <2>2. QED
    BY <2>1
<1> HIDE DEF e, l
<1>5. /\ g \in Histories /\ g.undo = Front(u) /\ g.redo = Append(r, e)
      /\ g.current = e.revision /\ g.next = h.next /\ g.pending = None
  <2>1. g = [h EXCEPT !.undo = Front(h.undo), !.redo = Append(h.redo, e), !.current = e.revision]
    BY DEF UndoEntry, e
  <2>2. e.revision \in Nat
    BY <1>2 DEF Entries
  <2>3. QED
    BY <1>2, <1>4, <2>1, <2>2 DEF Histories
<1> HIDE DEF g
<1>6. Trail(g.undo, g.redo) = Trail(u, r)
  <2>1. Trail(Front(u), Append(r, e)) = Trail(Append(Front(u), e), r)
    BY <1>1, <1>2, TrailStays
  <2>2. QED
    BY <1>2, <1>5, <2>1
<1>7. ASSUME g.undo # <<>>
      PROVE  /\ g.undo[Len(g.undo)] = u[l - 1] /\ u[l - 1].after = e.revision
             /\ Walks(u) => u[l - 1].patch.after = e.patch.before
  <2>1. l - 1 \in 1 .. l - 1 /\ l - 1 + 1 = l /\ Len(g.undo) = l - 1
    <3>1. Len(Front(u)) # 0
      BY <1>2, <1>5, <1>7
    <3>2. QED
      BY <1>2, <1>3, <1>5, <3>1
  <2>2. g.undo[Len(g.undo)] = u[l - 1]
    BY <1>2, <1>5, <2>1
  <2>3. u[l - 1].after = u[l].revision
    BY <1>1, <2>1 DEF Ordered, l
  <2>4. Walks(u) => u[l - 1].patch.after = u[l].patch.before
    BY <2>1 DEF Walks, l
  <2>5. QED
    BY <1>2, <2>2, <2>3, <2>4
<1>8. Numbered(g)
  <2>1. e.revision < h.next
    <3>1. l \in DOMAIN u
      BY <1>1, <1>3 DEF l
    <3>2. QED
      BY <1>1, <1>2, <3>1 DEF Below
  <2>2. Len(g.undo) + Len(g.redo) = Len(u) + Len(r)
    <3>1. Len(g.undo) = l - 1 /\ Len(g.redo) = Len(r) + 1 /\ l = Len(u)
      BY <1>2, <1>4, <1>5 DEF l
    <3>2. Len(u) \in Nat /\ Len(r) \in Nat
      BY <1>1
    <3> HIDE DEF u, r
    <3>3. QED
      BY <3>1, <3>2
  <2>3. g.redo[Len(g.redo)].revision = g.current
    BY <1>4, <1>5
  <2>4. /\ Ordered(Trail(u, r)) /\ Below(Trail(u, r), h.next)
        /\ Len(u) + Len(r) <= MaxEntries
    BY DEF Numbered
  <2>5. QED
    BY <1>5, <1>6, <1>7, <2>1, <2>2, <2>3, <2>4 DEF Numbered
<1>9. ASSUME NEW d, Describes(h, d) PROVE Describes(g, e.patch.before)
  <2>1. Walks(Trail(u, r)) /\ Walks(u)
    BY <1>1, <1>9 DEF Describes
  <2>2. SettledAt(g, e.patch.before) = e.patch.before
    BY <1>5 DEF SettledAt
  <2>3. g.redo[Len(g.redo)] = e
    BY <1>4, <1>5
  <2>4. QED
    BY <1>5, <1>6, <1>7, <2>1, <2>2, <2>3 DEF Describes
<1>10. QED
  BY <1>5, <1>8, <1>9 DEF e, g

\* The two stacks meet where the history stands.
LEMMA TrailMeets ==
    ASSUME NEW u \in Seq(Entries), NEW r \in Seq(Entries)
    PROVE  LET t == Trail(u, r) IN
           /\ u # <<>> => Len(u) \in DOMAIN t /\ t[Len(u)] = u[Len(u)]
           /\ u # <<>> /\ r # <<>> =>
                 /\ Ordered(t) => u[Len(u)].after = r[Len(r)].revision
                 /\ Walks(t) => u[Len(u)].patch.after = r[Len(r)].patch.before
<1> DEFINE n == Len(u)
           m == Len(r)
           t == Trail(u, r)
<1>1. n \in Nat /\ m \in Nat /\ (u # <<>> => n # 0) /\ (r # <<>> => m # 0)
  OBVIOUS
<1>2. /\ DOMAIN t = 1 .. n + m
      /\ \A i \in 1 .. n + m : t[i] = IF i <= n THEN u[i] ELSE r[m + 1 - (i - n)]
  BY DEF Trail
<1>3. Len(t) = n + m
  BY TrailProperties
<1> HIDE DEF n, m, t
<1>4. ASSUME u # <<>> PROVE n \in DOMAIN t /\ t[n] = u[n]
  <2>1. n \in 1 .. n + m /\ n <= n
    BY <1>1, <1>4
  <2>2. QED
    BY <1>2, <2>1
<1>5. ASSUME u # <<>>, r # <<>> PROVE n \in 1 .. Len(t) - 1 /\ t[n + 1] = r[m]
  <2>1. /\ n \in 1 .. n + m - 1 /\ n + 1 \in 1 .. n + m
        /\ ~(n + 1 <= n) /\ m + 1 - (n + 1 - n) = m
    BY <1>1, <1>5
  <2>2. QED
    BY <1>2, <1>3, <2>1
<1>6. ASSUME u # <<>>, r # <<>>, Ordered(t) PROVE u[n].after = r[m].revision
  <2>1. t[n].after = t[n + 1].revision
    BY <1>5, <1>6 DEF Ordered
  <2>2. QED
    BY <1>4, <1>5, <1>6, <2>1
<1>7. ASSUME u # <<>>, r # <<>>, Walks(t) PROVE u[n].patch.after = r[m].patch.before
  <2>1. t[n].patch.after = t[n + 1].patch.before
    BY <1>5, <1>7 DEF Walks
  <2>2. QED
    BY <1>4, <1>5, <1>7, <2>1
<1>8. QED
  BY <1>4, <1>6, <1>7 DEF n, m, t

\* A redo moves it back, and the document to where the entry ended.
LEMMA RedoKeeps ==
    ASSUME NEW h \in Histories, Numbered(h), h.redo # <<>>, h.pending = None
    PROVE  LET g == RedoEntry(h) IN
           /\ g \in Histories /\ Numbered(g) /\ g.pending = None
           /\ \A d : Describes(h, d) => Describes(g, Last(h.redo).patch.after)
<1> DEFINE u == h.undo
           r == h.redo
           e == Last(h.redo)
           m == Len(r)
           g == RedoEntry(h)
<1>1. u \in Seq(Entries) /\ r \in Seq(Entries) /\ h.current \in Nat /\ h.next \in Nat
  BY UndoProperties
<1>2. /\ Front(r) \in Seq(Entries) /\ Len(Front(r)) = m - 1
      /\ e \in Entries /\ r = Append(Front(r), e)
  BY <1>1, FrontAndLast
<1>3. m \in Nat /\ m # 0 /\ Len(u) \in Nat
  BY <1>1
<1>4. /\ Append(u, e) \in Seq(Entries) /\ Len(Append(u, e)) = Len(u) + 1
      /\ Append(u, e) # <<>> /\ Append(u, e)[Len(u) + 1] = e
  <2>1. u \in Seq(Entries) /\ e \in Entries
    BY <1>1, <1>2
  <2> HIDE DEF u, e
  <2>2. QED
    BY <2>1
<1> HIDE DEF e, m
<1>5. /\ g \in Histories /\ g.redo = Front(r) /\ g.undo = Append(u, e)
      /\ g.current = e.after /\ g.next = h.next /\ g.pending = None
  <2>1. g = [h EXCEPT !.redo = Front(h.redo), !.undo = Append(h.undo, e), !.current = e.after]
    BY DEF RedoEntry, e
  <2>2. e.after \in Nat
    BY <1>2 DEF Entries
  <2>3. QED
    BY <1>2, <1>4, <2>1, <2>2 DEF Histories
<1> HIDE DEF g
<1>6. Trail(g.undo, g.redo) = Trail(u, r)
  <2>1. Trail(u, Append(Front(r), e)) = Trail(Append(u, e), Front(r))
    BY <1>1, <1>2, TrailStays
  <2>2. QED
    BY <1>2, <1>5, <2>1
<1> DEFINE t == Trail(u, r)
<1>7. /\ Len(g.undo) \in DOMAIN t /\ t[Len(g.undo)] = e /\ g.undo[Len(g.undo)] = e
      /\ g.redo # <<>> /\ Ordered(t) => e.after = g.redo[Len(g.redo)].revision
      /\ g.redo # <<>> /\ Walks(t) => e.patch.after = g.redo[Len(g.redo)].patch.before
  <2>1. g.undo \in Seq(Entries) /\ g.redo \in Seq(Entries) /\ g.undo # <<>>
    BY <1>2, <1>4, <1>5
  <2>2. g.undo[Len(g.undo)] = e
    BY <1>4, <1>5
  <2>3. QED
    BY <1>6, <2>1, <2>2, TrailMeets
<1>8. Numbered(g)
  <2>1. Ordered(t) /\ Below(t, h.next) /\ Len(u) + Len(r) <= MaxEntries
    BY DEF Numbered
  <2>2. e.after < h.next
    BY <1>7, <2>1 DEF Below
  <2>3. Len(g.undo) + Len(g.redo) = Len(u) + Len(r)
    <3>1. Len(g.redo) = m - 1 /\ Len(g.undo) = Len(u) + 1 /\ m = Len(r)
      BY <1>2, <1>4, <1>5 DEF m
    <3>2. Len(u) \in Nat /\ Len(r) \in Nat
      BY <1>1
    <3> HIDE DEF u, r
    <3>3. QED
      BY <3>1, <3>2
  <2>4. QED
    BY <1>5, <1>6, <1>7, <2>1, <2>2, <2>3 DEF Numbered
<1>9. ASSUME NEW d, Describes(h, d) PROVE Describes(g, e.patch.after)
  <2>1. Walks(t)
    BY <1>9 DEF Describes
  <2>2. SettledAt(g, e.patch.after) = e.patch.after
    BY <1>5 DEF SettledAt
  <2>3. QED
    BY <1>5, <1>6, <1>7, <2>1, <2>2 DEF Describes
<1>10. QED
  BY <1>5, <1>8, <1>9 DEF e, g

\* A rollback that ends early leaves entries as so many undos would.
LEMMA RollbackKeeps ==
    ASSUME NEW h \in Histories, Numbered(h), h.pending = None,
           NEW n \in 1 .. Len(h.undo)
    PROVE  LET g == [h EXCEPT
                        !.undo = SubSeq(h.undo, 1, n),
                        !.redo = h.redo \o Reverse(SubSeq(h.undo, n + 1, Len(h.undo))),
                        !.current = h.undo[n].after]
               Undone(d) == IF n < Len(h.undo) THEN h.undo[n + 1].patch.before ELSE d
           IN
           /\ g \in Histories /\ Numbered(g) /\ g.pending = None
           /\ \A d : Describes(h, d) => Describes(g, Undone(d))
<1> DEFINE u == h.undo
           r == h.redo
           l == Len(u)
           low == SubSeq(u, 1, n)
           back == r \o Reverse(SubSeq(u, n + 1, l))
           g == [h EXCEPT !.undo = low, !.redo = back, !.current = u[n].after]
           Undone(d) == IF n < l THEN u[n + 1].patch.before ELSE d
<1>1. /\ u \in Seq(Entries) /\ r \in Seq(Entries) /\ h.next \in Nat
      /\ Ordered(u) /\ Below(u, h.next) /\ (Walks(Trail(u, r)) => Walks(u))
  BY UndoProperties
<1>2. l \in Nat /\ Len(r) \in Nat /\ n \in Nat /\ 1 <= n /\ n <= l /\ n \in DOMAIN u
  BY <1>1
<1>3. /\ low \in Seq(Entries) /\ Len(low) = n /\ low # <<>> /\ low[n] = u[n]
      /\ u[n] \in Entries
  BY <1>1, <1>2
<1>4. /\ back \in Seq(Entries) /\ Len(back) = Len(r) + (l - n)
      /\ n < l => back[Len(back)] = u[n + 1]
      /\ Trail(low, back) = Trail(u, r)
  BY <1>1, <1>2, TrailStaysUndoing
<1> HIDE DEF low, back
<1>5. /\ g \in Histories /\ g.undo = low /\ g.redo = back /\ g.current = u[n].after
      /\ g.next = h.next /\ g.pending = None
  <2>1. u[n].after \in Nat
    BY <1>3 DEF Entries
  <2>2. QED
    BY <1>3, <1>4, <2>1 DEF Histories
<1> HIDE DEF g, u, r
<1>6. /\ Ordered(Trail(u, r)) /\ back # <<>> => u[n].after = back[Len(back)].revision
      /\ Walks(Trail(u, r)) /\ back # <<>> => u[n].patch.after = back[Len(back)].patch.before
  <2>1. low[Len(low)] = u[n]
    BY <1>3
  <2>2. low \in Seq(Entries) /\ back \in Seq(Entries) /\ low # <<>>
    BY <1>3, <1>4
  <2>3. QED
    BY <1>4, <2>1, <2>2, TrailMeets
<1>7. Numbered(g)
  <2>1. u[n].after < h.next
    BY <1>1, <1>2 DEF Below
  <2>2. /\ Ordered(Trail(u, r)) /\ Below(Trail(u, r), h.next)
        /\ Len(u) + Len(r) <= MaxEntries
    BY DEF Numbered, u, r
  <2>3. Len(low) + Len(back) = Len(u) + Len(r)
    BY <1>2, <1>3, <1>4
  <2>4. QED
    BY <1>3, <1>4, <1>5, <1>6, <2>1, <2>2, <2>3 DEF Numbered
<1>8. ASSUME NEW d, Describes(h, d) PROVE Describes(g, Undone(d))
  <2>1. Walks(Trail(u, r)) /\ Walks(u) /\ (u # <<>> => u[l].patch.after = d)
    BY <1>1, <1>8 DEF Describes, SettledAt, u, r
  <2>2. u[n].patch.after = Undone(d)
    <3>1. CASE n < l
      <4>1. n \in 1 .. l - 1
        BY <1>2, <3>1
      <4>2. QED
        BY <2>1, <3>1, <4>1 DEF Walks
    <3>2. CASE n = l
      <4>1. u # <<>>
        BY <1>2
      <4>2. QED
        BY <2>1, <3>2, <4>1
    <3>3. QED
      BY <1>2, <3>1, <3>2
  <2> HIDE DEF Undone
  <2>3. SettledAt(g, Undone(d)) = Undone(d)
    BY <1>5 DEF SettledAt
  <2>4. QED
    BY <1>3, <1>4, <1>5, <1>6, <2>1, <2>2, <2>3 DEF Describes
<1>9. QED
  BY <1>5, <1>7, <1>8 DEF g, u, r, low, back

\* A squash puts one entry in the place of the newest ones.  The budget drops
\* nothing then: there were no more entries before.
LEMMA SquashKeeps ==
    ASSUME NEW h \in Histories, Numbered(h), h.redo = <<>>, NEW count \in 2 .. Len(h.undo)
    PROVE  LET g == SquashRecent(h, count)
               k == Len(h.undo) - count
               e == [revision |-> h.undo[k + 1].revision, after |-> Last(h.undo).after,
                     patch |-> Patch(h.undo[k + 1].patch.before, Last(h.undo).patch.after)]
           IN
           /\ g \in Histories /\ Numbered(g)
           /\ g.pending = h.pending /\ g.redo = <<>> /\ g.current = h.current
           /\ g.next = h.next /\ g.generation = h.generation
           /\ g.saved # h.saved =>
                 g.saved = None /\ \E i \in DOMAIN h.undo : i > k /\ h.saved = h.undo[i].after
           /\ g.undo = Append(SubSeq(h.undo, 1, k), e)
           /\ \A d : Describes(h, d) => Describes(g, d)
<1> DEFINE u == h.undo
           l == Len(u)
           first == l - count + 1
           w == SubSeq(u, 1, first - 1)
           e == [revision |-> u[first].revision, after |-> Last(u).after,
                 patch |-> Patch(u[first].patch.before, Last(u).patch.after)]
           saved == IF h.saved \in {u[i].after : i \in first .. (l - 1)} \ {e.revision}
                    THEN None ELSE h.saved
           x == [h EXCEPT !.saved = saved, !.undo = Append(w, e)]
           g == SquashRecent(h, count)
<1>1. /\ u \in Seq(Entries) /\ h.redo \in Seq(Entries) /\ h.current \in Nat /\ h.next \in Nat
      /\ Ordered(u) /\ Below(u, h.next) /\ (Walks(Trail(u, h.redo)) => Walks(u))
  BY UndoProperties
<1>2. /\ l \in Nat /\ count \in Nat /\ first \in 1 .. l - 1 /\ first \in 1 .. l /\ l \in 1 .. l
      /\ 1 <= first /\ first <= l /\ first - 1 \in Nat /\ u # <<>>
      /\ l \in DOMAIN u /\ first \in DOMAIN u
  BY <1>1
<1>3. Last(u) = u[l] /\ u[l] \in Entries /\ u[first] \in Entries
  BY <1>1, <1>2 DEF Last
<1>4. g = EnforceBudget(x, e.after)
  BY DEF SquashRecent
<1>5. /\ e \in Entries /\ e.revision = u[first].revision /\ e.after = u[l].after
      /\ e.patch.before = u[first].patch.before /\ e.patch.after = u[l].patch.after
      /\ u[l].after = h.current /\ Len(u) <= MaxEntries
  <2>1. e \in Entries
    BY <1>3 DEF Entries, Patches, Patch
  <2>2. u[l].after = h.current /\ Len(u) + Len(h.redo) <= MaxEntries
    BY <1>2 DEF Numbered
  <2>3. Len(h.redo) = 0
    OBVIOUS
  <2>4. MaxEntries \in Nat \ {0}
    BY BudgetAssumption
  <2>5. Len(u) <= MaxEntries
    BY <1>2, <2>2, <2>3, <2>4
  <2>6. QED
    BY <1>3, <2>1, <2>2, <2>5 DEF Patch
<1> HIDE DEF e, g
<1>6. /\ w \in Seq(Entries) /\ Len(w) = first - 1 /\ Ordered(w) /\ Below(w, h.next)
      /\ Walks(u) => Walks(w)
      /\ \A i \in 1 .. first - 1 : w[i] = u[i] /\ i \in 1 .. l - 1
  <2>1. first - 1 \in Nat /\ 1 <= (first - 1) + 1 /\ first - 1 <= Len(u)
    BY <1>2
  <2>2. /\ w \in Seq(Entries) /\ Len(w) = (first - 1) + 1 - 1
        /\ \A i \in 1 .. (first - 1) + 1 - 1 : w[i] = u[1 - 1 + i]
    BY <1>1, <2>1, StretchProperties
  <2>3. Ordered(w) /\ Below(w, h.next) /\ (Walks(u) => Walks(w))
    BY <1>1, <2>1, StretchKeeps
  <2>4. (first - 1) + 1 - 1 = first - 1 /\ \A i \in 1 .. first - 1 : 1 - 1 + i = i
    BY <1>2
  <2>5. \A i \in 1 .. first - 1 : i \in 1 .. l - 1
    BY <1>2
  <2> HIDE DEF w, first
  <2>6. QED
    BY <2>2, <2>3, <2>4, <2>5
<1> HIDE DEF w
<1>7. /\ x \in Histories /\ x.undo = Append(w, e) /\ x.redo = <<>> /\ x.current = h.current
      /\ x.next = h.next /\ x.pending = h.pending /\ x.generation = h.generation
      /\ x.saved # h.saved =>
            x.saved = None /\ \E i \in DOMAIN u : i > first - 1 /\ h.saved = u[i].after
  <2>1. Append(w, e) \in Seq(Entries)
    <3>1. w \in Seq(Entries)
      BY <1>6
    <3>2. QED
      BY <1>5, <3>1
  <2>2. saved \in Nat \cup {None}
    BY DEF Histories
  <2>3. saved # h.saved =>
           saved = None /\ \E i \in DOMAIN u : i > first - 1 /\ h.saved = u[i].after
    <3>1. saved # h.saved => saved = None /\ h.saved \in {u[i].after : i \in first .. (l - 1)}
      OBVIOUS
    <3>2. \A i \in first .. (l - 1) : i \in DOMAIN u /\ i > first - 1
      <4>1. DOMAIN u = 1 .. l
        BY <1>1
      <4> HIDE DEF u, l, first, saved
      <4>2. QED
        BY <1>2, <4>1
    <3> HIDE DEF u, l, first, saved
    <3>3. QED
      BY <3>1, <3>2
  <2> HIDE DEF saved
  <2>4. /\ x \in Histories /\ x.undo = Append(w, e) /\ x.redo = <<>> /\ x.current = h.current
        /\ x.next = h.next /\ x.pending = h.pending /\ x.generation = h.generation
        /\ x.saved = saved
    BY <2>1, <2>2 DEF Histories
  <2> HIDE DEF x
  <2>5. QED
    BY <2>3, <2>4
<1> HIDE DEF x, u, l, first
<1>8. /\ w # <<>> => /\ w[Len(w)].after = e.revision
                     /\ Walks(u) => w[Len(w)].patch.after = e.patch.before
      /\ e.after # e.revision /\ \A j \in DOMAIN w : w[j].revision # e.after
      /\ e.revision < x.next /\ e.after < x.next
  <2>1. e.revision < x.next /\ e.after < x.next
    BY <1>1, <1>2, <1>5, <1>7 DEF Below
  <2>2. e.after # e.revision
    BY <1>1, <1>2, <1>5 DEF Ordered
  <2>3. ASSUME NEW j \in DOMAIN w PROVE w[j].revision # e.after
    <3>1. j \in 1 .. first - 1
      <4>1. w \in Seq(Entries)
        BY <1>6
      <4>2. QED
        BY <1>6, <4>1
    <3>2. w[j] = u[j] /\ j \in DOMAIN u /\ j <= l
      BY <1>1, <1>2, <1>6, <3>1 DEF l
    <3>3. QED
      BY <1>1, <1>2, <1>5, <3>2 DEF Ordered
  <2>4. ASSUME w # <<>>
        PROVE  /\ w[Len(w)].after = e.revision
               /\ Walks(u) => w[Len(w)].patch.after = e.patch.before
    <3>1. first - 1 \in 1 .. first - 1 /\ first - 1 + 1 = first
      <4>1. w \in Seq(Entries)
        BY <1>6
      <4>2. Len(w) # 0
        BY <2>4, <4>1
      <4>3. QED
        BY <1>2, <1>6, <4>2
    <3>2. w[Len(w)] = u[first - 1] /\ first - 1 \in 1 .. l - 1
      BY <1>6, <3>1
    <3>3. u[first - 1].after = u[first].revision
      BY <1>1, <3>1, <3>2 DEF Ordered, l
    <3>4. Walks(u) => u[first - 1].patch.after = u[first].patch.before
      BY <3>1, <3>2 DEF Walks, l
    <3>5. QED
      BY <1>5, <3>2, <3>3, <3>4
  <2>5. QED
    BY <2>1, <2>2, <2>3, <2>4
<1>9. /\ g \in Histories /\ Numbered(g) /\ g.pending = x.pending /\ g.redo = <<>>
      /\ g.current = x.current /\ g.next = x.next /\ g.saved = x.saved
      /\ g.generation = x.generation
      /\ \E n \in Nat :
            /\ n <= Len(w) /\ (Len(w) + 1 <= MaxEntries => n = 0)
            /\ g.undo = Append(SubSeq(w, n + 1, Len(w)), e)
      /\ \A d : /\ Walks(w) /\ (w # <<>> => w[Len(w)].patch.after = e.patch.before)
                /\ e.patch.after = SettledAt(x, d)
                /\ x.pending # None => x.pending.after = d
                => Describes(g, d)
  <2>1. /\ x \in Histories /\ w \in Seq(Entries) /\ e \in Entries /\ Ordered(w)
        /\ Below(w, x.next) /\ x.undo = Append(w, e) /\ x.redo = <<>> /\ e.after = x.current
    BY <1>5, <1>6, <1>7
  <2>2. QED
    BY <1>4, <1>8, <2>1, BudgetedKeeps
<1>10. g.undo = Append(w, e)
  <2>1. PICK n \in Nat : /\ n <= Len(w) /\ (Len(w) + 1 <= MaxEntries => n = 0)
                         /\ g.undo = Append(SubSeq(w, n + 1, Len(w)), e)
    BY <1>9
  <2>2. Len(w) + 1 <= MaxEntries
    <3>1. MaxEntries \in Nat \ {0}
      BY BudgetAssumption
    <3>2. QED
      BY <1>2, <1>5, <1>6, <3>1 DEF l
  <2>3. n = 0
    BY <2>1, <2>2
  <2>4. SubSeq(w, 1, Len(w)) = w
    <3>1. w \in Seq(Entries)
      BY <1>6
    <3>2. QED
      BY <3>1
  <2>5. QED
    BY <2>1, <2>3, <2>4
<1>11. ASSUME NEW d, Describes(h, d) PROVE Describes(g, d)
  <2>1. Walks(u) /\ u[l].patch.after = SettledAt(h, d) /\ (h.pending # None => h.pending.after = d)
    BY <1>1, <1>2, <1>11 DEF Describes, u, l
  <2>2. SettledAt(x, d) = SettledAt(h, d)
    BY <1>7 DEF SettledAt
  <2>3. Walks(w) /\ (w # <<>> => w[Len(w)].patch.after = e.patch.before)
    BY <1>6, <1>8, <2>1
  <2>4. QED
    BY <1>5, <1>7, <1>9, <2>1, <2>2, <2>3
<1>12. l - count = first - 1
  BY <1>2 DEF first
<1>13. QED
  BY <1>2, <1>7, <1>9, <1>10, <1>11, <1>12 DEF e, g, u, l, w, first

\* A gesture that starts, stages or ends leaves the stacks alone.
LEMMA PendingKeeps ==
    ASSUME NEW h \in Histories, Numbered(h),
           NEW gesture \in Params \cup {None}, NEW pending \in Patches \cup {None}
    PROVE  LET g == [h EXCEPT !.gesture = gesture, !.pending = pending] IN
           /\ g \in Histories /\ Numbered(g)
           /\ g.undo = h.undo /\ g.redo = h.redo /\ g.current = h.current /\ g.next = h.next
           /\ g.pending = pending
           /\ pending = None => \A d : Describes(h, d) => Describes(g, SettledAt(h, d))
           /\ pending # None => \A d : Describes(h, d) /\ pending.before = SettledAt(h, d)
                                         => Describes(g, pending.after)
<1> DEFINE g == [h EXCEPT !.gesture = gesture, !.pending = pending]
<1>1. /\ g \in Histories /\ g.pending = pending
      /\ g.undo = h.undo /\ g.redo = h.redo /\ g.current = h.current /\ g.next = h.next
  BY DEF Histories
<1> HIDE DEF g
<1>2. Numbered(g)
  BY <1>1, NumberedAlike
<1>3. ASSUME NEW d, Describes(h, d), pending = None PROVE Describes(g, SettledAt(h, d))
  <2>1. SettledAt(g, SettledAt(h, d)) = SettledAt(h, d)
    BY <1>1, <1>3 DEF SettledAt
  <2>2. QED
    BY <1>1, <1>3, <2>1 DEF Describes
<1>4. ASSUME NEW d, Describes(h, d), pending # None, pending.before = SettledAt(h, d)
      PROVE  Describes(g, pending.after)
  <2>1. SettledAt(g, pending.after) = SettledAt(h, d)
    BY <1>1, <1>4 DEF SettledAt
  <2>2. QED
    BY <1>1, <1>4, <2>1 DEF Describes
<1>5. QED
  BY <1>1, <1>2, <1>3, <1>4 DEF g

\* A history with nothing to undo or redo describes any document.
LEMMA EmptyKeeps ==
    ASSUME NEW h \in Histories, h.undo = <<>>, h.redo = <<>>, h.current < h.next
    PROVE  Numbered(h) /\ (h.pending = None => \A d : Describes(h, d))
<1>1. Trail(h.undo, h.redo) = <<>>
  <2>1. <<>> \in Seq(Entries)
    OBVIOUS
  <2>2. QED
    BY <2>1, TrailProperties
<1>2. Ordered(<<>>) /\ Walks(<<>>) /\ \A next : Below(<<>>, next)
  BY DEF Ordered, Walks, Below
<1>3. MaxEntries \in Nat \ {0} /\ Len(h.undo) + Len(h.redo) = 0
  BY BudgetAssumption
<1>4. Len(h.undo) + Len(h.redo) <= MaxEntries
  BY <1>3
<1>5. Numbered(h)
  BY <1>1, <1>2, <1>4 DEF Numbered
<1>6. ASSUME h.pending = None, NEW d PROVE Describes(h, d)
  BY <1>1, <1>2, <1>6 DEF Describes
<1>7. QED
  BY <1>5, <1>6

\* Inserting below the newest entry makes it the second newest.
LEMMA InsertBelowNewest ==
    ASSUME NEW w \in Seq(Entries), NEW e \in Entries, NEW below \in Entries
    PROVE  InsertAt(Append(w, e), Len(w) + 1, below) = Append(Append(w, below), e)
<1> DEFINE n == Len(w)
           all == Append(w, e)
<1>1. n \in Nat /\ all \in Seq(Entries) /\ Len(all) = n + 1
      /\ all[n + 1] = e /\ \A i \in 1 .. n : all[i] = w[i]
  OBVIOUS
<1>2. InsertAt(all, n + 1, below) =
         SubSeq(all, 1, (n + 1) - 1) \o <<below>> \o SubSeq(all, n + 1, Len(all))
  BY DEF InsertAt
<1>3. SubSeq(all, 1, (n + 1) - 1) = w
  OBVIOUS
<1>4. SubSeq(all, n + 1, Len(all)) = <<e>>
  <2> DEFINE s == SubSeq(all, n + 1, n + 1)
  <2> HIDE DEF all, n
  <2>1. /\ s \in Seq(Entries) /\ Len(s) = (n + 1) + 1 - (n + 1)
        /\ \A i \in 1 .. (n + 1) + 1 - (n + 1) : s[i] = all[(n + 1) - 1 + i]
    <3>1. n + 1 \in Nat \ {0} /\ n + 1 \in Nat /\ n + 1 <= (n + 1) + 1 /\ n + 1 <= Len(all)
      BY <1>1
    <3>2. QED
      BY <1>1, <3>1, StretchProperties
  <2> HIDE DEF s
  <2>2. (n + 1) + 1 - (n + 1) = 1 /\ (n + 1) - 1 + 1 = n + 1
    BY <1>1
  <2>3. Len(s) = 1 /\ s[1] = e
    BY <1>1, <2>1, <2>2
  <2>4. s = <<e>>
    <3>1. <<e>> \in Seq(Entries) /\ Len(<<e>>) = 1 /\ <<e>>[1] = e
      OBVIOUS
    <3>2. \A i \in 1 .. Len(s) : s[i] = <<e>>[i]
      BY <2>3, <3>1
    <3>3. QED
      BY <2>1, <2>3, <3>1, <3>2, SeqEqual
  <2>5. QED
    BY <1>1, <2>4 DEF s
<1> HIDE DEF all, n
<1>5. InsertAt(all, n + 1, below) = w \o <<below>> \o <<e>>
  BY <1>2, <1>3, <1>4
<1>6. w \o <<below>> = Append(w, below)
  OBVIOUS
<1>7. Append(w, below) \in Seq(Entries)
  OBVIOUS
<1>8. \A v \in Seq(Entries) : v \o <<e>> = Append(v, e)
  OBVIOUS
<1>9. QED
  BY <1>5, <1>6, <1>7, <1>8 DEF all, n

LEMMA ReplaceNewest ==
    ASSUME NEW w \in Seq(Entries), NEW e \in Entries, NEW f \in Entries
    PROVE  [Append(w, e) EXCEPT ![Len(w) + 1] = f] = Append(w, f)
<1> DEFINE n == Len(w)
           all == Append(w, e)
           s == [all EXCEPT ![n + 1] = f]
           t == Append(w, f)
<1>1. /\ n \in Nat /\ s \in Seq(Entries) /\ Len(s) = n + 1
      /\ s[n + 1] = f /\ \A i \in 1 .. n : s[i] = w[i]
  <2>1. /\ n \in Nat /\ all \in [1 .. n + 1 -> Entries] /\ \A i \in 1 .. n : all[i] = w[i]
    <3>1. n \in Nat /\ all \in Seq(Entries) /\ Len(all) = n + 1 /\ \A i \in 1 .. n : all[i] = w[i]
      OBVIOUS
    <3> HIDE DEF n, all
    <3>2. all \in [1 .. Len(all) -> Entries]
      BY <3>1, LenProperties
    <3>3. QED
      BY <3>1, <3>2
  <2> HIDE DEF n, all
  <2>2. n + 1 \in 1 .. n + 1 /\ n + 1 \in Nat /\ \A i \in 1 .. n : i \in 1 .. n + 1 /\ i # n + 1
    BY <2>1
  <2>3. s \in [1 .. n + 1 -> Entries] /\ s[n + 1] = f /\ \A i \in 1 .. n : s[i] = all[i]
    BY <2>1, <2>2
  <2> HIDE DEF s
  <2>4. s \in Seq(Entries) /\ Len(s) = n + 1
    BY <2>2, <2>3
  <2>5. QED
    BY <2>1, <2>3, <2>4
<1>2. t \in Seq(Entries) /\ Len(t) = n + 1 /\ t[n + 1] = f /\ \A i \in 1 .. n : t[i] = w[i]
  OBVIOUS
<1> HIDE DEF n, s, t
<1>3. \A i \in 1 .. n + 1 : i = n + 1 \/ i \in 1 .. n
  BY <1>1
<1>4. s = t
  BY <1>1, <1>2, <1>3, SeqEqual
<1>5. QED
  BY <1>4 DEF n, all, s, t

\* A commit inside a transaction keeps its way back.
LEMMA PushedInside ==
    ASSUME NEW h \in Histories, NEW g \in Histories, NEW c \in Histories,
           NEW d, NEW now, NEW b, Numbered(c), Inside(h, d, c, b),
           h.next <= g.next, g.redo = <<>>,
           h.pending = None => g.pending = None /\ Pushed(h, Patch(d, now), g)
    PROVE  Inside(g, now, c, b)
<1> DEFINE u == h.undo
           e == EntryOf(h, Patch(d, now))
<1>1. /\ c.current \in Nat /\ c.next \in Nat /\ h.next \in Nat /\ g.next \in Nat
      /\ c.current < c.next /\ c.next <= h.next /\ u \in Seq(Entries)
  BY DEF Histories, Numbered, Inside
<1>2. c.next <= g.next
  BY <1>1
<1>3. CASE c.pending # None
  BY <1>2, <1>3 DEF Inside
<1>4. CASE c.pending = None
  <2>1. h.pending = None
    BY <1>4 DEF Inside
  <2>2. g.current = h.next /\ g.pending = None
    BY <2>1 DEF Pushed
  <2>3. PICK n \in Nat : n <= Len(u) /\ g.undo = Append(SubSeq(u, n + 1, Len(u)), e)
    BY <2>1 DEF Pushed
  <2> DEFINE v == SubSeq(u, n + 1, Len(u))
  <2>4. v \in Seq(Entries) /\ \A i \in DOMAIN v : \E j \in DOMAIN u : v[i] = u[j]
    BY <1>1, <2>3, NewestProperties
  <2>5. /\ e.revision = h.current /\ e.patch = Patch(d, now)
        /\ e.patch.before = d /\ e.patch.after = now
    BY DEF EntryOf, Patch
  <2> HIDE DEF v, e
  <2>6. /\ g.undo[Len(g.undo)] = e
        /\ \A i \in DOMAIN g.undo : g.undo[i] = e \/ \E j \in DOMAIN v : g.undo[i] = v[j]
    <3>1. g.undo = Append(v, e)
      BY <2>3 DEF v
    <3>2. QED
      BY <2>4, <3>1
  <2>7. g.current # c.current
    BY <1>1, <2>2
  <2>8. ASSUME NEW i \in DOMAIN g.undo, g.undo[i].revision = c.current
        PROVE  g.undo[i].patch.before = b
    <3>1. CASE g.undo[i] = e
      <4>1. d = b
        BY <1>4, <2>5, <2>8, <3>1 DEF Inside
      <4>2. QED
        BY <2>5, <3>1, <4>1
    <3>2. CASE \E j \in DOMAIN v : g.undo[i] = v[j]
      <4>1. PICK j \in DOMAIN u : g.undo[i] = u[j]
        BY <2>4, <3>2
      <4>2. QED
        BY <1>4, <2>8, <4>1 DEF Inside
    <3>3. QED
      BY <2>6, <3>1, <3>2
  <2>9. g.undo[Len(g.undo)].patch.after = now
    BY <2>5, <2>6
  <2>10. QED
    BY <1>2, <2>2, <2>7, <2>8, <2>9 DEF Inside
<1>5. QED
  BY <1>3, <1>4

\* The undo stack of g holds the newest entries of h, and above them entries of
\* which only the lowest starts from a revision of h: from where h stood.
Grows(h, d, g) ==
    /\ h.next <= g.next /\ h.next <= g.current /\ g.redo = <<>>
    /\ \A i \in DOMAIN g.undo :
          \/ \E k \in DOMAIN h.undo : i <= k /\ g.undo[i] = h.undo[k]
          \/ /\ h.next <= g.undo[i].after
             /\ \/ h.next <= g.undo[i].revision
                \/ g.undo[i].revision = h.current /\ g.undo[i].patch.before = SettledAt(h, d)

LEMMA NewestThenOne ==
    ASSUME NEW u \in Seq(Entries), NEW n \in Nat, n <= Len(u), NEW e \in Entries
    PROVE  LET s == Append(SubSeq(u, n + 1, Len(u)), e) IN
           \A i \in DOMAIN s : s[i] = e \/ \E k \in DOMAIN u : i <= k /\ s[i] = u[k]
<1> DEFINE l == Len(u)
           w == SubSeq(u, n + 1, l)
           s == Append(w, e)
<1>1. l \in Nat /\ n + 1 \in Nat \ {0} /\ n + 1 <= l + 1
  OBVIOUS
<1>2. /\ w \in Seq(Entries) /\ Len(w) = l + 1 - (n + 1)
      /\ \A i \in 1 .. l + 1 - (n + 1) : w[i] = u[n + 1 - 1 + i] /\ n + 1 - 1 + i \in DOMAIN u
  BY <1>1, StretchProperties
<1>3. l + 1 - (n + 1) = l - n /\ l - n \in Nat /\ \A i \in Int : n + 1 - 1 + i = n + i
  BY <1>1
<1>4. Len(w) = l - n /\ \A i \in 1 .. l - n : w[i] = u[n + i] /\ n + i \in DOMAIN u
  <2> HIDE DEF w, l
  <2>1. QED
    BY <1>2, <1>3
<1> HIDE DEF w, l
<1>5. /\ DOMAIN s = 1 .. (l - n) + 1 /\ s[(l - n) + 1] = e
      /\ \A i \in 1 .. l - n : s[i] = w[i]
  BY <1>2, <1>4
<1> HIDE DEF s
<1>6. ASSUME NEW i \in DOMAIN s PROVE s[i] = e \/ \E k \in DOMAIN u : i <= k /\ s[i] = u[k]
  <2>1. CASE i = (l - n) + 1
    BY <1>5, <2>1
  <2>2. CASE i # (l - n) + 1
    <3>1. i \in 1 .. l - n /\ i <= n + i
      BY <1>3, <1>5, <2>2
    <3>2. QED
      BY <1>4, <1>5, <3>1
  <2>3. QED
    BY <2>1, <2>2
<1>7. QED
  BY <1>6 DEF s, w, l

LEMMA PushedGrows ==
    ASSUME NEW h \in Histories, NEW g \in Histories, NEW patch \in Patches, NEW d,
           Pushed(h, patch, g), g.redo = <<>>, h.next <= g.next, patch.before = SettledAt(h, d)
    PROVE  Grows(h, d, g)
<1>1. PICK n \in Nat : n <= Len(h.undo) /\ g.undo = Append(SubSeq(h.undo, n + 1, Len(h.undo)), EntryOf(h, patch))
  BY DEF Pushed
<1>2. h.undo \in Seq(Entries) /\ h.current \in Nat /\ h.next \in Nat
  BY DEF Histories
<1>3. /\ EntryOf(h, patch) \in Entries /\ EntryOf(h, patch).revision = h.current
      /\ EntryOf(h, patch).after = h.next /\ EntryOf(h, patch).patch = patch
  BY <1>2 DEF EntryOf, Entries
<1>4. \A i \in DOMAIN g.undo :
         g.undo[i] = EntryOf(h, patch) \/ \E k \in DOMAIN h.undo : i <= k /\ g.undo[i] = h.undo[k]
  BY <1>1, <1>2, <1>3, NewestThenOne
<1>5. h.next <= h.next /\ g.current = h.next
  BY <1>2 DEF Pushed
<1>6. QED
  BY <1>3, <1>4, <1>5 DEF Grows

\* A recorded edit ends the gesture and is pushed above what that committed.
LEMMA EditKeeps ==
    ASSUME NEW h \in Histories, Numbered(h), NEW d \in Documents, NEW now \in Documents
    PROVE  LET g == Commit(FinishGesture(h), Patch(d, now)) IN
           /\ g \in Histories /\ Numbered(g) /\ h.next <= g.next /\ g.redo = <<>>
           /\ h.pending = None => g.pending = None /\ Pushed(h, Patch(d, now), g)
           /\ Describes(h, d) => Describes(g, now)
<1> DEFINE f == FinishGesture(h)
           patch == Patch(d, now)
           g == Commit(f, patch)
<1>1. /\ f \in Histories /\ Numbered(f) /\ f.pending = None /\ h.next <= f.next
      /\ h.pending = None => f.undo = h.undo /\ f.current = h.current /\ f.next = h.next
      /\ Describes(h, d) => Describes(f, d)
  BY FinishKeeps
<1>2. patch \in Patches /\ patch.before = d /\ patch.after = now
  BY DEF Patch, Patches
<1> HIDE DEF f, patch
<1>3. /\ g \in Histories /\ Numbered(g) /\ g.redo = <<>> /\ g.next = f.next + 1
      /\ Pushed(f, patch, g) /\ g.pending = f.pending
      /\ Describes(f, d) => Describes(g, patch.after)
  BY <1>1, <1>2, CommitKeeps
<1>4. h.next <= g.next
  <2>1. h.next \in Nat /\ f.next \in Nat
    BY <1>1 DEF Histories
  <2>2. QED
    BY <1>1, <1>3, <2>1
<1>5. h.pending = None => Pushed(h, patch, g)
  BY <1>1, <1>3 DEF Pushed, EntryOf
<1>6. QED
  BY <1>1, <1>2, <1>3, <1>4, <1>5 DEF f, patch

\* The edit goes below the drag: where the drag is split, or where its pending
\* entry is moved up.
LEMMA BesideKeeps ==
    ASSUME NEW h \in Histories, Numbered(h), h.gesture # None,
           NEW d \in Documents, NEW now \in Documents
    PROVE  LET suspended == [gesture |-> h.gesture, pending |-> h.pending]
               own == Commit([h EXCEPT !.gesture = None, !.pending = None], Patch(d, now))
               g == RebaseDragBeside(own, suspended, Len(own.undo))
           IN
           /\ g \in Histories /\ Numbered(g) /\ Grows(h, d, g)
           /\ g.saved = h.saved /\ g.generation = h.generation
           /\ h.pending = None => g.pending = None /\ Pushed(h, Patch(d, now), g)
           /\ Describes(h, d) => Describes(g, now)
<1> DEFINE closed == [h EXCEPT !.gesture = None, !.pending = None]
           patch == Patch(d, now)
           own == Commit(closed, patch)
           suspended == [gesture |-> h.gesture, pending |-> h.pending]
           i == Len(own.undo)
           drag == h.pending
           e == EntryOf(closed, patch)
           start == SettledAt(h, d)
           g == RebaseDragBeside(own, suspended, Len(own.undo))
<1>1. /\ h.gesture \in Params /\ drag \in Patches \cup {None} /\ h.next \in Nat
      /\ h.current \in Nat /\ h.current < h.next
  BY DEF Histories, Numbered
<1>2. patch \in Patches /\ patch.before = d /\ patch.after = now
  BY DEF Patch, Patches
<1>3. /\ closed \in Histories /\ Numbered(closed)
      /\ closed.undo = h.undo /\ closed.redo = h.redo
      /\ closed.current = h.current /\ closed.next = h.next /\ closed.pending = None
      /\ closed.saved = h.saved /\ closed.generation = h.generation
  <2>1. /\ closed \in Histories /\ closed.undo = h.undo /\ closed.redo = h.redo
        /\ closed.current = h.current /\ closed.next = h.next /\ closed.pending = None
        /\ closed.saved = h.saved /\ closed.generation = h.generation
    BY DEF Histories
  <2> HIDE DEF closed
  <2>2. QED
    BY <2>1, NumberedAlike
<1>4. ASSUME Describes(h, d) PROVE Describes(closed, start)
  <2>1. SettledAt(closed, start) = SettledAt(h, d)
    BY <1>3 DEF SettledAt
  <2>2. QED
    BY <1>3, <1>4, <2>1 DEF Describes
<1>5. suspended.gesture = h.gesture /\ suspended.pending = drag
  OBVIOUS
<1> HIDE DEF closed, patch, own, start, suspended
<1>6. /\ own \in Histories /\ Numbered(own) /\ own.redo = <<>> /\ own.next = h.next + 1
      /\ Pushed(closed, patch, own) /\ own.pending = None
      /\ own.saved = h.saved /\ own.generation = h.generation
      /\ own.undo # <<>> /\ own.undo[i] = e
      /\ \A x : Describes(closed, x) /\ patch.before = x => Describes(own, patch.after)
  BY <1>2, <1>3, CommitKeeps DEF own
<1>7. CASE drag = None
  <2>1. g = [own EXCEPT !.gesture = h.gesture]
    BY <1>5, <1>7 DEF RebaseDragBeside
  <2>2. g = [own EXCEPT !.gesture = h.gesture, !.pending = None]
    BY <1>6, <2>1 DEF Histories
  <2> HIDE DEF g
  <2>3. /\ g \in Histories /\ Numbered(g) /\ g.undo = own.undo /\ g.redo = own.redo
        /\ g.current = own.current /\ g.next = own.next /\ g.pending = None
        /\ g.saved = own.saved /\ g.generation = own.generation
    <3>1. /\ g \in Histories /\ g.undo = own.undo /\ g.redo = own.redo
          /\ g.current = own.current /\ g.next = own.next /\ g.pending = None
          /\ g.saved = own.saved /\ g.generation = own.generation
      BY <1>1, <1>6, <2>2 DEF Histories
    <3>2. QED
      BY <1>6, <3>1, NumberedAlike
  <2>4. h.next <= g.next
    BY <1>1, <1>6, <2>3
  <2>5. Pushed(h, patch, g)
    BY <1>3, <1>6, <2>3 DEF Pushed, EntryOf
  <2>6. ASSUME Describes(h, d) PROVE Describes(g, now)
    <3>1. start = d
      BY <1>7 DEF start, SettledAt
    <3>2. Describes(own, now)
      BY <1>2, <1>4, <1>6, <2>6, <3>1
    <3>3. QED
      BY <1>6, <2>3, <3>2 DEF Describes, SettledAt
  <2>7. Grows(h, d, g)
    <3>1. patch.before = SettledAt(h, d) /\ g.redo = <<>>
      BY <1>2, <1>6, <1>7, <2>3 DEF SettledAt
    <3>2. QED
      BY <1>2, <2>3, <2>4, <2>5, <3>1, PushedGrows
  <2>8. QED
    BY <1>6, <2>3, <2>5, <2>6, <2>7 DEF g, own, closed, patch, suspended
<1>8. CASE drag # None
  <2>1. PICK n \in Nat : n <= Len(h.undo) /\ own.undo = Append(SubSeq(h.undo, n + 1, Len(h.undo)), e)
    BY <1>3, <1>6 DEF Pushed
  <2> DEFINE u == h.undo
             w == SubSeq(u, n + 1, Len(u))
  <2>2. /\ u \in Seq(Entries) /\ Ordered(u) /\ Below(u, h.next)
        /\ Walks(Trail(u, h.redo)) => Walks(u)
        /\ u # <<>> => u[Len(u)].after = h.current
    BY UndoProperties DEF Numbered
  <2>3. /\ w \in Seq(Entries) /\ Ordered(w) /\ Below(w, h.next) /\ (Walks(u) => Walks(w))
        /\ w # <<>> => u # <<>> /\ w[Len(w)] = u[Len(u)]
    BY <2>1, <2>2, NewestProperties
  <2>4. /\ e \in Entries /\ e.revision = h.current /\ e.after = h.next /\ e.patch = patch
    BY <1>1, <1>2, <1>3 DEF EntryOf, Entries
  <2>5. own.undo = Append(w, e) /\ own.current = h.next
    BY <1>3, <1>6, <2>1 DEF Pushed
  <2> HIDE DEF w, e
  <2>6. i = Len(w) + 1 /\ own.undo[i].patch = patch
    BY <1>6, <2>3, <2>4, <2>5
  <2>7. /\ w # <<>> => w[Len(w)].after = h.current
        /\ \A j \in DOMAIN w : /\ w[j].revision \in Nat /\ w[j].after \in Nat
                               /\ w[j].revision < h.next /\ w[j].after < h.next
    <3>1. \A j \in DOMAIN w : w[j] \in Entries
      BY <2>3
    <3>2. QED
      BY <2>2, <2>3, <3>1 DEF Below, Entries
  <2>8. ASSUME Describes(h, d)
        PROVE  /\ Walks(w) /\ (w # <<>> => w[Len(w)].patch.after = drag.before)
               /\ drag.after = d
    BY <1>8, <2>2, <2>3, <2>8 DEF Describes, SettledAt, u
  <2>9. drag \in Patches
    BY <1>1, <1>8
  <2> DEFINE under == Rebase(drag.before, patch.before, patch.after)
  <2>10. /\ drag.before \in Documents /\ drag.after \in Documents /\ drag = Patch(drag.before, drag.after)
         /\ under \in Documents
    <3>1. drag.before \in Documents /\ patch.after \in Documents
      BY <1>2, <2>9 DEF Patches
    <3>2. \A p \in Params : drag.before[p] \in Values /\ patch.after[p] \in Values
      BY <3>1 DEF Documents
    <3>3. under \in Documents
      BY <3>2 DEF Rebase, Documents
    <3>4. QED
      BY <2>9, <3>3 DEF Patch, Patches
  <2> HIDE DEF u, under
  <2>11. CASE Conflicts(drag.before, patch.before, patch.after)
    <3> DEFINE below == [revision |-> h.current, after |-> own.next, patch |-> drag]
               above == [e EXCEPT !.revision = own.next]
               x == [own EXCEPT !.undo = Append(Append(w, below), above), !.next = own.next + 1]
               budgeted == EnforceBudget(x, own.current)
               gesture == IF suspended.gesture \in SliceParams THEN None ELSE suspended.gesture
    <3>1. g = [budgeted EXCEPT !.gesture = gesture]
      <4>1. g = [InsertBefore(own, i, drag) EXCEPT !.gesture = gesture]
        BY <1>5, <1>8, <2>6, <2>11 DEF RebaseDragBeside
      <4>2. InsertBefore(own, i, drag) = budgeted
        <5> DEFINE first == [revision |-> own.undo[i].revision, after |-> own.next, patch |-> drag]
                   split == [own.undo EXCEPT ![i].revision = own.next]
        <5>1. InsertBefore(own, i, drag) =
                 EnforceBudget([own EXCEPT !.undo = InsertAt(split, i, first), !.next = @ + 1],
                               own.current)
          BY DEF InsertBefore
        <5>2. first = below
          BY <1>6, <2>4
        <5>3. below \in Entries /\ above \in Entries
          BY <1>1, <1>6, <2>4, <2>9 DEF Entries
        <5>4. split = Append(w, above)
          <6>1. split = [own.undo EXCEPT ![i] = [own.undo[i] EXCEPT !.revision = own.next]]
            OBVIOUS
          <6>2. split = [Append(w, e) EXCEPT ![Len(w) + 1] = above]
            BY <1>6, <2>5, <2>6, <6>1
          <6> HIDE DEF split, above, i
          <6>3. QED
            BY <2>3, <2>4, <5>3, <6>2, ReplaceNewest
        <5> HIDE DEF first, split, below, above, i
        <5>5. InsertAt(split, i, first) = Append(Append(w, below), above)
          BY <2>3, <2>6, <5>2, <5>3, <5>4, InsertBelowNewest
        <5>6. QED
          BY <5>1, <5>5 DEF Histories
      <4>3. QED
        BY <4>1, <4>2
    <3> DEFINE v == Append(w, below)
    <3>2. /\ below \in Entries /\ below.revision = h.current /\ below.after = h.next + 1
          /\ below.patch = drag
          /\ above \in Entries /\ above.revision = h.next + 1 /\ above.after = h.next
          /\ above.patch = patch /\ own.next = h.next + 1
      BY <1>1, <1>6, <2>4, <2>9 DEF Entries
    <3> HIDE DEF below, above
    <3>3. /\ h.next + 1 \in Nat /\ h.next + 2 \in Nat /\ h.next + 1 # h.next /\ h.next + 1 # h.current
          /\ h.next < h.next + 2 /\ h.next + 1 < h.next + 2 /\ h.current < h.next + 2
          /\ (h.next + 1) + 1 = h.next + 2
          /\ \A k \in Nat : k < h.next => k # h.next /\ k # h.next + 1 /\ k < h.next + 2
      BY <1>1
    <3>4. /\ v \in Seq(Entries) /\ Ordered(v) /\ Below(v, h.next + 2)
          /\ Walks(w) /\ (w # <<>> => w[Len(w)].patch.after = drag.before) => Walks(v)
      <4>1. /\ \A j \in DOMAIN w : w[j].revision # below.after
            /\ w # <<>> => w[Len(w)].after = below.revision
            /\ below.after # below.revision
            /\ Below(w, h.next + 2) /\ below.revision < h.next + 2 /\ below.after < h.next + 2
        BY <2>7, <3>2, <3>3 DEF Below
      <4>2. QED
        BY <2>3, <3>2, <3>3, <4>1, AppendKeeps
    <3>5. /\ v # <<>> /\ v[Len(v)] = below
          /\ \A j \in DOMAIN v : v[j] = below \/ \E k \in DOMAIN w : v[j] = w[k]
      <4>1. w \in Seq(Entries) /\ below \in Entries
        BY <2>3, <3>2
      <4>2. QED
        BY <4>1
    <3> HIDE DEF v
    <3>6. Append(v, above) \in Seq(Entries)
      <4>1. v \in Seq(Entries)
        BY <3>4
      <4>2. QED
        BY <3>2, <4>1
    <3>7. /\ x \in Histories /\ x.undo = Append(v, above) /\ x.redo = <<>>
          /\ x.current = h.next /\ x.next = h.next + 2 /\ x.pending = None
          /\ x.saved = own.saved /\ x.generation = own.generation
      <4>1. x = [own EXCEPT !.undo = Append(v, above), !.next = h.next + 2]
        BY <3>2, <3>3 DEF v
      <4>2. h.next + 2 \in Nat \ {0}
        BY <1>1
      <4> HIDE DEF x
      <4>3. QED
        BY <1>6, <2>5, <3>6, <4>1, <4>2 DEF Histories
    <3> HIDE DEF x
    <3>8. budgeted = EnforceBudget(x, above.after)
      BY <2>5, <3>2
    <3>9. /\ v[Len(v)].after = above.revision /\ above.after # above.revision
          /\ \A j \in DOMAIN v : v[j].revision # above.after
          /\ above.revision < x.next /\ above.after < x.next /\ above.after = x.current
      <4>1. h.current # h.next
        BY <1>1
      <4>2. QED
        BY <2>7, <3>2, <3>3, <3>5, <3>7, <4>1
    <3> HIDE DEF budgeted
    <3>10. /\ budgeted \in Histories /\ Numbered(budgeted) /\ budgeted.redo = <<>>
           /\ budgeted.next = h.next + 2 /\ budgeted.current = h.next /\ budgeted.pending = None
           /\ budgeted.saved = x.saved /\ budgeted.generation = x.generation
           /\ \E m \in Nat :
                 m <= Len(v) /\ budgeted.undo = Append(SubSeq(v, m + 1, Len(v)), above)
           /\ \A y : /\ Walks(v) /\ v[Len(v)].patch.after = above.patch.before
                     /\ above.patch.after = y
                     => Describes(budgeted, y)
      <4>1. /\ x \in Histories /\ v \in Seq(Entries) /\ above \in Entries
            /\ x.undo = Append(v, above) /\ x.redo = <<>> /\ above.after = x.current
            /\ Ordered(v) /\ (v # <<>> => v[Len(v)].after = above.revision)
            /\ above.after # above.revision /\ \A j \in DOMAIN v : v[j].revision # above.after
            /\ Below(v, x.next) /\ above.revision < x.next /\ above.after < x.next
        BY <3>2, <3>4, <3>7, <3>9
      <4>2. \A y : SettledAt(x, y) = y
        BY <3>7 DEF SettledAt
      <4>3. /\ budgeted \in Histories /\ Numbered(budgeted) /\ budgeted.redo = <<>>
            /\ budgeted.next = x.next /\ budgeted.pending = x.pending
            /\ budgeted.current = x.current
            /\ budgeted.saved = x.saved /\ budgeted.generation = x.generation
            /\ \E m \in Nat :
                  m <= Len(v) /\ budgeted.undo = Append(SubSeq(v, m + 1, Len(v)), above)
            /\ \A y : /\ Walks(v) /\ (v # <<>> => v[Len(v)].patch.after = above.patch.before)
                      /\ above.patch.after = SettledAt(x, y)
                      /\ x.pending # None => x.pending.after = y
                      => Describes(budgeted, y)
        BY <3>8, <4>1, BudgetedKeeps
      <4>4. QED
        BY <3>7, <4>2, <4>3
    <3>11. gesture \in Params \cup {None}
      BY <1>1, <1>5
    <3> HIDE DEF gesture
    <3>12. /\ g \in Histories /\ g.undo = budgeted.undo /\ g.redo = budgeted.redo
           /\ g.current = budgeted.current /\ g.next = budgeted.next /\ g.pending = None
           /\ g.saved = budgeted.saved /\ g.generation = budgeted.generation
      BY <3>1, <3>10, <3>11 DEF Histories
    <3> HIDE DEF g
    <3>13. Numbered(g)
      BY <3>10, <3>12, NumberedAlike
    <3>14. Grows(h, d, g)
      <4>1. PICK m \in Nat :
               m <= Len(v) /\ budgeted.undo = Append(SubSeq(v, m + 1, Len(v)), above)
        BY <3>10
      <4>2. \A j \in DOMAIN g.undo :
               g.undo[j] = above \/ \E k \in DOMAIN v : j <= k /\ g.undo[j] = v[k]
        BY <3>2, <3>4, <3>12, <4>1, NewestThenOne
      <4>3. \A k \in DOMAIN v : v[k] = below \/ \E q \in DOMAIN h.undo : k <= q /\ v[k] = h.undo[q]
        BY <2>1, <2>2, <3>2, NewestThenOne DEF v, w, u
      <4>4. /\ DOMAIN g.undo \subseteq Nat /\ DOMAIN v \subseteq Nat /\ DOMAIN h.undo \subseteq Nat
            /\ \A j, k, q \in Nat : j <= k /\ k <= q => j <= q
        <5>1. g.undo \in Seq(Entries) /\ v \in Seq(Entries) /\ h.undo \in Seq(Entries)
          BY <2>2, <3>4, <3>12 DEF Histories, u
        <5> HIDE DEF g
        <5>2. QED
          BY <5>1
      <4>5. ASSUME NEW j \in DOMAIN g.undo
            PROVE  \/ g.undo[j] \in {above, below}
                   \/ \E q \in DOMAIN h.undo : j <= q /\ g.undo[j] = h.undo[q]
        <5>1. CASE g.undo[j] # above
          <6>1. PICK k \in DOMAIN v : j <= k /\ g.undo[j] = v[k]
            BY <4>2, <5>1
          <6>2. CASE v[k] # below
            <7>1. PICK q \in DOMAIN h.undo : k <= q /\ v[k] = h.undo[q]
              BY <4>3, <6>2
            <7>2. j \in Nat /\ k \in Nat /\ q \in Nat
              BY <4>4
            <7>3. j <= q /\ g.undo[j] = h.undo[q]
              BY <6>1, <7>1, <7>2
            <7>4. QED
              BY <7>3
          <6>3. QED
            BY <6>1, <6>2
        <5>2. QED
          BY <5>1
      <4>6. /\ h.next <= above.after /\ h.next <= above.revision /\ h.next <= below.after
            /\ below.revision = h.current /\ below.patch.before = SettledAt(h, d)
            /\ h.next <= h.next + 2 /\ h.next <= h.next
        BY <1>1, <1>8, <3>2 DEF SettledAt
      <4>7. h.next <= g.next /\ h.next <= g.current /\ g.redo = <<>>
        BY <3>10, <3>12, <4>6
      <4> HIDE DEF g
      <4>8. QED
        BY <4>5, <4>6, <4>7 DEF Grows
    <3>15. ASSUME Describes(h, d) PROVE Describes(g, now)
      <4>1. Describes(budgeted, now)
        BY <1>2, <2>8, <3>2, <3>4, <3>5, <3>10, <3>15
      <4>2. QED
        BY <3>10, <3>12, <4>1 DEF Describes, SettledAt
    <3>16. QED
      BY <1>6, <1>8, <3>7, <3>10, <3>12, <3>13, <3>14, <3>15 DEF g, own, closed, patch, suspended
  <2>12. CASE ~Conflicts(drag.before, patch.before, patch.after)
    <3> DEFINE moved == [e EXCEPT !.patch = Patch(drag.before, under)]
    <3>1. g = [own EXCEPT !.undo = Append(w, moved), !.gesture = h.gesture,
                          !.pending = Patch(under, now)]
      <4>1. g = [own EXCEPT !.undo[i].patch = Patch(drag.before, under), !.gesture = h.gesture,
                            !.pending = Patch(under, now)]
        BY <1>2, <1>5, <1>8, <2>6, <2>12 DEF RebaseDragBeside, under
      <4>2. moved \in Entries
        BY <1>2, <2>4, <2>9, <2>10 DEF Entries, Patches, Patch
      <4>3. [own.undo EXCEPT ![i].patch = Patch(drag.before, under)] = Append(w, moved)
        <5> DEFINE staged == [own.undo EXCEPT ![i].patch = Patch(drag.before, under)]
        <5>1. staged = [own.undo EXCEPT ![i] = [own.undo[i] EXCEPT !.patch = Patch(drag.before, under)]]
          OBVIOUS
        <5>2. staged = [Append(w, e) EXCEPT ![Len(w) + 1] = moved]
          BY <1>6, <2>5, <2>6, <5>1
        <5> HIDE DEF staged, moved, i
        <5>3. staged = Append(w, moved)
          BY <2>3, <2>4, <4>2, <5>2, ReplaceNewest
        <5>4. QED
          BY <5>3 DEF staged
      <4>4. QED
        BY <4>1, <4>3 DEF Histories
    <3>2. /\ moved \in Entries /\ moved.revision = h.current /\ moved.after = h.next
          /\ moved.patch = Patch(drag.before, under)
          /\ moved.patch.before = drag.before /\ moved.patch.after = under
          /\ Patch(under, now) \in Patches /\ Patch(under, now).before = under
          /\ Patch(under, now).after = now
      BY <2>4, <2>10 DEF Entries, Patches, Patch
    <3> HIDE DEF moved
    <3>3. Append(w, moved) \in Seq(Entries) /\ Len(Append(w, moved)) = Len(w) + 1
      BY <2>3, <3>2
    <3>4. /\ g \in Histories /\ g.undo = Append(w, moved) /\ g.redo = <<>>
          /\ g.current = h.next /\ g.next = h.next + 1 /\ g.pending = Patch(under, now)
          /\ g.saved = own.saved /\ g.generation = own.generation
      <4>1. /\ own \in Histories /\ own.redo = <<>> /\ own.current = h.next
            /\ own.next = h.next + 1
        BY <1>6, <2>5
      <4>2. /\ h.gesture \in Params \cup {None} /\ Patch(under, now) \in Patches \cup {None}
            /\ Append(w, moved) \in Seq(Entries)
        BY <1>1, <3>2, <3>3
      <4> HIDE DEF g
      <4>3. QED
        BY <3>1, <4>1, <4>2 DEF Histories
    <3> HIDE DEF g
    <3>5. Len(g.undo) <= MaxEntries
      <4>1. Len(own.undo) + Len(own.redo) <= MaxEntries /\ Len(own.redo) = 0
        BY <1>6 DEF Numbered
      <4>2. Len(own.undo) = Len(w) + 1 /\ Len(w) \in Nat /\ MaxEntries \in Nat
        BY <2>3, <2>6, BudgetAssumption
      <4>3. QED
        BY <3>3, <3>4, <4>1, <4>2
    <3>6. /\ w # <<>> => w[Len(w)].after = moved.revision
          /\ moved.after = g.current /\ moved.after # moved.revision
          /\ \A j \in DOMAIN w : w[j].revision # moved.after
          /\ Below(w, g.next) /\ moved.revision < g.next /\ moved.after < g.next
      BY <1>1, <2>7, <3>2, <3>4 DEF Below
    <3>7. /\ Numbered(g)
          /\ Describes(h, d) => Describes(g, now)
      <4>1. g.pending # None /\ SettledAt(g, now) = under
        BY <3>2, <3>4, NoneAssumption DEF SettledAt, Patches, Documents
      <4>2. g \in Histories /\ w \in Seq(Entries) /\ moved \in Entries /\ Ordered(w)
        BY <2>3, <3>2, <3>4
      <4>3. /\ Numbered(g)
            /\ \A y : /\ Walks(w) /\ (w # <<>> => w[Len(w)].patch.after = moved.patch.before)
                      /\ moved.patch.after = SettledAt(g, y)
                      /\ g.pending # None => g.pending.after = y
                      => Describes(g, y)
        BY <3>4, <3>5, <3>6, <4>2, PushedKeeps
      <4>4. QED
        BY <2>8, <3>2, <3>4, <4>1, <4>3
    <3>8. Grows(h, d, g)
      <4>1. \A j \in DOMAIN g.undo :
               g.undo[j] = moved \/ \E k \in DOMAIN h.undo : j <= k /\ g.undo[j] = h.undo[k]
        BY <2>1, <2>2, <3>2, <3>4, NewestThenOne DEF w, u
      <4>2. /\ h.next <= moved.after /\ h.next <= g.next /\ h.next <= g.current
            /\ moved.patch.before = SettledAt(h, d)
        BY <1>1, <1>8, <3>2, <3>4 DEF SettledAt
      <4>3. QED
        BY <3>2, <3>4, <4>1, <4>2 DEF Grows
    <3>9. QED
      BY <1>6, <1>8, <3>4, <3>7, <3>8 DEF g, own, closed, patch, suspended
  <2>13. QED
    BY <2>11, <2>12
<1>9. QED
  BY <1>7, <1>8

-----------------------------------------------------------------------------
(* The steps                                                               *)

\* What a step has to establish that changes the document and its history.
LEMMA ChangedKeeps ==
    ASSUME HistoryInv, doc' \in Documents, history' \in Histories, Numbered(history'),
           fits => Describes(history', doc'),
           txn # None => Inside(history', doc', txn.checkpoint, txn.doc),
           UNCHANGED <<name, save_vars, txn, fits>>
    PROVE  HistoryInv'
<1>1. TypeOK'
  BY DEF HistoryInv, TypeOK, save_vars
<1>2. /\ Numbered(history') /\ (fits' => Describes(history', doc'))
      /\ txn' # None => /\ Numbered(txn'.checkpoint)
                        /\ fits' => Describes(txn'.checkpoint, txn'.doc)
                        /\ Inside(history', doc', txn'.checkpoint, txn'.doc)
  BY DEF HistoryInv
<1>3. QED
  BY <1>1, <1>2 DEF HistoryInv

\* What the invariant says while no transaction is open, and in one.
LEMMA InvariantSays ==
    ASSUME HistoryInv
    PROVE  /\ doc \in Documents /\ history \in Histories /\ Numbered(history)
           /\ fits => Describes(history, doc)
           /\ txn # None => /\ txn.checkpoint \in Histories /\ txn.doc \in Documents
                            /\ Numbered(txn.checkpoint)
                            /\ Inside(history, doc, txn.checkpoint, txn.doc)
BY DEF HistoryInv, TypeOK

LEMMA AssignKeeps ==
    ASSUME doc \in Documents, NEW p \in Params, NEW v \in Values
    PROVE  [doc EXCEPT ![p] = v] \in Documents
BY DEF Documents

LEMMA EditStep ==
    ASSUME HistoryInv, NEW p \in Params, NEW v \in Values, Edit(p, v)
    PROVE  HistoryInv'
<1>1. /\ doc' = [doc EXCEPT ![p] = v] /\ history' = Commit(FinishGesture(history), Patch(doc, doc'))
      /\ UNCHANGED <<name, save_vars, txn, fits>>
  BY DEF Edit
<1>2. doc' \in Documents
  BY <1>1, AssignKeeps, InvariantSays
<1>3. /\ history' \in Histories /\ Numbered(history') /\ history.next <= history'.next
      /\ history'.redo = <<>>
      /\ history.pending = None =>
            history'.pending = None /\ Pushed(history, Patch(doc, doc'), history')
      /\ Describes(history, doc) => Describes(history', doc')
  BY <1>1, <1>2, InvariantSays, EditKeeps
<1>4. txn # None => Inside(history', doc', txn.checkpoint, txn.doc)
  BY <1>3, InvariantSays, PushedInside
<1>5. QED
  BY <1>1, <1>2, <1>3, <1>4, InvariantSays, ChangedKeeps

LEMMA EditBesideStep ==
    ASSUME HistoryInv, NEW p \in Params, NEW v \in Values, EditBeside(p, v)
    PROVE  HistoryInv'
<1> DEFINE suspended == [gesture |-> history.gesture, pending |-> history.pending]
           own == Commit([history EXCEPT !.gesture = None, !.pending = None], Patch(doc, doc'))
<1>1. /\ doc' = [doc EXCEPT ![p] = v] /\ history.gesture # None
      /\ history' = RebaseDragBeside(own, suspended, Len(own.undo))
      /\ UNCHANGED <<name, save_vars, txn, fits>>
  BY DEF EditBeside
<1>2. doc' \in Documents
  BY <1>1, AssignKeeps, InvariantSays
<1>3. /\ history' \in Histories /\ Numbered(history') /\ history.next <= history'.next
      /\ history'.redo = <<>>
      /\ history.pending = None =>
            history'.pending = None /\ Pushed(history, Patch(doc, doc'), history')
      /\ Describes(history, doc) => Describes(history', doc')
  <2> DEFINE g == RebaseDragBeside(own, suspended, Len(own.undo))
  <2>1. /\ history \in Histories /\ Numbered(history) /\ history.gesture # None
        /\ doc \in Documents /\ doc' \in Documents
    BY <1>1, <1>2, InvariantSays
  <2>2. /\ g \in Histories /\ Numbered(g) /\ Grows(history, doc, g)
        /\ history.pending = None => g.pending = None /\ Pushed(history, Patch(doc, doc'), g)
        /\ Describes(history, doc) => Describes(g, doc')
    BY <2>1, BesideKeeps, Zenon
  <2>3. history' = g
    BY <1>1
  <2> HIDE DEF g
  <2>4. QED
    BY <2>2, <2>3 DEF Grows
<1>4. txn # None => Inside(history', doc', txn.checkpoint, txn.doc)
  BY <1>3, InvariantSays, PushedInside
<1>5. QED
  BY <1>1, <1>2, <1>3, <1>4, InvariantSays, ChangedKeeps

LEMMA BarrierEditStep ==
    ASSUME HistoryInv, NEW p \in Params, NEW v \in Values, BarrierEdit(p, v)
    PROVE  HistoryInv'
<1>1. /\ doc' = [doc EXCEPT ![p] = v] /\ history' = Barrier(history)
      /\ UNCHANGED <<name, save_vars, txn, fits>>
  BY DEF BarrierEdit
<1>2. doc' \in Documents
  BY <1>1, AssignKeeps, InvariantSays
<1>3. history.next \in Nat /\ history.current \in Nat
  BY InvariantSays DEF Histories
<1>4. /\ history' \in Histories /\ history'.undo = <<>> /\ history'.redo = <<>>
      /\ history'.current = history.next /\ history'.next = history.next + 1
      /\ history'.pending = None
  <2>1. history.next + 1 \in Nat \ {0} /\ <<>> \in Seq(Entries)
    BY <1>3
  <2>2. QED
    BY <1>1, <1>3, <2>1, InvariantSays DEF Barrier, Histories
<1>5. Numbered(history') /\ Describes(history', doc')
  BY <1>3, <1>4, EmptyKeeps
<1>6. ASSUME txn # None PROVE Inside(history', doc', txn.checkpoint, txn.doc)
  <2> DEFINE c == txn.checkpoint
  <2>1. /\ c.current \in Nat /\ c.next \in Nat /\ c.current < c.next /\ c.next <= history.next
    BY <1>6, InvariantSays DEF Histories, Numbered, Inside
  <2>2. c.next <= history'.next /\ history'.current # c.current
    BY <1>3, <1>4, <2>1
  <2>3. QED
    BY <1>4, <2>2 DEF Inside
<1>7. QED
  BY <1>1, <1>2, <1>4, <1>5, <1>6, ChangedKeeps

LEMMA DragStep ==
    ASSUME HistoryInv, NEW p \in Params, NEW v \in Values, Drag(p, v)
    PROVE  HistoryInv'
<1> DEFINE h == history
           mine == h.gesture = p
           start == IF mine /\ h.pending # None THEN h.pending.before ELSE doc
           f == FinishGesture(h)
           opened == IF mine THEN h ELSE [f EXCEPT !.gesture = p]
           staged == Patch(start, doc')
<1>1. /\ doc' = [doc EXCEPT ![p] = v] /\ txn = None
      /\ history' = IF doc' = start /\ mine /\ h.pending # None
                    THEN [h EXCEPT !.gesture = None, !.pending = None]
                    ELSE [opened EXCEPT !.pending = staged]
      /\ UNCHANGED <<name, save_vars, txn, fits>>
  BY DEF Drag
<1>2. /\ doc \in Documents /\ doc' \in Documents /\ h \in Histories /\ Numbered(h)
      /\ fits => Describes(h, doc)
  BY <1>1, AssignKeeps, InvariantSays
<1>3. /\ h.pending \in Patches \cup {None} /\ None \in Params \cup {None} /\ None \in Patches \cup {None}
      /\ p \in Params \cup {None}
  BY <1>2 DEF Histories
<1>4. start \in Documents
  BY <1>2, <1>3 DEF Patches
<1>5. /\ staged \in Patches \cup {None} /\ staged # None
      /\ staged.before = start /\ staged.after = doc'
  BY <1>2, <1>4, NoneAssumption DEF Patch, Patches, Documents
<1>6. CASE doc' = start /\ mine /\ h.pending # None
  <2>1. history' = [h EXCEPT !.gesture = None, !.pending = None]
    BY <1>1, <1>6
  <2>2. doc' = SettledAt(h, doc)
    BY <1>6 DEF SettledAt
  <2> HIDE DEF h
  <2>3. /\ history' \in Histories /\ Numbered(history')
        /\ Describes(h, doc) => Describes(history', doc')
    BY <1>2, <1>3, <2>1, <2>2, PendingKeeps
  <2>4. QED
    BY <1>1, <1>2, <2>3, ChangedKeeps
<1>7. CASE ~(doc' = start /\ mine /\ h.pending # None) /\ mine
  <2>1. history' = [h EXCEPT !.gesture = p, !.pending = staged]
    BY <1>1, <1>2, <1>7 DEF Histories
  <2>2. start = SettledAt(h, doc)
    BY <1>7 DEF SettledAt
  <2> HIDE DEF h, start, staged
  <2>3. /\ history' \in Histories /\ Numbered(history')
        /\ Describes(h, doc) => Describes(history', doc')
    <3>1. h \in Histories /\ Numbered(h) /\ staged.before = SettledAt(h, doc)
      BY <1>2, <1>5, <2>2
    <3>2. p \in Params \cup {None}
      BY <1>3
    <3>3. QED
      BY <1>5, <2>1, <3>1, <3>2, PendingKeeps
  <2>4. QED
    BY <1>1, <1>2, <2>3, ChangedKeeps
<1>8. CASE ~mine
  <2>1. /\ f \in Histories /\ Numbered(f) /\ f.pending = None
        /\ Describes(h, doc) => Describes(f, doc)
    BY <1>2, FinishKeeps
  <2> HIDE DEF f
  <2>2. history' = [f EXCEPT !.gesture = p, !.pending = staged]
    BY <1>1, <1>8, <2>1 DEF Histories
  <2>3. start = SettledAt(f, doc)
    BY <1>8, <2>1 DEF SettledAt
  <2> HIDE DEF h, start, staged
  <2>4. /\ history' \in Histories /\ Numbered(history')
        /\ Describes(f, doc) => Describes(history', doc')
    <3>1. f \in Histories /\ Numbered(f) /\ staged.before = SettledAt(f, doc)
      BY <1>5, <2>1, <2>3
    <3>2. p \in Params \cup {None}
      BY <1>3
    <3>3. QED
      BY <1>5, <2>2, <3>1, <3>2, PendingKeeps
  <2>5. QED
    BY <1>1, <1>2, <2>1, <2>4, ChangedKeeps
<1>9. QED
  BY <1>6, <1>7, <1>8

LEMMA GestureEndsStep ==
    ASSUME HistoryInv, FinishActiveGesture \/ CancelActiveGesture
    PROVE  HistoryInv'
<1>1. /\ doc \in Documents /\ history \in Histories /\ Numbered(history)
      /\ fits => Describes(history, doc)
  BY InvariantSays
<1>2. CASE FinishActiveGesture
  <2>1. history' = FinishGesture(history) /\ doc' = doc /\ txn = None
    BY <1>2 DEF FinishActiveGesture
  <2>2. /\ history' \in Histories /\ Numbered(history')
        /\ Describes(history, doc) => Describes(history', doc)
    BY <1>1, <2>1, FinishKeeps
  <2>3. QED
    BY <1>1, <1>2, <2>1, <2>2, ChangedKeeps DEF FinishActiveGesture
<1>3. CASE CancelActiveGesture
  <2>1. /\ history' = [history EXCEPT !.gesture = None, !.pending = None] /\ txn = None
        /\ doc' = SettledAt(history, doc)
    BY <1>3 DEF CancelActiveGesture, SettledAt
  <2>2. doc' \in Documents
    BY <1>1, <2>1 DEF SettledAt, Histories, Patches
  <2>3. None \in Params \cup {None} /\ None \in Patches \cup {None}
    OBVIOUS
  <2>4. /\ history' \in Histories /\ Numbered(history')
        /\ Describes(history, doc) => Describes(history', doc')
    BY <1>1, <2>1, <2>3, PendingKeeps
  <2>5. QED
    BY <1>1, <1>3, <2>1, <2>2, <2>4, ChangedKeeps DEF CancelActiveGesture
<1>4. QED
  BY <1>2, <1>3

LEMMA UndoStep ==
    ASSUME HistoryInv, Undo
    PROVE  HistoryInv'
<1> DEFINE h == FinishGesture(history)
<1>1. /\ doc \in Documents /\ history \in Histories /\ Numbered(history)
      /\ fits => Describes(history, doc)
  BY InvariantSays
<1>2. /\ h \in Histories /\ Numbered(h) /\ h.pending = None
      /\ Describes(history, doc) => Describes(h, doc)
  BY <1>1, FinishKeeps
<1>3. /\ txn = None /\ UNCHANGED <<name, save_vars, txn, fits>>
      /\ \/ /\ h.undo # <<>> /\ doc' = Last(h.undo).patch.before
            /\ history' = UndoEntry(h)
         \/ history' = h /\ doc' = doc
  BY DEF Undo
<1> HIDE DEF h
<1>4. CASE h.undo # <<>> /\ doc' = Last(h.undo).patch.before /\ history' = UndoEntry(h)
  <2>1. Last(h.undo) \in Entries
    BY <1>2, <1>4, FrontAndLast DEF Histories
  <2>2. doc' \in Documents
    BY <1>4, <2>1 DEF Entries, Patches
  <2>3. /\ history' \in Histories /\ Numbered(history')
        /\ Describes(h, doc) => Describes(history', doc')
    BY <1>2, <1>4, UndoKeeps
  <2>4. QED
    BY <1>1, <1>2, <1>3, <2>2, <2>3, ChangedKeeps
<1>5. CASE history' = h /\ doc' = doc
  BY <1>1, <1>2, <1>3, <1>5, ChangedKeeps
<1>6. QED
  BY <1>3, <1>4, <1>5

LEMMA RedoStep ==
    ASSUME HistoryInv, Redo
    PROVE  HistoryInv'
<1> DEFINE h == FinishGesture(history)
<1>1. /\ doc \in Documents /\ history \in Histories /\ Numbered(history)
      /\ fits => Describes(history, doc)
  BY InvariantSays
<1>2. /\ h \in Histories /\ Numbered(h) /\ h.pending = None
      /\ Describes(history, doc) => Describes(h, doc)
  BY <1>1, FinishKeeps
<1>3. /\ txn = None /\ UNCHANGED <<name, save_vars, txn, fits>>
      /\ \/ /\ h.redo # <<>> /\ doc' = Last(h.redo).patch.after
            /\ history' = RedoEntry(h)
         \/ history' = h /\ doc' = doc
  BY DEF Redo
<1> HIDE DEF h
<1>4. CASE h.redo # <<>> /\ doc' = Last(h.redo).patch.after /\ history' = RedoEntry(h)
  <2>1. Last(h.redo) \in Entries
    BY <1>2, <1>4, FrontAndLast DEF Histories
  <2>2. doc' \in Documents
    BY <1>4, <2>1 DEF Entries, Patches
  <2>3. /\ history' \in Histories /\ Numbered(history')
        /\ Describes(h, doc) => Describes(history', doc')
    BY <1>2, <1>4, RedoKeeps
  <2>4. QED
    BY <1>1, <1>2, <1>3, <2>2, <2>3, ChangedKeeps
<1>5. CASE history' = h /\ doc' = doc
  BY <1>1, <1>2, <1>3, <1>5, ChangedKeeps
<1>6. QED
  BY <1>3, <1>4, <1>5

\* What the other steps have to establish that leave no transaction open.
LEMMA OutsideKeeps ==
    ASSUME TypeOK', Numbered(history'), fits' => Describes(history', doc'), txn' = None
    PROVE  HistoryInv'
BY DEF HistoryInv

LEMMA TransactionBeginStep ==
    ASSUME HistoryInv, TransactionBegin
    PROVE  HistoryInv'
<1>1. /\ txn' = [checkpoint |-> history, doc |-> doc] /\ history' = history /\ doc' = doc
      /\ fits' = fits /\ UNCHANGED <<name, save_vars>>
  BY DEF TransactionBegin
<1>2. /\ doc \in Documents /\ history \in Histories /\ Numbered(history)
      /\ fits => Describes(history, doc)
  BY InvariantSays
<1>3. txn' \in [checkpoint : Histories, doc : Documents] \cup {None}
  BY <1>1, <1>2
<1>4. TypeOK'
  BY <1>1, <1>3 DEF HistoryInv, TypeOK, save_vars
<1>5. Inside(history, doc, history, doc)
  <2>1. history.next \in Nat /\ \A i \in DOMAIN history.undo : history.undo[i].revision # history.current
    BY <1>2, UndoProperties
  <2>2. QED
    BY <2>1 DEF Inside
<1>6. txn'.checkpoint = history /\ txn'.doc = doc
  BY <1>1
<1>7. QED
  BY <1>1, <1>2, <1>4, <1>5, <1>6 DEF HistoryInv

\* The end of a gesture inside a transaction leaves nothing to redo once it has
\* left something to undo.
LEMMA NothingToRedo ==
    ASSUME HistoryInv, txn # None,
           Len(FinishGesture(history).undo) > Len(txn.checkpoint.undo)
    PROVE  FinishGesture(history).redo = <<>>
<1> DEFINE h == FinishGesture(history)
           c == txn.checkpoint
<1>1. /\ history \in Histories /\ Numbered(history) /\ c \in Histories
      /\ history.undo = c.undo \/ history.redo = <<>>
  BY InvariantSays DEF Inside
<1>2. /\ history.pending = None => h.undo = history.undo /\ h.redo = history.redo
      /\ history.pending # None => h.redo = <<>>
  BY <1>1, FinishKeeps
<1> HIDE DEF h
<1>3. ~(h.undo = c.undo)
  <2>1. Len(c.undo) \in Nat
    BY <1>1 DEF Histories
  <2>2. Len(h.undo) > Len(c.undo)
    BY DEF h
  <2>3. QED
    BY <2>1, <2>2
<1>4. h.redo = <<>>
  BY <1>1, <1>2, <1>3
<1>5. QED
  BY <1>4 DEF h

LEMMA TransactionSucceedsStep ==
    ASSUME HistoryInv, TransactionSucceeds
    PROVE  HistoryInv'
<1> DEFINE h == FinishGesture(history)
           count == Len(h.undo) - Len(txn.checkpoint.undo)
<1>1. /\ txn # None /\ txn' = None /\ doc' = doc /\ UNCHANGED <<name, save_vars, fits>>
      /\ history' = IF count < 2 THEN h ELSE SquashRecent(h, count)
  BY DEF TransactionSucceeds, TargetLength
<1>2. /\ doc \in Documents /\ history \in Histories /\ Numbered(history)
      /\ fits => Describes(history, doc)
      /\ txn.checkpoint \in Histories
  BY <1>1, InvariantSays
<1>3. /\ h \in Histories /\ Numbered(h) /\ h.pending = None
      /\ Describes(history, doc) => Describes(h, doc)
  BY <1>2, FinishKeeps
<1>4. Len(h.undo) \in Nat /\ Len(txn.checkpoint.undo) \in Nat
  <2>1. \A x \in Histories : Len(x.undo) \in Nat
    BY DEF Histories
  <2>2. QED
    BY <1>2, <1>3, <2>1
<1>5. /\ history' \in Histories /\ Numbered(history')
      /\ Describes(h, doc) => Describes(history', doc)
  <2>1. CASE count < 2
    BY <1>1, <1>3, <2>1
  <2>2. CASE ~(count < 2)
    <3>1. count \in 2 .. Len(h.undo) /\ Len(h.undo) > Len(txn.checkpoint.undo)
      <4> HIDE DEF h
      <4>1. \A m, n \in Nat : ~(m - n < 2) => m - n \in 2 .. m /\ m > n
        OBVIOUS
      <4>2. QED
        BY <1>4, <2>2, <4>1
    <3>2. h.redo = <<>>
      BY <1>1, <3>1, NothingToRedo
    <3> HIDE DEF h, count
    <3>3. QED
      BY <1>1, <1>3, <2>2, <3>1, <3>2, SquashKeeps
  <2>3. QED
    BY <2>1, <2>2
<1>6. TypeOK'
  BY <1>1, <1>5 DEF HistoryInv, TypeOK, save_vars
<1>7. QED
  BY <1>1, <1>2, <1>3, <1>5, <1>6, OutsideKeeps

LEMMA TransactionFailsStep ==
    ASSUME HistoryInv, TransactionFails
    PROVE  HistoryInv'
<1> DEFINE h == FinishGesture(history)
           c == txn.checkpoint
           target == Len(c.undo)
           UndoneTo(n) == IF n < Len(h.undo) THEN h.undo[n + 1].patch.before ELSE doc
           Stopped(n) == [h EXCEPT
               !.undo = SubSeq(h.undo, 1, n),
               !.redo = h.redo \o Reverse(SubSeq(h.undo, n + 1, Len(h.undo))),
               !.current = h.undo[n].after]
<1>1. /\ txn # None /\ txn' = None /\ UNCHANGED <<name, save_vars>>
      /\ \/ doc' = UndoneTo(target) /\ history' = c /\ fits' = (fits /\ doc' = txn.doc)
         \/ \E n \in (target + 1) .. Len(h.undo) :
               doc' = UndoneTo(n) /\ history' = Stopped(n) /\ fits' = fits
  <2>1. h \in Histories
    BY FinishKeeps, InvariantSays
  <2>2. \A n : [h EXCEPT !.undo = SubSeq(@, 1, n),
                         !.redo = @ \o Reverse(SubSeq(h.undo, n + 1, Len(h.undo))),
                         !.current = h.undo[n].after] = Stopped(n)
    BY <2>1 DEF Histories
  <2>3. QED
    BY <2>2 DEF TransactionFails, TargetLength
<1>2. /\ doc \in Documents /\ history \in Histories /\ Numbered(history)
      /\ fits => Describes(history, doc)
      /\ c \in Histories /\ Numbered(c)
      /\ fits => Describes(c, txn.doc)
  BY <1>1 DEF HistoryInv, TypeOK
<1>3. /\ h \in Histories /\ Numbered(h) /\ h.pending = None
      /\ Describes(history, doc) => Describes(h, doc)
  BY <1>2, FinishKeeps
<1> HIDE DEF h, c
<1>4. h.undo \in Seq(Entries) /\ Len(h.undo) \in Nat /\ target \in Nat
  <2>1. \A x \in Histories : x.undo \in Seq(Entries) /\ Len(x.undo) \in Nat
    BY DEF Histories
  <2>2. QED
    BY <1>2, <1>3, <2>1
<1>5. \A n \in Nat : UndoneTo(n) \in Documents
  <2>1. TAKE n \in Nat
  <2>2. CASE n < Len(h.undo)
    <3>1. h.undo[n + 1] \in Entries
      BY <1>4, <2>2
    <3>2. QED
      BY <2>2, <3>1 DEF Entries, Patches
  <2>3. QED
    BY <1>2, <2>2
<1>6. CASE doc' = UndoneTo(target) /\ history' = c /\ fits' = (fits /\ doc' = txn.doc)
  <2>1. fits \in BOOLEAN
    BY DEF HistoryInv, TypeOK
  <2>2. TypeOK'
    BY <1>1, <1>2, <1>4, <1>5, <1>6, <2>1 DEF HistoryInv, TypeOK, save_vars
  <2>3. QED
    BY <1>1, <1>2, <1>6, <2>2, OutsideKeeps
<1>7. ASSUME NEW n \in (target + 1) .. Len(h.undo),
             doc' = UndoneTo(n), history' = Stopped(n), fits' = fits
      PROVE  HistoryInv'
  <2>1. n \in 1 .. Len(h.undo) /\ n \in Nat
    BY <1>4
  <2>2. /\ history' \in Histories /\ Numbered(history')
        /\ Describes(h, doc) => Describes(history', doc')
    BY <1>3, <1>7, <2>1, RollbackKeeps
  <2>3. TypeOK'
    BY <1>1, <1>5, <1>7, <2>1, <2>2 DEF HistoryInv, TypeOK, save_vars
  <2>4. QED
    BY <1>1, <1>2, <1>3, <1>7, <2>2, <2>3, OutsideKeeps
<1>8. QED
  BY <1>1, <1>6, <1>7 DEF h, c

\* What the steps have to establish that touch neither document nor stacks.
LEMMA SavedKeeps ==
    ASSUME HistoryInv, TypeOK', UNCHANGED <<doc, txn, fits>>,
           \/ history' = history
           \/ \E revision : history' = [history EXCEPT !.saved = revision] /\ txn = None
    PROVE  HistoryInv'
<1>1. CASE history' = history
  BY <1>1 DEF HistoryInv
<1>2. ASSUME NEW revision, history' = [history EXCEPT !.saved = revision], txn = None
      PROVE  HistoryInv'
  <2>1. /\ history \in Histories /\ Numbered(history) /\ (fits => Describes(history, doc))
    BY InvariantSays
  <2>2. /\ history'.undo = history.undo /\ history'.redo = history.redo
        /\ history'.current = history.current /\ history'.next = history.next
        /\ history'.pending = history.pending
    BY <1>2, <2>1 DEF Histories
  <2>3. Numbered(history')
    BY <2>1, <2>2, NumberedAlike
  <2>4. fits' => Describes(history', doc')
    BY <2>1, <2>2 DEF Describes, SettledAt
  <2>5. QED
    BY <1>2, <2>3, <2>4, OutsideKeeps
<1>3. QED
  BY <1>1, <1>2

LEMMA BeginSaveStep ==
    ASSUME HistoryInv, NEW f \in Files \cup {None}, BeginSave(f)
    PROVE  HistoryInv'
<1> DEFINE job == [name |-> SaveName(f), mark |-> Mark(history'), content |-> doc]
<1>1. /\ txn = None /\ history' = FinishGesture(history) /\ job.name # None
      /\ queue' = Append(queue, job)
      /\ saves' = [inFlight |-> saves.inFlight + 1, started |-> saves.started + 1,
                   pending |-> [name |-> job.name, mark |-> job.mark]]
      /\ UNCHANGED <<doc, name, disk, outcomes, txn, fits>>
  BY DEF BeginSave, StartSave
<1>2. /\ doc \in Documents /\ history \in Histories /\ Numbered(history)
      /\ fits => Describes(history, doc)
  BY InvariantSays
<1>3. /\ history' \in Histories /\ Numbered(history')
      /\ Describes(history, doc) => Describes(history', doc)
  BY <1>1, <1>2, FinishKeeps
<1>4. /\ name \in Files \cup {None} /\ queue \in Seq([name : Files, mark : Marks, content : Documents])
      /\ saves \in [inFlight : Nat, started : Nat,
                    pending : [name : Files, mark : Marks] \cup {None}]
  BY DEF HistoryInv, TypeOK
<1>5. SaveName(f) \in Files \cup {None}
  BY <1>4 DEF SaveName
<1>6. job \in [name : Files, mark : Marks, content : Documents]
  <2>1. SaveName(f) \in Files
    BY <1>1, <1>5
  <2>2. Mark(history') \in Marks
    BY <1>3 DEF Mark, Marks, Histories
  <2>3. QED
    BY <1>2, <2>1, <2>2
<1>7. queue' \in Seq([name : Files, mark : Marks, content : Documents])
  <2> HIDE DEF job
  <2>1. QED
    BY <1>1, <1>4, <1>6
<1>8. saves' \in [inFlight : Nat, started : Nat,
                  pending : [name : Files, mark : Marks] \cup {None}]
  <2> HIDE DEF job
  <2>1. saves.inFlight + 1 \in Nat /\ saves.started + 1 \in Nat
    BY <1>4
  <2>2. [name |-> job.name, mark |-> job.mark] \in [name : Files, mark : Marks]
    BY <1>6
  <2>3. QED
    BY <1>1, <2>1, <2>2
<1>9. TypeOK'
  BY <1>1, <1>3, <1>7, <1>8 DEF HistoryInv, TypeOK
<1>10. QED
  BY <1>1, <1>2, <1>3, <1>9, OutsideKeeps

LEMMA WriteFileStep ==
    ASSUME HistoryInv, WriteFile
    PROVE  HistoryInv'
<1> DEFINE Jobs == [name : Files, mark : Marks, content : Documents]
           Outcomes == [name : Files, mark : Marks, ok : BOOLEAN]
           job == Head(queue)
<1>1. /\ queue # <<>> /\ queue' = Tail(queue)
      /\ \E ok \in BOOLEAN :
            /\ disk' = IF ok THEN [disk EXCEPT ![job.name] = job.content] ELSE disk
            /\ outcomes' = Append(outcomes, [name |-> job.name, mark |-> job.mark, ok |-> ok])
      /\ UNCHANGED <<doc, history, name, saves, txn, fits>>
  BY DEF WriteFile
<1>2. queue \in Seq(Jobs) /\ outcomes \in Seq(Outcomes) /\ disk \in [Files -> Documents \cup {None}]
  BY DEF HistoryInv, TypeOK
<1>3. job \in Jobs /\ queue' \in Seq(Jobs)
  <2> HIDE DEF Jobs
  <2>1. QED
    BY <1>1, <1>2
<1>4. PICK ok \in BOOLEAN :
         /\ disk' = IF ok THEN [disk EXCEPT ![job.name] = job.content] ELSE disk
         /\ outcomes' = Append(outcomes, [name |-> job.name, mark |-> job.mark, ok |-> ok])
  BY <1>1
<1> HIDE DEF job
<1>5. disk' \in [Files -> Documents \cup {None}]
  BY <1>2, <1>3, <1>4
<1>6. outcomes' \in Seq(Outcomes)
  <2> DEFINE o == [name |-> job.name, mark |-> job.mark, ok |-> ok]
  <2>1. o \in Outcomes
    BY <1>3
  <2> HIDE DEF o, Outcomes
  <2>2. outcomes' = Append(outcomes, o)
    BY <1>4 DEF o
  <2>3. QED
    BY <1>2, <2>1, <2>2
<1>7. TypeOK'
  BY <1>1, <1>3, <1>5, <1>6 DEF HistoryInv, TypeOK
<1>8. QED
  BY <1>1, <1>7, SavedKeeps

LEMMA ApplyOutcomesStep ==
    ASSUME HistoryInv, ApplyOutcomes
    PROVE  HistoryInv'
<1> DEFINE Outcomes == [name : Files, mark : Marks, ok : BOOLEAN]
           left == IF saves.inFlight > Len(outcomes) THEN saves.inFlight - Len(outcomes) ELSE 0
<1>1. /\ txn = None /\ outcomes' = <<>>
      /\ \/ history' = history /\ name' = name
         \/ \E i \in DOMAIN outcomes :
               /\ history' = [history EXCEPT !.saved = outcomes[i].mark.revision]
               /\ name' = outcomes[i].name
      /\ saves' = [saves EXCEPT !.inFlight = left, !.pending = IF left = 0 THEN None ELSE @]
      /\ UNCHANGED <<doc, disk, queue, txn, fits>>
  BY DEF ApplyOutcomes
<1>2. /\ history \in Histories /\ outcomes \in Seq(Outcomes) /\ name \in Files \cup {None}
      /\ saves \in [inFlight : Nat, started : Nat,
                    pending : [name : Files, mark : Marks] \cup {None}]
  BY DEF HistoryInv, TypeOK
<1>3. Len(outcomes) \in Nat
  BY <1>2
<1>4. left \in Nat
  BY <1>2, <1>3
<1>5. saves' \in [inFlight : Nat, started : Nat,
                  pending : [name : Files, mark : Marks] \cup {None}]
  <2> HIDE DEF left
  <2>1. QED
    BY <1>1, <1>2, <1>4
<1>6. history' \in Histories /\ name' \in Files \cup {None}
  <2>1. CASE history' = history /\ name' = name
    BY <1>2, <2>1
  <2>2. ASSUME NEW i \in DOMAIN outcomes,
               history' = [history EXCEPT !.saved = outcomes[i].mark.revision],
               name' = outcomes[i].name
        PROVE  history' \in Histories /\ name' \in Files \cup {None}
    <3>1. outcomes[i] \in Outcomes
      <4> HIDE DEF Outcomes
      <4>1. QED
        BY <1>2
    <3>2. outcomes[i].mark.revision \in Nat /\ outcomes[i].name \in Files
      BY <3>1 DEF Marks
    <3>3. QED
      BY <1>2, <2>2, <3>2 DEF Histories
  <2>3. QED
    BY <1>1, <2>1, <2>2
<1>7. outcomes' \in Seq(Outcomes)
  <2> HIDE DEF Outcomes
  <2>1. QED
    BY <1>1
<1>8. TypeOK'
  BY <1>1, <1>5, <1>6, <1>7 DEF HistoryInv, TypeOK
<1>9. \/ history' = history
      \/ \E revision : history' = [history EXCEPT !.saved = revision] /\ txn = None
  BY <1>1
<1>10. QED
  BY <1>1, <1>8, <1>9, SavedKeeps

\* A new history is numbered and describes the project it comes with.
LEMMA NewKeeps ==
    ASSUME NEW generation \in Nat, NEW saved \in Nat \cup {None}
    PROVE  LET g == [NewHistory(generation) EXCEPT !.saved = saved] IN
           g \in Histories /\ Numbered(g) /\ \A d : Describes(g, d)
<1> DEFINE g == [NewHistory(generation) EXCEPT !.saved = saved]
<1>1. <<>> \in Seq(Entries)
  OBVIOUS
<1>2. /\ g \in Histories /\ g.undo = <<>> /\ g.redo = <<>> /\ g.current < g.next
      /\ g.pending = None
  <2>1. g = [undo |-> <<>>, redo |-> <<>>, current |-> 0, next |-> 1, saved |-> saved,
             generation |-> generation, gesture |-> None, pending |-> None]
    BY DEF NewHistory
  <2>2. 0 \in Nat /\ 1 \in Nat \ {0} /\ 0 < 1
    OBVIOUS
  <2> HIDE DEF g
  <2>3. g \in Histories
    BY <1>1, <2>1, <2>2 DEF Histories
  <2>4. QED
    BY <2>1, <2>2, <2>3
<1> HIDE DEF g
<1>3. QED
  BY <1>2, EmptyKeeps DEF g

LEMMA BlankProperties == Blank \in Documents
BY ValuesAssumption DEF Blank, Documents

LEMMA ProjectStep ==
    ASSUME HistoryInv, NewProject \/ \E f \in Files : OpenProject(f)
    PROVE  HistoryInv'
<1>1. history.generation + 1 \in Nat /\ disk \in [Files -> Documents \cup {None}]
  BY DEF HistoryInv, TypeOK, Histories
<1>2. CASE NewProject
  <2>1. /\ doc' = Blank /\ name' = None /\ txn' = None /\ fits' = TRUE
        /\ history' = NewHistory(history.generation + 1) /\ UNCHANGED save_vars
    BY <1>2 DEF NewProject
  <2>2. history' = [NewHistory(history.generation + 1) EXCEPT !.saved = None]
    BY <2>1 DEF NewHistory
  <2>3. history' \in Histories /\ Numbered(history') /\ Describes(history', doc')
    BY <1>1, <2>2, NewKeeps
  <2>4. TypeOK'
    BY <2>1, <2>3, BlankProperties DEF HistoryInv, TypeOK, save_vars
  <2>5. QED
    BY <2>1, <2>3, <2>4, OutsideKeeps
<1>3. ASSUME NEW f \in Files, OpenProject(f) PROVE HistoryInv'
  <2>1. /\ doc' = disk[f] /\ disk[f] # None /\ name' = f /\ txn' = None /\ fits' = TRUE
        /\ history' = [NewHistory(history.generation + 1) EXCEPT !.saved = 0]
        /\ UNCHANGED save_vars
    BY <1>3 DEF OpenProject
  <2>2. history' \in Histories /\ Numbered(history') /\ Describes(history', doc')
    BY <1>1, <2>1, NewKeeps
  <2>3. doc' \in Documents
    BY <1>1, <2>1
  <2>4. TypeOK'
    BY <2>1, <2>2, <2>3 DEF HistoryInv, TypeOK, save_vars
  <2>5. QED
    BY <2>1, <2>2, <2>4, OutsideKeeps
<1>4. QED
  BY <1>2, <1>3

LEMMA HistoryInitially == Init => HistoryInv
<1> SUFFICES ASSUME Init PROVE HistoryInv
  OBVIOUS
<1>1. history = [NewHistory(0) EXCEPT !.saved = None]
  BY DEF Init, NewHistory
<1>2. history \in Histories /\ Numbered(history) /\ Describes(history, doc)
  BY <1>1, NewKeeps
<1>3. \A S : <<>> \in Seq(S)
  OBVIOUS
<1>4. TypeOK
  BY <1>2, <1>3, BlankProperties DEF Init, TypeOK
<1>5. QED
  BY <1>2, <1>4 DEF Init, HistoryInv

LEMMA HistoryStep == HistoryInv /\ [Next]_vars => HistoryInv'
<1> SUFFICES ASSUME HistoryInv, [Next]_vars PROVE HistoryInv'
  OBVIOUS
<1>1. ASSUME NEW p \in Params, NEW v \in Values, Change(p, v) PROVE HistoryInv'
  BY <1>1, EditStep, DragStep, EditBesideStep, BarrierEditStep DEF Change
<1>2. CASE FinishActiveGesture \/ CancelActiveGesture
  BY <1>2, GestureEndsStep
<1>3. CASE Undo \/ Redo
  BY <1>3, UndoStep, RedoStep
<1>4. CASE TransactionBegin \/ TransactionSucceeds \/ TransactionFails
  BY <1>4, TransactionBeginStep, TransactionSucceedsStep, TransactionFailsStep
<1>5. CASE (\E f \in Files \cup {None} : BeginSave(f)) \/ WriteFile \/ ApplyOutcomes
  BY <1>5, BeginSaveStep, WriteFileStep, ApplyOutcomesStep
<1>6. CASE NewProject \/ \E f \in Files : OpenProject(f)
  BY <1>6, ProjectStep
<1>7. CASE UNCHANGED vars
  BY <1>7 DEF HistoryInv, TypeOK, vars, save_vars
<1>8. QED
  BY <1>1, <1>2, <1>3, <1>4, <1>5, <1>6, <1>7 DEF Next

-----------------------------------------------------------------------------
(* The theorems                                                            *)

LEMMA HistoryInvariance == Spec => []HistoryInv
<1>1. QED
  BY HistoryInitially, HistoryStep, PTL DEF Spec

\* Every variable keeps its type.
THEOREM TypeCorrect == Spec => []TypeOK
<1>1. HistoryInv => TypeOK
  BY DEF HistoryInv
<1>2. QED
  BY <1>1, HistoryInvariance, PTL

\* The entries of both stacks meet, in one revision and in one document.
LEMMA EntriesMeet ==
    ASSUME NEW h \in Histories, Numbered(h), Walks(Trail(h.undo, h.redo))
    PROVE  /\ \A i \in 1 .. (Len(h.undo) - 1) : Meet(h.undo[i], h.undo[i + 1])
           /\ \A i \in 1 .. (Len(h.redo) - 1) : Meet(h.redo[i + 1], h.redo[i])
<1> DEFINE u == h.undo
           r == h.redo
           n == Len(u)
           m == Len(r)
           t == Trail(u, r)
<1>1. /\ u \in Seq(Entries) /\ r \in Seq(Entries) /\ n \in Nat /\ m \in Nat
      /\ Ordered(u) /\ Walks(u) /\ Ordered(t)
  <2>1. u \in Seq(Entries) /\ r \in Seq(Entries) /\ Ordered(u) /\ Walks(u)
    BY UndoProperties
  <2>2. Ordered(t)
    BY DEF Numbered
  <2>3. QED
    BY <2>1, <2>2
<1>2. \A i \in 1 .. n - 1 : Meet(u[i], u[i + 1])
  BY <1>1 DEF Ordered, Walks, Meet
<1>3. /\ Len(t) = n + m
      /\ \A i \in 1 .. n + m : t[i] = IF i <= n THEN u[i] ELSE r[m + 1 - (i - n)]
  BY <1>1, TrailProperties DEF Trail
<1> HIDE DEF u, r, n, m, t
<1>4. ASSUME NEW i \in 1 .. m - 1 PROVE Meet(r[i + 1], r[i])
  <2> DEFINE k == n + m - i
             next == k + 1
  <2>1. k \in 1 .. n + m /\ ~(k <= n) /\ m + 1 - (k - n) = i + 1
    BY <1>1
  <2>2. next \in 1 .. n + m /\ ~(next <= n) /\ m + 1 - (next - n) = i
    BY <1>1
  <2>3. k \in 1 .. Len(t) - 1 /\ next = k + 1
    BY <1>1, <1>3
  <2> HIDE DEF k, next
  <2>4. \A x \in 1 .. n + m : ~(x <= n) => t[x] = r[m + 1 - (x - n)]
    BY <1>3
  <2>5. t[k] = r[i + 1]
    BY <2>1, <2>4
  <2>6. t[next] = r[i]
    BY <2>2, <2>4
  <2>7. t[k].after = t[next].revision /\ t[k].patch.after = t[next].patch.before
    <3>1. Ordered(t) /\ Walks(t)
      BY <1>1 DEF t, u, r
    <3>2. t[k].after = t[k + 1].revision /\ t[k].patch.after = t[k + 1].patch.before
      BY <2>3, <3>1 DEF Ordered, Walks
    <3>3. QED
      BY <2>3, <3>2
  <2>8. QED
    BY <2>5, <2>6, <2>7 DEF Meet
<1>5. QED
  BY <1>2, <1>4 DEF u, r, n, m

\* Both stacks are one walk through documents, and the live document is where
\* they meet, whatever drags, edits beside them, splits, squashes, evictions and
\* rollbacks came between.
THEOREM DescribesTheDocument == Spec => []HistoryDescribesDocument
<1>1. ASSUME HistoryInv PROVE HistoryDescribesDocument
  <2>1. SUFFICES ASSUME fits PROVE HistoryDescribesDocument
    BY DEF HistoryDescribesDocument
  <2>2. /\ history \in Histories /\ Numbered(history) /\ Describes(history, doc)
    BY <1>1, <2>1, InvariantSays
  <2>3. /\ \A i \in 1 .. (Len(history.undo) - 1) : Meet(history.undo[i], history.undo[i + 1])
        /\ \A i \in 1 .. (Len(history.redo) - 1) : Meet(history.redo[i + 1], history.redo[i])
    BY <2>2, EntriesMeet DEF Describes
  <2>4. /\ Last(history.undo) = history.undo[Len(history.undo)]
        /\ Last(history.redo) = history.redo[Len(history.redo)]
    BY DEF Last
  <2>5. Settled = SettledAt(history, doc)
    BY DEF Settled, SettledAt
  <2>6. QED
    BY <2>2, <2>3, <2>4, <2>5 DEF HistoryDescribesDocument, Numbered, Describes
<1>2. QED
  BY <1>1, HistoryInvariance, PTL

\* What a transaction whose entries can still be reached has to go back to.
LEMMA UndisturbedSays ==
    ASSUME HistoryInv, Undisturbed
    PROVE  LET h == FinishGesture(history)
               c == txn.checkpoint
               n == Len(c.undo)
           IN
           /\ h \in Histories /\ Numbered(h) /\ h.pending = None /\ c \in Histories
           /\ n \in Nat /\ Len(h.undo) \in Nat /\ n <= Len(h.undo)
           /\ n = Len(h.undo) => h.undo = c.undo /\ doc = txn.doc
           /\ n < Len(h.undo) =>
                 /\ h.redo = <<>> /\ SubSeq(h.undo, 1, n) = c.undo
                 /\ h.undo[n + 1].patch.before = txn.doc
                 /\ h.undo[Len(h.undo)].patch.after = doc
<1> DEFINE h == FinishGesture(history)
           c == txn.checkpoint
           n == Len(c.undo)
<1>1. /\ txn # None /\ c.pending = None /\ IsPrefix(c.undo, h.undo)
      /\ c.current = IF n = Len(h.undo) THEN h.current ELSE h.undo[n + 1].revision
  BY DEF Undisturbed, Reachable
<1>2. /\ doc \in Documents /\ history \in Histories /\ Numbered(history)
      /\ c \in Histories /\ Inside(history, doc, c, txn.doc)
  BY <1>1, InvariantSays
<1>3. history.pending = None
  BY <1>1, <1>2 DEF Inside
<1>4. /\ h \in Histories /\ Numbered(h) /\ h.pending = None
      /\ h.undo = history.undo /\ h.redo = history.redo /\ h.current = history.current
  BY <1>2, <1>3, FinishKeeps
<1> HIDE DEF h, c
<1>5. /\ h.current = c.current => doc = txn.doc
      /\ h.current # c.current =>
            /\ h.redo = <<>>
            /\ h.undo # <<>> => h.undo[Len(h.undo)].patch.after = doc
      /\ \A i \in DOMAIN h.undo :
            h.undo[i].revision = c.current => h.undo[i].patch.before = txn.doc
  BY <1>1, <1>2, <1>4 DEF Inside
<1>6. /\ c.undo \in Seq(Entries) /\ h.undo \in Seq(Entries) /\ n \in Nat /\ Len(h.undo) \in Nat
  BY <1>2, <1>4 DEF Histories
<1>7. n <= Len(h.undo) /\ SubSeq(c.undo, 1, n) = SubSeq(h.undo, 1, n)
  BY <1>1, <1>6 DEF IsPrefix
<1>8. SubSeq(c.undo, 1, n) = c.undo
  BY <1>6
<1>9. n = Len(h.undo) => h.undo = c.undo /\ doc = txn.doc
  <2>1. SubSeq(h.undo, 1, Len(h.undo)) = h.undo
    BY <1>6
  <2>2. QED
    BY <1>1, <1>5, <1>7, <1>8, <2>1
<1>10. ASSUME n < Len(h.undo)
       PROVE  /\ h.redo = <<>> /\ SubSeq(h.undo, 1, n) = c.undo
              /\ h.undo[n + 1].patch.before = txn.doc
              /\ h.undo[Len(h.undo)].patch.after = doc
  <2>1. n + 1 \in DOMAIN h.undo /\ h.undo # <<>>
    BY <1>6, <1>10
  <2>2. c.current = h.undo[n + 1].revision
    BY <1>1, <1>10, <1>6
  <2>3. h.current # c.current
    BY <1>4, <2>1, <2>2, UndoProperties
  <2>4. QED
    BY <1>5, <1>7, <1>8, <2>1, <2>2, <2>3
<1>11. QED
  BY <1>2, <1>4, <1>6, <1>7, <1>9, <1>10 DEF h, c

\* A rollback that restores the history restores the document.
LEMMA RollbackIsWhole ==
    ASSUME HistoryInv, RolledBack, Undisturbed
    PROVE  doc' = txn.doc
<1> DEFINE h == FinishGesture(history)
           c == txn.checkpoint
           target == Len(c.undo)
           UndoneTo(n) == IF n < Len(h.undo) THEN h.undo[n + 1].patch.before ELSE doc
<1>1. /\ h \in Histories /\ c \in Histories /\ target \in Nat /\ Len(h.undo) \in Nat
      /\ target <= Len(h.undo)
      /\ target = Len(h.undo) => doc = txn.doc
      /\ target < Len(h.undo) => h.undo[target + 1].patch.before = txn.doc
  BY UndisturbedSays
<1>2. history' = c
  BY DEF RolledBack
<1>3. \/ doc' = UndoneTo(target)
      \/ \E n \in (target + 1) .. Len(h.undo) :
            history' = [h EXCEPT
                !.undo = SubSeq(@, 1, n),
                !.redo = @ \o Reverse(SubSeq(h.undo, n + 1, Len(h.undo))),
                !.current = h.undo[n].after]
  BY DEF RolledBack, TransactionFails, TargetLength
<1> HIDE DEF h, c
<1>4. ASSUME NEW n \in (target + 1) .. Len(h.undo),
             history' = [h EXCEPT
                 !.undo = SubSeq(@, 1, n),
                 !.redo = @ \o Reverse(SubSeq(h.undo, n + 1, Len(h.undo))),
                 !.current = h.undo[n].after]
      PROVE  FALSE
  <2>1. c.undo = SubSeq(h.undo, 1, n) /\ h.undo \in Seq(Entries)
    BY <1>1, <1>2, <1>4 DEF Histories
  <2>2. n \in Nat /\ n <= Len(h.undo) /\ n # target /\ 1 <= n
    BY <1>1, <1>4
  <2>3. Len(SubSeq(h.undo, 1, n)) = n
    BY <2>1, <2>2
  <2>4. QED
    BY <2>1, <2>2, <2>3
<1>5. doc' = UndoneTo(target)
  BY <1>3, <1>4
<1>6. UndoneTo(target) = txn.doc
  BY <1>1
<1>7. QED
  BY <1>5, <1>6

\* A transaction that succeeds leaves nothing or one entry on the undo stack.
LEMMA SuccessIsOneEntry ==
    ASSUME HistoryInv, TransactionSucceeds, Undisturbed
    PROVE  SquashedIntoOne
<1> DEFINE h == FinishGesture(history)
           c == txn.checkpoint
           n == Len(c.undo)
           l == Len(h.undo)
<1>1. /\ h \in Histories /\ Numbered(h) /\ h.pending = None /\ c \in Histories
      /\ n \in Nat /\ l \in Nat /\ n <= l
      /\ n = l => h.undo = c.undo /\ doc = txn.doc
      /\ n < l => /\ h.redo = <<>> /\ SubSeq(h.undo, 1, n) = c.undo
                  /\ h.undo[n + 1].patch.before = txn.doc
                  /\ h.undo[l].patch.after = doc
  BY UndisturbedSays
<1>2. history' = IF l - n < 2 THEN h ELSE SquashRecent(h, l - n)
  BY DEF TransactionSucceeds, TargetLength
<1>3. h.undo \in Seq(Entries)
  BY <1>1 DEF Histories
<1> HIDE DEF h, c, n, l
<1>4. CASE l = n
  BY <1>1, <1>2, <1>4 DEF SquashedIntoOne, c
<1>5. CASE l = n + 1
  <2>1. history' = h /\ n < l
    BY <1>1, <1>2, <1>5
  <2>2. Last(h.undo) = h.undo[l] /\ h.undo[l] \in Entries
    <3>1. l \in 1 .. Len(h.undo)
      BY <1>1, <1>5 DEF l
    <3>2. QED
      BY <1>3, <3>1 DEF Last, l
  <2>3. h.undo[l].patch = Patch(h.undo[l].patch.before, h.undo[l].patch.after)
    BY <2>2 DEF Entries, Patches, Patch
  <2>4. Last(history'.undo).patch = Patch(txn.doc, doc)
    BY <1>1, <1>5, <2>1, <2>2, <2>3
  <2>5. Len(history'.undo) = Len(c.undo) + 1
    BY <1>5, <2>1 DEF l, n
  <2>6. QED
    BY <2>4, <2>5 DEF SquashedIntoOne, c
<1>6. CASE l > n + 1
  <2> DEFINE k == l - (l - n)
             e == [revision |-> h.undo[k + 1].revision, after |-> Last(h.undo).after,
                   patch |-> Patch(h.undo[k + 1].patch.before, Last(h.undo).patch.after)]
  <2>1. l - n \in 2 .. l /\ ~(l - n < 2) /\ k = n /\ n < l
    BY <1>1, <1>6
  <2>2. /\ history' = SquashRecent(h, l - n) /\ history' \in Histories
        /\ history'.undo = Append(SubSeq(h.undo, 1, k), e)
    BY <1>1, <1>2, <2>1, SquashKeeps DEF l
  <2>3. Last(h.undo) = h.undo[l]
    BY DEF Last, l
  <2>4. e.patch = Patch(txn.doc, doc)
    BY <1>1, <2>1, <2>3
  <2>5. SubSeq(h.undo, 1, k) = c.undo
    BY <1>1, <2>1
  <2> HIDE DEF e
  <2>6. /\ Append(c.undo, e)[Len(c.undo) + 1] = e
        /\ Len(Append(c.undo, e)) = Len(c.undo) + 1
    <3>1. c.undo \in Seq(Entries)
      BY <1>1 DEF Histories
    <3>2. QED
      BY <3>1
  <2>7. Len(history'.undo) = Len(c.undo) + 1 /\ Last(history'.undo).patch = Patch(txn.doc, doc)
    BY <2>2, <2>4, <2>5, <2>6 DEF Last
  <2>8. QED
    BY <2>7 DEF SquashedIntoOne, c
<1>7. QED
  BY <1>1, <1>4, <1>5, <1>6

\* An authoring transaction whose entries were neither evicted nor cleared is
\* all or nothing: it fails into the document it began with, or it is undone by
\* one undo.  A checkpoint with a drag still open is outside it: see History.
THEOREM Atomicity == Spec => TransactionIsAtomic
<1>1. HistoryInv /\ [Next]_vars => [RolledBack /\ Undisturbed => doc' = txn.doc]_vars
  BY RollbackIsWhole
<1>2. HistoryInv /\ [Next]_vars => [TransactionSucceeds /\ Undisturbed => SquashedIntoOne]_vars
  BY SuccessIsOneEntry
<1>3. QED
  BY <1>1, <1>2, HistoryInvariance, PTL
     DEF Spec, TransactionIsAtomic, RollbackRestores, TransactionIsOneEntry
-----------------------------------------------------------------------------
(* Saved revisions                                                         *)

\* In the history h of the document d, revision x was document y.
Knows(h, d, x, y) ==
    \/ x = h.current /\ y = SettledAt(h, d)
    \/ \E i \in DOMAIN h.undo : \/ x = h.undo[i].revision /\ y = h.undo[i].patch.before
                                \/ x = h.undo[i].after /\ y = h.undo[i].patch.after
    \/ \E i \in DOMAIN h.redo : \/ x = h.redo[i].revision /\ y = h.redo[i].patch.before
                                \/ x = h.redo[i].after /\ y = h.redo[i].patch.after

\* Revision x can be no other document than y.
Means(h, d, x, y) ==
    /\ x < h.next
    /\ \A z \in Documents : Knows(h, d, x, z) => z = y

\* What g knows of revisions that are not new h knew.
Continues(h, d, g, e) ==
    /\ h.next <= g.next
    /\ \A x \in Nat, y \in Documents : Knows(g, e, x, y) => Knows(h, d, x, y) \/ h.next <= x

\* The entries above those of the checkpoint c are of the transaction.
Fresh(h, c) == \A i \in DOMAIN h.undo : i > Len(c.undo) => h.undo[i].after >= c.next

Landed == {i \in DOMAIN outcomes : MarksSaved(outcomes[i])}

\* The document y is saved as revision x, is being saved as it, or is what a new
\* project needs no save for.
SavedAs(x, y) ==
    \/ \E j \in DOMAIN queue :
          /\ queue[j].mark = [generation |-> history.generation, revision |-> x]
          /\ y = queue[j].content
    \/ \E i \in Landed :
          /\ \A j \in Landed : j <= i
          /\ x = outcomes[i].mark.revision /\ y = disk[outcomes[i].name]
    \/ /\ Landed = {}
       /\ \/ history.saved = None /\ x = 0 /\ y = Blank
          \/ history.saved # None /\ x = history.saved /\ y = disk[name]

\* What is saved as a revision is the document of that revision.
MeaningInv ==
    fits => \A x \in Nat : \A y :
        SavedAs(x, y) =>
            /\ Means(history, doc, x, y)
            /\ txn # None => Means(txn.checkpoint, txn.doc, x, y)

\* The newest save is the one under way.
QueueInv ==
    /\ saves.inFlight = Len(queue) + Len(outcomes)
    /\ saves.pending # None =>
          \/ /\ queue # <<>>
             /\ saves.pending = [name |-> queue[Len(queue)].name, mark |-> queue[Len(queue)].mark]
          \/ /\ queue = <<>> /\ outcomes # <<>>
             /\ saves.pending = [name |-> outcomes[Len(outcomes)].name,
                                 mark |-> outcomes[Len(outcomes)].mark]

\* Saves are written in the order of the projects they are of, and what is left
\* of an older project does not replace the file this one is saved in.
GenerationInv ==
    /\ \A j \in DOMAIN queue : queue[j].mark.generation <= history.generation
    /\ \A i \in DOMAIN outcomes : outcomes[i].mark.generation <= history.generation
    /\ \A i \in DOMAIN outcomes, j \in DOMAIN queue :
          outcomes[i].mark.generation <= queue[j].mark.generation
    /\ \A i, j \in DOMAIN queue : i <= j => queue[i].mark.generation <= queue[j].mark.generation
    /\ \A j \in DOMAIN queue :
          history.saved # None /\ queue[j].mark.generation # history.generation
              => queue[j].name # name

\* A transaction saves nothing.
SavesOutside ==
    txn # None => /\ txn.checkpoint.saved = history.saved
                  /\ txn.checkpoint.generation = history.generation
                  /\ Fresh(history, txn.checkpoint)

SaveInv == MeaningInv /\ QueueInv /\ GenerationInv /\ SavesOutside

-----------------------------------------------------------------------------
(* How a history continues                                                 *)

LEMMA ContinuesMeans ==
    ASSUME NEW h \in Histories, NEW g \in Histories, NEW d, NEW e, Continues(h, d, g, e),
           NEW x \in Nat, NEW y, Means(h, d, x, y)
    PROVE  Means(g, e, x, y)
<1>1. h.next \in Nat /\ g.next \in Nat /\ h.next <= g.next /\ x < h.next
  BY DEF Histories, Continues, Means
<1>2. x < g.next /\ ~(h.next <= x)
  BY <1>1
<1>3. \A z \in Documents : Knows(g, e, x, z) => z = y
  BY <1>2 DEF Continues, Means
<1>4. QED
  BY <1>2, <1>3 DEF Means

LEMMA ContinuesOn ==
    ASSUME NEW h \in Histories, NEW f \in Histories, NEW g \in Histories, NEW d, NEW e, NEW now,
           Continues(h, d, f, e), Continues(f, e, g, now)
    PROVE  Continues(h, d, g, now)
<1>1. h.next \in Nat /\ f.next \in Nat /\ g.next \in Nat /\ h.next <= f.next /\ f.next <= g.next
  BY DEF Histories, Continues
<1>2. h.next <= g.next /\ \A x \in Nat : f.next <= x => h.next <= x
  BY <1>1
<1>3. \A x \in Nat, y \in Documents : Knows(g, now, x, y) => Knows(h, d, x, y) \/ h.next <= x
  BY <1>2 DEF Continues
<1>4. QED
  BY <1>2, <1>3 DEF Continues

\* Another document to stand at, that h knows: the stacks stay.
LEMMA StandingContinues ==
    ASSUME NEW h \in Histories, NEW g \in Histories, NEW d, NEW e, h.next <= g.next,
           \A i \in DOMAIN g.undo : \/ \E k \in DOMAIN h.undo : g.undo[i] = h.undo[k]
                                    \/ \E k \in DOMAIN h.redo : g.undo[i] = h.redo[k],
           \A i \in DOMAIN g.redo : \/ \E k \in DOMAIN h.undo : g.redo[i] = h.undo[k]
                                    \/ \E k \in DOMAIN h.redo : g.redo[i] = h.redo[k],
           Knows(h, d, g.current, SettledAt(g, e))
    PROVE  Continues(h, d, g, e)
<1>1. ASSUME NEW x \in Nat, NEW y \in Documents, Knows(g, e, x, y) PROVE Knows(h, d, x, y)
  <2>1. CASE x = g.current /\ y = SettledAt(g, e)
    BY <2>1
  <2>2. CASE \E i \in DOMAIN g.undo : \/ x = g.undo[i].revision /\ y = g.undo[i].patch.before
                                      \/ x = g.undo[i].after /\ y = g.undo[i].patch.after
    BY <2>2 DEF Knows
  <2>3. CASE \E i \in DOMAIN g.redo : \/ x = g.redo[i].revision /\ y = g.redo[i].patch.before
                                      \/ x = g.redo[i].after /\ y = g.redo[i].patch.after
    BY <2>3 DEF Knows
  <2>4. QED
    BY <1>1, <2>1, <2>2, <2>3 DEF Knows
<1>2. QED
  BY <1>1 DEF Continues

LEMMA GrowsContinues ==
    ASSUME NEW h \in Histories, NEW g \in Histories, NEW d, NEW e, Grows(h, d, g)
    PROVE  Continues(h, d, g, e)
<1>1. ASSUME NEW x \in Nat, NEW y \in Documents, Knows(g, e, x, y)
      PROVE  Knows(h, d, x, y) \/ h.next <= x
  <2>1. CASE x = g.current
    BY <2>1 DEF Grows
  <2>2. ASSUME NEW i \in DOMAIN g.undo,
               \/ x = g.undo[i].revision /\ y = g.undo[i].patch.before
               \/ x = g.undo[i].after /\ y = g.undo[i].patch.after
        PROVE  Knows(h, d, x, y) \/ h.next <= x
    <3>1. CASE \E k \in DOMAIN h.undo : g.undo[i] = h.undo[k]
      BY <2>2, <3>1 DEF Knows
    <3>2. CASE /\ h.next <= g.undo[i].after
               /\ \/ h.next <= g.undo[i].revision
                  \/ g.undo[i].revision = h.current /\ g.undo[i].patch.before = SettledAt(h, d)
      BY <2>2, <3>2 DEF Knows
    <3>3. QED
      BY <3>1, <3>2 DEF Grows
  <2>3. g.redo = <<>>
    BY DEF Grows
  <2>4. QED
    BY <1>1, <2>1, <2>2, <2>3 DEF Knows
<1>2. h.next <= g.next
  BY DEF Grows
<1>3. QED
  BY <1>1, <1>2 DEF Continues

LEMMA GrowsFresh ==
    ASSUME NEW h \in Histories, NEW g \in Histories, NEW d, Grows(h, d, g),
           NEW c \in Histories, c.next <= h.next, Fresh(h, c)
    PROVE  Fresh(g, c)
<1>1. /\ h.next \in Nat /\ c.next \in Nat /\ c.undo \in Seq(Entries)
      /\ h.undo \in Seq(Entries) /\ g.undo \in Seq(Entries)
  BY DEF Histories
<1>2. Len(c.undo) \in Nat /\ DOMAIN h.undo \subseteq Nat /\ DOMAIN g.undo \subseteq Nat
  BY <1>1
<1>3. ASSUME NEW i \in DOMAIN g.undo, i > Len(c.undo) PROVE g.undo[i].after >= c.next
  <2>1. CASE \E k \in DOMAIN h.undo : i <= k /\ g.undo[i] = h.undo[k]
    <3>1. PICK k \in DOMAIN h.undo : i <= k /\ g.undo[i] = h.undo[k]
      BY <2>1
    <3>2. i \in Nat /\ k \in Nat
      BY <1>2
    <3>3. k > Len(c.undo)
      BY <1>2, <1>3, <3>1, <3>2
    <3>4. QED
      BY <3>1, <3>3 DEF Fresh
  <2>2. CASE h.next <= g.undo[i].after
    <3>1. g.undo[i] \in Entries
      BY <1>1
    <3>2. g.undo[i].after \in Nat
      BY <3>1 DEF Entries
    <3>3. QED
      BY <1>1, <2>2, <3>2
  <2>3. QED
    BY <2>1, <2>2 DEF Grows
<1>4. QED
  BY <1>3 DEF Fresh

\* The revision where a history stands is the document it stands at.
LEMMA CurrentMeans ==
    ASSUME NEW h \in Histories, NEW d, Numbered(h), Describes(h, d)
    PROVE  Means(h, d, h.current, SettledAt(h, d))
<1> DEFINE u == h.undo
           r == h.redo
           t == Trail(u, r)
           n == Len(u)
           m == Len(r)
<1>1. /\ u \in Seq(Entries) /\ r \in Seq(Entries) /\ h.current \in Nat /\ h.next \in Nat
      /\ \A i \in DOMAIN u : u[i].revision # h.current
  BY UndoProperties
<1>2. /\ n \in Nat /\ m \in Nat /\ DOMAIN u = 1 .. n /\ DOMAIN r = 1 .. m
      /\ t \in Seq(Entries) /\ Len(t) = n + m /\ DOMAIN t = 1 .. n + m
  <2>1. t \in Seq(Entries) /\ Len(t) = Len(u) + Len(r)
    BY <1>1, TrailProperties
  <2> HIDE DEF t
  <2>2. QED
    BY <1>1, <2>1
<1>3. /\ \A i \in 1 .. n : t[i] = u[i]
      /\ \A i \in 1 .. m : /\ t[n + m + 1 - i] = r[i] /\ n + m + 1 - i \in DOMAIN t
                           /\ n + 1 \in DOMAIN t /\ n + 1 <= n + m + 1 - i
                           /\ (n + 1 = n + m + 1 - i => i = m)
  <2>1. \A i \in 1 .. n + m : t[i] = IF i <= n THEN u[i] ELSE r[m + 1 - (i - n)]
    BY DEF Trail
  <2> HIDE DEF t, u, r, n, m
  <2>2. ASSUME NEW i \in 1 .. n PROVE t[i] = u[i]
    BY <1>2, <2>1
  <2>3. ASSUME NEW i \in 1 .. m
        PROVE  /\ t[n + m + 1 - i] = r[i] /\ n + m + 1 - i \in DOMAIN t
               /\ n + 1 \in DOMAIN t /\ n + 1 <= n + m + 1 - i
               /\ (n + 1 = n + m + 1 - i => i = m)
    <3>1. /\ n + m + 1 - i \in 1 .. n + m /\ ~(n + m + 1 - i <= n)
          /\ m + 1 - ((n + m + 1 - i) - n) = i
          /\ n + 1 \in 1 .. n + m /\ n + 1 <= n + m + 1 - i
          /\ (n + 1 = n + m + 1 - i => i = m)
      BY <1>2
    <3>2. QED
      BY <1>2, <2>1, <3>1
  <2>4. QED
    BY <2>2, <2>3
<1>4. /\ Ordered(t) /\ h.current < h.next
      /\ u # <<>> => u[n].after = h.current /\ u[n].patch.after = SettledAt(h, d)
      /\ r # <<>> => r[m].revision = h.current /\ r[m].patch.before = SettledAt(h, d)
  BY DEF Numbered, Describes
<1> HIDE DEF t
<1>5. ASSUME NEW i \in DOMAIN u, u[i].after = h.current PROVE i = n
  <2>1. CASE i # n
    <3>1. /\ i \in 1 .. n /\ n \in 1 .. n /\ i + 1 \in 1 .. n /\ i + 1 <= n
          /\ i \in 1 .. (n + m) - 1 /\ i + 1 \in 1 .. n + m /\ n \in 1 .. n + m
      <4> HIDE DEF u, r, n, m
      <4>1. QED
        BY <1>2, <2>1
    <3>2. t[i].after = t[i + 1].revision /\ t[n].after # t[i + 1].revision
      <4> HIDE DEF u, r, n, m
      <4>1. QED
        BY <1>2, <1>4, <3>1 DEF Ordered
    <3>3. u # <<>> /\ u[n].after = h.current
      <4>1. u # <<>>
        BY <1>5
      <4>2. QED
        BY <1>4, <4>1
    <3>4. t[i] = u[i] /\ t[n] = u[n]
      BY <1>3, <3>1
    <3>5. QED
      BY <1>5, <3>2, <3>3, <3>4
  <2>2. QED
    BY <2>1
<1>6. ASSUME NEW i \in DOMAIN r PROVE /\ r[i].after # h.current
                                      /\ r[i].revision = h.current => i = m
  <2>1. /\ i \in 1 .. m /\ m \in 1 .. m /\ r # <<>> /\ n + m + 1 - m = n + 1
    <3>1. r # <<>>
      BY <1>6
    <3> HIDE DEF u, r, n, m
    <3>2. QED
      BY <1>2, <3>1
  <2>2. t[n + 1] = r[m] /\ r[m].revision = h.current
    BY <1>3, <1>4, <2>1
  <2>3. t[n + m + 1 - i].after # t[n + 1].revision
    BY <1>3, <1>4, <2>1 DEF Ordered
  <2>4. n + 1 # n + m + 1 - i => t[n + m + 1 - i].revision # t[n + 1].revision
    BY <1>3, <1>4, <2>1 DEF Ordered
  <2>5. QED
    BY <1>3, <2>1, <2>2, <2>3, <2>4
<1>7. ASSUME NEW z, Knows(h, d, h.current, z) PROVE z = SettledAt(h, d)
  <2>1. ASSUME NEW i \in DOMAIN u, h.current = u[i].after, z = u[i].patch.after
        PROVE  z = SettledAt(h, d)
    BY <1>4, <1>5, <2>1
  <2>2. ASSUME NEW i \in DOMAIN r, h.current = r[i].revision, z = r[i].patch.before
        PROVE  z = SettledAt(h, d)
    BY <1>4, <1>6, <2>2
  <2>3. QED
    BY <1>1, <1>6, <1>7, <2>1, <2>2 DEF Knows
<1>8. QED
  BY <1>4, <1>7 DEF Means

\* The end of a gesture.
LEMMA FinishContinues ==
    ASSUME NEW h \in Histories, Numbered(h), NEW d, NEW e
    PROVE  LET g == FinishGesture(h) IN
           /\ h.pending = None => Continues(h, d, g, d)
           /\ h.pending # None => Continues(h, d, g, e)
           /\ \A c \in Histories : c.next <= h.next /\ Fresh(h, c) => Fresh(g, c)
<1> DEFINE g == FinishGesture(h)
<1>1. /\ g \in Histories /\ g.pending = None /\ h.next <= g.next
      /\ h.pending = None => g.undo = h.undo /\ g.redo = h.redo /\ g.current = h.current
      /\ h.pending # None => g.redo = <<>> /\ Pushed(h, h.pending, g)
  BY FinishKeeps
<1> HIDE DEF g
<1>2. CASE h.pending = None
  <2>1. Knows(h, d, g.current, SettledAt(g, d))
    BY <1>1, <1>2 DEF Knows, SettledAt
  <2>2. Continues(h, d, g, d)
    BY <1>1, <1>2, <2>1, StandingContinues
  <2>3. \A c \in Histories : Fresh(h, c) => Fresh(g, c)
    BY <1>1, <1>2 DEF Fresh
  <2>4. QED
    BY <1>2, <2>2, <2>3 DEF g
<1>3. CASE h.pending # None
  <2>1. h.pending \in Patches /\ h.pending.before = SettledAt(h, d)
    BY <1>3 DEF Histories, SettledAt
  <2>2. Grows(h, d, g)
    BY <1>1, <1>3, <2>1, PushedGrows
  <2>3. Continues(h, d, g, e)
    BY <1>1, <2>2, GrowsContinues
  <2>4. \A c \in Histories : c.next <= h.next /\ Fresh(h, c) => Fresh(g, c)
    BY <1>1, <2>2, GrowsFresh
  <2>5. QED
    BY <1>3, <2>3, <2>4 DEF g
<1>4. QED
  BY <1>2, <1>3

\* A recorded edit.
LEMMA EditContinues ==
    ASSUME NEW h \in Histories, Numbered(h), NEW d \in Documents, NEW now \in Documents
    PROVE  LET g == Commit(FinishGesture(h), Patch(d, now)) IN
           /\ g.saved = h.saved /\ g.generation = h.generation
           /\ Continues(h, d, g, now)
           /\ \A c \in Histories : c.next <= h.next /\ Fresh(h, c) => Fresh(g, c)
<1> DEFINE f == FinishGesture(h)
           patch == Patch(d, now)
           g == Commit(f, patch)
<1>1. /\ f \in Histories /\ Numbered(f) /\ f.pending = None /\ h.next <= f.next
      /\ f.saved = h.saved /\ f.generation = h.generation
  BY FinishKeeps
<1>2. /\ Continues(h, d, f, d)
      /\ \A c \in Histories : c.next <= h.next /\ Fresh(h, c) => Fresh(f, c)
  BY FinishContinues
<1>3. patch \in Patches /\ patch.before = d
  BY DEF Patch, Patches
<1> HIDE DEF f, patch
<1>4. /\ g \in Histories /\ g.redo = <<>> /\ g.next = f.next + 1 /\ Pushed(f, patch, g)
      /\ g.saved = f.saved /\ g.generation = f.generation
  BY <1>1, <1>3, CommitKeeps
<1> HIDE DEF g
<1>5. h.next \in Nat /\ f.next \in Nat /\ \A c \in Histories : c.next \in Nat
  BY <1>1 DEF Histories
<1>6. Grows(f, d, g)
  <2>1. f.next <= g.next /\ patch.before = SettledAt(f, d)
    BY <1>1, <1>3, <1>4, <1>5 DEF SettledAt
  <2>2. QED
    BY <1>1, <1>3, <1>4, <2>1, PushedGrows
<1>7. Continues(h, d, g, now)
  <2>1. Continues(f, d, g, now)
    BY <1>1, <1>4, <1>6, GrowsContinues
  <2>2. QED
    BY <1>1, <1>2, <1>4, <2>1, ContinuesOn
<1>8. ASSUME NEW c \in Histories, c.next <= h.next, Fresh(h, c) PROVE Fresh(g, c)
  <2>1. c.next <= f.next
    BY <1>1, <1>5, <1>8
  <2>2. QED
    BY <1>1, <1>2, <1>4, <1>6, <1>8, <2>1, GrowsFresh
<1>9. QED
  BY <1>1, <1>4, <1>7, <1>8 DEF f, patch, g

\* Undo and redo move one entry from one stack to the other.
LEMMA UndoContinues ==
    ASSUME NEW h \in Histories, Numbered(h), h.undo # <<>>, h.pending = None, NEW d
    PROVE  LET g == UndoEntry(h) IN
           /\ g.saved = h.saved /\ g.generation = h.generation
           /\ Continues(h, d, g, Last(h.undo).patch.before)
<1> DEFINE e == Last(h.undo)
           g == UndoEntry(h)
<1>1. h.undo \in Seq(Entries) /\ h.redo \in Seq(Entries) /\ h.next \in Nat
  BY DEF Histories
<1>2. /\ Front(h.undo) \in Seq(Entries) /\ Len(Front(h.undo)) = Len(h.undo) - 1
      /\ \A i \in 1 .. Len(h.undo) - 1 : Front(h.undo)[i] = h.undo[i]
      /\ e = h.undo[Len(h.undo)] /\ e \in Entries
  BY <1>1, FrontAndLast
<1>3. g = [h EXCEPT !.undo = Front(h.undo), !.redo = Append(h.redo, e), !.current = e.revision]
  BY DEF UndoEntry
<1>4. e.revision \in Nat /\ Len(h.undo) \in DOMAIN h.undo
  BY <1>1, <1>2 DEF Entries
<1> HIDE DEF e, g
<1>5. /\ g \in Histories /\ g.undo = Front(h.undo) /\ g.redo = Append(h.redo, e)
      /\ g.current = e.revision /\ g.next = h.next /\ g.pending = None
      /\ g.saved = h.saved /\ g.generation = h.generation
  <2>1. Append(h.redo, e) \in Seq(Entries)
    BY <1>1, <1>2
  <2>2. QED
    BY <1>2, <1>3, <1>4, <2>1 DEF Histories
<1>6. \A i \in DOMAIN g.undo : \E k \in DOMAIN h.undo : g.undo[i] = h.undo[k]
  <2>1. ASSUME NEW i \in DOMAIN Front(h.undo) PROVE i \in 1 .. Len(h.undo) - 1 /\ i \in DOMAIN h.undo
    BY <1>1, <1>2
  <2>2. QED
    BY <1>2, <1>5, <2>1
<1>7. \A i \in DOMAIN g.redo : \/ \E k \in DOMAIN h.undo : g.redo[i] = h.undo[k]
                               \/ \E k \in DOMAIN h.redo : g.redo[i] = h.redo[k]
  <2>1. ASSUME NEW i \in DOMAIN Append(h.redo, e)
        PROVE  Append(h.redo, e)[i] = e \/ (i \in DOMAIN h.redo /\ Append(h.redo, e)[i] = h.redo[i])
    BY <1>1, <1>2
  <2>2. QED
    BY <1>2, <1>4, <1>5, <2>1
<1>8. Knows(h, d, g.current, SettledAt(g, e.patch.before))
  BY <1>2, <1>4, <1>5 DEF Knows, SettledAt
<1>9. Continues(h, d, g, e.patch.before)
  <2>1. h.next <= g.next
    BY <1>1, <1>5
  <2>2. QED
    BY <1>5, <1>6, <1>7, <1>8, <2>1, StandingContinues
<1>10. QED
  BY <1>5, <1>9 DEF e, g

LEMMA RedoContinues ==
    ASSUME NEW h \in Histories, Numbered(h), h.redo # <<>>, h.pending = None, NEW d
    PROVE  LET g == RedoEntry(h) IN
           /\ g.saved = h.saved /\ g.generation = h.generation
           /\ Continues(h, d, g, Last(h.redo).patch.after)
<1> DEFINE e == Last(h.redo)
           g == RedoEntry(h)
<1>1. h.undo \in Seq(Entries) /\ h.redo \in Seq(Entries) /\ h.next \in Nat
  BY DEF Histories
<1>2. /\ Front(h.redo) \in Seq(Entries) /\ Len(Front(h.redo)) = Len(h.redo) - 1
      /\ \A i \in 1 .. Len(h.redo) - 1 : Front(h.redo)[i] = h.redo[i]
      /\ e = h.redo[Len(h.redo)] /\ e \in Entries
  BY <1>1, FrontAndLast
<1>3. g = [h EXCEPT !.redo = Front(h.redo), !.undo = Append(h.undo, e), !.current = e.after]
  BY DEF RedoEntry
<1>4. e.after \in Nat /\ Len(h.redo) \in DOMAIN h.redo
  BY <1>1, <1>2 DEF Entries
<1> HIDE DEF e, g
<1>5. /\ g \in Histories /\ g.redo = Front(h.redo) /\ g.undo = Append(h.undo, e)
      /\ g.current = e.after /\ g.next = h.next /\ g.pending = None
      /\ g.saved = h.saved /\ g.generation = h.generation
  <2>1. Append(h.undo, e) \in Seq(Entries)
    BY <1>1, <1>2
  <2>2. QED
    BY <1>2, <1>3, <1>4, <2>1 DEF Histories
<1>6. \A i \in DOMAIN g.redo : \E k \in DOMAIN h.redo : g.redo[i] = h.redo[k]
  <2>1. ASSUME NEW i \in DOMAIN Front(h.redo) PROVE i \in 1 .. Len(h.redo) - 1 /\ i \in DOMAIN h.redo
    BY <1>1, <1>2
  <2>2. QED
    BY <1>2, <1>5, <2>1
<1>7. \A i \in DOMAIN g.undo : \/ \E k \in DOMAIN h.undo : g.undo[i] = h.undo[k]
                               \/ \E k \in DOMAIN h.redo : g.undo[i] = h.redo[k]
  <2>1. ASSUME NEW i \in DOMAIN Append(h.undo, e)
        PROVE  Append(h.undo, e)[i] = e \/ (i \in DOMAIN h.undo /\ Append(h.undo, e)[i] = h.undo[i])
    BY <1>1, <1>2
  <2>2. QED
    BY <1>2, <1>4, <1>5, <2>1
<1>8. Knows(h, d, g.current, SettledAt(g, e.patch.after))
  BY <1>2, <1>4, <1>5 DEF Knows, SettledAt
<1>9. Continues(h, d, g, e.patch.after)
  <2>1. h.next <= g.next
    BY <1>1, <1>5
  <2>2. QED
    BY <1>5, <1>6, <1>7, <1>8, <2>1, StandingContinues
<1>10. QED
  BY <1>5, <1>9 DEF e, g

\* A rollback that stops undoes entries, and keeps them to be redone.
LEMMA RollbackContinues ==
    ASSUME NEW h \in Histories, Numbered(h), h.pending = None, NEW n \in 1 .. Len(h.undo), NEW d
    PROVE  LET g == [h EXCEPT
                        !.undo = SubSeq(h.undo, 1, n),
                        !.redo = h.redo \o Reverse(SubSeq(h.undo, n + 1, Len(h.undo))),
                        !.current = h.undo[n].after]
               Undone == IF n < Len(h.undo) THEN h.undo[n + 1].patch.before ELSE d
           IN  /\ g.saved = h.saved /\ g.generation = h.generation
               /\ Continues(h, d, g, Undone)
<1> DEFINE u == h.undo
           r == h.redo
           l == Len(u)
           low == SubSeq(u, 1, n)
           top == SubSeq(u, n + 1, l)
           back == r \o Reverse(top)
           g == [h EXCEPT !.undo = low, !.redo = back, !.current = u[n].after]
           Undone == IF n < l THEN u[n + 1].patch.before ELSE d
<1>1. /\ u \in Seq(Entries) /\ r \in Seq(Entries) /\ h.current \in Nat /\ h.next \in Nat
      /\ Ordered(u)
  BY UndoProperties
<1>2. /\ l \in Nat /\ n \in Nat \ {0} /\ n <= l /\ n \in DOMAIN u
      /\ n < l => n + 1 \in DOMAIN u /\ n \in 1 .. l - 1
      /\ 1 <= n + 1 /\ n + 1 \in Nat \ {0} /\ n + 1 <= l + 1
  BY <1>1
<1>3. \A i \in DOMAIN low : \E k \in DOMAIN u : low[i] = u[k]
  <2>1. /\ low \in Seq(Entries) /\ Len(low) = n + 1 - 1
        /\ \A i \in 1 .. n + 1 - 1 : low[i] = u[1 - 1 + i] /\ 1 - 1 + i \in DOMAIN u
    BY <1>1, <1>2, StretchProperties
  <2>2. DOMAIN low = 1 .. n + 1 - 1
    <3> HIDE DEF low
    <3>1. QED
      BY <2>1
  <2>3. QED
    BY <2>1, <2>2
<1>4. /\ top \in Seq(Entries)
      /\ \A i \in DOMAIN top : \E k \in DOMAIN u : top[i] = u[k]
  <2>1. /\ top \in Seq(Entries) /\ Len(top) = l + 1 - (n + 1)
        /\ \A i \in 1 .. l + 1 - (n + 1) : top[i] = u[n + 1 - 1 + i] /\ n + 1 - 1 + i \in DOMAIN u
    <3>1. l \in Nat /\ n + 1 \in Nat \ {0} /\ n + 1 <= l + 1 /\ l <= Len(u)
      BY <1>2
    <3> HIDE DEF u, l
    <3>2. QED
      BY <1>1, <3>1, StretchProperties
  <2>2. DOMAIN top = 1 .. l + 1 - (n + 1)
    <3> HIDE DEF top
    <3>1. QED
      BY <2>1
  <2>3. QED
    BY <2>1, <2>2
<1> HIDE DEF low, top
<1>5. /\ Reverse(top) \in Seq(Entries)
      /\ \A i \in DOMAIN Reverse(top) : \E k \in DOMAIN top : Reverse(top)[i] = top[k]
  <2>1. Reverse(top) = [i \in 1 .. Len(top) |-> top[(Len(top) - i) + 1]]
    BY DEF Reverse
  <2>2. Len(top) \in Nat /\ DOMAIN top = 1 .. Len(top)
    BY <1>4
  <2>3. \A i \in 1 .. Len(top) : (Len(top) - i) + 1 \in DOMAIN top
    BY <2>2
  <2>4. \A i \in 1 .. Len(top) : top[(Len(top) - i) + 1] \in Entries
    BY <1>4, <2>3
  <2>5. QED
    BY <2>1, <2>2, <2>3, <2>4
<1>6. /\ back \in Seq(Entries)
      /\ \A i \in DOMAIN back : \/ \E k \in DOMAIN r : back[i] = r[k]
                                \/ \E k \in DOMAIN u : back[i] = u[k]
  <2>1. back \in Seq(Entries)
    BY <1>1, <1>5
  <2>2. ASSUME NEW i \in DOMAIN back
        PROVE  \/ \E k \in DOMAIN r : back[i] = r[k]
               \/ \E k \in DOMAIN Reverse(top) : back[i] = Reverse(top)[k]
    <3>1. /\ Len(r) \in Nat /\ Len(Reverse(top)) \in Nat
          /\ DOMAIN r = 1 .. Len(r) /\ DOMAIN Reverse(top) = 1 .. Len(Reverse(top))
      BY <1>1, <1>5
    <3>2. /\ DOMAIN back = 1 .. Len(r) + Len(Reverse(top))
          /\ back[i] = IF i <= Len(r) THEN r[i] ELSE Reverse(top)[i - Len(r)]
      BY <1>1, <1>5
    <3> HIDE DEF back
    <3>3. IF i <= Len(r) THEN i \in DOMAIN r ELSE i - Len(r) \in DOMAIN Reverse(top)
      BY <3>1, <3>2
    <3>4. QED
      BY <3>2, <3>3
  <2> HIDE DEF back, u, r
  <2>3. QED
    BY <1>4, <1>5, <2>1, <2>2
<1> HIDE DEF back
<1>7. u[n].after \in Nat /\ low \in Seq(Entries)
  <2>1. u[n] \in Entries
    BY <1>1, <1>2
  <2>2. low \in Seq(Entries)
    BY <1>1, <1>2, StretchProperties DEF low
  <2>3. QED
    BY <2>1, <2>2 DEF Entries
<1>8. /\ g \in Histories /\ g.undo = low /\ g.redo = back /\ g.current = u[n].after
      /\ g.next = h.next /\ g.pending = None /\ g.saved = h.saved /\ g.generation = h.generation
  BY <1>6, <1>7 DEF Histories
<1> HIDE DEF g
<1>9. Knows(h, d, g.current, SettledAt(g, Undone))
  <2>1. SettledAt(g, Undone) = Undone
    BY <1>8 DEF SettledAt
  <2>2. CASE n < l
    <3>1. u[n].after = u[n + 1].revision
      BY <1>1, <1>2, <2>2 DEF Ordered
    <3>2. QED
      BY <1>2, <1>8, <2>1, <2>2, <3>1 DEF Knows
  <2>3. CASE ~(n < l)
    <3>1. n = l /\ u # <<>>
      BY <1>1, <1>2, <2>3
    <3>2. u[n].after = h.current
      BY <3>1 DEF Numbered
    <3>3. Undone = SettledAt(h, d)
      BY <2>3 DEF SettledAt
    <3>4. QED
      BY <1>8, <2>1, <3>2, <3>3 DEF Knows
  <2>4. QED
    BY <2>2, <2>3
<1>10. Continues(h, d, g, Undone)
  <2>1. h.next <= g.next
    BY <1>1, <1>8
  <2>2. QED
    BY <1>3, <1>6, <1>8, <1>9, <2>1, StandingContinues
<1>11. QED
  BY <1>8, <1>10 DEF g, u, r, l, low, back, top, Undone

\* A squash forgets the revisions between the squashed entries.
LEMMA SquashContinues ==
    ASSUME NEW h \in Histories, Numbered(h), h.redo = <<>>, NEW count \in 2 .. Len(h.undo), NEW d
    PROVE  Continues(h, d, SquashRecent(h, count), d)
<1> DEFINE u == h.undo
           g == SquashRecent(h, count)
           k == Len(u) - count
           w == SubSeq(u, 1, k)
           e == [revision |-> u[k + 1].revision, after |-> Last(u).after,
                 patch |-> Patch(u[k + 1].patch.before, Last(u).patch.after)]
<1>1. /\ g \in Histories /\ g.pending = h.pending /\ g.redo = <<>> /\ g.current = h.current
      /\ g.next = h.next /\ g.undo = Append(w, e)
  BY SquashKeeps
<1>2. u \in Seq(Entries) /\ h.next \in Nat
  BY DEF Histories
<1>3. k \in Nat /\ 1 <= k + 1 /\ k <= Len(u) /\ k + 1 \in DOMAIN u /\ Len(u) \in DOMAIN u
  BY <1>2
<1>4. Last(u) = u[Len(u)]
  BY DEF Last
<1>5. /\ w \in Seq(Entries) /\ \A i \in DOMAIN w : \E j \in DOMAIN u : w[i] = u[j]
  <2>1. /\ w \in Seq(Entries) /\ Len(w) = k + 1 - 1
        /\ \A i \in 1 .. k + 1 - 1 : w[i] = u[1 - 1 + i] /\ 1 - 1 + i \in DOMAIN u
    BY <1>2, <1>3, StretchProperties
  <2>2. DOMAIN w = 1 .. k + 1 - 1
    <3> HIDE DEF w
    <3>1. QED
      BY <2>1
  <2>3. QED
    BY <2>1, <2>2
<1>6. e \in Entries
  <2>1. u[k + 1] \in Entries /\ u[Len(u)] \in Entries
    BY <1>2, <1>3
  <2>2. QED
    BY <1>4, <2>1 DEF Entries, Patches, Patch
<1>7. /\ e.revision = u[k + 1].revision /\ e.after = u[Len(u)].after
      /\ e.patch.before = u[k + 1].patch.before /\ e.patch.after = u[Len(u)].patch.after
  BY <1>4 DEF Patch
<1> HIDE DEF w, e, g, k
<1>8. ASSUME NEW i \in DOMAIN g.undo
      PROVE  g.undo[i] = e \/ \E j \in DOMAIN u : g.undo[i] = u[j]
  <2>1. ASSUME NEW j \in DOMAIN Append(w, e)
        PROVE  Append(w, e)[j] = e \/ (j \in DOMAIN w /\ Append(w, e)[j] = w[j])
    <3>1. w \in Seq(Entries)
      BY <1>5
    <3>2. QED
      BY <1>6, <3>1
  <2>2. QED
    BY <1>1, <1>5, <2>1
<1>9. ASSUME NEW x \in Nat, NEW y \in Documents, Knows(g, d, x, y) PROVE Knows(h, d, x, y)
  <2>1. SettledAt(g, d) = SettledAt(h, d)
    BY <1>1 DEF SettledAt
  <2>2. ASSUME NEW i \in DOMAIN g.undo,
               \/ x = g.undo[i].revision /\ y = g.undo[i].patch.before
               \/ x = g.undo[i].after /\ y = g.undo[i].patch.after
        PROVE  Knows(h, d, x, y)
    BY <1>3, <1>7, <1>8, <2>2 DEF Knows
  <2>3. QED
    BY <1>1, <1>9, <2>1, <2>2 DEF Knows
<1>10. QED
  BY <1>1, <1>2, <1>9 DEF Continues, g

-----------------------------------------------------------------------------
(* The steps and the saves                                                 *)

\* What a step has to establish that saves nothing.
LEMMA ContinuedSaves ==
    ASSUME HistoryInv, SaveInv, history' \in Histories, UNCHANGED <<name, save_vars>>,
           txn' \in {txn, None}, fits' => fits, history'.generation = history.generation,
           \/ history'.saved = history.saved
           \/ history'.saved = None /\ txn' = None /\ (fits => Landed # {}),
           fits' => \/ Continues(history, doc, history', doc')
                    \/ txn # None /\ history' = txn.checkpoint /\ doc' = txn.doc,
           txn' # None => Fresh(history', txn.checkpoint)
    PROVE  SaveInv'
<1>1. Landed' = Landed
  BY DEF Landed, MarksSaved, save_vars
<1>2. \A x, y : fits /\ SavedAs(x, y)' => SavedAs(x, y)
  <2>1. CASE history'.saved = history.saved
    BY <1>1, <2>1 DEF SavedAs, save_vars
  <2>2. CASE history'.saved = None /\ (fits => Landed # {})
    BY <1>1, <2>2 DEF SavedAs, save_vars
  <2>3. QED
    BY <2>1, <2>2
<1>3. QueueInv'
  BY DEF SaveInv, QueueInv, save_vars
<1>4. GenerationInv'
  BY DEF SaveInv, GenerationInv, save_vars
<1>5. MeaningInv'
  <2>1. ASSUME fits', NEW x \in Nat, NEW y, SavedAs(x, y)'
        PROVE  /\ Means(history', doc', x, y)
               /\ txn' # None => Means(txn'.checkpoint, txn'.doc, x, y)
    <3>1. fits /\ SavedAs(x, y)
      BY <1>2, <2>1
    <3>2. /\ Means(history, doc, x, y)
          /\ txn # None => Means(txn.checkpoint, txn.doc, x, y)
      BY <2>1, <3>1 DEF SaveInv, MeaningInv
    <3>3. CASE Continues(history, doc, history', doc')
      <4>1. history \in Histories
        BY InvariantSays
      <4>2. Means(history', doc', x, y)
        BY <3>2, <3>3, <4>1, ContinuesMeans
      <4>3. QED
        BY <3>2, <4>2
    <3>4. CASE txn # None /\ history' = txn.checkpoint /\ doc' = txn.doc
      BY <3>2, <3>4
    <3>5. QED
      BY <2>1, <3>3, <3>4
  <2>2. QED
    BY <2>1 DEF MeaningInv
<1>6. SavesOutside'
  BY DEF SaveInv, SavesOutside
<1>7. QED
  BY <1>3, <1>4, <1>5, <1>6 DEF SaveInv

LEMMA CheckpointSays ==
    ASSUME HistoryInv, SaveInv, txn # None
    PROVE  /\ txn.checkpoint \in Histories /\ txn.checkpoint.next <= history.next
           /\ Fresh(history, txn.checkpoint)
           /\ txn.checkpoint.saved = history.saved
           /\ txn.checkpoint.generation = history.generation
BY InvariantSays DEF Inside, SaveInv, SavesOutside

LEMMA EditSaves ==
    ASSUME HistoryInv, SaveInv, NEW p \in Params, NEW v \in Values, Edit(p, v), HistoryInv'
    PROVE  SaveInv'
<1>1. /\ history' = Commit(FinishGesture(history), Patch(doc, doc'))
      /\ UNCHANGED <<name, save_vars, txn, fits>>
  BY DEF Edit
<1>2. /\ history \in Histories /\ Numbered(history) /\ doc \in Documents
      /\ history' \in Histories /\ doc' \in Documents
  BY InvariantSays DEF HistoryInv, TypeOK
<1>3. /\ history'.saved = history.saved /\ history'.generation = history.generation
      /\ Continues(history, doc, history', doc')
      /\ \A c \in Histories : c.next <= history.next /\ Fresh(history, c) => Fresh(history', c)
  BY <1>1, <1>2, EditContinues
<1>4. txn # None => Fresh(history', txn.checkpoint)
  BY <1>3, CheckpointSays
<1>5. QED
  BY <1>1, <1>2, <1>3, <1>4, ContinuedSaves

LEMMA EditBesideSaves ==
    ASSUME HistoryInv, SaveInv, NEW p \in Params, NEW v \in Values, EditBeside(p, v), HistoryInv'
    PROVE  SaveInv'
<1> DEFINE suspended == [gesture |-> history.gesture, pending |-> history.pending]
           own == Commit([history EXCEPT !.gesture = None, !.pending = None], Patch(doc, doc'))
<1>1. /\ history.gesture # None /\ history' = RebaseDragBeside(own, suspended, Len(own.undo))
      /\ UNCHANGED <<name, save_vars, txn, fits>>
  BY DEF EditBeside
<1>2. /\ history \in Histories /\ Numbered(history) /\ doc \in Documents
      /\ history' \in Histories /\ doc' \in Documents
  BY InvariantSays DEF HistoryInv, TypeOK
<1>3. /\ Grows(history, doc, history')
      /\ history'.saved = history.saved /\ history'.generation = history.generation
  <2> DEFINE g == RebaseDragBeside(own, suspended, Len(own.undo))
  <2>1. /\ history \in Histories /\ Numbered(history) /\ history.gesture # None
        /\ doc \in Documents /\ doc' \in Documents
    BY <1>1, <1>2
  <2>2. Grows(history, doc, g) /\ g.saved = history.saved /\ g.generation = history.generation
    BY <2>1, BesideKeeps, Zenon
  <2>3. history' = g
    BY <1>1
  <2> HIDE DEF g
  <2>4. QED
    BY <2>2, <2>3
<1> HIDE DEF suspended, own
<1>4. Continues(history, doc, history', doc')
  BY <1>2, <1>3, GrowsContinues
<1>5. txn # None => Fresh(history', txn.checkpoint)
  BY <1>2, <1>3, CheckpointSays, GrowsFresh
<1>6. QED
  BY <1>1, <1>2, <1>3, <1>4, <1>5, ContinuedSaves

LEMMA BarrierEditSaves ==
    ASSUME HistoryInv, SaveInv, NEW p \in Params, NEW v \in Values, BarrierEdit(p, v), HistoryInv'
    PROVE  SaveInv'
<1>1. history' = Barrier(history) /\ UNCHANGED <<name, save_vars, txn, fits>>
  BY DEF BarrierEdit
<1>2. history \in Histories /\ history' \in Histories /\ history.next \in Nat
  BY InvariantSays DEF HistoryInv, TypeOK, Histories
<1>3. /\ history'.undo = <<>> /\ history'.redo = <<>> /\ history'.current = history.next
      /\ history'.next = history.next + 1
      /\ history'.saved = history.saved /\ history'.generation = history.generation
  BY <1>1, <1>2 DEF Barrier, Histories
<1>4. Grows(history, doc, history')
  BY <1>2, <1>3 DEF Grows
<1>5. Continues(history, doc, history', doc')
  BY <1>2, <1>4, GrowsContinues
<1>6. txn # None => Fresh(history', txn.checkpoint)
  BY <1>2, <1>4, CheckpointSays, GrowsFresh
<1>7. QED
  BY <1>1, <1>2, <1>3, <1>5, <1>6, ContinuedSaves

\* Outside a transaction, a step that leaves the stacks and what is settled.
LEMMA SettledSaves ==
    ASSUME HistoryInv, SaveInv, NEW h \in Histories, h.saved = history.saved,
           h.generation = history.generation, Continues(history, doc, h, doc),
           NEW gesture \in Params \cup {None}, NEW pending \in Patches \cup {None},
           history' = [h EXCEPT !.gesture = gesture, !.pending = pending],
           SettledAt(history', doc') = SettledAt(h, doc),
           txn = None, UNCHANGED <<name, save_vars, txn, fits>>, HistoryInv'
    PROVE  SaveInv'
<1>1. /\ history'.undo = h.undo /\ history'.redo = h.redo /\ history'.current = h.current
      /\ history'.next = h.next /\ history'.saved = h.saved /\ history'.generation = h.generation
      /\ h.next \in Nat
  BY DEF Histories
<1>2. history' \in Histories /\ history \in Histories
  BY InvariantSays DEF HistoryInv, TypeOK
<1>3. Continues(h, doc, history', doc')
  <2>1. Knows(h, doc, history'.current, SettledAt(history', doc'))
    BY <1>1 DEF Knows
  <2>2. h.next <= history'.next
    BY <1>1
  <2>3. QED
    BY <1>1, <1>2, <2>1, <2>2, StandingContinues
<1>4. Continues(history, doc, history', doc')
  BY <1>2, <1>3, ContinuesOn
<1>5. QED
  BY <1>1, <1>2, <1>4, ContinuedSaves

LEMMA ContinuesItself ==
    ASSUME HistoryInv
    PROVE  Continues(history, doc, history, doc)
<1>1. history.next <= history.next
  BY InvariantSays DEF Histories
<1>2. QED
  BY <1>1 DEF Continues

LEMMA DragSaves ==
    ASSUME HistoryInv, SaveInv, NEW p \in Params, NEW v \in Values, Drag(p, v), HistoryInv'
    PROVE  SaveInv'
<1> DEFINE h == history
           mine == h.gesture = p
           start == IF mine /\ h.pending # None THEN h.pending.before ELSE doc
           f == FinishGesture(h)
           opened == IF mine THEN h ELSE [f EXCEPT !.gesture = p]
           staged == Patch(start, doc')
<1>1. /\ txn = None
      /\ history' = IF doc' = start /\ mine /\ h.pending # None
                    THEN [h EXCEPT !.gesture = None, !.pending = None]
                    ELSE [opened EXCEPT !.pending = staged]
      /\ UNCHANGED <<name, save_vars, txn, fits>>
  BY DEF Drag
<1>2. /\ doc \in Documents /\ doc' \in Documents /\ h \in Histories /\ Numbered(h)
      /\ Continues(h, doc, h, doc)
  BY InvariantSays, ContinuesItself DEF HistoryInv, TypeOK
<1>3. /\ h.pending \in Patches \cup {None} /\ None \in Params \cup {None}
      /\ None \in Patches \cup {None} /\ p \in Params \cup {None}
  BY <1>2 DEF Histories
<1>4. start \in Documents
  BY <1>2, <1>3 DEF Patches
<1>5. staged \in Patches \cup {None} /\ staged # None /\ staged.before = start
  BY <1>2, <1>4, NoneAssumption DEF Patch, Patches, Documents
<1>6. CASE doc' = start /\ mine /\ h.pending # None
  <2>1. history' = [h EXCEPT !.gesture = None, !.pending = None]
    BY <1>1, <1>6
  <2>2. SettledAt(history', doc') = SettledAt(h, doc)
    <3>1. history'.pending = None
      BY <1>2, <2>1 DEF Histories
    <3>2. QED
      BY <1>6, <3>1 DEF SettledAt
  <2> HIDE DEF start, staged, opened, f
  <2>3. QED
    BY <1>1, <1>2, <1>3, <2>1, <2>2, SettledSaves
<1>7. CASE ~(doc' = start /\ mine /\ h.pending # None) /\ mine
  <2>1. history' = [h EXCEPT !.gesture = p, !.pending = staged]
    BY <1>1, <1>2, <1>7 DEF Histories
  <2>2. SettledAt(history', doc') = SettledAt(h, doc)
    <3>1. history'.pending = staged
      BY <1>2, <2>1 DEF Histories
    <3>2. start = SettledAt(h, doc)
      BY <1>7 DEF SettledAt
    <3> HIDE DEF start, staged
    <3>3. QED
      BY <1>5, <3>1, <3>2 DEF SettledAt
  <2> HIDE DEF start, staged, opened, f
  <2>3. QED
    BY <1>1, <1>2, <1>3, <1>5, <2>1, <2>2, SettledSaves
<1>8. CASE ~mine
  <2>1. /\ f \in Histories /\ f.pending = None
        /\ f.saved = h.saved /\ f.generation = h.generation
    BY <1>2, FinishKeeps
  <2>2. Continues(h, doc, f, doc)
    BY <1>2, FinishContinues
  <2> HIDE DEF f
  <2>3. history' = [f EXCEPT !.gesture = p, !.pending = staged]
    BY <1>1, <1>8, <2>1 DEF Histories
  <2>4. SettledAt(history', doc') = SettledAt(f, doc)
    <3>1. history'.pending = staged
      BY <2>1, <2>3 DEF Histories
    <3>2. start = SettledAt(f, doc)
      BY <1>8, <2>1 DEF SettledAt
    <3> HIDE DEF start, staged
    <3>3. QED
      BY <1>5, <3>1, <3>2 DEF SettledAt
  <2> HIDE DEF start, staged, opened
  <2>5. QED
    BY <1>1, <1>2, <1>3, <1>5, <2>1, <2>2, <2>3, <2>4, SettledSaves
<1>9. QED
  BY <1>6, <1>7, <1>8

LEMMA GestureEndsSaves ==
    ASSUME HistoryInv, SaveInv, FinishActiveGesture \/ CancelActiveGesture, HistoryInv'
    PROVE  SaveInv'
<1>1. /\ history \in Histories /\ Numbered(history) /\ history' \in Histories
      /\ Continues(history, doc, history, doc)
  BY InvariantSays, ContinuesItself DEF HistoryInv, TypeOK
<1>2. CASE FinishActiveGesture
  <2>1. /\ history' = FinishGesture(history) /\ doc' = doc /\ txn = None
        /\ UNCHANGED <<name, save_vars, txn, fits>>
    BY <1>2 DEF FinishActiveGesture
  <2>2. history'.saved = history.saved /\ history'.generation = history.generation
    BY <1>1, <2>1, FinishKeeps
  <2>3. Continues(history, doc, history', doc')
    BY <1>1, <2>1, FinishContinues
  <2>4. QED
    BY <1>1, <2>1, <2>2, <2>3, ContinuedSaves
<1>3. CASE CancelActiveGesture
  <2>1. /\ history' = [history EXCEPT !.gesture = None, !.pending = None] /\ txn = None
        /\ doc' = SettledAt(history, doc) /\ UNCHANGED <<name, save_vars, txn, fits>>
    BY <1>3 DEF CancelActiveGesture, SettledAt
  <2>2. history'.pending = None /\ None \in Params \cup {None} /\ None \in Patches \cup {None}
    BY <1>1, <2>1 DEF Histories
  <2>3. SettledAt(history', doc') = SettledAt(history, doc)
    BY <2>1, <2>2 DEF SettledAt
  <2>4. QED
    BY <1>1, <2>1, <2>2, <2>3, SettledSaves
<1>4. QED
  BY <1>2, <1>3

LEMMA ReplaySaves ==
    ASSUME HistoryInv, SaveInv, Undo \/ Redo, HistoryInv'
    PROVE  SaveInv'
<1> DEFINE h == FinishGesture(history)
<1>1. history \in Histories /\ Numbered(history) /\ history' \in Histories
  BY InvariantSays DEF HistoryInv, TypeOK
<1>2. /\ h \in Histories /\ Numbered(h) /\ h.pending = None
      /\ h.saved = history.saved /\ h.generation = history.generation
      /\ Continues(history, doc, h, doc)
  <2>1. /\ h \in Histories /\ Numbered(h) /\ h.pending = None
        /\ h.saved = history.saved /\ h.generation = history.generation
    BY <1>1, FinishKeeps
  <2>2. Continues(history, doc, h, doc)
    BY <1>1, FinishContinues
  <2>3. QED
    BY <2>1, <2>2
<1>3. /\ txn = None /\ UNCHANGED <<name, save_vars, txn, fits>>
      /\ \/ h.undo # <<>> /\ doc' = Last(h.undo).patch.before /\ history' = UndoEntry(h)
         \/ h.redo # <<>> /\ doc' = Last(h.redo).patch.after /\ history' = RedoEntry(h)
         \/ history' = h /\ doc' = doc
  BY DEF Undo, Redo
<1> HIDE DEF h
<1>4. CASE h.undo # <<>> /\ doc' = Last(h.undo).patch.before /\ history' = UndoEntry(h)
  <2>1. /\ history'.saved = h.saved /\ history'.generation = h.generation
        /\ Continues(h, doc, history', doc')
    BY <1>2, <1>4, UndoContinues
  <2>2. Continues(history, doc, history', doc')
    BY <1>1, <1>2, <2>1, ContinuesOn
  <2>3. QED
    BY <1>1, <1>2, <1>3, <2>1, <2>2, ContinuedSaves
<1>5. CASE h.redo # <<>> /\ doc' = Last(h.redo).patch.after /\ history' = RedoEntry(h)
  <2>1. /\ history'.saved = h.saved /\ history'.generation = h.generation
        /\ Continues(h, doc, history', doc')
    BY <1>2, <1>5, RedoContinues
  <2>2. Continues(history, doc, history', doc')
    BY <1>1, <1>2, <2>1, ContinuesOn
  <2>3. QED
    BY <1>1, <1>2, <1>3, <2>1, <2>2, ContinuedSaves
<1>6. CASE history' = h /\ doc' = doc
  BY <1>1, <1>2, <1>3, <1>6, ContinuedSaves
<1>7. QED
  BY <1>3, <1>4, <1>5, <1>6

LEMMA TransactionBeginSaves ==
    ASSUME HistoryInv, SaveInv, TransactionBegin, HistoryInv'
    PROVE  SaveInv'
<1>1. /\ txn' = [checkpoint |-> history, doc |-> doc]
      /\ UNCHANGED <<doc, history, name, save_vars, fits>>
  BY DEF TransactionBegin
<1>2. Landed' = Landed
  BY <1>1 DEF Landed, MarksSaved, save_vars
<1>3. \A x, y : SavedAs(x, y)' <=> SavedAs(x, y)
  BY <1>1, <1>2 DEF SavedAs, save_vars
<1>4. MeaningInv'
  <2>1. \A x \in Nat : \A y :
           fits /\ SavedAs(x, y) => Means(history, doc, x, y)
    BY DEF SaveInv, MeaningInv
  <2>2. txn'.checkpoint = history /\ txn'.doc = doc
    BY <1>1
  <2>3. QED
    BY <1>1, <1>3, <2>1, <2>2 DEF MeaningInv
<1>5. QueueInv' /\ GenerationInv'
  BY <1>1 DEF SaveInv, QueueInv, GenerationInv, save_vars
<1>6. SavesOutside'
  <2>1. Fresh(history, history)
    <3>1. history.undo \in Seq(Entries)
      BY InvariantSays DEF Histories
    <3>2. \A i \in DOMAIN history.undo : ~(i > Len(history.undo))
      BY <3>1
    <3>3. QED
      BY <3>2 DEF Fresh
  <2>2. QED
    BY <1>1, <2>1 DEF SavesOutside
<1>7. QED
  BY <1>4, <1>5, <1>6 DEF SaveInv

LEMMA TransactionSucceedsSaves ==
    ASSUME HistoryInv, SaveInv, TransactionSucceeds, HistoryInv'
    PROVE  SaveInv'
<1> DEFINE h == FinishGesture(history)
           c == txn.checkpoint
           count == Len(h.undo) - Len(c.undo)
<1>1. /\ txn # None /\ txn' = None /\ doc' = doc /\ UNCHANGED <<name, save_vars, fits>>
      /\ history' = IF count < 2 THEN h ELSE SquashRecent(h, count)
  BY DEF TransactionSucceeds, TargetLength
<1>2. /\ history \in Histories /\ Numbered(history) /\ history' \in Histories
      /\ c \in Histories /\ c.next <= history.next /\ Fresh(history, c)
      /\ c.saved = history.saved
  BY <1>1, InvariantSays, CheckpointSays DEF HistoryInv, TypeOK
<1>3. /\ h \in Histories /\ Numbered(h) /\ h.saved = history.saved
      /\ h.generation = history.generation
      /\ Len(h.undo) > Len(c.undo) => h.redo = <<>>
  <2>1. /\ h \in Histories /\ Numbered(h) /\ h.saved = history.saved
        /\ h.generation = history.generation
    BY <1>2, FinishKeeps
  <2>2. Len(h.undo) > Len(c.undo) => h.redo = <<>>
    BY <1>1, NothingToRedo
  <2>3. QED
    BY <2>1, <2>2
<1>4. Continues(history, doc, h, doc) /\ Fresh(h, c)
  BY <1>2, FinishContinues
<1> HIDE DEF h
<1>5. CASE count < 2
  BY <1>1, <1>2, <1>3, <1>4, <1>5, ContinuedSaves
<1>6. CASE ~(count < 2)
  <2>1. /\ h.undo \in Seq(Entries) /\ c.undo \in Seq(Entries) /\ c.next \in Nat
        /\ h.saved \in Nat \cup {None}
    BY <1>2, <1>3 DEF Histories
  <2>2. /\ count \in 2 .. Len(h.undo) /\ Len(h.undo) > Len(c.undo)
        /\ Len(h.undo) - count = Len(c.undo)
    <3>1. Len(h.undo) \in Nat /\ Len(c.undo) \in Nat
      BY <2>1
    <3>2. \A m, n \in Nat : ~(m - n < 2) => m - n \in 2 .. m /\ m > n /\ m - (m - n) = n
      OBVIOUS
    <3>3. QED
      BY <1>6, <3>1, <3>2, Zenon
  <2>3. history' = SquashRecent(h, count)
    BY <1>1, <1>6
  <2> HIDE DEF count
  <2>4. /\ history'.generation = h.generation
        /\ history'.saved # h.saved =>
              history'.saved = None /\ \E i \in DOMAIN h.undo : i > Len(h.undo) - count /\ h.saved = h.undo[i].after
    BY <1>3, <2>2, <2>3, SquashKeeps
  <2>5. Continues(history, doc, history', doc)
    <3>1. Continues(h, doc, history', doc)
      BY <1>3, <2>2, <2>3, SquashContinues
    <3>2. QED
      BY <1>2, <1>3, <1>4, <3>1, ContinuesOn
  <2>6. ASSUME history'.saved # history.saved, fits PROVE Landed # {}
    <3>1. PICK i \in DOMAIN h.undo : i > Len(c.undo) /\ h.saved = h.undo[i].after
      BY <1>3, <2>2, <2>4, <2>6
    <3>2. h.undo[i].after >= c.next
      BY <1>4, <3>1 DEF Fresh
    <3>3. h.saved \in Nat /\ h.saved # None
      <4>1. h.undo[i] \in Entries
        BY <2>1
      <4>2. QED
        BY <3>1, <4>1, NoneAssumption DEF Entries
    <3>4. ASSUME Landed = {} PROVE FALSE
      <4>1. SavedAs(h.saved, disk[name])
        BY <1>3, <3>3, <3>4 DEF SavedAs
      <4>2. Means(c, txn.doc, h.saved, disk[name])
        BY <1>1, <2>6, <3>3, <4>1 DEF SaveInv, MeaningInv
      <4>3. h.saved < c.next
        BY <4>2 DEF Means
      <4>4. QED
        BY <2>1, <3>1, <3>2, <3>3, <4>3
    <3>5. QED
      BY <3>4
  <2>7. QED
    BY <1>1, <1>2, <1>3, <2>4, <2>5, <2>6, ContinuedSaves
<1>7. QED
  BY <1>5, <1>6

LEMMA TransactionFailsSaves ==
    ASSUME HistoryInv, SaveInv, TransactionFails, HistoryInv'
    PROVE  SaveInv'
<1> DEFINE h == FinishGesture(history)
           c == txn.checkpoint
           UndoneTo(n) == IF n < Len(h.undo) THEN h.undo[n + 1].patch.before ELSE doc
           Stopped(n) == [h EXCEPT
               !.undo = SubSeq(h.undo, 1, n),
               !.redo = h.redo \o Reverse(SubSeq(h.undo, n + 1, Len(h.undo))),
               !.current = h.undo[n].after]
<1>1. /\ txn # None /\ txn' = None /\ UNCHANGED <<name, save_vars>>
      /\ \/ history' = c /\ fits' = (fits /\ doc' = txn.doc)
         \/ \E n \in (Len(c.undo) + 1) .. Len(h.undo) :
               doc' = UndoneTo(n) /\ history' = Stopped(n) /\ fits' = fits
  BY DEF TransactionFails, TargetLength
<1>2. /\ history \in Histories /\ Numbered(history) /\ history' \in Histories
      /\ c \in Histories /\ c.saved = history.saved /\ c.generation = history.generation
  BY <1>1, InvariantSays, CheckpointSays DEF HistoryInv, TypeOK
<1>3. CASE history' = c /\ fits' = (fits /\ doc' = txn.doc)
  BY <1>1, <1>2, <1>3, ContinuedSaves
<1>4. ASSUME NEW n \in (Len(c.undo) + 1) .. Len(h.undo),
             doc' = UndoneTo(n), history' = Stopped(n), fits' = fits
      PROVE  SaveInv'
  <2>1. /\ h \in Histories /\ Numbered(h) /\ h.pending = None
        /\ h.saved = history.saved /\ h.generation = history.generation
    BY <1>2, FinishKeeps
  <2>2. Continues(history, doc, h, doc)
    <3>1. history.pending = None => Continues(history, doc, h, doc)
      BY <1>2, FinishContinues
    <3>2. history.pending # None => Continues(history, doc, h, doc)
      BY <1>2, FinishContinues
    <3>3. QED
      BY <3>1, <3>2
  <2>3. n \in 1 .. Len(h.undo)
    <3>1. Len(c.undo) \in Nat /\ Len(h.undo) \in Nat
      <4>1. c.undo \in Seq(Entries) /\ h.undo \in Seq(Entries)
        BY <1>2, <2>1 DEF Histories
      <4> HIDE DEF c, h
      <4>2. QED
        BY <4>1
    <3> HIDE DEF c, h
    <3>2. QED
      BY <3>1
  <2> HIDE DEF h
  <2>4. /\ Stopped(n).saved = h.saved /\ Stopped(n).generation = h.generation
        /\ Continues(h, doc, Stopped(n), UndoneTo(n))
    BY <2>1, <2>3, RollbackContinues
  <2> HIDE DEF Stopped, UndoneTo
  <2>5. Continues(history, doc, history', doc')
    BY <1>2, <1>4, <2>1, <2>2, <2>4, ContinuesOn
  <2>6. QED
    BY <1>1, <1>2, <1>4, <2>1, <2>4, <2>5, ContinuedSaves
<1>5. QED
  BY <1>1, <1>3, <1>4

\* A save is marked with the revision of the document it writes.
LEMMA BeginSaveSaves ==
    ASSUME HistoryInv, SaveInv, NEW f \in Files \cup {None}, BeginSave(f), HistoryInv'
    PROVE  SaveInv'
<1> DEFINE job == [name |-> SaveName(f), mark |-> Mark(history'), content |-> doc]
           h == history'
<1>1. /\ txn = None /\ h = FinishGesture(history) /\ queue' = Append(queue, job)
      /\ saves' = [inFlight |-> saves.inFlight + 1, started |-> saves.started + 1,
                   pending |-> [name |-> job.name, mark |-> job.mark]]
      /\ UNCHANGED <<doc, name, disk, outcomes, txn, fits>>
  BY DEF BeginSave, StartSave
<1>2. /\ job.name = SaveName(f) /\ job.mark = Mark(h) /\ job.content = doc
      /\ job.mark = [generation |-> h.generation, revision |-> h.current]
  BY DEF Mark
<1> DEFINE Jobs == [name : Files, mark : Marks, content : Documents]
           n == Len(queue)
<1>3. /\ queue \in Seq(Jobs) /\ queue' \in Seq(Jobs) /\ n \in Nat
      /\ \A i \in 1 .. n : queue[i].mark.generation \in Nat
      /\ outcomes \in Seq([name : Files, mark : Marks, ok : BOOLEAN])
  <2>1. /\ queue \in Seq(Jobs) /\ queue' \in Seq(Jobs)
        /\ outcomes \in Seq([name : Files, mark : Marks, ok : BOOLEAN])
    BY DEF HistoryInv, TypeOK
  <2>2. \A i \in 1 .. n : queue[i] \in Jobs
    <3> HIDE DEF Jobs, job
    <3>1. QED
      BY <2>1
  <2>3. QED
    BY <2>1, <2>2 DEF Marks
<1> HIDE DEF job
<1>4. /\ queue' # <<>> /\ Len(queue') = n + 1 /\ queue'[n + 1] = job
      /\ DOMAIN queue = 1 .. n /\ DOMAIN queue' = 1 .. n + 1
      /\ \A j \in 1 .. n : queue'[j] = queue[j]
  <2>1. queue' = Append(queue, job) /\ queue \in Seq(Jobs)
    BY <1>1, <1>3
  <2> HIDE DEF Jobs
  <2>2. job \in Jobs
    <3>1. Len(queue') = n + 1 /\ queue'[n + 1] = job
      BY <2>1
    <3>2. QED
      BY <1>3, <3>1
  <2>3. QED
    BY <2>1, <2>2
<1>5. /\ history \in Histories /\ Numbered(history) /\ doc \in Documents
      /\ h \in Histories /\ Numbered(h) /\ (fits => Describes(h, doc))
      /\ h.pending = None /\ h.saved = history.saved /\ h.generation = history.generation
      /\ Continues(history, doc, h, doc)
  <2>1. history \in Histories /\ Numbered(history) /\ doc \in Documents
    BY InvariantSays
  <2>2. /\ h \in Histories /\ Numbered(h)
        /\ h.pending = None /\ h.saved = history.saved /\ h.generation = history.generation
    BY <1>1, <2>1, FinishKeeps
  <2>3. Continues(history, doc, h, doc)
    BY <1>1, <2>1, FinishContinues
  <2>4. fits => Describes(h, doc)
    BY <1>1 DEF HistoryInv
  <2>5. QED
    BY <2>1, <2>2, <2>3, <2>4
<1>6. Landed' = Landed
  BY <1>1, <1>5 DEF Landed, MarksSaved
<1>7. ASSUME NEW x, NEW y, SavedAs(x, y)'
      PROVE  SavedAs(x, y) \/ (x = h.current /\ y = doc)
  <2>1. CASE \E j \in DOMAIN queue' :
                /\ queue'[j].mark = [generation |-> h.generation, revision |-> x]
                /\ y = queue'[j].content
    <3>1. PICK j \in 1 .. n + 1 :
                /\ queue'[j].mark = [generation |-> h.generation, revision |-> x]
                /\ y = queue'[j].content
      BY <1>4, <2>1
    <3>2. CASE j = n + 1
      <4>1. job.mark = [generation |-> h.generation, revision |-> x] /\ y = doc
        BY <1>2, <1>4, <3>1, <3>2
      <4>2. job.mark.revision = x
        BY <4>1
      <4>3. x = h.current
        BY <1>2, <4>2
      <4>4. QED
        BY <4>1, <4>3
    <3>3. CASE j # n + 1
      <4>1. j \in DOMAIN queue /\ queue'[j] = queue[j]
        BY <1>3, <1>4, <3>3
      <4>2. QED
        BY <1>5, <3>1, <4>1 DEF SavedAs
    <3>4. QED
      BY <3>2, <3>3
  <2>2. CASE ~ \E j \in DOMAIN queue' :
                /\ queue'[j].mark = [generation |-> h.generation, revision |-> x]
                /\ y = queue'[j].content
    BY <1>1, <1>5, <1>6, <1>7, <2>2 DEF SavedAs
  <2>3. QED
    BY <2>1, <2>2
<1>8. MeaningInv'
  <2>1. ASSUME fits, NEW x \in Nat, NEW y, SavedAs(x, y)' PROVE Means(h, doc, x, y)
    <3>1. CASE SavedAs(x, y)
      <4>1. Means(history, doc, x, y)
        BY <2>1, <3>1 DEF SaveInv, MeaningInv
      <4>2. QED
        BY <1>5, <4>1, ContinuesMeans
    <3>2. CASE x = h.current /\ y = doc
      <4>1. SettledAt(h, doc) = doc
        BY <1>5 DEF SettledAt
      <4>2. Means(h, doc, h.current, SettledAt(h, doc))
        BY <1>5, <2>1, CurrentMeans
      <4>3. QED
        BY <3>2, <4>1, <4>2
    <3>3. QED
      BY <1>7, <2>1, <3>1, <3>2
  <2>2. QED
    BY <1>1, <2>1 DEF MeaningInv
<1>9. QueueInv'
  <2>1. saves'.inFlight = saves.inFlight + 1 /\ saves'.pending = [name |-> job.name, mark |-> job.mark]
    BY <1>1
  <2>2. saves.inFlight = n + Len(outcomes) /\ Len(outcomes) \in Nat
    BY <1>3 DEF SaveInv, QueueInv
  <2>3. (n + Len(outcomes)) + 1 = (n + 1) + Len(outcomes)
    BY <1>3, <2>2
  <2>4. QED
    BY <1>1, <1>4, <2>1, <2>2, <2>3 DEF QueueInv
<1>10. GenerationInv'
  <2>1. job.mark.generation = history.generation /\ history.generation \in Nat
    BY <1>2, <1>5 DEF Histories
  <2>2. ASSUME NEW j \in 1 .. n + 1
        PROVE  \/ j \in 1 .. n /\ queue'[j] = queue[j]
               \/ j = n + 1 /\ queue'[j].mark.generation = history.generation
    BY <1>3, <1>4, <2>1
  <2>3. history.generation <= history.generation /\ \A j \in 1 .. n : ~(n + 1 <= j)
    BY <1>3, <2>1
  <2>4. GenerationInv
    BY DEF SaveInv
  <2>5. \A j \in 1 .. n + 1 : queue'[j].mark.generation <= history.generation
    BY <1>4, <2>2, <2>3, <2>4 DEF GenerationInv
  <2>6. ASSUME NEW i \in DOMAIN outcomes, NEW j \in 1 .. n + 1
        PROVE  outcomes[i].mark.generation <= queue'[j].mark.generation
    BY <1>4, <2>2, <2>4 DEF GenerationInv
  <2>7. ASSUME NEW i \in 1 .. n + 1, NEW j \in 1 .. n + 1, i <= j
        PROVE  queue'[i].mark.generation <= queue'[j].mark.generation
    <3>1. CASE j = n + 1
      BY <1>4, <2>1, <2>5, <3>1
    <3>2. CASE j # n + 1
      <4>1. i \in 1 .. n /\ j \in 1 .. n
        BY <1>3, <2>7, <3>2
      <4>2. QED
        BY <1>4, <2>4, <2>7, <4>1 DEF GenerationInv
    <3>3. QED
      BY <3>1, <3>2
  <2>8. ASSUME NEW j \in 1 .. n + 1, history.saved # None,
               queue'[j].mark.generation # history.generation
        PROVE  queue'[j].name # name
    BY <1>4, <2>2, <2>4, <2>8 DEF GenerationInv
  <2>9. \A i \in DOMAIN outcomes : outcomes[i].mark.generation <= history.generation
    BY <2>4 DEF GenerationInv
  <2>10. QED
    BY <1>1, <1>4, <1>5, <2>5, <2>6, <2>7, <2>8, <2>9 DEF GenerationInv
<1>11. QED
  BY <1>1, <1>8, <1>9, <1>10 DEF SaveInv, SavesOutside

\* What is written last of this project is what its last outcome names.
LEMMA WriteFileSaves ==
    ASSUME HistoryInv, SaveInv, WriteFile, HistoryInv'
    PROVE  SaveInv'
<1> DEFINE Jobs == [name : Files, mark : Marks, content : Documents]
           Outcomes == [name : Files, mark : Marks, ok : BOOLEAN]
           job == Head(queue)
           n == Len(queue)
           m == Len(outcomes)
           generation == history.generation
<1>1. PICK ok \in BOOLEAN :
         /\ disk' = IF ok THEN [disk EXCEPT ![job.name] = job.content] ELSE disk
         /\ outcomes' = Append(outcomes, [name |-> job.name, mark |-> job.mark, ok |-> ok])
  BY DEF WriteFile
<1> DEFINE o == [name |-> job.name, mark |-> job.mark, ok |-> ok]
<1>2. /\ queue # <<>> /\ queue' = Tail(queue) /\ UNCHANGED <<doc, history, name, saves, txn, fits>>
  BY DEF WriteFile
<1>3. queue \in Seq(Jobs) /\ outcomes \in Seq(Outcomes) /\ disk \in [Files -> Documents \cup {None}]
  BY DEF HistoryInv, TypeOK
<1>4. job \in Jobs /\ job = queue[1] /\ 1 \in DOMAIN queue
  <2> HIDE DEF Jobs
  <2>1. QED
    BY <1>2, <1>3
<1>5. o \in Outcomes /\ o.name = job.name /\ o.mark = job.mark /\ o.ok = ok
  BY <1>4
<1> HIDE DEF Jobs, Outcomes, o
<1>6. /\ n \in Nat /\ n # 0 /\ DOMAIN queue = 1 .. n
      /\ Len(queue') = n - 1 /\ DOMAIN queue' = 1 .. n - 1
      /\ \A j \in 1 .. n - 1 : queue'[j] = queue[j + 1] /\ j + 1 \in 1 .. n
  <2>1. n \in Nat /\ n # 0 /\ DOMAIN queue = 1 .. n
    BY <1>2, <1>3
  <2>2. /\ Len(Tail(queue)) = n - 1 /\ DOMAIN Tail(queue) = 1 .. n - 1
        /\ \A j \in 1 .. n - 1 : Tail(queue)[j] = queue[j + 1]
    BY <1>2, <1>3
  <2>3. \A j \in 1 .. n - 1 : j + 1 \in 1 .. n
    BY <2>1
  <2>4. QED
    BY <1>2, <2>1, <2>2, <2>3
<1>7. /\ m \in Nat /\ DOMAIN outcomes = 1 .. m /\ Len(outcomes') = m + 1
      /\ DOMAIN outcomes' = 1 .. m + 1 /\ outcomes'[m + 1] = o /\ outcomes' # <<>>
      /\ \A i \in 1 .. m : outcomes'[i] = outcomes[i]
  <2>1. outcomes' = Append(outcomes, o)
    BY <1>1 DEF o
  <2>2. QED
    BY <1>3, <1>5, <2>1
<1> HIDE DEF n, m, job
<1>8. /\ \A j \in 1 .. n : queue[j].mark.generation \in Nat
      /\ \A i \in 1 .. m : outcomes[i].mark.generation \in Nat
      /\ generation \in Nat /\ job.mark.generation \in Nat
  <2>1. ASSUME NEW j \in 1 .. n PROVE queue[j].mark.generation \in Nat
    <3>1. queue[j] \in Jobs
      BY <1>3, <1>6
    <3>2. QED
      BY <3>1 DEF Jobs, Marks
  <2>2. ASSUME NEW i \in 1 .. m PROVE outcomes[i].mark.generation \in Nat
    <3>1. outcomes[i] \in Outcomes
      BY <1>3, <1>7
    <3>2. QED
      BY <3>1 DEF Outcomes, Marks
  <2>3. history \in Histories
    BY InvariantSays
  <2>4. QED
    BY <1>4, <2>1, <2>2, <2>3 DEF Jobs, Marks, Histories
<1>9. GenerationInv /\ QueueInv
  BY DEF SaveInv
<1>10. Landed = {i \in 1 .. m : outcomes[i].ok /\ outcomes[i].mark.generation = generation}
  BY <1>7 DEF Landed, MarksSaved
<1>11. Landed' = {i \in 1 .. m + 1 : outcomes'[i].ok /\ outcomes'[i].mark.generation = generation}
  BY <1>2, <1>7 DEF Landed, MarksSaved
<1>12. ASSUME NEW x, NEW y, SavedAs(x, y)' PROVE SavedAs(x, y)
  <2>1. CASE \E j \in DOMAIN queue' :
                /\ queue'[j].mark = [generation |-> generation, revision |-> x]
                /\ y = queue'[j].content
    <3>1. PICK j \in 1 .. n - 1 : /\ queue'[j].mark = [generation |-> generation, revision |-> x]
                                  /\ y = queue'[j].content
      BY <1>6, <2>1
    <3>2. j + 1 \in DOMAIN queue /\ queue'[j] = queue[j + 1]
      BY <1>6, <3>1
    <3>3. QED
      BY <3>1, <3>2 DEF SavedAs
  <2>2. CASE ok /\ job.mark.generation = generation
    <3>1. m + 1 \in Landed' /\ \A i \in Landed' : m + 1 <= i => i = m + 1
      <4>1. m + 1 \in 1 .. m + 1 /\ \A i \in 1 .. m + 1 : m + 1 <= i => i = m + 1
        BY <1>7
      <4>2. outcomes'[m + 1].ok /\ outcomes'[m + 1].mark.generation = generation
        BY <1>5, <1>7, <2>2
      <4>3. QED
        BY <1>11, <4>1, <4>2
    <3>2. CASE \E i \in Landed' :
                  /\ \A j \in Landed' : j <= i
                  /\ x = outcomes'[i].mark.revision /\ y = disk'[outcomes'[i].name]
      <4>1. x = o.mark.revision /\ y = disk'[o.name]
        BY <1>7, <3>1, <3>2
      <4>2. disk' = [disk EXCEPT ![job.name] = job.content] /\ job.name \in Files
        BY <1>1, <1>4, <2>2 DEF Jobs
      <4>3. x = job.mark.revision /\ y = job.content
        BY <1>3, <1>5, <4>1, <4>2
      <4>4. job.mark = [generation |-> generation, revision |-> x]
        BY <1>4, <2>2, <4>3 DEF Jobs, Marks
      <4>5. QED
        BY <1>4, <4>3, <4>4 DEF SavedAs
    <3>3. Landed' # {}
      BY <3>1
    <3>4. QED
      BY <1>2, <1>12, <2>1, <3>2, <3>3 DEF SavedAs
  <2>3. CASE ok /\ job.mark.generation # generation
    <3>1. job.mark.generation < generation
      BY <1>4, <1>8, <1>9, <2>3 DEF GenerationInv
    <3>2. \A i \in 1 .. m : outcomes[i].mark.generation # generation
      <4>1. ASSUME NEW i \in 1 .. m PROVE outcomes[i].mark.generation # generation
        <5>1. outcomes[i].mark.generation <= job.mark.generation
          BY <1>4, <1>7, <1>9 DEF GenerationInv
        <5>2. QED
          BY <1>8, <3>1, <5>1
      <4>2. QED
        BY <4>1
    <3>3. Landed = {} /\ Landed' = {}
      <4>1. Landed = {}
        BY <1>10, <3>2
      <4>2. ASSUME NEW i \in 1 .. m + 1 PROVE outcomes'[i].mark.generation # generation
        <5>1. i \in 1 .. m \/ i = m + 1
          BY <1>7
        <5>2. QED
          BY <1>5, <1>7, <2>3, <3>2, <5>1
      <4>3. QED
        BY <1>11, <4>1, <4>2
    <3>4. history.saved # None => disk'[name] = disk[name]
      <4>1. history.saved # None => job.name # name
        BY <1>4, <1>9, <2>3 DEF GenerationInv
      <4>2. QED
        BY <1>1, <1>3, <2>3, <4>1
    <3>5. QED
      BY <1>2, <1>12, <2>1, <3>3, <3>4 DEF SavedAs
  <2>4. CASE ~ok
    <3>1. Landed' = Landed /\ disk' = disk
      <4>1. \A i \in 1 .. m + 1 : i \in 1 .. m \/ i = m + 1
        BY <1>7
      <4>2. 1 .. m \subseteq 1 .. m + 1
        BY <1>7
      <4>3. Landed' = Landed
        BY <1>5, <1>7, <1>10, <1>11, <2>4, <4>1, <4>2
      <4>4. QED
        BY <1>1, <2>4, <4>3
    <3>2. \A i \in Landed : outcomes'[i] = outcomes[i]
      BY <1>7, <1>10
    <3>3. QED
      BY <1>2, <1>12, <2>1, <3>1, <3>2 DEF SavedAs
  <2>5. QED
    BY <2>2, <2>3, <2>4
<1>13. MeaningInv'
  BY <1>2, <1>12 DEF SaveInv, MeaningInv
<1>14. QueueInv'
  <2>1. saves.inFlight = n + m
    BY <1>9 DEF QueueInv, n, m
  <2>2. (n - 1) + (m + 1) = n + m
    BY <1>6, <1>7
  <2>3. ASSUME saves.pending # None
        PROVE  saves.pending = [name |-> queue[n].name, mark |-> queue[n].mark]
    BY <1>2, <1>9, <2>3 DEF QueueInv, n
  <2>4. CASE queue' = <<>>
    <3>1. n = 1
      <4>1. Len(queue') = 0
        BY <2>4
      <4>2. QED
        BY <1>6, <4>1
    <3>2. saves.pending # None =>
             saves.pending = [name |-> outcomes'[m + 1].name, mark |-> outcomes'[m + 1].mark]
      BY <1>4, <1>5, <1>7, <2>3, <3>1
    <3>3. QED
      BY <1>2, <1>6, <1>7, <2>1, <2>2, <2>4, <3>2 DEF QueueInv
  <2>5. CASE queue' # <<>>
    <3>1. n - 1 \in 1 .. n - 1 /\ (n - 1) + 1 = n
      <4>1. Tail(queue) \in Seq(Jobs)
        BY <1>2, <1>3
      <4>2. Len(queue') # 0
        BY <1>2, <2>5, <4>1
      <4>3. QED
        BY <1>6, <4>2
    <3>2. queue'[n - 1] = queue[n]
      BY <1>6, <3>1
    <3>3. QED
      BY <1>2, <1>6, <1>7, <2>1, <2>2, <2>3, <2>5, <3>2 DEF QueueInv
  <2>6. QED
    BY <2>4, <2>5
<1>15. GenerationInv'
  <2>1. \A j \in 1 .. n - 1 : /\ queue'[j].mark.generation <= generation
                              /\ job.mark.generation <= queue'[j].mark.generation
                              /\ generation # queue'[j].mark.generation /\ history.saved # None
                                    => queue'[j].name # name
    <3>1. \A j \in 1 .. n - 1 : queue'[j] = queue[j + 1] /\ j + 1 \in DOMAIN queue /\ 1 <= j + 1
      BY <1>6
    <3>2. QED
      BY <1>4, <1>9, <3>1 DEF GenerationInv
  <2>2. ASSUME NEW i \in 1 .. n - 1, NEW j \in 1 .. n - 1, i <= j
        PROVE  queue'[i].mark.generation <= queue'[j].mark.generation
    <3>1. /\ queue'[i] = queue[i + 1] /\ queue'[j] = queue[j + 1]
          /\ i + 1 \in DOMAIN queue /\ j + 1 \in DOMAIN queue
      BY <1>6
    <3>2. i + 1 <= j + 1
      BY <1>6, <2>2
    <3>3. QED
      BY <1>9, <3>1, <3>2 DEF GenerationInv
  <2>3. ASSUME NEW i \in 1 .. m + 1
        PROVE  /\ outcomes'[i].mark.generation <= generation
               /\ \A j \in 1 .. n - 1 : outcomes'[i].mark.generation <= queue'[j].mark.generation
    <3>1. CASE i = m + 1
      BY <1>4, <1>5, <1>7, <1>9, <2>1, <3>1 DEF GenerationInv
    <3>2. CASE i # m + 1
      <4>1. i \in DOMAIN outcomes /\ outcomes'[i] = outcomes[i]
        BY <1>7, <3>2
      <4>2. \A j \in 1 .. n - 1 : queue'[j] = queue[j + 1] /\ j + 1 \in DOMAIN queue
        BY <1>6
      <4>3. QED
        BY <1>9, <4>1, <4>2 DEF GenerationInv
    <3>3. QED
      BY <3>1, <3>2
  <2>4. QED
    BY <1>2, <1>6, <1>7, <2>1, <2>2, <2>3 DEF GenerationInv
<1>16. SavesOutside'
  BY <1>2 DEF SaveInv, SavesOutside
<1>17. QED
  BY <1>13, <1>14, <1>15, <1>16 DEF SaveInv

LEMMA MarksTyped ==
    ASSUME HistoryInv
    PROVE  /\ \A j \in DOMAIN queue :
                 queue[j].mark.generation \in Nat /\ queue[j].mark.revision \in Nat
           /\ \A i \in DOMAIN outcomes :
                 outcomes[i].mark.generation \in Nat /\ outcomes[i].mark.revision \in Nat
<1> DEFINE Jobs == [name : Files, mark : Marks, content : Documents]
           Outcomes == [name : Files, mark : Marks, ok : BOOLEAN]
<1>1. queue \in Seq(Jobs) /\ outcomes \in Seq(Outcomes)
  BY DEF HistoryInv, TypeOK
<1> HIDE DEF Jobs, Outcomes
<1>2. /\ \A j \in DOMAIN queue : queue[j] \in Jobs
      /\ \A i \in DOMAIN outcomes : outcomes[i] \in Outcomes
  BY <1>1
<1>3. /\ \A j \in Jobs : j.mark.generation \in Nat /\ j.mark.revision \in Nat
      /\ \A o \in Outcomes : o.mark.generation \in Nat /\ o.mark.revision \in Nat
  BY DEF Jobs, Outcomes, Marks
<1>4. QED
  BY <1>2, <1>3

\* What landed last becomes the name and the saved revision.
LEMMA ApplyOutcomesSaves ==
    ASSUME HistoryInv, SaveInv, ApplyOutcomes, HistoryInv'
    PROVE  SaveInv'
<1> DEFINE n == Len(queue)
           m == Len(outcomes)
           left == IF saves.inFlight > m THEN saves.inFlight - m ELSE 0
           landed == {i \in DOMAIN outcomes : MarksSaved(outcomes[i])}
<1>1. /\ txn = None /\ outcomes' = <<>> /\ UNCHANGED <<doc, disk, queue, txn, fits>>
      /\ saves' = [saves EXCEPT !.inFlight = left, !.pending = IF left = 0 THEN None ELSE @]
      /\ \/ landed = {} /\ UNCHANGED <<history, name>>
         \/ \E i \in landed :
               /\ \A j \in landed : j <= i
               /\ history' = [history EXCEPT !.saved = outcomes[i].mark.revision]
               /\ name' = outcomes[i].name
  BY DEF ApplyOutcomes
<1>2. landed = Landed
  BY DEF Landed
<1>3. /\ history \in Histories /\ history' \in Histories /\ history.next \in Nat
      /\ outcomes \in Seq([name : Files, mark : Marks, ok : BOOLEAN])
      /\ queue \in Seq([name : Files, mark : Marks, content : Documents])
      /\ saves \in [inFlight : Nat, started : Nat, pending : [name : Files, mark : Marks] \cup {None}]
  BY InvariantSays DEF HistoryInv, TypeOK, Histories
<1>4. n \in Nat /\ m \in Nat /\ (n = 0 <=> queue = <<>>)
  <2>1. n \in Nat /\ m \in Nat
    BY <1>3
  <2>2. n = 0 => queue = <<>>
    BY <1>3
  <2>3. queue = <<>> => n = 0
    OBVIOUS
  <2>4. QED
    BY <2>1, <2>2, <2>3
<1>5. /\ history'.undo = history.undo /\ history'.redo = history.redo
      /\ history'.current = history.current /\ history'.next = history.next
      /\ history'.pending = history.pending /\ history'.generation = history.generation
  BY <1>1, <1>3 DEF Histories
<1>6. Landed' = {}
  <2>1. DOMAIN outcomes' = {}
    BY <1>1
  <2>2. QED
    BY <2>1 DEF Landed
<1> HIDE DEF n, m, landed
<1>7. ASSUME NEW x, NEW y, SavedAs(x, y)' PROVE SavedAs(x, y)
  <2>1. CASE \E j \in DOMAIN queue :
                /\ queue[j].mark = [generation |-> history.generation, revision |-> x]
                /\ y = queue[j].content
    BY <2>1 DEF SavedAs
  <2>2. CASE landed = {} /\ UNCHANGED <<history, name>>
    BY <1>1, <1>2, <1>6, <1>7, <2>2 DEF SavedAs
  <2>3. ASSUME NEW i \in landed, \A j \in landed : j <= i,
               history' = [history EXCEPT !.saved = outcomes[i].mark.revision],
               name' = outcomes[i].name
        PROVE  SavedAs(x, y)
    <3>1. history'.saved = outcomes[i].mark.revision /\ history'.saved # None
      <4>1. i \in DOMAIN outcomes
        BY <1>2 DEF Landed
      <4>2. outcomes[i].mark.revision \in Nat
        BY <4>1, MarksTyped
      <4>3. QED
        BY <1>3, <2>3, <4>2, NoneAssumption DEF Histories
    <3>2. CASE x = history'.saved /\ y = disk'[name']
      BY <1>1, <1>2, <2>3, <3>1, <3>2 DEF SavedAs
    <3>3. QED
      BY <1>1, <1>5, <1>6, <1>7, <2>1, <3>1, <3>2 DEF SavedAs
  <2>4. QED
    BY <1>1, <2>2, <2>3
<1>8. ASSUME NEW x, NEW y, Means(history, doc, x, y) PROVE Means(history', doc', x, y)
  <2>1. \A z : Knows(history', doc', x, z) => Knows(history, doc, x, z)
    BY <1>1, <1>5 DEF Knows, SettledAt
  <2>2. QED
    BY <1>5, <1>8, <2>1 DEF Means
<1>9. MeaningInv'
  BY <1>1, <1>7, <1>8 DEF SaveInv, MeaningInv
<1>10. QueueInv'
  <2>1. /\ saves.inFlight = n + m
        /\ saves.pending # None /\ queue # <<>> =>
              saves.pending = [name |-> queue[n].name, mark |-> queue[n].mark]
    BY DEF SaveInv, QueueInv, n, m
  <2>2. left = n
    BY <1>4, <2>1
  <2> HIDE DEF left
  <2>3. saves'.inFlight = n /\ saves'.pending = IF n = 0 THEN None ELSE saves.pending
    BY <1>1, <1>3, <2>2
  <2>4. n + Len(outcomes') = n
    <3>1. Len(outcomes') = 0
      BY <1>1
    <3>2. QED
      BY <1>4, <3>1
  <2>5. QED
    BY <1>1, <1>4, <2>1, <2>3, <2>4 DEF QueueInv, n
<1>11. GenerationInv'
  <2>1. GenerationInv /\ DOMAIN outcomes' = {}
    BY <1>1 DEF SaveInv
  <2>2. CASE landed = {} /\ UNCHANGED <<history, name>>
    BY <1>1, <2>1, <2>2 DEF GenerationInv
  <2>3. ASSUME NEW i \in landed PROVE \A j \in DOMAIN queue : queue[j].mark.generation = history.generation
    <3>1. i \in DOMAIN outcomes /\ outcomes[i].mark.generation = history.generation
      BY <1>2 DEF Landed, MarksSaved
    <3>2. ASSUME NEW j \in DOMAIN queue PROVE queue[j].mark.generation = history.generation
      <4>1. queue[j].mark.generation \in Nat /\ history.generation \in Nat
        BY <1>3, MarksTyped DEF Histories
      <4>2. /\ history.generation <= queue[j].mark.generation
            /\ queue[j].mark.generation <= history.generation
        BY <2>1, <3>1 DEF GenerationInv
      <4>3. QED
        BY <4>1, <4>2
    <3>3. QED
      BY <3>2
  <2>4. CASE \E i \in landed : TRUE
    BY <1>1, <1>5, <2>1, <2>3, <2>4 DEF GenerationInv
  <2>5. QED
    BY <1>1, <2>2, <2>4
<1>12. QED
  BY <1>1, <1>9, <1>10, <1>11 DEF SaveInv, SavesOutside

\* A project just opened or made is saved as it is; what is left of the saves
\* of older ones is not of it.
LEMMA ProjectSaves ==
    ASSUME HistoryInv, SaveInv, NewProject \/ \E f \in Files : OpenProject(f), HistoryInv'
    PROVE  SaveInv'
<1> DEFINE fresh(saved) == [NewHistory(history.generation + 1) EXCEPT !.saved = saved]
<1>1. /\ txn = None /\ UNCHANGED <<save_vars, txn>>
      /\ \/ doc' = Blank /\ history' = fresh(None)
         \/ /\ doc' = disk[name'] /\ history' = fresh(0)
            /\ \A j \in DOMAIN queue : queue[j].name # name'
  <2>1. CASE NewProject
    <3>1. history' = NewHistory(history.generation + 1)
      BY <2>1 DEF NewProject
    <3>2. NewHistory(history.generation + 1) = fresh(None)
      BY DEF NewHistory
    <3>3. QED
      BY <2>1, <3>1, <3>2 DEF NewProject
  <2>2. CASE \E f \in Files : OpenProject(f)
    BY <2>2 DEF OpenProject
  <2>3. QED
    BY <2>1, <2>2
<1>2. /\ history'.undo = <<>> /\ history'.redo = <<>> /\ history'.current = 0 /\ history'.next = 1
      /\ history'.pending = None /\ history'.generation = history.generation + 1
      /\ \/ history'.saved = None /\ doc' = Blank
         \/ /\ history'.saved = 0 /\ doc' = disk[name']
            /\ \A j \in DOMAIN queue : queue[j].name # name'
  BY <1>1 DEF NewHistory
<1>3. history.generation \in Nat /\ None \notin Nat
  BY InvariantSays, NoneAssumption DEF Histories
<1>4. /\ \A j \in DOMAIN queue : queue[j].mark.generation \in Nat
      /\ \A i \in DOMAIN outcomes : outcomes[i].mark.generation \in Nat
  BY MarksTyped
<1> HIDE DEF fresh
<1>5. /\ \A j \in DOMAIN queue : /\ queue[j].mark.generation <= history'.generation
                                 /\ queue[j].mark.generation # history'.generation
      /\ \A i \in DOMAIN outcomes : /\ outcomes[i].mark.generation <= history'.generation
                                    /\ outcomes[i].mark.generation # history'.generation
  <2>1. \A g \in Nat : g <= history.generation =>
           g <= history.generation + 1 /\ g # history.generation + 1
    BY <1>3
  <2>2. /\ \A j \in DOMAIN queue : queue[j].mark.generation <= history.generation
        /\ \A i \in DOMAIN outcomes : outcomes[i].mark.generation <= history.generation
    BY DEF SaveInv, GenerationInv
  <2>3. QED
    BY <1>2, <1>4, <2>1, <2>2
<1>6. Landed' = {}
  BY <1>1, <1>5 DEF Landed, MarksSaved, save_vars
<1>7. ASSUME NEW x, NEW y, SavedAs(x, y)' PROVE x = 0 /\ y = doc'
  <2>1. ~ \E j \in DOMAIN queue : queue[j].mark = [generation |-> history'.generation, revision |-> x]
    BY <1>5
  <2>2. QED
    BY <1>1, <1>2, <1>3, <1>6, <1>7, <2>1 DEF SavedAs, save_vars
<1>8. Means(history', doc', 0, doc')
  BY <1>2 DEF Means, Knows, SettledAt
<1>9. MeaningInv'
  BY <1>1, <1>7, <1>8 DEF MeaningInv
<1>10. QueueInv' /\ GenerationInv' /\ SavesOutside'
  <2>1. QueueInv' /\ SavesOutside'
    BY <1>1 DEF SaveInv, QueueInv, SavesOutside, save_vars
  <2>2. GenerationInv'
    BY <1>1, <1>2, <1>5 DEF SaveInv, GenerationInv, save_vars
  <2>3. QED
    BY <2>1, <2>2
<1>11. QED
  BY <1>9, <1>10 DEF SaveInv

LEMMA SavesInitially == Init => SaveInv
<1> SUFFICES ASSUME Init PROVE SaveInv
  OBVIOUS
<1>1. /\ doc = Blank /\ history = NewHistory(0) /\ queue = <<>> /\ outcomes = <<>> /\ txn = None
      /\ saves = [inFlight |-> 0, pending |-> None, started |-> 0]
  BY DEF Init
<1>2. /\ history.undo = <<>> /\ history.redo = <<>> /\ history.current = 0 /\ history.next = 1
      /\ history.pending = None /\ history.saved = None
  BY <1>1 DEF NewHistory
<1>3. DOMAIN queue = {} /\ DOMAIN outcomes = {} /\ Landed = {}
  <2>1. DOMAIN queue = {} /\ DOMAIN outcomes = {}
    BY <1>1
  <2>2. QED
    BY <2>1 DEF Landed
<1>4. Means(history, doc, 0, Blank)
  BY <1>1, <1>2 DEF Means, Knows, SettledAt
<1>5. MeaningInv
  BY <1>1, <1>2, <1>3, <1>4 DEF MeaningInv, SavedAs
<1>6. QueueInv
  <2>1. Len(queue) = 0 /\ Len(outcomes) = 0
    BY <1>1
  <2>2. QED
    BY <1>1, <2>1 DEF QueueInv
<1>7. GenerationInv /\ SavesOutside
  BY <1>1, <1>3 DEF GenerationInv, SavesOutside
<1>8. QED
  BY <1>5, <1>6, <1>7 DEF SaveInv

LEMMA SavesStep == HistoryInv /\ SaveInv /\ [Next]_vars /\ HistoryInv' => SaveInv'
<1> SUFFICES ASSUME HistoryInv, SaveInv, [Next]_vars, HistoryInv' PROVE SaveInv'
  OBVIOUS
<1>1. ASSUME NEW p \in Params, NEW v \in Values, Change(p, v) PROVE SaveInv'
  BY <1>1, EditSaves, DragSaves, EditBesideSaves, BarrierEditSaves DEF Change
<1>2. CASE FinishActiveGesture \/ CancelActiveGesture \/ Undo \/ Redo
  BY <1>2, GestureEndsSaves, ReplaySaves
<1>3. CASE TransactionBegin \/ TransactionSucceeds \/ TransactionFails
  BY <1>3, TransactionBeginSaves, TransactionSucceedsSaves, TransactionFailsSaves
<1>4. ASSUME NEW f \in Files \cup {None}, BeginSave(f) PROVE SaveInv'
  BY <1>4, BeginSaveSaves
<1>5. CASE WriteFile \/ ApplyOutcomes
  BY <1>5, WriteFileSaves, ApplyOutcomesSaves
<1>6. CASE NewProject \/ \E f \in Files : OpenProject(f)
  BY <1>6, ProjectSaves
<1>7. CASE UNCHANGED vars
  <2>1. Landed' = Landed
    BY <1>7 DEF Landed, MarksSaved, vars, save_vars
  <2>2. \A x, y : SavedAs(x, y)' <=> SavedAs(x, y)
    BY <1>7, <2>1 DEF SavedAs, vars, save_vars
  <2>3. MeaningInv'
    BY <1>7, <2>2 DEF SaveInv, MeaningInv, vars
  <2>4. QueueInv' /\ GenerationInv' /\ SavesOutside'
    BY <1>7 DEF SaveInv, QueueInv, GenerationInv, SavesOutside, vars, save_vars
  <2>5. QED
    BY <2>3, <2>4 DEF SaveInv
<1>8. QED
  BY <1>1, <1>2, <1>3, <1>4, <1>5, <1>6, <1>7 DEF Next

LEMMA SavesAreKept ==
    ASSUME HistoryInv, SaveInv
    PROVE  CleanMeansSaved
<1>1. /\ history \in Histories /\ doc \in Documents /\ history.current \in Nat
      /\ history.pending = None => SettledAt(history, doc) = doc
  BY InvariantSays DEF Histories, SettledAt
<1>2. ASSUME fits, history.pending = None, NEW y, SavedAs(history.current, y) PROVE doc = y
  <2>1. Means(history, doc, history.current, y)
    BY <1>1, <1>2 DEF SaveInv, MeaningInv
  <2>2. Knows(history, doc, history.current, doc)
    BY <1>1, <1>2 DEF Knows
  <2>3. QED
    BY <1>1, <2>1, <2>2 DEF Means
<1> DEFINE Jobs == [name : Files, mark : Marks, content : Documents]
           Outcomes == [name : Files, mark : Marks, ok : BOOLEAN]
<1>3. queue \in Seq(Jobs) /\ outcomes \in Seq(Outcomes)
  BY DEF HistoryInv, TypeOK
<1> HIDE DEF Jobs, Outcomes
<1>4. /\ Len(queue) \in Nat /\ Len(outcomes) \in Nat
      /\ queue # <<>> => Len(queue) # 0 /\ Len(queue) \in DOMAIN queue
      /\ outcomes # <<>> => /\ Len(outcomes) # 0 /\ Len(outcomes) \in DOMAIN outcomes
                            /\ \A i \in DOMAIN outcomes : i <= Len(outcomes)
  BY <1>3
<1>5. CleanMeansNothingToLose
  <2>1. SUFFICES ASSUME fits, saves.inFlight = 0, ~Unsaved,
                        history.saved = None => history.pending = None
                 PROVE  doc = IF history.saved = None THEN Blank ELSE disk[name]
    BY DEF CleanMeansNothingToLose
  <2>2. queue = <<>> /\ outcomes = <<>>
    <3>1. Len(queue) + Len(outcomes) = 0
      BY <2>1 DEF SaveInv, QueueInv
    <3>2. QED
      BY <1>4, <3>1
  <2>3. saves.pending = None
    BY <2>2 DEF SaveInv, QueueInv
  <2>4. Landed = {}
    <3>1. DOMAIN outcomes = {}
      BY <2>2
    <3>2. QED
      BY <3>1 DEF Landed
  <2>5. CASE history.saved = None
    <3>1. history.pending = None /\ history.current = 0
      <4>1. history.current # None
        BY <1>1, NoneAssumption
      <4>2. QED
        BY <2>1, <2>3, <2>5, <4>1 DEF Unsaved, HasUnsavedChanges
    <3>2. SavedAs(history.current, Blank)
      BY <2>4, <2>5, <3>1 DEF SavedAs
    <3>3. QED
      BY <1>2, <2>1, <2>5, <3>1, <3>2
  <2>6. CASE history.saved # None
    <3>1. history.pending = None /\ history.current = history.saved
      BY <2>1, <2>3, <2>6 DEF Unsaved, HasUnsavedChanges
    <3>2. SavedAs(history.current, disk[name])
      BY <2>4, <2>6, <3>1 DEF SavedAs
    <3>3. QED
      BY <1>2, <2>1, <2>6, <3>1, <3>2
  <2>7. QED
    BY <2>5, <2>6
<1>6. BeingSavedIsThisDocument
  <2>1. SUFFICES ASSUME fits, saves.pending # None, IsAt(history, saves.pending.mark)
                 PROVE  IF queue # <<>>
                        THEN Last(queue).content = doc /\ Last(queue).name = saves.pending.name
                        ELSE Last(outcomes).ok => disk[saves.pending.name] = doc
    BY DEF BeingSavedIsThisDocument
  <2>2. /\ history.pending = None
        /\ saves.pending.mark = [generation |-> history.generation, revision |-> history.current]
    BY <2>1 DEF IsAt, Mark
  <2>3. /\ Last(queue) = queue[Len(queue)] /\ Last(outcomes) = outcomes[Len(outcomes)]
    BY DEF Last
  <2>4. \/ /\ queue # <<>>
           /\ saves.pending.name = queue[Len(queue)].name
           /\ saves.pending.mark = queue[Len(queue)].mark
        \/ /\ queue = <<>> /\ outcomes # <<>>
           /\ saves.pending.name = outcomes[Len(outcomes)].name
           /\ saves.pending.mark = outcomes[Len(outcomes)].mark
    BY <2>1 DEF SaveInv, QueueInv
  <2>5. CASE queue # <<>>
    <3>1. SavedAs(history.current, queue[Len(queue)].content)
      BY <1>4, <2>2, <2>4, <2>5 DEF SavedAs
    <3>2. QED
      BY <1>2, <2>1, <2>2, <2>3, <2>4, <2>5, <3>1
  <2>6. CASE queue = <<>> /\ outcomes[Len(outcomes)].ok
    <3>1. Len(outcomes) \in Landed /\ \A i \in Landed : i <= Len(outcomes)
      BY <1>4, <2>2, <2>4, <2>6 DEF Landed, MarksSaved
    <3>2. outcomes[Len(outcomes)].mark.revision = history.current
      BY <2>2, <2>4, <2>6
    <3>3. SavedAs(history.current, disk[saves.pending.name])
      BY <2>4, <2>6, <3>1, <3>2 DEF SavedAs
    <3>4. QED
      BY <1>2, <2>1, <2>2, <2>6, <3>3
  <2>7. QED
    BY <2>3, <2>5, <2>6
<1>7. QED
  BY <1>5, <1>6 DEF CleanMeansSaved

\* A project that is shown as saved is on disk as it is open, or its own save is
\* on the way there: whatever is undone, squashed or rolled back between the
\* start of a save and its outcome, in whatever project is open by then.
THEOREM SavedIsKept == Spec => []CleanMeansSaved
<1>1. SaveInv /\ HistoryInv => CleanMeansSaved
  BY SavesAreKept
<1>2. QED
  BY <1>1, HistoryInvariance, SavesInitially, SavesStep, PTL DEF Spec
=============================================================================
