------------------------- MODULE SharedClocks_proofs -------------------------
(***************************************************************************)
(* Proofs about SharedClocks, for any number of blocks, stops and tries.   *)
(***************************************************************************)
EXTENDS SharedClocks, SequenceTheorems, TLAPS

\* A message is known to whoever acquires it.
Known(m) == \A l \in Locs : \A i \in 1 .. Len(m.mem[l]) : m.mem[l][i].view[l] >= i

Typed == [mem : [Locs -> Seq(Message)], views : [Threads -> ThreadViews]]
Memories == {m \in Typed : Known(m)}

\* w is at least as far along as v.
Beyond(w, v) == \A l \in Locs : w[l] >= v[l]

\* From m to r, thread t only learns, and the other threads know what they knew.
Learns(m, r, t) ==
    /\ r \in Memories
    /\ \A u \in Threads \ {t} : r.views[u] = m.views[u]
    /\ Beyond(r.views[t].seen, m.views[t].seen)
    /\ Beyond(r.views[t].acquirable, m.views[t].acquirable)
    /\ Beyond(m.views[t].acquirable, m.views[t].seen)
          => Beyond(r.views[t].acquirable, r.views[t].seen)

\* r is m after a store by t of a message that releases at least `released`.
Stored(m, r, t, l, val, released) ==
    LET n == Len(m.mem[l]) + 1 IN
    /\ Learns(m, r, t)
    /\ Len(r.mem[l]) = n
    /\ \A i \in 1 .. n - 1 : r.mem[l][i] = m.mem[l][i]
    /\ r.mem[l][n].val = val /\ Beyond(r.mem[l][n].view, released)
    /\ \A k \in Locs \ {l} : r.mem[k] = m.mem[k]
    /\ r.views[t].seen[l] >= n

\* r is m after a load by t of the i-th message of l.
Loaded(m, r, t, l, i) ==
    /\ Learns(m, r, t)
    /\ r.mem = m.mem
    /\ r.views[t].released = m.views[t].released
    /\ r.views[t].seen[l] >= i
    /\ Beyond(r.views[t].acquirable, m.mem[l][i].view)

-----------------------------------------------------------------------------
(***************************************************************************)
(* Lemmas about the memory.                                                *)
(***************************************************************************)
\* A join is a view and beyond both.
LEMMA JoinBeyond ==
    ASSUME NEW v \in View, NEW w \in View
    PROVE  /\ Join(v, w) \in View
           /\ Beyond(Join(v, w), v) /\ Beyond(Join(v, w), w)
           /\ \A u \in View : Beyond(u, v) /\ Beyond(u, w) => Beyond(u, Join(v, w))
BY DEF Join, Larger, View, Beyond

\* The order of views.
LEMMA BeyondOrder ==
    /\ \A v \in View : Beyond(v, v)
    /\ \A v, w, x \in View : Beyond(w, v) /\ Beyond(x, w) => Beyond(x, v)
BY DEF Beyond, View

\* The view of a message of one location.
LEMMA AtView ==
    ASSUME NEW l \in Locs, NEW n \in Nat \ {0}
    PROVE  /\ Bottom \in View /\ [Bottom EXCEPT ![l] = n] \in View
           /\ [Bottom EXCEPT ![l] = n][l] = n
BY DEF Bottom, View

\* Joins keep the order of two views.
LEMMA JoinMonotonic ==
    ASSUME NEW v \in View, NEW w \in View, NEW x \in View, Beyond(w, v)
    PROVE  Beyond(Join(w, x), Join(v, x))
BY DEF Join, Larger, View, Beyond

LEMMA PutStores ==
    ASSUME NEW m \in Memories, NEW t \in Threads, NEW l \in Locs, NEW val \in Nat,
           NEW released \in View
    PROVE  /\ Stored(m, Put(m, t, l, val, released), t, l, val, released)
           /\ Put(m, t, l, val, released).views[t].released = m.views[t].released
<1> DEFINE n == Len(m.mem[l]) + 1
           at == [Bottom EXCEPT ![l] = n]
           message == [val |-> val, view |-> Join(released, at)]
           r == Put(m, t, l, val, released)
<1>1. m.mem[l] \in Seq(Message) /\ m.views[t] \in ThreadViews
  BY DEF Memories, Typed
<1>2. n \in Nat \ {0} /\ at \in View /\ at[l] = n
  <2>1. n \in Nat \ {0}
    BY <1>1, LenProperties
  <2>2. QED
    BY <2>1, AtView
<1>3. message \in Message /\ Beyond(message.view, released) /\ message.view[l] >= n
  <2>1. Join(released, at) \in View /\ Beyond(Join(released, at), released)
        /\ Beyond(Join(released, at), at)
    BY <1>2, JoinBeyond
  <2>2. Join(released, at)[l] >= n
    BY <1>2, <2>1 DEF Beyond
  <2>3. QED
    BY <2>1, <2>2 DEF Message
<1>4. r = [mem |-> [m.mem EXCEPT ![l] = Append(@, message)],
           views |-> [m.views EXCEPT ![t].seen = Join(@, at), ![t].acquirable = Join(@, at)]]
  BY DEF Put
<1> HIDE DEF n, at, message, r
<1>5. Append(m.mem[l], message) \in Seq(Message) /\ Len(Append(m.mem[l], message)) = n
      /\ (\A i \in 1 .. n - 1 : Append(m.mem[l], message)[i] = m.mem[l][i])
      /\ Append(m.mem[l], message)[n] = message
  BY <1>1, <1>3, AppendProperties DEF n
<1>6. r.mem \in [Locs -> Seq(Message)] /\ r.mem[l] = Append(m.mem[l], message)
      /\ (\A k \in Locs \ {l} : r.mem[k] = m.mem[k])
  BY <1>4, <1>5 DEF Memories, Typed
<1>7. m.views[t].seen \in View /\ m.views[t].acquirable \in View
      /\ m.views[t].released \in View
  BY <1>1 DEF ThreadViews
<1>8. r.views[t] = [seen |-> Join(m.views[t].seen, at),
                    acquirable |-> Join(m.views[t].acquirable, at),
                    released |-> m.views[t].released]
      /\ \A u \in Threads \ {t} : r.views[u] = m.views[u]
  BY <1>4, <1>1 DEF Memories, Typed, ThreadViews
<1>9. r \in Memories
  <2>1. r.views[t] \in ThreadViews
    BY <1>2, <1>7, <1>8, JoinBeyond DEF ThreadViews
  <2>2. r.views \in [Threads -> ThreadViews]
    BY <1>4, <1>8, <2>1 DEF Memories, Typed
  <2>3. r \in Typed
    BY <1>4, <1>6, <2>2 DEF Typed
  <2>4. \A i \in 1 .. Len(r.mem[l]) : r.mem[l][i].view[l] >= i
    <3>1. SUFFICES ASSUME NEW i \in 1 .. n
                   PROVE  r.mem[l][i].view[l] >= i
      BY <1>5, <1>6
    <3>2. CASE i = n
      BY <3>2, <1>3, <1>5, <1>6
    <3>3. CASE i # n
      <4>1. i \in 1 .. n - 1 /\ i \in 1 .. Len(m.mem[l])
        BY <3>3, <1>2 DEF n
      <4>2. QED
        BY <4>1, <1>5, <1>6 DEF Memories, Known
    <3>4. QED
      BY <3>2, <3>3
  <2>5. \A k \in Locs \ {l} : \A i \in 1 .. Len(r.mem[k]) : r.mem[k][i].view[k] >= i
    BY <1>6 DEF Memories, Known
  <2>6. QED
    BY <2>3, <2>4, <2>5 DEF Memories, Known
<1>10. Beyond(m.views[t].acquirable, m.views[t].seen)
          => Beyond(r.views[t].acquirable, r.views[t].seen)
  BY <1>2, <1>7, <1>8, JoinMonotonic
<1>11. r.views[t].seen[l] >= n
  BY <1>2, <1>7, <1>8, JoinBeyond DEF Beyond
<1>12. QED
  BY <1>2, <1>3, <1>5, <1>6, <1>7, <1>8, <1>9, <1>10, <1>11, JoinBeyond
     DEF Stored, Learns, n, r, message

LEMMA LoadRelaxedLoads ==
    ASSUME NEW m \in Memories, NEW t \in Threads, NEW l \in Locs,
           NEW i \in 1 .. Len(m.mem[l])
    PROVE  Loaded(m, LoadRelaxed(m, t, l, i), t, l, i)
<1> DEFINE at == [Bottom EXCEPT ![l] = i]
           r == LoadRelaxed(m, t, l, i)
<1>1. m.mem[l] \in Seq(Message) /\ m.views[t] \in ThreadViews
  BY DEF Memories, Typed
<1>2. at \in View /\ at[l] = i
  BY AtView
<1>3. m.mem[l][i].view \in View /\ m.mem[l][i].view[l] >= i
  <2>1. m.mem[l][i] \in Message
    BY <1>1, ElementOfSeq
  <2>2. QED
    BY <2>1 DEF Message, Memories, Known
<1>4. r = [m EXCEPT !.views[t].seen = Join(@, at),
                    !.views[t].acquirable = Join(@, m.mem[l][i].view)]
  BY DEF LoadRelaxed, at, r
<1>5. at \in View /\ at[l] = i /\ Beyond(m.mem[l][i].view, at)
  BY <1>2, <1>3 DEF at, Bottom, View, Beyond
<1> HIDE DEF at, r
<1>6. m.views[t].seen \in View /\ m.views[t].acquirable \in View
      /\ m.views[t].released \in View
  BY <1>1 DEF ThreadViews
<1>7. r.mem = m.mem
      /\ r.views[t] = [seen |-> Join(m.views[t].seen, at),
                       acquirable |-> Join(m.views[t].acquirable, m.mem[l][i].view),
                       released |-> m.views[t].released]
      /\ \A u \in Threads \ {t} : r.views[u] = m.views[u]
  BY <1>4, <1>1 DEF Memories, Typed, ThreadViews
<1>8. r \in Memories
  <2>1. r.views[t] \in ThreadViews
    BY <1>3, <1>5, <1>6, <1>7, JoinBeyond DEF ThreadViews
  <2>2. r.views \in [Threads -> ThreadViews]
    BY <1>4, <1>7, <2>1 DEF Memories, Typed
  <2>3. QED
    BY <1>4, <1>7, <2>2 DEF Memories, Typed, Known
<1>9. Beyond(m.views[t].acquirable, m.views[t].seen)
          => Beyond(r.views[t].acquirable, r.views[t].seen)
  <2>1. SUFFICES ASSUME Beyond(m.views[t].acquirable, m.views[t].seen)
                 PROVE  Beyond(Join(m.views[t].acquirable, m.mem[l][i].view),
                               Join(m.views[t].seen, at))
    BY <1>7
  <2> DEFINE a == m.views[t].acquirable
             s == m.views[t].seen
             w == m.mem[l][i].view
  <2>2. a \in View /\ s \in View /\ w \in View /\ Beyond(a, s) /\ Beyond(w, at)
    BY <1>3, <1>5, <1>6, <2>1
  <2> HIDE DEF a, s, w
  <2>3. Beyond(Join(a, w), Join(s, at))
    BY <2>2, <1>5 DEF Beyond, Join, Larger, View
  <2>4. QED
    BY <2>3 DEF a, s, w
<1>10. r.views[t].seen[l] >= i
  BY <1>5, <1>6, <1>7, JoinBeyond DEF Beyond
<1>11. QED
  BY <1>3, <1>5, <1>6, <1>7, <1>8, <1>9, <1>10, JoinBeyond DEF Loaded, Learns, r

\* An acquire load takes the view of the message over.
LEMMA LoadAcquireLoads ==
    ASSUME NEW m \in Memories, NEW t \in Threads, NEW l \in Locs,
           NEW i \in 1 .. Len(m.mem[l])
    PROVE  /\ Loaded(m, LoadAcquire(m, t, l, i), t, l, i)
           /\ Beyond(LoadAcquire(m, t, l, i).views[t].seen, m.mem[l][i].view)
<1> DEFINE q == LoadRelaxed(m, t, l, i)
           view == m.mem[l][i].view
           r == LoadAcquire(m, t, l, i)
<1>1. Loaded(m, q, t, l, i) /\ q \in Memories
  BY LoadRelaxedLoads DEF Loaded, Learns
<1>2. view \in View
  <2>1. m.mem[l] \in Seq(Message)
    BY DEF Memories, Typed
  <2>2. m.mem[l][i] \in Message
    BY <2>1, ElementOfSeq
  <2>3. QED
    BY <2>2 DEF Message
<1>3. r = [q EXCEPT !.views[t].seen = Join(@, view)]
  BY DEF LoadAcquire
<1> HIDE DEF q, view, r
<1>4. q.views[t] \in ThreadViews
  BY <1>1 DEF Memories, Typed
<1>5. q.views[t].seen \in View /\ q.views[t].acquirable \in View
      /\ q.views[t].released \in View
  BY <1>4 DEF ThreadViews
<1>6. r.mem = q.mem
      /\ r.views[t] = [seen |-> Join(q.views[t].seen, view),
                       acquirable |-> q.views[t].acquirable,
                       released |-> q.views[t].released]
      /\ \A u \in Threads \ {t} : r.views[u] = q.views[u]
  BY <1>1, <1>3, <1>4 DEF Memories, Typed, ThreadViews
<1>7. r \in Memories
  <2>1. r.views[t] \in ThreadViews
    BY <1>2, <1>5, <1>6, JoinBeyond DEF ThreadViews
  <2>2. r.views \in [Threads -> ThreadViews]
    BY <1>1, <1>3, <1>6, <2>1 DEF Memories, Typed
  <2>3. QED
    BY <1>1, <1>3, <1>6, <2>2 DEF Memories, Typed, Known
<1>8. m.views[t].seen \in View /\ m.views[t].acquirable \in View
  BY DEF Memories, Typed, ThreadViews
<1>9. Beyond(r.views[t].seen, view) /\ Beyond(r.views[t].seen, m.views[t].seen)
  <2>1. Beyond(q.views[t].seen, m.views[t].seen)
    BY <1>1 DEF Loaded, Learns
  <2>2. Beyond(r.views[t].seen, view) /\ Beyond(r.views[t].seen, q.views[t].seen)
        /\ r.views[t].seen \in View
    BY <1>2, <1>5, <1>6, JoinBeyond
  <2>3. QED
    BY <2>1, <2>2, <1>5, <1>8, BeyondOrder
<1>10. Beyond(m.views[t].acquirable, m.views[t].seen)
          => Beyond(r.views[t].acquirable, r.views[t].seen)
  BY <1>1, <1>2, <1>5, <1>6, <1>8, JoinBeyond DEF Loaded, Learns, view
<1>11. r.views[t].seen[l] >= i
  <2>1. q.views[t].seen[l] >= i
    BY <1>1 DEF Loaded
  <2>2. r.views[t].seen \in View /\ Beyond(r.views[t].seen, q.views[t].seen)
    BY <1>2, <1>5, <1>6, JoinBeyond
  <2>3. Len(m.mem[l]) \in Nat
    BY LenProperties DEF Memories, Typed
  <2>4. r.views[t].seen[l] >= q.views[t].seen[l] /\ r.views[t].seen[l] \in Nat
        /\ q.views[t].seen[l] \in Nat
    BY <2>2, <1>5 DEF Beyond, View
  <2>5. QED
    BY <2>1, <2>3, <2>4
<1>12. /\ Learns(m, q, t) /\ q.mem = m.mem /\ q.views[t].released = m.views[t].released
       /\ Beyond(q.views[t].acquirable, m.mem[l][i].view)
  BY <1>1 DEF Loaded
<1>13. r.views[t].acquirable = q.views[t].acquirable /\ r.views[t].released = q.views[t].released
  BY <1>6
<1>14. Learns(m, r, t)
  BY <1>6, <1>7, <1>9, <1>10, <1>12, <1>13, Zenon DEF Learns
<1>15. Loaded(m, r, t, l, i)
  BY <1>6, <1>11, <1>12, <1>13, <1>14, Zenon DEF Loaded
<1>16. QED
  BY <1>9, <1>15, Zenon DEF r, view

\* A fetch_add stores the next number, with the view of the last one.
LEMMA FetchAddStores ==
    ASSUME NEW m \in Memories, NEW t \in Threads, NEW l \in Locs, NEW released \in View,
           m.mem[l] # <<>>
    PROVE  LET message == m.mem[l][Len(m.mem[l])]
               r == FetchAdd(m, t, l, released)
           IN /\ Stored(m, r, t, l, message.val + 1, released)
              /\ Stored(m, r, t, l, message.val + 1, message.view)
<1> DEFINE n == Len(m.mem[l])
           message == m.mem[l][n]
           q == LoadRelaxed(m, t, l, n)
           r == FetchAdd(m, t, l, released)
           carried == Join(released, message.view)
<1>1. m.mem[l] \in Seq(Message)
  BY DEF Memories, Typed
<1>2. n \in 1 .. Len(m.mem[l])
  <2>1. n \in Nat /\ n # 0
    BY <1>1, LenProperties, EmptySeq
  <2>2. QED
    BY <2>1
<1>3. message.val \in Nat /\ message.view \in View
  <2>1. message \in Message
    BY <1>1, <1>2, ElementOfSeq
  <2>2. QED
    BY <2>1 DEF Message
<1>4. Loaded(m, q, t, l, n) /\ q \in Memories
  BY <1>2, LoadRelaxedLoads DEF Loaded, Learns
<1>5. carried \in View /\ Beyond(carried, released) /\ Beyond(carried, message.view)
  BY <1>3, JoinBeyond
<1>6. r = Put(q, t, l, message.val + 1, carried)
  BY DEF FetchAdd
<1>7. Stored(q, r, t, l, message.val + 1, carried)
  <2>1. q \in Memories /\ message.val + 1 \in Nat /\ carried \in View
    BY <1>3, <1>4, <1>5
  <2>2. QED
    BY <1>6, <2>1, PutStores
<1> HIDE DEF n, q, r, carried, message
<1>8. r \in Memories /\ q.mem = m.mem
  BY <1>4, <1>7 DEF Stored, Loaded, Learns
<1>9. Learns(m, r, t)
  <2>1. m.views[t] \in ThreadViews /\ q.views[t] \in ThreadViews /\ r.views[t] \in ThreadViews
    BY <1>4, <1>8 DEF Memories, Typed
  <2>2. Learns(m, q, t) /\ Learns(q, r, t)
    BY <1>4, <1>7 DEF Stored, Loaded
  <2>3. Beyond(r.views[t].seen, m.views[t].seen)
        /\ Beyond(r.views[t].acquirable, m.views[t].acquirable)
    BY <2>1, <2>2, BeyondOrder DEF Learns, ThreadViews
  <2>4. QED
    BY <2>2, <2>3 DEF Learns
<1>10. r.mem[l][n + 1].view \in View
  <2>1. r.mem[l] \in Seq(Message) /\ n + 1 \in 1 .. Len(r.mem[l])
    BY <1>2, <1>7, <1>8 DEF Stored, Memories, Typed, n
  <2>2. r.mem[l][n + 1] \in Message
    BY <2>1, ElementOfSeq
  <2>3. QED
    BY <2>2 DEF Message
<1>11. Beyond(r.mem[l][n + 1].view, carried)
  BY <1>7, <1>8 DEF Stored, n
<1>12. Beyond(r.mem[l][n + 1].view, released) /\ Beyond(r.mem[l][n + 1].view, message.view)
  BY <1>3, <1>5, <1>10, <1>11, BeyondOrder
<1>13. QED
  BY <1>7, <1>8, <1>9, <1>12 DEF Stored, n, r, message

\* The fences.
LEMMA FenceAcquires ==
    ASSUME NEW m \in Memories, NEW t \in Threads,
           Beyond(m.views[t].acquirable, m.views[t].seen)
    PROVE  /\ Learns(m, FenceAcquire(m, t), t)
           /\ FenceAcquire(m, t).mem = m.mem
           /\ FenceAcquire(m, t).views[t].seen = m.views[t].acquirable
           /\ FenceAcquire(m, t).views[t].acquirable = m.views[t].acquirable
<1> DEFINE r == FenceAcquire(m, t)
<1>1. m.views[t] \in ThreadViews
  BY DEF Memories, Typed
<1>2. r.mem = m.mem
      /\ r.views[t] = [m.views[t] EXCEPT !.seen = m.views[t].acquirable]
      /\ (\A u \in Threads \ {t} : r.views[u] = m.views[u])
      /\ r = [m EXCEPT !.views = [m.views EXCEPT ![t] = r.views[t]]]
  BY <1>1 DEF FenceAcquire, Memories, Typed
<1> HIDE DEF r
<1>3. r.views[t] \in ThreadViews
      /\ r.views[t].seen = m.views[t].acquirable
      /\ r.views[t].acquirable = m.views[t].acquirable
  BY <1>1, <1>2 DEF ThreadViews
<1>4. r \in Typed
  BY <1>2, <1>3 DEF Memories, Typed
<1>5. r \in Memories
  BY <1>2, <1>4 DEF Memories, Known
<1>6. QED
  BY <1>1, <1>2, <1>3, <1>5, BeyondOrder DEF Learns, ThreadViews, r

LEMMA FenceReleases ==
    ASSUME NEW m \in Memories, NEW t \in Threads
    PROVE  /\ Learns(m, FenceRelease(m, t), t)
           /\ FenceRelease(m, t).mem = m.mem
           /\ FenceRelease(m, t).views[t].seen = m.views[t].seen
           /\ FenceRelease(m, t).views[t].released = m.views[t].seen
<1> DEFINE r == FenceRelease(m, t)
<1>1. m.views[t] \in ThreadViews
  BY DEF Memories, Typed
<1>2. r.mem = m.mem
      /\ r.views[t] = [m.views[t] EXCEPT !.released = m.views[t].seen]
      /\ (\A u \in Threads \ {t} : r.views[u] = m.views[u])
      /\ r = [m EXCEPT !.views = [m.views EXCEPT ![t] = r.views[t]]]
  BY <1>1 DEF FenceRelease, Memories, Typed
<1> HIDE DEF r
<1>3. r.views[t] \in ThreadViews
      /\ r.views[t].seen = m.views[t].seen /\ r.views[t].released = m.views[t].seen
      /\ r.views[t].acquirable = m.views[t].acquirable
  BY <1>1, <1>2 DEF ThreadViews
<1>4. r \in Typed
  BY <1>2, <1>3 DEF Memories, Typed
<1>5. r \in Memories
  BY <1>2, <1>4 DEF Memories, Known
<1>6. QED
  BY <1>1, <1>2, <1>3, <1>5, BeyondOrder DEF Learns, ThreadViews, r

-----------------------------------------------------------------------------
(***************************************************************************)
(* The inductive invariants.                                               *)
(***************************************************************************)

MemoryInv ==
    /\ Memory \in Memories
    /\ \A l \in Locs : mem[l] # <<>>
    /\ \A t \in Threads : Beyond(views[t].acquirable, views[t].seen)

BlocksInv ==
    /\ beats <= Len(sent) /\ since <= Len(sent) + 1
    /\ pc["audio"] # "idle" => Len(sent) > 0

\* What holds of either clock.
Base == TypeOK /\ MemoryInv /\ BlocksInv

\* The values of a round are stored in order, and numbered.
Written(l) == Len(mem[l])
RoundsInv ==
    LET n == Len(sent) IN
    /\ Written("sequence") = IF pc["audio"] = "idle" THEN 2 * n + 1
                             ELSE IF pc["audio"] = "odd" THEN 2 * n - 1 ELSE 2 * n
    /\ Written("position") = IF pc["audio"] \in {"odd", "position"} THEN n ELSE n + 1
    /\ Written("time") = IF pc["audio"] \in {"odd", "position", "time"} THEN n ELSE n + 1
    /\ \A l \in Locs : \A i \in 1 .. Written(l) : mem[l][i].val = i - 1
    /\ \A b \in 1 .. n : sent[b] = b

\* An even sequence carries the two values of its round, and either value
\* carries the odd sequence it was stored after.
CarriedInv ==
    \A l \in {"position", "time"} :
        /\ \A i \in 1 .. Written("sequence") : 2 * mem["sequence"][i].view[l] >= i
        /\ \A i \in 1 .. Written(l) : mem[l][i].view["sequence"] >= 2 * (i - 1)

\* The callback is the only writer; its values release the odd sequence.
WriterInv ==
    /\ \A l \in Locs : views["audio"].seen[l] >= Written(l)
    /\ pc["audio"] \in {"position", "time"}
          => views["audio"].released["sequence"] >= Written("sequence")

\* The reader is in the round it began or in a later one, and can acquire the
\* sequence of any value it took.
ReaderInv ==
    LET v == views["control"] IN
    /\ pc["control"] \in {"idle", "before", "position", "time", "after"}
    /\ last.position = last.time
    /\ v.seen["sequence"] >= 2 * last.time + 1
    /\ pc["control"] \in {"position", "time", "after"} =>
          /\ regs.before % 2 = 0 /\ regs.before >= 2 * last.time
          /\ \A l \in {"position", "time"} : 2 * v.seen[l] >= regs.before + 2
    /\ pc["control"] \in {"time", "after"} =>
          2 * regs.position >= regs.before /\ v.acquirable["sequence"] >= 2 * regs.position
    /\ pc["control"] = "after" =>
          2 * regs.time >= regs.before /\ v.acquirable["sequence"] >= 2 * regs.time

StampInv == Base /\ (clock = "stamp" => RoundsInv /\ CarriedInv /\ WriterInv /\ ReaderInv)

\* A timestamp is invalid, or of a block of this run or of one that crossed the stop.
OfThisRun(block) == block = 0 \/ block >= since \/ block \in crossing

\* Every timestamp the control thread may still load is.
Reach == views["control"].seen["time"] .. Len(mem["time"])
ReachIsOfThisRun == \A i \in Reach : OfThisRun(mem["time"][i].val)

AnchorInv ==
    /\ Base
    /\ pc["audio"] # "idle" => OfThisRun(Len(sent))
    /\ pc["control"] \notin {"odd", "no time"} => ReachIsOfThisRun
    /\ pc["control"] = "after" => OfThisRun(regs.time)
    /\ AnchorIsOfThisRunUnlessCrossed

-----------------------------------------------------------------------------
(***************************************************************************)
(* What the steps do to the memory.                                        *)
(***************************************************************************)
LEMMA BaseTypes ==
    ASSUME Base
    PROVE  /\ Memory \in Memories /\ Memory.mem = mem /\ Memory.views = views
           /\ \A t \in Threads : /\ views[t] \in ThreadViews /\ views[t].seen \in View
                                 /\ views[t].acquirable \in View /\ views[t].released \in View
           /\ \A l \in Locs : /\ mem[l] \in Seq(Message) /\ Len(mem[l]) \in Nat \ {0}
                              /\ \A i \in 1 .. Len(mem[l]) : /\ mem[l][i] \in Message
                                                             /\ mem[l][i].val \in Nat
                                                             /\ mem[l][i].view \in View
<1>1. Memory \in Memories /\ Memory.mem = mem /\ Memory.views = views
  BY DEF Base, MemoryInv, Memory
<1>2. ASSUME NEW t \in Threads
      PROVE  /\ views[t] \in ThreadViews /\ views[t].seen \in View
             /\ views[t].acquirable \in View /\ views[t].released \in View
  BY DEF Base, TypeOK, ThreadViews
<1>3. ASSUME NEW l \in Locs
      PROVE  /\ mem[l] \in Seq(Message) /\ Len(mem[l]) \in Nat \ {0}
             /\ \A i \in 1 .. Len(mem[l]) : /\ mem[l][i] \in Message
                                            /\ mem[l][i].val \in Nat
                                            /\ mem[l][i].view \in View
  <2>1. mem[l] \in Seq(Message) /\ mem[l] # <<>>
    BY DEF Base, MemoryInv, TypeOK
  <2>2. Len(mem[l]) \in Nat \ {0}
    BY <2>1, EmptySeq, LenProperties
  <2>3. \A i \in 1 .. Len(mem[l]) : mem[l][i] \in Message
    BY <2>1, ElementOfSeq
  <2>4. QED
    BY <2>1, <2>2, <2>3 DEF Message
<1>4. QED
  BY <1>1, <1>2, <1>3

\* The thread t stores val in l, and releases at least `released` with it.
Stores(t, l, val, released) == Stored(Memory, Memory', t, l, val, released)

Newest(l) == mem[l][Len(mem[l])]

LEMMA OpenStores ==
    ASSUME Base, Open
    PROVE  /\ Stores("audio", "sequence", Newest("sequence").val + 1, Newest("sequence").view)
           /\ clock = "stamp"
                 => views'["audio"].released["sequence"] >= Len(mem'["sequence"])
<1> DEFINE l == "sequence"
           q == FetchAddRelaxed(Memory, "audio", l)
<1>1. "audio" \in Threads /\ l \in Locs
  BY DEF Threads, Locs
<1>2. views["audio"].released \in View /\ views["audio"].seen \in View /\ Memory.mem[l] # <<>>
      /\ Memory \in Memories
  BY <1>1, BaseTypes DEF Base, MemoryInv, Memory
<1>3. CASE clock = "stamp"
  <2>1. Stored(Memory, q, "audio", l, Newest(l).val + 1, Newest(l).view)
    BY <1>1, <1>2, FetchAddStores DEF FetchAddRelaxed, Newest, Memory
  <2>2. q \in Memories
    BY <2>1 DEF Stored, Learns
  <2>3. /\ Learns(q, FenceRelease(q, "audio"), "audio")
        /\ FenceRelease(q, "audio").mem = q.mem
        /\ FenceRelease(q, "audio").views["audio"].seen = q.views["audio"].seen
        /\ FenceRelease(q, "audio").views["audio"].released = q.views["audio"].seen
    BY <1>1, <2>2, FenceReleases
  <2>4. FenceRelease(q, "audio").views["audio"].released[l] >= Len(FenceRelease(q, "audio").mem[l])
    BY <2>1, <2>3 DEF Stored
  <2>5. Memory' = [mem |-> FenceRelease(q, "audio").mem, views |-> FenceRelease(q, "audio").views]
    BY <1>3 DEF Open, OpenStamp, Becomes, Memory
  <2>6. FenceRelease(q, "audio") \in Typed
    BY <2>3 DEF Learns, Memories
  <2>7. Memory' = FenceRelease(q, "audio")
    BY <2>5, <2>6 DEF Typed
  <2>8. Learns(Memory, Memory', "audio")
    <3>1. /\ Memory.views["audio"] \in ThreadViews /\ q.views["audio"] \in ThreadViews
          /\ Memory'.views["audio"] \in ThreadViews /\ Memory' \in Memories
      BY <1>1, <1>2, <2>2, <2>3, <2>7 DEF Learns, Memories, Typed
    <3>2. Learns(Memory, q, "audio") /\ Learns(q, Memory', "audio")
      BY <2>1, <2>3, <2>7 DEF Stored
    <3>3. /\ Beyond(Memory'.views["audio"].seen, Memory.views["audio"].seen)
          /\ Beyond(Memory'.views["audio"].acquirable, Memory.views["audio"].acquirable)
      BY <3>1, <3>2, BeyondOrder DEF Learns, ThreadViews
    <3>4. QED
      BY <3>1, <3>2, <3>3 DEF Learns
  <2>9. QED
    BY <2>1, <2>3, <2>4, <2>7, <2>8 DEF Stores, Stored, Memory
<1>4. CASE clock # "stamp"
  <2> DEFINE r == FetchAddRelease(Memory, "audio", l)
  <2>1. Stored(Memory, r, "audio", l, Newest(l).val + 1, Newest(l).view)
    BY <1>1, <1>2, FetchAddStores DEF FetchAddRelease, Newest, Memory
  <2>2. Memory' = [mem |-> r.mem, views |-> r.views]
    BY <1>4 DEF Open, OpenAnchor, Becomes, Memory
  <2>3. r \in Typed
    BY <2>1 DEF Stored, Learns, Memories
  <2>4. QED
    BY <1>4, <2>1, <2>2, <2>3 DEF Stores, Typed
<1>5. QED
  BY <1>3, <1>4

LEMMA WriteStores ==
    ASSUME Base
    PROVE  /\ WritePosition =>
                /\ Stores("audio", "position", sent[Len(sent)], views["audio"].released)
                /\ views'["audio"].released = views["audio"].released
           /\ WriteTime =>
                /\ Stores("audio", "time", Len(sent), views["audio"].released)
                /\ views'["audio"].released = views["audio"].released
           /\ InvalidateTime => Stores("control", "time", 0, views["control"].released)
           /\ InvalidatePosition => Stores("control", "position", 0, views["control"].released)
<1>1. \A t \in Threads, l \in Locs, val \in Nat :
         Becomes(StoreRelaxed(Memory, t, l, val))
         => Stores(t, l, val, views[t].released) /\ views'[t].released = views[t].released
  <2>1. SUFFICES ASSUME NEW t \in Threads, NEW l \in Locs, NEW val \in Nat,
                        Becomes(StoreRelaxed(Memory, t, l, val))
                 PROVE  Stores(t, l, val, views[t].released)
                        /\ views'[t].released = views[t].released
    OBVIOUS
  <2> DEFINE r == StoreRelaxed(Memory, t, l, val)
  <2>2. Memory \in Memories /\ views[t].released \in View /\ Memory.views = views
    BY BaseTypes
  <2>3. /\ Stored(Memory, r, t, l, val, views[t].released)
        /\ r.views[t].released = views[t].released
    BY <2>2, PutStores DEF StoreRelaxed
  <2>4. r \in Typed /\ mem' = r.mem /\ views' = r.views
    BY <2>1, <2>3 DEF Stored, Learns, Memories, Becomes
  <2> HIDE DEF r
  <2>5. Memory' = r
    BY <2>4 DEF Memory, Typed
  <2>6. QED
    BY <2>3, <2>4, <2>5 DEF Stores
<1>2. pc["audio"] # "idle" => sent[Len(sent)] \in Nat /\ Len(sent) \in Nat
  <2>1. sent \in Seq(Nat) /\ (pc["audio"] # "idle" => Len(sent) > 0)
    BY DEF Base, BlocksInv, TypeOK
  <2>2. Len(sent) \in Nat
    BY <2>1, LenProperties
  <2>3. QED
    BY <2>1, <2>2, ElementOfSeq
<1>3. QED
  BY <1>1, <1>2 DEF WritePosition, WriteTime, InvalidateTime, InvalidatePosition, GoTo,
     Threads, Locs

LEMMA CloseStores ==
    ASSUME Base
    PROVE  /\ Close => Stores("audio", "sequence", Newest("sequence").val + 1, views["audio"].seen)
           /\ InvalidateOpen \/ InvalidateClose =>
                Stores("control", "sequence", Newest("sequence").val + 1, views["control"].seen)
<1>1. \A t \in Threads :
         Becomes(FetchAddRelease(Memory, t, "sequence"))
         => Stores(t, "sequence", Newest("sequence").val + 1, views[t].seen)
  <2>1. SUFFICES ASSUME NEW t \in Threads, Becomes(FetchAddRelease(Memory, t, "sequence"))
                 PROVE  Stores(t, "sequence", Newest("sequence").val + 1, views[t].seen)
    OBVIOUS
  <2> DEFINE r == FetchAddRelease(Memory, t, "sequence")
  <2>2. Memory \in Memories /\ views[t].seen \in View /\ Memory.mem["sequence"] # <<>>
        /\ "sequence" \in Locs
    BY BaseTypes DEF Base, MemoryInv, Memory, Locs
  <2>3. Stored(Memory, r, t, "sequence", Newest("sequence").val + 1, views[t].seen)
    BY <2>2, FetchAddStores DEF FetchAddRelease, Newest, Memory
  <2>4. r \in Typed /\ mem' = r.mem /\ views' = r.views
    BY <2>1, <2>3 DEF Stored, Learns, Memories, Becomes
  <2> HIDE DEF r
  <2>5. Memory' = r
    BY <2>4 DEF Memory, Typed
  <2>6. QED
    BY <2>3, <2>5 DEF Stores
<1>2. QED
  BY <1>1 DEF Close, InvalidateOpen, InvalidateClose, Threads

\* The control thread loads the i-th message of l.
Loads(l, i) == Loaded(Memory, Memory', "control", l, i)

\* A readable message is there.
LEMMA ReadableIsThere ==
    ASSUME Base, NEW l \in Locs, NEW i \in Readable(Memory, "control", l)
    PROVE  i \in 1 .. Len(mem[l]) /\ i >= views["control"].seen[l]
           /\ mem[l][i] \in Message /\ mem[l][i].val \in Nat /\ mem[l][i].view \in View
<1>1. views["control"].seen[l] \in Nat \ {0} /\ Len(mem[l]) \in Nat
  BY BaseTypes DEF View, Threads
<1>2. i \in 1 .. Len(mem[l]) /\ i >= views["control"].seen[l]
  BY <1>1 DEF Readable, Memory
<1>3. QED
  BY <1>2, BaseTypes

LEMMA RelaxedLoads ==
    ASSUME Base, NEW l \in Locs, NEW i \in Readable(Memory, "control", l),
           Becomes(LoadRelaxed(Memory, "control", l, i))
    PROVE  Loads(l, i)
<1> DEFINE r == LoadRelaxed(Memory, "control", l, i)
<1>1. Loaded(Memory, r, "control", l, i)
  BY BaseTypes, ReadableIsThere, LoadRelaxedLoads DEF Threads
<1>2. r \in Typed /\ mem' = r.mem /\ views' = r.views
  BY <1>1 DEF Loaded, Learns, Memories, Becomes
<1> HIDE DEF r
<1>3. QED
  BY <1>1, <1>2 DEF Loads, Memory, Typed

LEMMA AcquireLoads ==
    ASSUME Base, NEW l \in Locs, NEW i \in Readable(Memory, "control", l),
           Becomes(LoadAcquire(Memory, "control", l, i))
    PROVE  Loads(l, i) /\ Beyond(views'["control"].seen, mem[l][i].view)
<1> DEFINE r == LoadAcquire(Memory, "control", l, i)
<1>1. Loaded(Memory, r, "control", l, i) /\ Beyond(r.views["control"].seen, mem[l][i].view)
  BY BaseTypes, ReadableIsThere, LoadAcquireLoads DEF Threads
<1>2. r \in Typed /\ mem' = r.mem /\ views' = r.views
  BY <1>1 DEF Loaded, Learns, Memories, Becomes
<1> HIDE DEF r
<1>3. QED
  BY <1>1, <1>2 DEF Loads, Memory, Typed

\* The last load of a round, which the stamp's reader fences off.
LastLoad(i) ==
    LET m == Fenced(Memory, "control") IN
    /\ i \in Readable(m, "control", "sequence")
    /\ Becomes(IF clock = "stamp" THEN LoadRelaxed(m, "control", "sequence", i)
                                  ELSE LoadAcquire(m, "control", "sequence", i))

LEMMA LastLoads ==
    ASSUME Base, NEW i, LastLoad(i)
    PROVE  /\ i \in 1 .. Len(mem["sequence"])
           /\ Learns(Memory, Memory', "control") /\ mem' = mem
           /\ views'["control"].seen["sequence"] >= i
           /\ clock = "stamp" => i >= views["control"].acquirable["sequence"]
<1>1. CASE clock = "stamp"
  <2> DEFINE m == FenceAcquire(Memory, "control")
             r == LoadRelaxed(m, "control", "sequence", i)
  <2>1. /\ Learns(Memory, m, "control") /\ m.mem = mem
        /\ m.views["control"].seen = views["control"].acquirable
    BY BaseTypes, FenceAcquires DEF Base, MemoryInv, Threads
  <2>2. /\ i \in m.views["control"].seen["sequence"] .. Len(mem["sequence"])
        /\ mem' = r.mem /\ views' = r.views
    BY <1>1, <2>1 DEF LastLoad, Fenced, Readable, Becomes
  <2>3. i \in 1 .. Len(mem["sequence"]) /\ i >= views["control"].acquirable["sequence"]
    <3>1. views["control"].acquirable["sequence"] \in Nat \ {0}
          /\ Len(mem["sequence"]) \in Nat
      BY BaseTypes DEF View, Threads, Locs
    <3>2. QED
      BY <2>1, <2>2, <3>1
  <2>4. Loaded(m, r, "control", "sequence", i)
    BY <2>1, <2>3, LoadRelaxedLoads DEF Learns, Threads, Locs
  <2>5. r \in Typed
    BY <2>4 DEF Loaded, Learns, Memories
  <2> HIDE DEF m, r
  <2>6. Memory' = r
    BY <2>2, <2>5 DEF Memory, Typed
  <2>7. Learns(Memory, Memory', "control")
    <3>1. /\ Memory.views["control"] \in ThreadViews /\ m.views["control"] \in ThreadViews
          /\ Memory'.views["control"] \in ThreadViews /\ Memory' \in Memories
      BY <2>1, <2>4, <2>6, BaseTypes DEF Loaded, Learns, Memories, Typed, Threads
    <3>2. Learns(Memory, m, "control") /\ Learns(m, Memory', "control")
      BY <2>1, <2>4, <2>6 DEF Loaded
    <3>3. /\ Beyond(Memory'.views["control"].seen, Memory.views["control"].seen)
          /\ Beyond(Memory'.views["control"].acquirable, Memory.views["control"].acquirable)
      BY <3>1, <3>2, BeyondOrder DEF Learns, ThreadViews
    <3>4. QED
      BY <3>1, <3>2, <3>3 DEF Learns
  <2>8. QED
    BY <2>1, <2>2, <2>3, <2>4, <2>7 DEF Loaded
<1>2. CASE clock # "stamp"
  <2>1. i \in Readable(Memory, "control", "sequence")
        /\ Becomes(LoadAcquire(Memory, "control", "sequence", i)) /\ "sequence" \in Locs
    BY <1>2 DEF LastLoad, Fenced, Locs
  <2>2. Loads("sequence", i) /\ i \in 1 .. Len(mem["sequence"])
    BY <2>1, AcquireLoads, ReadableIsThere
  <2>3. QED
    BY <1>2, <2>2 DEF Loads, Loaded, Memory
<1>3. QED
  BY <1>1, <1>2

-----------------------------------------------------------------------------
(***************************************************************************)
(* Base is inductive.                                                      *)
(***************************************************************************)
LEMMA LearningKeepsMemory ==
    ASSUME Base, NEW t \in Threads, Learns(Memory, Memory', t),
           \A l \in Locs : mem'[l] # <<>>
    PROVE  MemoryInv'
BY DEF Base, MemoryInv, Memory, Learns

LEMMA StoreKeepsMemory ==
    ASSUME Base, NEW t \in Threads, NEW l \in Locs, NEW val, NEW released,
           Stores(t, l, val, released)
    PROVE  MemoryInv'
<1>1. Learns(Memory, Memory', t) /\ Len(mem'[l]) = Len(mem[l]) + 1
      /\ \A k \in Locs \ {l} : mem'[k] = mem[k]
  BY DEF Stores, Stored, Memory
<1>2. \A k \in Locs : mem[k] # <<>> /\ Len(mem[k]) \in Nat \ {0}
  BY BaseTypes DEF Base, MemoryInv
<1>3. mem'[l] # <<>>
  BY <1>1, <1>2, EmptySeq
<1>4. QED
  BY <1>1, <1>2, <1>3, LearningKeepsMemory

LEMMA MemoryKept ==
    ASSUME Base, [Next]_vars
    PROVE  MemoryInv'
<1>1. "audio" \in Threads /\ "control" \in Threads
      /\ "sequence" \in Locs /\ "position" \in Locs /\ "time" \in Locs
  BY DEF Threads, Locs
<1>2. ASSUME UNCHANGED <<mem, views>> PROVE MemoryInv'
  BY <1>2 DEF Base, MemoryInv, Memory
<1>3. ASSUME Learns(Memory, Memory', "control"), mem' = mem PROVE MemoryInv'
  BY <1>1, <1>3, LearningKeepsMemory DEF Base, MemoryInv
<1>4. CASE UNCHANGED vars
  BY <1>2, <1>4 DEF vars
<1>5. CASE BeginStampedBlock
  BY <1>2, <1>5 DEF BeginStampedBlock
<1>6. CASE BeginPlayingBlock
  BY <1>2, <1>6 DEF BeginPlayingBlock
<1>7. CASE StoppedBlock
  BY <1>2, <1>7 DEF StoppedBlock
<1>8. CASE Open
  BY <1>1, <1>8, OpenStores, StoreKeepsMemory
<1>9. CASE WritePosition
  BY <1>1, <1>9, WriteStores, StoreKeepsMemory
<1>10. CASE WriteTime
  BY <1>1, <1>10, WriteStores, StoreKeepsMemory
<1>11. CASE Close
  BY <1>1, <1>11, CloseStores, StoreKeepsMemory
<1>12. CASE Play
  BY <1>2, <1>12 DEF Play
<1>13. CASE Stop
  BY <1>2, <1>13 DEF Stop
<1>14. CASE InvalidateOpen \/ InvalidateClose
  BY <1>1, <1>14, CloseStores, StoreKeepsMemory
<1>15. CASE InvalidateTime
  BY <1>1, <1>15, WriteStores, StoreKeepsMemory
<1>16. CASE InvalidatePosition
  BY <1>1, <1>16, WriteStores, StoreKeepsMemory
<1>17. CASE StartReading
  BY <1>2, <1>17 DEF StartReading
<1>18. CASE LoadBefore
  <2>1. PICK i \in Readable(Memory, "control", "sequence") :
           Becomes(LoadAcquire(Memory, "control", "sequence", i))
    BY <1>18 DEF LoadBefore
  <2>2. QED
    BY <1>1, <1>3, <2>1, AcquireLoads DEF Loads, Loaded, Memory
<1>19. CASE LoadPosition
  <2>1. PICK i \in Readable(Memory, "control", "position") :
           Becomes(LoadRelaxed(Memory, "control", "position", i))
    BY <1>19 DEF LoadPosition
  <2>2. QED
    BY <1>1, <1>3, <2>1, RelaxedLoads DEF Loads, Loaded, Memory
<1>20. CASE LoadTime
  <2>1. PICK i \in Readable(Memory, "control", "time") :
           Becomes(LoadRelaxed(Memory, "control", "time", i))
    BY <1>20 DEF LoadTime
  <2>2. QED
    BY <1>1, <1>3, <2>1, RelaxedLoads DEF Loads, Loaded, Memory
<1>21. CASE LoadAfter
  <2>1. PICK i : LastLoad(i)
    BY <1>21 DEF LoadAfter, LastLoad
  <2>2. QED
    BY <1>3, <2>1, LastLoads
<1>22. QED
  BY <1>4, <1>5, <1>6, <1>7, <1>8, <1>9, <1>10, <1>11, <1>12, <1>13, <1>14, <1>15, <1>16,
     <1>17, <1>18, <1>19, <1>20, <1>21 DEF Next, Callback, Transport, Reader

\* The rest of Base: where the threads are, and the blocks and the transport.
ProgramPoints == {"idle", "odd", "position", "time", "even", "no time", "no position",
                  "before", "after"}

ThreadsOK ==
    /\ pc \in [Threads -> ProgramPoints]
    /\ pc["audio"] \in {"idle", "odd", "position", "time", "even"}
    /\ pc["control"] \in {"idle", "odd", "no time", "no position", "even",
                          "before", "position", "time", "after"}

RegsOK ==
    /\ regs \in [tries : 0 .. Tries - 1, before : Nat, position : Nat, time : Nat]
    /\ last \in [position : Nat, time : Nat]

BlocksOK ==
    /\ sent \in Seq(Nat) /\ Len(sent) \in Nat /\ Len(sent) <= MaxBlocks
    /\ beats \in Nat /\ beats <= Len(sent)
    /\ since \in Nat /\ 1 <= since /\ since <= Len(sent) + 1
    /\ crossing \subseteq 1 .. MaxBlocks
    /\ toggles \in Nat /\ toggles <= MaxToggles
    /\ pc["audio"] # "idle" => Len(sent) > 0

LEMMA BaseParts ==
    Base <=> /\ clock \in Clocks /\ playing \in BOOLEAN /\ was \in BOOLEAN
             /\ MemoryInv /\ ThreadsOK /\ RegsOK /\ BlocksOK
<1>1. MaxBlocks \in Nat /\ MaxToggles \in Nat
  BY BoundsAssumption
<1>2. Base => /\ clock \in Clocks /\ playing \in BOOLEAN /\ was \in BOOLEAN
              /\ MemoryInv /\ ThreadsOK /\ RegsOK
  BY DEF Base, TypeOK, ThreadsOK, RegsOK, ProgramPoints
<1>3. Base => BlocksOK
  <2>1. SUFFICES ASSUME Base PROVE BlocksOK
    OBVIOUS
  <2>2. Len(sent) \in Nat /\ sent \in Seq(Nat)
    BY <2>1, LenProperties DEF Base, TypeOK
  <2>3. /\ beats \in 0 .. MaxBlocks /\ since \in 1 .. MaxBlocks + 1 /\ toggles \in 0 .. MaxToggles
        /\ Len(sent) <= MaxBlocks /\ crossing \subseteq 1 .. MaxBlocks /\ BlocksInv
    BY <2>1 DEF Base, TypeOK
  <2>4. beats \in Nat /\ since \in Nat /\ 1 <= since /\ toggles \in Nat /\ toggles <= MaxToggles
    BY <1>1, <2>3
  <2>5. QED
    BY <2>2, <2>3, <2>4 DEF BlocksInv, BlocksOK
<1>4. BlocksOK => /\ BlocksInv /\ sent \in Seq(Nat) /\ Len(sent) <= MaxBlocks
                  /\ beats \in 0 .. MaxBlocks /\ since \in 1 .. MaxBlocks + 1
                  /\ crossing \subseteq 1 .. MaxBlocks /\ toggles \in 0 .. MaxToggles
  BY <1>1 DEF BlocksOK, BlocksInv
<1>5. MemoryInv => mem \in [Locs -> Seq(Message)] /\ views \in [Threads -> ThreadViews]
  BY DEF MemoryInv, Memories, Typed, Memory
<1>6. QED
  BY <1>2, <1>3, <1>4, <1>5 DEF Base, TypeOK, ThreadsOK, RegsOK, ProgramPoints

LEMMA BaseInit == ASSUME Init PROVE Base
<1>1. Bottom \in View /\ Beyond(Bottom, Bottom)
  BY DEF Bottom, View, Beyond
<1>2. [val |-> 0, view |-> Bottom] \in Message
  BY <1>1 DEF Message
<1>3. mem \in [Locs -> Seq(Message)] /\ views \in [Threads -> ThreadViews]
  BY <1>1, <1>2 DEF Init, ThreadViews
<1>4. \A l \in Locs : Len(mem[l]) = 1 /\ mem[l] # <<>> /\ mem[l][1].view = Bottom
  BY DEF Init
<1>5. Memory \in Memories
  BY <1>3, <1>4 DEF Memory, Memories, Typed, Known, Bottom
<1>6. MemoryInv
  BY <1>1, <1>4, <1>5 DEF MemoryInv, Init
<1>7. sent \in Seq(Nat) /\ Len(sent) = 0
  BY DEF Init
<1>8. MaxBlocks \in Nat /\ MaxToggles \in Nat /\ 0 \in 0 .. Tries - 1
  BY BoundsAssumption
<1>9. ThreadsOK /\ RegsOK
  BY <1>8 DEF Init, ThreadsOK, ProgramPoints, RegsOK, Idle, NoReading, Threads
<1>10. BlocksOK
  BY <1>7, <1>8 DEF Init, BlocksOK, Threads
<1>11. clock \in Clocks /\ playing \in BOOLEAN /\ was \in BOOLEAN
  BY DEF Init
<1>12. QED
  BY <1>6, <1>9, <1>10, <1>11, BaseParts

LEMMA BaseNext ==
    ASSUME Base, [Next]_vars
    PROVE  Base'
<1>1. Tries \in Nat \ {0} /\ MaxBlocks \in Nat /\ MaxToggles \in Nat
  BY BoundsAssumption
<1>2. ThreadsOK /\ RegsOK /\ BlocksOK
  BY BaseParts
<1>0. 0 \in 0 .. Tries - 1
      /\ \A n \in 0 .. Tries - 1 : n + 1 < Tries => n + 1 \in 0 .. Tries - 1
  BY <1>1
<1>3. MemoryInv'
  BY MemoryKept
<1>4. clock' \in Clocks /\ playing' \in BOOLEAN /\ was' \in BOOLEAN
  <2>1. clock' = clock
    BY DEF Next, Callback, Transport, Reader, vars, BeginStampedBlock, BeginPlayingBlock,
       StoppedBlock, Open, WritePosition, WriteTime, Close, Play, Stop, InvalidateOpen,
       InvalidateTime, InvalidatePosition, InvalidateClose, StartReading, LoadBefore,
       LoadPosition, LoadTime, LoadAfter
  <2>2. playing' = playing \/ playing' = TRUE \/ playing' = FALSE
    BY DEF Next, Callback, Transport, Reader, vars, BeginStampedBlock, BeginPlayingBlock,
       StoppedBlock, Open, WritePosition, WriteTime, Close, Play, Stop, InvalidateOpen,
       InvalidateTime, InvalidatePosition, InvalidateClose, StartReading, LoadBefore,
       LoadPosition, LoadTime, LoadAfter
  <2>3. was' = was \/ was' = TRUE \/ was' = FALSE
    BY DEF Next, Callback, Transport, Reader, vars, BeginStampedBlock, BeginPlayingBlock,
       StoppedBlock, Open, WritePosition, WriteTime, Close, Play, Stop, InvalidateOpen,
       InvalidateTime, InvalidatePosition, InvalidateClose, StartReading, LoadBefore,
       LoadPosition, LoadTime, LoadAfter
  <2>4. clock \in Clocks /\ playing \in BOOLEAN /\ was \in BOOLEAN
    BY BaseParts
  <2>5. QED
    BY <2>1, <2>2, <2>3, <2>4
<1>5. ThreadsOK' /\ RegsOK'
  <2> USE <1>2 DEF ThreadsOK, ProgramPoints, GoTo, Threads
  <2>0. NoReading \in [position : Nat, time : Nat]
    BY DEF NoReading
  <2>1. ASSUME UNCHANGED <<regs, last>> PROVE RegsOK'
    BY <2>1 DEF RegsOK
  <2>2. CASE UNCHANGED vars
    BY <2>1, <2>2 DEF vars
  <2>3. CASE BeginStampedBlock \/ BeginPlayingBlock \/ StoppedBlock
    BY <2>1, <2>3 DEF BeginStampedBlock, BeginPlayingBlock, StoppedBlock
  <2>4. CASE Open \/ WritePosition \/ WriteTime \/ Close
    BY <2>1, <2>4 DEF Open, WritePosition, WriteTime, Close
  <2>5. CASE Play \/ Stop
    <3>1. regs' = regs /\ (last' = last \/ last' = NoReading)
      BY <2>5 DEF Play, Stop
    <3>2. RegsOK'
      BY <2>0, <3>1 DEF RegsOK
    <3>3. ThreadsOK'
      BY <2>5 DEF Play, Stop
    <3>4. QED
      BY <3>2, <3>3
  <2>6. CASE InvalidateOpen \/ InvalidateTime \/ InvalidatePosition \/ InvalidateClose
    BY <2>1, <2>6 DEF InvalidateOpen, InvalidateTime, InvalidatePosition, InvalidateClose
  <2>7. Idle \in [tries : 0 .. Tries - 1, before : Nat, position : Nat, time : Nat]
    BY <1>0 DEF Idle
  <2>8. ASSUME NextRound
        PROVE  regs' \in [tries : 0 .. Tries - 1, before : Nat, position : Nat, time : Nat]
    <3>1. regs.tries \in 0 .. Tries - 1
      BY DEF RegsOK
    <3>2. ASSUME regs.tries + 1 < Tries
          PROVE  [Idle EXCEPT !.tries = regs.tries + 1]
                    \in [tries : 0 .. Tries - 1, before : Nat, position : Nat, time : Nat]
      <4>1. regs.tries + 1 \in 0 .. Tries - 1
        BY <1>0, <3>1, <3>2
      <4>2. QED
        BY <2>7, <4>1
    <3>3. QED
      BY <2>7, <2>8, <3>2 DEF NextRound
  <2>9. CASE StartReading
    BY <2>7, <2>9 DEF StartReading, RegsOK
  <2>10. CASE LoadBefore
    <3>1. PICK i \in Readable(Memory, "control", "sequence") :
             \/ Finish(last)
             \/ NextRound /\ UNCHANGED last
             \/ /\ pc' = [pc EXCEPT !["control"] = "position"]
                /\ regs' = [regs EXCEPT !.before = mem["sequence"][i].val]
                /\ UNCHANGED last
      BY <2>10 DEF LoadBefore
    <3>2. mem["sequence"][i].val \in Nat
      BY ReadableIsThere DEF Locs
    <3>3. CASE Finish(last)
      BY <2>7, <3>3 DEF Finish, RegsOK
    <3>4. CASE NextRound /\ UNCHANGED last
      BY <2>8, <3>4 DEF NextRound, RegsOK
    <3>5. QED
      BY <3>1, <3>2, <3>3, <3>4 DEF RegsOK
  <2>11. CASE LoadPosition
    <3>1. PICK i \in Readable(Memory, "control", "position") :
             regs' = [regs EXCEPT !.position = mem["position"][i].val]
      BY <2>11 DEF LoadPosition
    <3>2. mem["position"][i].val \in Nat
      BY ReadableIsThere DEF Locs
    <3>3. QED
      BY <2>11, <3>1, <3>2 DEF LoadPosition, RegsOK
  <2>12. CASE LoadTime
    <3>1. PICK i \in Readable(Memory, "control", "time") :
             regs' = [regs EXCEPT !.time = mem["time"][i].val]
      BY <2>12 DEF LoadTime
    <3>2. mem["time"][i].val \in Nat
      BY ReadableIsThere DEF Locs
    <3>3. QED
      BY <2>12, <3>1, <3>2 DEF LoadTime, RegsOK
  <2>13. CASE LoadAfter
    <3>1. \/ NextRound /\ UNCHANGED last
          \/ Finish(last)
          \/ Finish([position |-> regs.position, time |-> regs.time])
      BY <2>13 DEF LoadAfter
    <3>2. CASE NextRound /\ UNCHANGED last
      BY <2>8, <3>2 DEF NextRound, RegsOK
    <3>3. CASE Finish(last)
      BY <2>7, <3>3 DEF Finish, RegsOK
    <3>4. CASE Finish([position |-> regs.position, time |-> regs.time])
      BY <2>7, <3>4 DEF Finish, RegsOK
    <3>5. QED
      BY <3>1, <3>2, <3>3, <3>4
  <2>14. QED
    BY <2>2, <2>3, <2>4, <2>5, <2>6, <2>9, <2>10, <2>11, <2>12, <2>13
       DEF Next, Callback, Transport, Reader
<1>6. BlocksOK'
  <2> USE <1>1, <1>2
  <2>1. CASE BeginStampedBlock \/ BeginPlayingBlock
    <3>1. \E x \in Nat : sent' = Append(sent, x)
      BY <2>1 DEF BeginStampedBlock, BeginPlayingBlock, BlocksOK
    <3>2. sent' \in Seq(Nat) /\ Len(sent') = Len(sent) + 1
      BY <3>1, AppendProperties DEF BlocksOK
    <3>3. beats' \in Nat /\ beats' <= Len(sent) + 1 /\ Len(sent) < MaxBlocks
      BY <2>1 DEF BeginStampedBlock, BeginPlayingBlock, BlocksOK
    <3>4. UNCHANGED <<since, crossing, toggles>>
      BY <2>1 DEF BeginStampedBlock, BeginPlayingBlock
    <3>5. QED
      BY <3>2, <3>3, <3>4 DEF BlocksOK
  <2>2. CASE StoppedBlock
    BY <2>2 DEF StoppedBlock, BlocksOK
  <2>3. CASE Play
    BY <2>3 DEF Play, BlocksOK
  <2>4. CASE Stop
    <3>1. since' = Len(sent) + 1 /\ toggles < MaxToggles /\ toggles' = toggles + 1
          /\ UNCHANGED <<beats, sent>> /\ pc'["audio"] = pc["audio"]
      BY <2>4 DEF Stop, GoTo, ThreadsOK, Threads
    <3>2. crossing' \subseteq 1 .. MaxBlocks
      <4>1. CASE pc["audio"] = "idle"
        BY <2>4, <4>1 DEF Stop, BlocksOK
      <4>2. CASE pc["audio"] # "idle"
        <5>1. Len(sent) \in 1 .. MaxBlocks
          BY <4>2 DEF BlocksOK
        <5>2. QED
          BY <2>4, <4>2, <5>1 DEF Stop, BlocksOK
      <4>3. QED
        BY <4>1, <4>2
    <3>3. QED
      BY <3>1, <3>2 DEF BlocksOK
  <2>5. CASE Open \/ WritePosition \/ WriteTime \/ Close
    BY <2>5 DEF Open, WritePosition, WriteTime, Close, BlocksOK, GoTo, ThreadsOK, Threads
  <2>6. ASSUME UNCHANGED <<sent, beats, since, crossing, toggles>>,
               pc'["audio"] = pc["audio"]
        PROVE  BlocksOK'
    BY <2>6 DEF BlocksOK
  <2>7. CASE InvalidateOpen \/ InvalidateTime \/ InvalidatePosition \/ InvalidateClose
    BY <2>6, <2>7 DEF InvalidateOpen, InvalidateTime, InvalidatePosition, InvalidateClose,
       GoTo, ThreadsOK, Threads
  <2>8. CASE UNCHANGED vars
    BY <2>6, <2>8 DEF vars
  <2>9. CASE Reader
    <3>1. UNCHANGED <<sent, since, crossing, toggles, beats>>
      BY <2>9 DEF Reader, StartReading, LoadBefore, LoadPosition, LoadTime, LoadAfter
    <3>2. \E to : pc' = [pc EXCEPT !["control"] = to]
      BY <2>9 DEF Reader, StartReading, LoadBefore, LoadPosition, LoadTime, LoadAfter,
         GoTo, NextRound, Finish
    <3>3. QED
      BY <2>6, <3>1, <3>2 DEF ThreadsOK, Threads
  <2>10. QED
    BY <2>1, <2>2, <2>3, <2>4, <2>5, <2>7, <2>8, <2>9 DEF Next, Callback, Transport
<1>7. /\ BlocksInv' /\ sent' \in Seq(Nat) /\ Len(sent') <= MaxBlocks
      /\ beats' \in 0 .. MaxBlocks /\ since' \in 1 .. MaxBlocks + 1
      /\ crossing' \subseteq 1 .. MaxBlocks /\ toggles' \in 0 .. MaxToggles
  BY <1>1, <1>6 DEF BlocksOK, BlocksInv
<1>8. mem' \in [Locs -> Seq(Message)] /\ views' \in [Threads -> ThreadViews]
  BY <1>3 DEF MemoryInv, Memories, Typed, Memory
<1>9. TypeOK'
  BY <1>4, <1>5, <1>7, <1>8 DEF TypeOK, ThreadsOK, ProgramPoints, RegsOK
<1>10. QED
  BY <1>3, <1>7, <1>9 DEF Base

\* Every variable keeps its type, the messages and the views of the memory included.
THEOREM TypeCorrect == Spec => []TypeOK
<1>1. Init => Base
  BY BaseInit
<1>2. Base /\ [Next]_vars => Base'
  BY BaseNext
<1>3. Base => TypeOK
  BY DEF Base
<1>4. QED
  BY <1>1, <1>2, <1>3, PTL DEF Spec

-----------------------------------------------------------------------------
(***************************************************************************)
(* The anchor.                                                             *)
(***************************************************************************)
LEMMA SeenNext ==
    ASSUME Base'
    PROVE  \A t \in Threads, l \in Locs : views'[t].seen[l] \in Nat
<1>1. views' \in [Threads -> ThreadViews]
  BY DEF Base, MemoryInv, Memories, Typed, Memory
<1>2. QED
  BY <1>1 DEF ThreadViews, View

LEMMA ReachShrinks ==
    ASSUME Base, Base', ReachIsOfThisRun, mem'["time"] = mem["time"],
           views'["control"].seen["time"] >= views["control"].seen["time"],
           UNCHANGED <<since, crossing>>
    PROVE  ReachIsOfThisRun'
<1>1. views["control"].seen["time"] \in Nat /\ Len(mem["time"]) \in Nat
  BY BaseTypes DEF View, Threads, Locs
<1>2. views'["control"].seen["time"] \in Nat
  BY SeenNext DEF Threads, Locs
<1>3. Reach' \subseteq Reach
  BY <1>1, <1>2 DEF Reach
<1>4. QED
  BY <1>3 DEF ReachIsOfThisRun, OfThisRun

\* A step by which only the control thread's views change.
LEMMA LearningShrinksReach ==
    ASSUME Base, Base', ReachIsOfThisRun, NEW t \in Threads, Learns(Memory, Memory', t),
           mem'["time"] = mem["time"], UNCHANGED <<since, crossing>>
    PROVE  ReachIsOfThisRun'
<1>1. "control" \in Threads /\ "time" \in Locs
  BY DEF Threads, Locs
<1>2. /\ t = "control" => Beyond(views'["control"].seen, views["control"].seen)
      /\ t # "control" => views'["control"] = views["control"]
  BY <1>1 DEF Learns, Memory
<1>3. views["control"].seen["time"] \in Nat
  BY <1>1, BaseTypes DEF View
<1>4. views'["control"].seen["time"] >= views["control"].seen["time"]
  BY <1>1, <1>2, <1>3 DEF Beyond
<1>5. QED
  BY <1>4, ReachShrinks

LEMMA AnchorNext ==
    ASSUME AnchorInv, [Next]_vars
    PROVE  AnchorInv'
<1>1. Base /\ Base'
  BY BaseNext DEF AnchorInv
<1>2. "audio" \in Threads /\ "control" \in Threads
      /\ "sequence" \in Locs /\ "position" \in Locs /\ "time" \in Locs
  BY DEF Threads, Locs
<1>3. ThreadsOK /\ RegsOK /\ BlocksOK
  BY <1>1, BaseParts
<1>4. pc \in [Threads -> ProgramPoints]
  BY <1>3 DEF ThreadsOK
<1>5. ASSUME UNCHANGED <<mem, views, pc, regs, last, since, crossing, sent, clock>>
      PROVE  AnchorInv'
  BY <1>1, <1>5 DEF AnchorInv, Reach, ReachIsOfThisRun, OfThisRun,
     AnchorIsOfThisRunUnlessCrossed
<1>6. CASE UNCHANGED vars
  BY <1>5, <1>6 DEF vars
<1>7. CASE BeginStampedBlock \/ BeginPlayingBlock
  <2>1. /\ pc' = [pc EXCEPT !["audio"] = "odd"]
        /\ UNCHANGED <<mem, views, regs, last, since, crossing, clock>>
        /\ \E x \in Nat : sent' = Append(sent, x)
    BY <1>3, <1>7 DEF BeginStampedBlock, BeginPlayingBlock, GoTo, BlocksOK
  <2>2. Len(sent') = Len(sent) + 1
    BY <1>3, <2>1, AppendProperties DEF BlocksOK
  <2>3. OfThisRun(Len(sent))'
    BY <1>3, <2>1, <2>2 DEF BlocksOK, OfThisRun
  <2>4. pc'["control"] = pc["control"]
    BY <1>2, <1>4, <2>1
  <2>5. QED
    BY <1>1, <2>1, <2>3, <2>4 DEF AnchorInv, Reach, ReachIsOfThisRun, OfThisRun,
       AnchorIsOfThisRunUnlessCrossed
<1>8. CASE StoppedBlock
  BY <1>5, <1>8 DEF StoppedBlock
<1>9. ASSUME Open \/ WritePosition \/ Close,
             Learns(Memory, Memory', "audio"), mem'["time"] = mem["time"]
      PROVE  AnchorInv'
  <2>1. pc["audio"] # "idle" /\ pc'["control"] = pc["control"]
        /\ UNCHANGED <<regs, last, since, crossing, sent, clock>>
    BY <1>2, <1>4, <1>9 DEF Open, WritePosition, Close, GoTo
  <2>2. ReachIsOfThisRun => ReachIsOfThisRun'
    BY <1>1, <1>2, <1>9, <2>1, LearningShrinksReach
  <2>3. QED
    BY <1>1, <2>1, <2>2 DEF AnchorInv, OfThisRun, AnchorIsOfThisRunUnlessCrossed
<1>10. CASE Open
  BY <1>2, <1>1, <1>9, <1>10, OpenStores DEF Stores, Stored, Memory
<1>11. CASE WritePosition
  BY <1>2, <1>1, <1>9, <1>11, WriteStores DEF Stores, Stored, Memory
<1>12. CASE WriteTime
  <2>1. pc["audio"] # "idle" /\ pc'["control"] = pc["control"]
        /\ UNCHANGED <<regs, last, since, crossing, sent, clock>>
    BY <1>2, <1>4, <1>12 DEF WriteTime, GoTo
  <2>2. Stores("audio", "time", Len(sent), views["audio"].released)
    BY <1>1, <1>12, WriteStores
  <2>3. /\ Len(mem'["time"]) = Len(mem["time"]) + 1
        /\ \A i \in 1 .. Len(mem["time"]) : mem'["time"][i] = mem["time"][i]
        /\ mem'["time"][Len(mem["time"]) + 1].val = Len(sent)
        /\ views'["control"] = views["control"]
    BY <1>1, <1>2, <2>2, BaseTypes DEF Stores, Stored, Learns, Memory
  <2>4. ASSUME ReachIsOfThisRun PROVE ReachIsOfThisRun'
    <3>1. views["control"].seen["time"] \in Nat \ {0} /\ Len(mem["time"]) \in Nat
      BY <1>1, <1>2, BaseTypes DEF View
    <3>2. OfThisRun(Len(sent))
      BY <2>1 DEF AnchorInv
    <3>3. \A i \in Reach' : i \in Reach \/ i = Len(mem["time"]) + 1
      BY <2>3, <3>1 DEF Reach
    <3>4. \A i \in Reach : i \in 1 .. Len(mem["time"])
      BY <3>1 DEF Reach
    <3>5. \A i \in Reach' : OfThisRun(mem'["time"][i].val)
      BY <2>3, <2>4, <3>2, <3>3, <3>4 DEF ReachIsOfThisRun
    <3>6. QED
      BY <2>1, <3>5 DEF ReachIsOfThisRun, OfThisRun
  <2>5. QED
    BY <1>1, <2>1, <2>4 DEF AnchorInv, OfThisRun, AnchorIsOfThisRunUnlessCrossed
<1>13. CASE Close
  BY <1>2, <1>1, <1>9, <1>13, CloseStores DEF Stores, Stored, Memory
<1>14. CASE Play
  BY <1>5, <1>14 DEF Play
<1>15. CASE Stop
  <2>1. /\ pc'["control"] = "odd" /\ pc'["audio"] = pc["audio"] /\ sent' = sent
        /\ last' = NoReading
        /\ pc["audio"] # "idle" => Len(sent) \in crossing'
    BY <1>2, <1>4, <1>15 DEF Stop, GoTo
  <2>2. QED
    BY <1>1, <2>1 DEF AnchorInv, OfThisRun, AnchorIsOfThisRunUnlessCrossed
<1>16. ASSUME Learns(Memory, Memory', "control"), mem'["time"] = mem["time"],
              pc'["audio"] = pc["audio"], pc["control"] \notin {"odd", "no time"},
              UNCHANGED <<since, crossing, sent, clock>>
       PROVE  /\ pc'["audio"] # "idle" => OfThisRun(Len(sent))'
              /\ ReachIsOfThisRun'
              /\ last' = last => AnchorIsOfThisRunUnlessCrossed'
  <2>1. ReachIsOfThisRun'
    BY <1>1, <1>2, <1>16, LearningShrinksReach DEF AnchorInv
  <2>2. QED
    BY <1>16, <2>1 DEF AnchorInv, OfThisRun, AnchorIsOfThisRunUnlessCrossed
<1>17. CASE InvalidateOpen
  <2>1. pc'["audio"] = pc["audio"] /\ pc'["control"] = "no time"
        /\ UNCHANGED <<last, since, crossing, sent, clock>>
    BY <1>2, <1>4, <1>17 DEF InvalidateOpen, GoTo
  <2>2. QED
    BY <1>1, <2>1 DEF AnchorInv, OfThisRun, AnchorIsOfThisRunUnlessCrossed
<1>18. CASE InvalidateTime
  <2>1. pc'["audio"] = pc["audio"] /\ pc'["control"] = "no position"
        /\ UNCHANGED <<last, since, crossing, sent, clock>>
    BY <1>2, <1>4, <1>18 DEF InvalidateTime, GoTo
  <2>2. Stores("control", "time", 0, views["control"].released)
    BY <1>1, <1>18, WriteStores
  <2>3. /\ Len(mem'["time"]) = Len(mem["time"]) + 1
        /\ mem'["time"][Len(mem["time"]) + 1].val = 0
        /\ views'["control"].seen["time"] >= Len(mem["time"]) + 1
    BY <1>2, <2>2 DEF Stores, Stored, Memory
  <2>4. views'["control"].seen["time"] \in Nat /\ Len(mem["time"]) \in Nat
    BY <1>1, <1>2, BaseTypes, SeenNext
  <2>5. \A i \in Reach' : i = Len(mem["time"]) + 1
    BY <2>3, <2>4 DEF Reach
  <2>6. ReachIsOfThisRun'
    BY <2>3, <2>5 DEF ReachIsOfThisRun, OfThisRun
  <2>7. QED
    BY <1>1, <2>1, <2>6 DEF AnchorInv, OfThisRun, AnchorIsOfThisRunUnlessCrossed
<1>19. CASE InvalidatePosition
  <2>1. /\ pc'["audio"] = pc["audio"] /\ pc["control"] = "no position"
        /\ pc'["control"] = "even" /\ UNCHANGED <<last, since, crossing, sent, clock>>
    BY <1>2, <1>4, <1>19 DEF InvalidatePosition, GoTo
  <2>2. Learns(Memory, Memory', "control") /\ mem'["time"] = mem["time"]
    BY <1>1, <1>2, <1>19, WriteStores DEF Stores, Stored, Memory
  <2>3. QED
    BY <1>1, <1>16, <2>1, <2>2 DEF AnchorInv
<1>20. CASE InvalidateClose
  <2>1. /\ pc'["audio"] = pc["audio"] /\ pc["control"] = "even"
        /\ pc'["control"] = "idle" /\ UNCHANGED <<last, since, crossing, sent, clock>>
    BY <1>2, <1>4, <1>20 DEF InvalidateClose, GoTo
  <2>2. Learns(Memory, Memory', "control") /\ mem'["time"] = mem["time"]
    BY <1>1, <1>2, <1>20, CloseStores DEF Stores, Stored, Memory
  <2>3. QED
    BY <1>1, <1>16, <2>1, <2>2 DEF AnchorInv
<1>21. CASE StartReading
  <2>1. /\ pc'["audio"] = pc["audio"] /\ pc["control"] = "idle" /\ pc'["control"] = "before"
        /\ UNCHANGED <<mem, views, last, since, crossing, sent, clock>>
    BY <1>2, <1>4, <1>21 DEF StartReading, GoTo
  <2>2. QED
    BY <1>1, <2>1 DEF AnchorInv, Reach, ReachIsOfThisRun, OfThisRun,
       AnchorIsOfThisRunUnlessCrossed
<1>22. CASE LoadBefore
  <2>1. PICK i \in Readable(Memory, "control", "sequence") :
           Becomes(LoadAcquire(Memory, "control", "sequence", i))
    BY <1>22 DEF LoadBefore
  <2>2. Learns(Memory, Memory', "control") /\ mem' = mem
    BY <1>1, <1>2, <2>1, AcquireLoads DEF Loads, Loaded, Memory
  <2>3. /\ pc["control"] = "before" /\ pc'["audio"] = pc["audio"] /\ last' = last
        /\ pc'["control"] # "after" /\ UNCHANGED <<since, crossing, sent, clock>>
    BY <1>2, <1>4, <1>22 DEF LoadBefore, Finish, NextRound
  <2>4. QED
    BY <1>1, <1>16, <2>2, <2>3 DEF AnchorInv
<1>23. CASE LoadPosition
  <2>1. PICK i \in Readable(Memory, "control", "position") :
           Becomes(LoadRelaxed(Memory, "control", "position", i))
    BY <1>23 DEF LoadPosition
  <2>2. Learns(Memory, Memory', "control") /\ mem' = mem
    BY <1>1, <1>2, <2>1, RelaxedLoads DEF Loads, Loaded, Memory
  <2>3. /\ pc["control"] = "position" /\ pc'["audio"] = pc["audio"] /\ last' = last
        /\ pc'["control"] = "time" /\ UNCHANGED <<since, crossing, sent, clock>>
    BY <1>2, <1>4, <1>23 DEF LoadPosition, GoTo
  <2>4. QED
    BY <1>1, <1>16, <2>2, <2>3 DEF AnchorInv
<1>24. CASE LoadTime
  <2>1. PICK i \in Readable(Memory, "control", "time") :
           /\ Becomes(LoadRelaxed(Memory, "control", "time", i))
           /\ regs' = [regs EXCEPT !.time = mem["time"][i].val]
    BY <1>24 DEF LoadTime
  <2>2. Learns(Memory, Memory', "control") /\ mem' = mem
    BY <1>1, <1>2, <2>1, RelaxedLoads DEF Loads, Loaded, Memory
  <2>3. /\ pc["control"] = "time" /\ pc'["audio"] = pc["audio"] /\ last' = last
        /\ pc'["control"] = "after" /\ UNCHANGED <<since, crossing, sent, clock>>
    BY <1>2, <1>4, <1>24 DEF LoadTime, GoTo
  <2>4. regs'.time = mem["time"][i].val
    BY <1>3, <2>1 DEF RegsOK
  <2>5. OfThisRun(regs.time)'
    <3>1. i \in Reach
      BY <2>1 DEF Readable, Reach, Memory
    <3>2. OfThisRun(regs'.time)
      BY <2>3, <2>4, <3>1 DEF AnchorInv, ReachIsOfThisRun
    <3>3. QED
      BY <2>3, <3>2 DEF OfThisRun
  <2>6. QED
    BY <1>1, <1>16, <2>2, <2>3, <2>5 DEF AnchorInv
<1>25. CASE LoadAfter
  <2>1. PICK i : LastLoad(i)
    BY <1>25 DEF LoadAfter, LastLoad
  <2>2. Learns(Memory, Memory', "control") /\ mem' = mem
    BY <1>1, <2>1, LastLoads
  <2>3. /\ pc["control"] = "after" /\ pc'["audio"] = pc["audio"]
        /\ pc'["control"] # "after" /\ UNCHANGED <<since, crossing, sent, clock>>
    BY <1>2, <1>4, <1>25 DEF LoadAfter, Finish, NextRound
  <2>4. \/ last' = last
        \/ /\ ~(clock = "anchor" /\ regs.time = 0)
           /\ last' = [position |-> regs.position, time |-> regs.time]
    BY <1>25 DEF LoadAfter, Finish
  <2>5. AnchorIsOfThisRunUnlessCrossed'
    <3>1. CASE last' = last
      BY <1>16, <2>2, <2>3, <3>1
    <3>2. CASE last' # last
      BY <2>3, <2>4, <3>2 DEF AnchorInv, OfThisRun, AnchorIsOfThisRunUnlessCrossed
    <3>3. QED
      BY <3>1, <3>2
  <2>6. QED
    BY <1>1, <1>16, <2>2, <2>3, <2>5 DEF AnchorInv
<1>26. QED
  BY <1>6, <1>7, <1>8, <1>10, <1>11, <1>12, <1>13, <1>14, <1>15, <1>17, <1>18, <1>19, <1>20,
     <1>21, <1>22, <1>23, <1>24, <1>25 DEF Next, Callback, Transport, Reader

\* After a stop no anchor of a block from before it is handed out, but of one
\* that was publishing at the stop (AnchorIsOfThisRunUnlessCrossed): the
\* invalidation hides every older timestamp, whatever the thread may still load.
THEOREM OldAnchorsAreHidden == Spec => []AnchorIsOfThisRunUnlessCrossed
<1>1. Init => AnchorInv
  <2>1. SUFFICES ASSUME Init PROVE AnchorInv
    OBVIOUS
  <2>2. Base
    BY <2>1, BaseInit
  <2>3. \A i \in Reach : mem["time"][i].val = 0
    BY <2>1 DEF Init, Reach, Threads, Locs, Bottom
  <2>4. QED
    BY <2>1, <2>2, <2>3 DEF Init, AnchorInv, ReachIsOfThisRun, OfThisRun, Threads,
       AnchorIsOfThisRunUnlessCrossed
<1>2. AnchorInv /\ [Next]_vars => AnchorInv'
  BY AnchorNext
<1>3. AnchorInv => AnchorIsOfThisRunUnlessCrossed
  BY DEF AnchorInv
<1>4. QED
  BY <1>1, <1>2, <1>3, PTL DEF Spec

-----------------------------------------------------------------------------
(***************************************************************************)
(* The stamp.                                                              *)
(***************************************************************************)
LEMMA Numbers ==
    ASSUME Base
    PROVE  /\ \A t \in Threads, l \in Locs : /\ views[t].seen[l] \in Nat
                                             /\ views[t].acquirable[l] \in Nat
                                             /\ views[t].released[l] \in Nat
           /\ \A l \in Locs : /\ Len(mem[l]) \in Nat \ {0}
                              /\ \A i \in 1 .. Len(mem[l]), k \in Locs :
                                    mem[l][i].val \in Nat /\ mem[l][i].view[k] \in Nat
BY BaseTypes DEF View

\* What a store by t does to the memory, when it is the n-th of l.
StoreEffect(t, l, n, val, released) ==
    /\ Len(mem'[l]) = n
    /\ \A i \in 1 .. n - 1 : mem'[l][i] = mem[l][i]
    /\ mem'[l][n].val = val
    /\ \A k \in Locs : mem'[l][n].view[k] >= released[k] /\ mem'[l][n].view[k] \in Nat
    /\ \A k \in Locs \ {l} : mem'[k] = mem[k]
    /\ \A u \in Threads \ {t} : views'[u] = views[u]
    /\ \A k \in Locs : /\ views'[t].seen[k] >= views[t].seen[k]
                       /\ views'[t].seen[k] \in Nat
    /\ views'[t].seen[l] >= n

LEMMA StoreFacts ==
    ASSUME Base, Base', NEW t \in Threads, NEW l \in Locs, NEW val, NEW released,
           Stores(t, l, val, released)
    PROVE  StoreEffect(t, l, Len(mem[l]) + 1, val, released)
<1>1. Len(mem[l]) \in Nat
  BY Numbers
<1>2. /\ Learns(Memory, Memory', t)
      /\ Len(mem'[l]) = Len(mem[l]) + 1
      /\ \A i \in 1 .. Len(mem[l]) : mem'[l][i] = mem[l][i]
      /\ mem'[l][Len(mem[l]) + 1].val = val
      /\ Beyond(mem'[l][Len(mem[l]) + 1].view, released)
      /\ \A k \in Locs \ {l} : mem'[k] = mem[k]
      /\ views'[t].seen[l] >= Len(mem[l]) + 1
  BY <1>1 DEF Stores, Stored, Memory
<1>3. /\ \A u \in Threads \ {t} : views'[u] = views[u]
      /\ Beyond(views'[t].seen, views[t].seen)
  BY <1>2 DEF Learns, Memory
<1>4. mem'[l][Len(mem[l]) + 1].view \in View
  <2>1. mem' \in [Locs -> Seq(Message)]
    BY DEF Base, MemoryInv, Memories, Typed, Memory
  <2>2. mem'[l] \in Seq(Message) /\ Len(mem[l]) + 1 \in 1 .. Len(mem'[l])
    BY <1>1, <1>2, <2>1
  <2>3. mem'[l][Len(mem[l]) + 1] \in Message
    BY <2>2, ElementOfSeq
  <2>4. QED
    BY <2>3 DEF Message
<1>5. QED
  BY <1>1, <1>2, <1>3, <1>4, SeenNext DEF StoreEffect, Beyond, View

\* The stamp's invariants without Base.
StampParts == RoundsInv /\ CarriedInv /\ WriterInv /\ ReaderInv

\* A step of the control thread disturbs nothing but ReaderInv.
LEMMA ControlKeepsRounds ==
    ASSUME Base, RoundsInv, CarriedInv, WriterInv,
           mem' = mem, sent' = sent, views'["audio"] = views["audio"],
           pc'["audio"] = pc["audio"]
    PROVE  RoundsInv' /\ CarriedInv' /\ WriterInv'
BY DEF RoundsInv, CarriedInv, WriterInv, Written

\* A step of the callback does not disturb ReaderInv.
LEMMA CallbackKeepsReader ==
    ASSUME ReaderInv, views'["control"] = views["control"], pc'["control"] = pc["control"],
           UNCHANGED <<regs, last>>
    PROVE  ReaderInv'
BY DEF ReaderInv

LEMMA StampBegin ==
    ASSUME Base, StampParts, BeginStampedBlock
    PROVE  StampParts'
<1>1. "audio" \in Threads /\ "control" \in Threads /\ pc \in [Threads -> ProgramPoints]
      /\ BlocksOK
  BY BaseParts DEF Threads, ThreadsOK
<1>2. /\ pc["audio"] = "idle" /\ pc'["audio"] = "odd" /\ pc'["control"] = pc["control"]
      /\ UNCHANGED <<mem, views, regs, last>> /\ sent' = Append(sent, Len(sent) + 1)
  BY <1>1 DEF BeginStampedBlock, GoTo
<1>3. /\ Len(sent') = Len(sent) + 1 /\ sent'[Len(sent) + 1] = Len(sent) + 1
      /\ \A b \in 1 .. Len(sent) : sent'[b] = sent[b]
  BY <1>1, <1>2, AppendProperties DEF BlocksOK
<1>4. RoundsInv'
  <2>1. Len(sent) \in Nat
    BY <1>1 DEF BlocksOK
  <2>2. \A b \in 1 .. Len(sent') : sent'[b] = b
    BY <1>3, <2>1 DEF StampParts, RoundsInv
  <2>3. QED
    BY <1>2, <1>3, <2>1, <2>2 DEF StampParts, RoundsInv, Written
<1>5. CarriedInv' /\ WriterInv'
  BY <1>2 DEF StampParts, CarriedInv, WriterInv, Written
<1>6. ReaderInv'
  BY <1>2, CallbackKeepsReader DEF StampParts
<1>7. QED
  BY <1>4, <1>5, <1>6 DEF StampParts

\* The n-th store of l carries what CarriedInv says.
Carries(l, n) ==
    \A k \in {"position", "time"} :
        /\ l = "sequence" => 2 * mem'[l][n].view[k] >= n
        /\ l = k => mem'[l][n].view["sequence"] >= 2 * (n - 1)

\* What then holds after it.
NumberedAndCarried ==
    /\ \A k \in Locs : \A i \in 1 .. Len(mem'[k]) : mem'[k][i].val = i - 1
    /\ CarriedInv'
    /\ \A k \in Locs : views'["audio"].seen[k] >= Len(mem'[k])
    /\ views'["control"] = views["control"]

LEMMA CallbackStores ==
    ASSUME Base, Base', StampParts, NEW l \in Locs, NEW n, n = Len(mem[l]) + 1, NEW released,
           StoreEffect("audio", l, n, n - 1, released), Carries(l, n)
    PROVE  NumberedAndCarried
<1>1. n \in Nat /\ n > 0 /\ Len(mem[l]) = n - 1
  <2>1. Len(mem[l]) \in Nat
    BY Numbers
  <2>2. QED
    BY <2>1
<1>2. \A i \in 1 .. n : i = n \/ (i \in 1 .. Len(mem[l]) /\ mem'[l][i] = mem[l][i])
  BY <1>1 DEF StoreEffect
<1>3. Len(mem'[l]) = n /\ mem'[l][n].val = n - 1 /\ \A k \in Locs \ {l} : mem'[k] = mem[k]
  BY DEF StoreEffect
<1>4. \A k \in Locs : \A i \in 1 .. Len(mem[k]) : mem[k][i].val = i - 1
  BY DEF StampParts, RoundsInv, Written
<1>5. ASSUME NEW k \in Locs, NEW i \in 1 .. Len(mem'[k]) PROVE mem'[k][i].val = i - 1
  <2>1. CASE k # l
    BY <1>3, <1>4, <2>1
  <2>2. CASE k = l /\ i = n
    BY <1>3, <2>2
  <2>3. CASE k = l /\ i # n
    <3>1. i \in 1 .. Len(mem[l]) /\ mem'[l][i] = mem[l][i]
      BY <1>2, <1>3, <2>3
    <3>2. QED
      BY <1>4, <2>3, <3>1
  <2>4. QED
    BY <2>1, <2>2, <2>3
<1>6. CarriedInv'
  <2>1. SUFFICES ASSUME NEW k \in {"position", "time"}
                 PROVE  /\ \A i \in 1 .. Len(mem'["sequence"]) :
                              2 * mem'["sequence"][i].view[k] >= i
                        /\ \A i \in 1 .. Len(mem'[k]) :
                              mem'[k][i].view["sequence"] >= 2 * (i - 1)
    BY DEF CarriedInv, Written
  <2>2. /\ \A i \in 1 .. Len(mem["sequence"]) : 2 * mem["sequence"][i].view[k] >= i
        /\ \A i \in 1 .. Len(mem[k]) : mem[k][i].view["sequence"] >= 2 * (i - 1)
    BY DEF StampParts, CarriedInv, Written
  <2>3. k \in Locs /\ "sequence" \in Locs /\ k # "sequence"
    BY DEF Locs
  <2>4. \A i \in 1 .. Len(mem'["sequence"]) : 2 * mem'["sequence"][i].view[k] >= i
    BY <1>2, <1>3, <2>2, <2>3 DEF Carries
  <2>5. \A i \in 1 .. Len(mem'[k]) : mem'[k][i].view["sequence"] >= 2 * (i - 1)
    BY <1>2, <1>3, <2>2, <2>3 DEF Carries
  <2>6. QED
    BY <2>4, <2>5
<1>7. ASSUME NEW k \in Locs PROVE views'["audio"].seen[k] >= Len(mem'[k])
  <2>1. /\ views["audio"].seen[k] >= Len(mem[k]) /\ views["audio"].seen[k] \in Nat
        /\ Len(mem[k]) \in Nat
    BY Numbers DEF StampParts, WriterInv, Written, Threads
  <2>2. /\ views'["audio"].seen[k] >= views["audio"].seen[k] /\ views'["audio"].seen[k] \in Nat
        /\ k = l => views'["audio"].seen[k] >= n
    BY DEF StoreEffect
  <2>3. QED
    BY <1>3, <2>1, <2>2
<1>8. QED
  BY <1>5, <1>6, <1>7 DEF NumberedAndCarried, StoreEffect, Threads

LEMMA StampOpen ==
    ASSUME Base, Base', StampParts, clock = "stamp", Open
    PROVE  StampParts'
<1> DEFINE n == Len(sent)
           l == "sequence"
<1>1. "audio" \in Threads /\ "control" \in Threads /\ pc \in [Threads -> ProgramPoints]
      /\ n \in Nat /\ n > 0
      /\ "sequence" \in Locs /\ "position" \in Locs /\ "time" \in Locs
  <2>1. BlocksOK /\ ThreadsOK /\ pc["audio"] # "idle"
    BY BaseParts DEF Open, GoTo
  <2>2. QED
    BY <2>1 DEF BlocksOK, ThreadsOK, Threads, Locs
<1>2. /\ pc["audio"] = "odd" /\ pc'["audio"] = "position" /\ pc'["control"] = pc["control"]
      /\ UNCHANGED <<sent, regs, last>>
  BY <1>1 DEF Open, GoTo
<1>3. /\ Stores("audio", l, Newest(l).val + 1, Newest(l).view)
      /\ views'["audio"].released[l] >= Len(mem'[l])
  BY OpenStores
<1>4. Len(mem[l]) = 2 * n - 1 /\ Newest(l).val + 1 = 2 * n - 1
      /\ Newest(l) = mem[l][2 * n - 1]
  BY <1>1, <1>2 DEF StampParts, RoundsInv, Written, Newest
<1>5. StoreEffect("audio", l, 2 * n, 2 * n - 1, Newest(l).view)
  <2>1. StoreEffect("audio", l, Len(mem[l]) + 1, Newest(l).val + 1, Newest(l).view)
    BY <1>1, <1>3, StoreFacts
  <2>2. Len(mem[l]) + 1 = 2 * n
    BY <1>1, <1>4
  <2>3. QED
    BY <1>4, <2>1, <2>2
<1>6. ASSUME NEW k \in {"position", "time"} PROVE 2 * mem'[l][2 * n].view[k] >= 2 * n
  <2>1. mem'[l][2 * n].view[k] >= Newest(l).view[k] /\ mem'[l][2 * n].view[k] \in Nat
    BY <1>5 DEF StoreEffect, Locs
  <2>2. 2 * n - 1 \in 1 .. Len(mem[l]) /\ k \in Locs
    BY <1>1, <1>4 DEF Locs
  <2>3. \A i \in 1 .. Len(mem[l]) : 2 * mem[l][i].view[k] >= i /\ mem[l][i].view[k] \in Nat
    BY <1>1, <2>2, Numbers DEF StampParts, CarriedInv, Written
  <2>4. 2 * Newest(l).view[k] >= 2 * n - 1 /\ Newest(l).view[k] \in Nat
    BY <1>4, <2>2, <2>3
  <2>5. QED
    BY <1>1, <2>1, <2>4
<1>7. NumberedAndCarried
  <2>1. 2 * n = Len(mem[l]) + 1
    BY <1>1, <1>4
  <2>2. Carries(l, 2 * n)
    BY <1>6 DEF Carries
  <2>3. QED
    BY <1>1, <1>5, <2>1, <2>2, CallbackStores
<1>8. RoundsInv'
  <2>1. Len(mem'[l]) = 2 * n /\ mem'["position"] = mem["position"] /\ mem'["time"] = mem["time"]
    BY <1>5 DEF StoreEffect, Locs
  <2>2. QED
    BY <1>2, <1>7, <2>1 DEF NumberedAndCarried, StampParts, RoundsInv, Written
<1>9. WriterInv' /\ ReaderInv'
  BY <1>2, <1>3, <1>7, CallbackKeepsReader DEF NumberedAndCarried, StampParts, WriterInv, Written
<1>10. QED
  BY <1>7, <1>8, <1>9 DEF NumberedAndCarried, StampParts

\* The two values of a round, stored by the callback between its two counts.
LEMMA StampWrite ==
    ASSUME Base, Base', StampParts, WritePosition \/ WriteTime
    PROVE  StampParts'
<1> DEFINE n == Len(sent)
           l == IF WritePosition THEN "position" ELSE "time"
<1>1. "audio" \in Threads /\ "control" \in Threads /\ pc \in [Threads -> ProgramPoints]
      /\ n \in Nat /\ n > 0 /\ sent[n] = n
      /\ "sequence" \in Locs /\ l \in Locs /\ l \in {"position", "time"}
  <2>1. BlocksOK /\ ThreadsOK /\ pc["audio"] # "idle"
    BY BaseParts DEF WritePosition, WriteTime, GoTo
  <2>2. n \in Nat /\ n > 0
    BY <2>1 DEF BlocksOK
  <2>3. sent[n] = n
    BY <2>2 DEF StampParts, RoundsInv
  <2>4. QED
    BY <2>1, <2>2, <2>3 DEF ThreadsOK, Threads, Locs
<1>2. /\ pc["audio"] = l /\ pc'["audio"] = (IF l = "position" THEN "time" ELSE "even")
      /\ pc'["control"] = pc["control"] /\ UNCHANGED <<sent, regs, last>>
  BY <1>1 DEF WritePosition, WriteTime, GoTo
<1>3. /\ Stores("audio", l, n, views["audio"].released)
      /\ views'["audio"].released = views["audio"].released
  BY <1>1, WriteStores
<1> HIDE DEF l
<1>4. Len(mem[l]) = n /\ Len(mem["sequence"]) = 2 * n
  BY <1>1, <1>2 DEF StampParts, RoundsInv, Written
<1>5. StoreEffect("audio", l, n + 1, n, views["audio"].released)
  BY <1>1, <1>3, <1>4, StoreFacts
<1>6. mem'[l][n + 1].view["sequence"] >= 2 * n
  <2>1. mem'[l][n + 1].view["sequence"] >= views["audio"].released["sequence"]
        /\ mem'[l][n + 1].view["sequence"] \in Nat
    BY <1>1, <1>5 DEF StoreEffect
  <2>2. views["audio"].released["sequence"] >= 2 * n /\ views["audio"].released["sequence"] \in Nat
    BY <1>1, <1>2, <1>4, Numbers DEF StampParts, WriterInv, Written
  <2>3. QED
    BY <1>1, <2>1, <2>2
<1>7. NumberedAndCarried
  <2>1. n + 1 = Len(mem[l]) + 1 /\ n + 1 - 1 = n /\ l # "sequence"
    BY <1>1, <1>4
  <2>2. Carries(l, n + 1)
    BY <1>1, <1>6, <2>1 DEF Carries
  <2>3. StoreEffect("audio", l, n + 1, n + 1 - 1, views["audio"].released)
    BY <1>5, <2>1
  <2>4. QED
    BY <1>1, <2>1, <2>2, <2>3, CallbackStores
<1>8. Len(mem'[l]) = n + 1 /\ \A k \in Locs \ {l} : mem'[k] = mem[k]
  BY <1>5 DEF StoreEffect
<1>9. RoundsInv'
  <2>1. CASE l = "position"
    BY <1>2, <1>7, <1>8, <2>1 DEF NumberedAndCarried, StampParts, RoundsInv, Written, Locs
  <2>2. CASE l = "time"
    BY <1>2, <1>7, <1>8, <2>2 DEF NumberedAndCarried, StampParts, RoundsInv, Written, Locs
  <2>3. QED
    BY <1>1, <2>1, <2>2
<1>10. WriterInv' /\ ReaderInv'
  <2>1. mem'["sequence"] = mem["sequence"]
    BY <1>1, <1>8
  <2>2. WriterInv'
    BY <1>1, <1>2, <1>3, <1>7, <2>1 DEF NumberedAndCarried, StampParts, WriterInv, Written
  <2>3. QED
    BY <1>2, <1>7, <2>2, CallbackKeepsReader DEF NumberedAndCarried, StampParts
<1>11. QED
  BY <1>7, <1>9, <1>10 DEF NumberedAndCarried, StampParts

LEMMA StampClose ==
    ASSUME Base, Base', StampParts, Close
    PROVE  StampParts'
<1> DEFINE n == Len(sent)
           l == "sequence"
<1>1. "audio" \in Threads /\ "control" \in Threads /\ pc \in [Threads -> ProgramPoints]
      /\ n \in Nat /\ n > 0
      /\ "sequence" \in Locs /\ "position" \in Locs /\ "time" \in Locs
  <2>1. BlocksOK /\ ThreadsOK /\ pc["audio"] # "idle"
    BY BaseParts DEF Close, GoTo
  <2>2. QED
    BY <2>1 DEF BlocksOK, ThreadsOK, Threads, Locs
<1>2. /\ pc["audio"] = "even" /\ pc'["audio"] = "idle" /\ pc'["control"] = pc["control"]
      /\ UNCHANGED <<sent, regs, last>>
  BY <1>1 DEF Close, GoTo
<1>3. Stores("audio", l, Newest(l).val + 1, views["audio"].seen)
  BY CloseStores
<1>4. /\ Len(mem[l]) = 2 * n /\ Newest(l).val + 1 = 2 * n
      /\ Len(mem["position"]) = n + 1 /\ Len(mem["time"]) = n + 1
  BY <1>1, <1>2 DEF StampParts, RoundsInv, Written, Newest
<1>5. StoreEffect("audio", l, 2 * n + 1, 2 * n, views["audio"].seen)
  BY <1>1, <1>3, <1>4, StoreFacts
<1>6. ASSUME NEW k \in {"position", "time"} PROVE 2 * mem'[l][2 * n + 1].view[k] >= 2 * n + 1
  <2>1. mem'[l][2 * n + 1].view[k] >= views["audio"].seen[k] /\ mem'[l][2 * n + 1].view[k] \in Nat
    BY <1>5 DEF StoreEffect, Locs
  <2>2. views["audio"].seen[k] >= n + 1 /\ views["audio"].seen[k] \in Nat
    BY <1>1, <1>4, Numbers DEF StampParts, WriterInv, Written, Locs
  <2>3. QED
    BY <1>1, <2>1, <2>2
<1>7. NumberedAndCarried
  <2>1. 2 * n + 1 = Len(mem[l]) + 1 /\ 2 * n + 1 - 1 = 2 * n
    BY <1>1, <1>4
  <2>2. Carries(l, 2 * n + 1)
    BY <1>6 DEF Carries
  <2>3. StoreEffect("audio", l, 2 * n + 1, 2 * n + 1 - 1, views["audio"].seen)
    BY <1>5, <2>1
  <2>4. QED
    BY <1>1, <2>1, <2>2, <2>3, CallbackStores
<1>8. RoundsInv'
  <2>1. /\ Len(mem'[l]) = 2 * n + 1
        /\ mem'["position"] = mem["position"] /\ mem'["time"] = mem["time"]
    BY <1>5 DEF StoreEffect, Locs
  <2>2. QED
    BY <1>2, <1>7, <2>1 DEF NumberedAndCarried, StampParts, RoundsInv, Written
<1>9. WriterInv' /\ ReaderInv'
  BY <1>2, <1>7, CallbackKeepsReader DEF NumberedAndCarried, StampParts, WriterInv, Written
<1>10. QED
  BY <1>7, <1>8, <1>9 DEF NumberedAndCarried, StampParts

\* What the control thread has learnt in a step.
Learnt ==
    /\ mem' = mem /\ views'["audio"] = views["audio"]
    /\ \A k \in Locs :
          /\ views'["control"].seen[k] >= views["control"].seen[k]
          /\ views'["control"].acquirable[k] >= views["control"].acquirable[k]
          /\ views'["control"].seen[k] \in Nat /\ views'["control"].acquirable[k] \in Nat

LEMMA LearningFacts ==
    ASSUME Base, Base', Learns(Memory, Memory', "control"), mem' = mem
    PROVE  Learnt
<1>1. views' \in [Threads -> ThreadViews]
  BY DEF Base, MemoryInv, Memories, Typed, Memory
<1>2. \A k \in Locs : views'["control"].seen[k] \in Nat /\ views'["control"].acquirable[k] \in Nat
  BY <1>1 DEF ThreadViews, View, Threads
<1>3. QED
  BY <1>2 DEF Learns, Learnt, Memory, Beyond, Threads

\* The message that the reader loads, and what it then knows.
LEMMA LoadFacts ==
    ASSUME Base, Base', StampParts, NEW l \in Locs, NEW i \in Readable(Memory, "control", l),
           Loads(l, i)
    PROVE  /\ Learnt /\ i \in 1 .. Len(mem[l]) /\ mem[l][i].val = i - 1
           /\ i >= views["control"].seen[l] /\ views'["control"].seen[l] >= i
           /\ l \in {"position", "time"}
                 => views'["control"].acquirable["sequence"] >= 2 * (i - 1)
<1>1. i \in 1 .. Len(mem[l]) /\ i >= views["control"].seen[l]
  BY ReadableIsThere
<1>2. mem[l][i].val = i - 1
  BY <1>1 DEF StampParts, RoundsInv, Written
<1>3. /\ Learns(Memory, Memory', "control") /\ mem' = mem
      /\ views'["control"].seen[l] >= i
      /\ Beyond(views'["control"].acquirable, mem[l][i].view)
  BY DEF Loads, Loaded, Memory
<1>4. Learnt
  BY <1>3, LearningFacts
<1>5. ASSUME l \in {"position", "time"}
      PROVE  views'["control"].acquirable["sequence"] >= 2 * (i - 1)
  <2>1. "sequence" \in Locs /\ Len(mem[l]) \in Nat
    BY Numbers DEF Locs
  <2>2. mem[l][i].view["sequence"] >= 2 * (i - 1) /\ mem[l][i].view["sequence"] \in Nat
    BY <1>1, <1>5, <2>1, Numbers DEF StampParts, CarriedInv, Written
  <2>3. views'["control"].acquirable["sequence"] >= mem[l][i].view["sequence"]
        /\ views'["control"].acquirable["sequence"] \in Nat
    BY <1>3, <1>4, <2>1 DEF Beyond, Learnt
  <2>4. i \in Int
    BY <1>1, <2>1
  <2>5. QED
    BY <2>2, <2>3, <2>4
<1>6. QED
  BY <1>1, <1>2, <1>3, <1>4, <1>5

\* The reader's step gives ReaderInv again; its control points and registers.
LEMMA StampLoadBefore ==
    ASSUME Base, Base', StampParts, clock = "stamp", LoadBefore
    PROVE  StampParts' /\ last' = last
<1> DEFINE v == views["control"]
           w == views'["control"]
<1>1. "audio" \in Threads /\ "control" \in Threads /\ pc \in [Threads -> ProgramPoints]
      /\ RegsOK /\ "sequence" \in Locs /\ "position" \in Locs /\ "time" \in Locs
  BY BaseParts DEF ThreadsOK, Threads, Locs
<1>2. PICK i \in Readable(Memory, "control", "sequence") :
         LET before == mem["sequence"][i].val
         IN /\ Becomes(LoadAcquire(Memory, "control", "sequence", i))
            /\ \/ Finish(last)
               \/ NextRound /\ UNCHANGED last
               \/ /\ before % 2 = 0 /\ before # 0
                  /\ pc' = [pc EXCEPT !["control"] = "position"]
                  /\ regs' = [regs EXCEPT !.before = before]
                  /\ UNCHANGED last
  BY DEF LoadBefore
<1>3. Loads("sequence", i) /\ Beyond(w.seen, mem["sequence"][i].view)
  BY <1>1, <1>2, AcquireLoads
<1>4. /\ Learnt /\ i \in 1 .. Len(mem["sequence"]) /\ mem["sequence"][i].val = i - 1
      /\ i >= v.seen["sequence"] /\ w.seen["sequence"] >= i
  BY <1>1, <1>3, LoadFacts
<1>5. /\ v.seen["sequence"] >= 2 * last.time + 1 /\ v.seen["sequence"] \in Nat
      /\ last.position = last.time /\ last.time \in Nat /\ i \in Nat
      /\ w.seen["sequence"] \in Nat /\ w.seen["sequence"] >= 2 * last.time + 1
  <2>1. v.seen["sequence"] >= 2 * last.time + 1 /\ last.position = last.time
    BY DEF StampParts, ReaderInv
  <2>2. v.seen["sequence"] \in Nat /\ Len(mem["sequence"]) \in Nat /\ last.time \in Nat
    BY <1>1, Numbers DEF RegsOK
  <2>3. w.seen["sequence"] \in Nat /\ w.seen["sequence"] >= v.seen["sequence"]
    BY <1>1, <1>4 DEF Learnt
  <2>4. QED
    BY <1>4, <2>1, <2>2, <2>3, SMTT(30)
<1>6. last' = last /\ sent' = sent /\ pc'["audio"] = pc["audio"]
  BY <1>1, <1>2 DEF LoadBefore, Finish, NextRound
<1>7. ASSUME \/ Finish(last)
             \/ NextRound /\ UNCHANGED last
      PROVE  ReaderInv'
  <2>1. pc'["control"] \in {"idle", "before"}
    BY <1>1, <1>7 DEF Finish, NextRound
  <2>2. QED
    BY <1>5, <1>6, <2>1 DEF ReaderInv
<1>8. ASSUME mem["sequence"][i].val % 2 = 0, pc' = [pc EXCEPT !["control"] = "position"],
             regs' = [regs EXCEPT !.before = mem["sequence"][i].val]
      PROVE  ReaderInv'
  <2>1. pc'["control"] = "position" /\ regs'.before = i - 1
    BY <1>1, <1>4, <1>8 DEF RegsOK
  <2>2. (i - 1) % 2 = 0 /\ i - 1 >= 2 * last.time
    BY <1>4, <1>5, <1>8
  <2>3. ASSUME NEW l \in {"position", "time"} PROVE 2 * w.seen[l] >= i + 1
    <3>1. l \in Locs /\ "sequence" \in Locs
      BY DEF Locs
    <3>2. 2 * mem["sequence"][i].view[l] >= i /\ mem["sequence"][i].view[l] \in Nat
      BY <1>4, <3>1, Numbers DEF StampParts, CarriedInv, Written
    <3>3. w.seen[l] >= mem["sequence"][i].view[l] /\ w.seen[l] \in Nat
      BY <1>3, <1>4, <3>1 DEF Beyond, Learnt
    <3>4. QED
      BY <1>5, <2>2, <3>2, <3>3
  <2>4. (i - 1) + 2 = i + 1
    BY <1>5
  <2>5. QED
    BY <1>5, <1>6, <2>1, <2>2, <2>3, <2>4 DEF ReaderInv
<1>9. ReaderInv'
  BY <1>2, <1>7, <1>8
<1>10. RoundsInv' /\ CarriedInv' /\ WriterInv'
  BY <1>4, <1>6, ControlKeepsRounds DEF StampParts, Learnt
<1>11. QED
  BY <1>6, <1>9, <1>10 DEF StampParts

\* The two values of the round the reader began, or of a later one.
LEMMA StampLoadValue ==
    ASSUME Base, Base', StampParts, LoadPosition \/ LoadTime
    PROVE  StampParts' /\ last' = last
<1> DEFINE v == views["control"]
           w == views'["control"]
           l == IF LoadPosition THEN "position" ELSE "time"
<1>1. "audio" \in Threads /\ "control" \in Threads /\ pc \in [Threads -> ProgramPoints]
      /\ RegsOK /\ "sequence" \in Locs /\ l \in Locs /\ l \in {"position", "time"}
  BY BaseParts DEF ThreadsOK, Threads, Locs
<1>2. /\ pc["control"] = l /\ pc'["control"] = (IF l = "position" THEN "time" ELSE "after")
      /\ pc'["audio"] = pc["audio"] /\ UNCHANGED <<sent, last>>
  BY <1>1 DEF LoadPosition, LoadTime, GoTo
<1>3. PICK i \in Readable(Memory, "control", l) :
         /\ Becomes(LoadRelaxed(Memory, "control", l, i))
         /\ regs' = IF l = "position" THEN [regs EXCEPT !.position = mem[l][i].val]
                                      ELSE [regs EXCEPT !.time = mem[l][i].val]
  BY DEF LoadPosition, LoadTime
<1> HIDE DEF l
<1>4. Loads(l, i)
  BY <1>1, <1>3, RelaxedLoads
<1>5. /\ Learnt /\ i \in 1 .. Len(mem[l]) /\ mem[l][i].val = i - 1
      /\ i >= v.seen[l] /\ w.acquirable["sequence"] >= 2 * (i - 1)
  BY <1>1, <1>4, LoadFacts
<1>6. /\ regs.before \in Nat /\ regs.position \in Nat /\ regs.time \in Nat /\ last.time \in Nat
      /\ i \in Nat /\ v.seen[l] \in Nat
  <2>1. Len(mem[l]) \in Nat /\ v.seen[l] \in Nat
    BY <1>1, Numbers
  <2>2. QED
    BY <1>1, <1>5, <2>1 DEF RegsOK
<1>7. /\ regs'.before = regs.before
      /\ l = "position" => regs'.position = i - 1
      /\ l = "time" => regs'.time = i - 1 /\ regs'.position = regs.position
  BY <1>1, <1>3, <1>5 DEF RegsOK
<1>8. 2 * v.seen[l] >= regs.before + 2
  BY <1>1, <1>2 DEF StampParts, ReaderInv
<1>9. 2 * (i - 1) >= regs.before
  BY <1>5, <1>6, <1>8, SMTT(30)
<1>10. \A k \in Locs : /\ w.seen[k] >= v.seen[k] /\ w.seen[k] \in Nat /\ v.seen[k] \in Nat
                       /\ w.acquirable[k] >= v.acquirable[k]
                       /\ w.acquirable[k] \in Nat /\ v.acquirable[k] \in Nat
  BY <1>1, <1>5, Numbers DEF Learnt
<1>11. /\ last.position = last.time /\ w.seen["sequence"] >= 2 * last.time + 1
       /\ regs.before % 2 = 0 /\ regs.before >= 2 * last.time
       /\ \A k \in {"position", "time"} : 2 * w.seen[k] >= regs.before + 2
  <2>1. /\ last.position = last.time /\ v.seen["sequence"] >= 2 * last.time + 1
        /\ regs.before % 2 = 0 /\ regs.before >= 2 * last.time
        /\ \A k \in {"position", "time"} : 2 * v.seen[k] >= regs.before + 2
    BY <1>1, <1>2 DEF StampParts, ReaderInv
  <2>2. QED
    BY <1>1, <1>6, <1>10, <2>1 DEF Locs
<1>12. ReaderInv'
  <2>1. CASE l = "position"
    BY <1>2, <1>5, <1>7, <1>9, <1>11, <2>1 DEF ReaderInv
  <2>2. CASE l = "time"
    <3>1. 2 * regs.position >= regs.before /\ v.acquirable["sequence"] >= 2 * regs.position
      BY <1>2, <2>2 DEF StampParts, ReaderInv
    <3>2. w.acquirable["sequence"] >= 2 * regs.position
      BY <1>1, <1>6, <1>10, <3>1
    <3>3. QED
      BY <1>2, <1>5, <1>7, <1>9, <1>11, <2>2, <3>1, <3>2 DEF ReaderInv
  <2>3. QED
    BY <1>1, <2>1, <2>2
<1>13. RoundsInv' /\ CarriedInv' /\ WriterInv'
  BY <1>2, <1>5, ControlKeepsRounds DEF StampParts, Learnt
<1>14. QED
  BY <1>2, <1>12, <1>13 DEF StampParts

\* The step that hands a reading out: the sequence is the one the reader began
\* with, so neither value can be of a later round.
LEMMA StampLoadAfter ==
    ASSUME Base, Base', StampParts, clock = "stamp", LoadAfter
    PROVE  /\ StampParts'
           /\ last' # last => /\ last'.position = sent'[last'.time]
                              /\ last'.time > last.time
<1> DEFINE v == views["control"]
           w == views'["control"]
<1>1. "audio" \in Threads /\ "control" \in Threads /\ pc \in [Threads -> ProgramPoints]
      /\ RegsOK /\ "sequence" \in Locs /\ "position" \in Locs /\ "time" \in Locs
  BY BaseParts DEF ThreadsOK, Threads, Locs
<1>2. PICK i : /\ LastLoad(i)
               /\ \/ NextRound /\ UNCHANGED last
                  \/ /\ mem["sequence"][i].val = regs.before
                     /\ Finish([position |-> regs.position, time |-> regs.time])
  BY DEF LoadAfter, LastLoad
<1>3. /\ i \in 1 .. Len(mem["sequence"]) /\ Learnt
      /\ w.seen["sequence"] >= i /\ i >= v.acquirable["sequence"]
  BY <1>2, LastLoads, LearningFacts
<1>4. mem["sequence"][i].val = i - 1
  BY <1>1, <1>3 DEF StampParts, RoundsInv, Written
<1>5. /\ regs.before \in Nat /\ regs.position \in Nat /\ regs.time \in Nat /\ last.time \in Nat
      /\ i \in Nat /\ v.seen["sequence"] \in Nat /\ v.acquirable["sequence"] \in Nat
      /\ w.seen["sequence"] \in Nat /\ w.seen["sequence"] >= v.seen["sequence"]
      /\ Len(mem["sequence"]) \in Nat /\ Len(sent) \in Nat
  <2>1. Len(mem["sequence"]) \in Nat /\ v.seen["sequence"] \in Nat /\ v.acquirable["sequence"] \in Nat
    BY <1>1, Numbers
  <2>2. Len(sent) \in Nat
    BY BaseParts DEF BlocksOK
  <2>3. QED
    BY <1>1, <1>3, <2>1, <2>2 DEF RegsOK, Learnt
<1>6. /\ last.position = last.time /\ v.seen["sequence"] >= 2 * last.time + 1
      /\ regs.before % 2 = 0 /\ regs.before >= 2 * last.time
      /\ 2 * regs.position >= regs.before /\ v.acquirable["sequence"] >= 2 * regs.position
      /\ 2 * regs.time >= regs.before /\ v.acquirable["sequence"] >= 2 * regs.time
  <2>1. pc["control"] = "after"
    BY DEF LoadAfter
  <2>2. QED
    BY <2>1 DEF StampParts, ReaderInv
<1>7. pc'["control"] \in {"idle", "before"} /\ pc'["audio"] = pc["audio"] /\ sent' = sent
  BY <1>1, <1>2 DEF LoadAfter, Finish, NextRound
<1>8. RoundsInv' /\ CarriedInv' /\ WriterInv'
  BY <1>3, <1>7, ControlKeepsRounds DEF StampParts, Learnt
<1>9. CASE NextRound /\ UNCHANGED last
  <2>1. w.seen["sequence"] >= 2 * last.time + 1
    BY <1>5, <1>6, SMTT(30)
  <2>2. ReaderInv'
    BY <1>6, <1>7, <1>9, <2>1 DEF ReaderInv
  <2>3. QED
    BY <1>8, <1>9, <2>2 DEF StampParts
<1>10. CASE /\ mem["sequence"][i].val = regs.before
            /\ Finish([position |-> regs.position, time |-> regs.time])
  <2>1. i - 1 = regs.before
    BY <1>4, <1>10
  <2>2. 2 * regs.position = i - 1 /\ 2 * regs.time = i - 1
    <3>1. \A b, x \in Nat : b % 2 = 0 /\ 2 * x >= b /\ b + 1 >= 2 * x => 2 * x = b
      OBVIOUS
    <3>2. regs.before + 1 >= 2 * regs.position /\ regs.before + 1 >= 2 * regs.time
      <4>1. regs.before + 1 = i
        BY <1>5, <2>1
      <4>2. \A a, x \in Nat : i >= a /\ a >= 2 * x => i >= 2 * x
        BY <1>5
      <4>3. i >= 2 * regs.position /\ i >= 2 * regs.time
        BY <1>3, <1>5, <1>6, <4>2
      <4>4. QED
        BY <4>1, <4>3
    <3>3. QED
      BY <1>5, <1>6, <2>1, <3>1, <3>2
  <2>3. last' = [position |-> regs.position, time |-> regs.time]
    BY <1>10 DEF Finish
  <2>4. last'.position = last'.time /\ 2 * last'.time = i - 1 /\ last'.time >= last.time
        /\ last'.time \in Nat
    BY <1>5, <1>6, <2>1, <2>2, <2>3, SMTT(30)
  <2>5. ReaderInv'
    <3>1. w.seen["sequence"] >= 2 * last'.time + 1
      BY <1>3, <1>5, <2>4
    <3>2. QED
      BY <1>7, <2>4, <3>1 DEF ReaderInv
  <2>6. ASSUME last' # last PROVE last'.time > last.time
    <3>1. last'.time # last.time
      <4>1. last = [position |-> last.position, time |-> last.time]
        BY <1>1 DEF RegsOK
      <4>2. QED
        BY <1>6, <2>3, <2>4, <2>6, <4>1
    <3>2. QED
      BY <1>5, <2>4, <3>1
  <2>7. ASSUME last' # last PROVE last'.position = sent'[last'.time]
    <3>1. Len(mem["sequence"]) <= 2 * Len(sent) + 1
      BY <1>5 DEF StampParts, RoundsInv, Written
    <3>2. last'.time \in 1 .. Len(sent)
      BY <1>3, <1>5, <2>4, <2>6, <2>7, <3>1, SMTT(30)
    <3>3. sent[last'.time] = last'.time
      BY <3>2 DEF StampParts, RoundsInv
    <3>4. QED
      BY <1>7, <2>4, <3>3
  <2>8. QED
    BY <1>8, <2>5, <2>6, <2>7 DEF StampParts
<1>11. QED
  BY <1>2, <1>9, <1>10

LEMMA StampNext ==
    ASSUME StampInv, clock = "stamp", [Next]_vars
    PROVE  /\ StampInv'
           /\ last' # last => last'.position = sent'[last'.time] /\ last'.time > last.time
<1>1. Base /\ Base' /\ StampParts
  BY BaseNext DEF StampInv, StampParts
<1>2. "audio" \in Threads /\ "control" \in Threads /\ pc \in [Threads -> ProgramPoints]
  BY <1>1, BaseParts DEF ThreadsOK, Threads
<1>3. SUFFICES /\ StampParts'
               /\ last' # last => last'.position = sent'[last'.time] /\ last'.time > last.time
  BY <1>1 DEF StampInv, StampParts
<1>4. pc["control"] \in {"idle", "before", "position", "time", "after"}
  BY <1>1 DEF StampParts, ReaderInv
<1>5. CASE UNCHANGED vars
  BY <1>1, <1>5 DEF vars, StampParts, RoundsInv, CarriedInv, WriterInv, ReaderInv, Written
<1>6. CASE BeginStampedBlock
  BY <1>1, <1>6, StampBegin DEF BeginStampedBlock
<1>7. CASE Open
  BY <1>1, <1>7, StampOpen DEF Open
<1>8. CASE WritePosition \/ WriteTime
  BY <1>1, <1>8, StampWrite DEF WritePosition, WriteTime
<1>9. CASE Close
  BY <1>1, <1>9, StampClose DEF Close
<1>10. CASE StartReading
  <2>1. /\ pc'["control"] = "before" /\ pc'["audio"] = pc["audio"]
        /\ UNCHANGED <<mem, views, sent, last>>
    BY <1>2, <1>10 DEF StartReading, GoTo
  <2>2. RoundsInv' /\ CarriedInv' /\ WriterInv'
    BY <1>1, <2>1, ControlKeepsRounds DEF StampParts
  <2>3. ReaderInv'
    BY <1>1, <2>1 DEF StampParts, ReaderInv
  <2>4. QED
    BY <2>1, <2>2, <2>3 DEF StampParts
<1>11. CASE LoadBefore
  BY <1>1, <1>11, StampLoadBefore
<1>12. CASE LoadPosition \/ LoadTime
  BY <1>1, <1>12, StampLoadValue
<1>13. CASE LoadAfter
  BY <1>1, <1>13, StampLoadAfter
<1>14. ~(BeginPlayingBlock \/ StoppedBlock \/ Play \/ Stop)
  BY DEF BeginPlayingBlock, StoppedBlock, Play, Stop
<1>15. ~(InvalidateOpen \/ InvalidateTime \/ InvalidatePosition \/ InvalidateClose)
  BY <1>4 DEF InvalidateOpen, InvalidateTime, InvalidatePosition, InvalidateClose, GoTo
<1>16. QED
  BY <1>5, <1>6, <1>7, <1>8, <1>9, <1>10, <1>11, <1>12, <1>13, <1>14, <1>15
     DEF Next, Callback, Transport, Reader

LEMMA StampInit == ASSUME Init PROVE StampInv
<1>1. Base
  BY BaseInit
<1>2. /\ \A l \in Locs : Len(mem[l]) = 1 /\ mem[l][1] = [val |-> 0, view |-> Bottom]
      /\ Len(sent) = 0
  BY DEF Init
<1>3. \A l \in Locs : Bottom[l] = 1
  BY DEF Bottom
<1>4. RoundsInv
  <2>1. \A l \in Locs : \A i \in 1 .. Len(mem[l]) : mem[l][i].val = i - 1
    BY <1>2
  <2>2. pc["audio"] = "idle"
    BY DEF Init, Threads
  <2>3. QED
    BY <1>2, <2>1, <2>2 DEF RoundsInv, Written, Locs
<1>5. CarriedInv
  <2>1. SUFFICES ASSUME NEW l \in {"position", "time"}
                 PROVE  /\ \A i \in 1 .. Len(mem["sequence"]) :
                              2 * mem["sequence"][i].view[l] >= i
                        /\ \A i \in 1 .. Len(mem[l]) : mem[l][i].view["sequence"] >= 2 * (i - 1)
    BY DEF CarriedInv, Written
  <2>2. l \in Locs /\ "sequence" \in Locs
    BY DEF Locs
  <2>3. QED
    BY <1>2, <1>3, <2>2, SMTT(30)
<1>6. WriterInv /\ ReaderInv
  <2>1. \A t \in Threads, l \in Locs : views[t].seen[l] = 1
    BY <1>3 DEF Init
  <2>2. pc["audio"] = "idle" /\ pc["control"] = "idle" /\ last = NoReading
    BY DEF Init, Threads
  <2>3. WriterInv
    <3>1. \A l \in Locs : Len(mem[l]) = 1 /\ views["audio"].seen[l] = 1
      BY <1>2, <2>1 DEF Threads
    <3>2. pc["audio"] \notin {"position", "time"}
      BY <2>2
    <3>3. ASSUME NEW l \in Locs PROVE views["audio"].seen[l] >= Len(mem[l])
      <4>1. Len(mem[l]) = 1 /\ views["audio"].seen[l] = 1
        BY <3>1
      <4>2. QED
        BY <4>1
    <3>4. QED
      BY <3>2, <3>3 DEF WriterInv, Written
  <2>4. last.position = 0 /\ last.time = 0 /\ views["control"].seen["sequence"] = 1
    BY <2>1, <2>2 DEF NoReading, Threads, Locs
  <2>5. ReaderInv
    BY <2>2, <2>4 DEF ReaderInv
  <2>6. QED
    BY <2>3, <2>5
<1>7. QED
  BY <1>1, <1>4, <1>5, <1>6 DEF StampInv

\* A stamp that is handed out is the sample and the time of one block, and of a
\* later block than the last one (StampReadsAreWhole): an even sequence carries
\* its round's values, and a value of a later round carries a later sequence,
\* which the reader's fence makes it see.
THEOREM StampIsWhole == Spec => StampReadsAreWhole
<1>1. Init => StampInv
  BY StampInit
<1>2. StampInv /\ [Next]_vars => StampInv'
  <2>1. SUFFICES ASSUME StampInv, [Next]_vars PROVE StampInv'
    OBVIOUS
  <2>2. CASE clock = "stamp"
    BY <2>1, <2>2, StampNext
  <2>3. CASE clock # "stamp"
    <3>1. Base' /\ clock' = clock
      BY <2>1, BaseNext DEF StampInv, Next, Callback, Transport, Reader, vars,
         BeginStampedBlock, BeginPlayingBlock, StoppedBlock, Open, WritePosition, WriteTime,
         Close, Play, Stop, InvalidateOpen, InvalidateTime, InvalidatePosition,
         InvalidateClose, StartReading, LoadBefore, LoadPosition, LoadTime, LoadAfter
    <3>2. QED
      BY <2>3, <3>1 DEF StampInv
  <2>4. QED
    BY <2>2, <2>3
<1>3. StampInv /\ [Next]_vars
         => [clock = "stamp" /\ last' # last
             => last'.position = sent'[last'.time] /\ last'.time > last.time]_vars
  BY StampNext
<1>4. QED
  BY <1>1, <1>2, <1>3, PTL DEF Spec, StampReadsAreWhole

=============================================================================
