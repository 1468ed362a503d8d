------------------------ MODULE MonitorManagerProofs ------------------------
(***************************************************************************)
(* Proofs about the monitor manager: the queue of an item is what its      *)
(* discard policy makes of its notifications, the newest one is never      *)
(* lost, the start and stop callbacks are balanced, and the array of an    *)
(* event notification is filled.                                           *)
(***************************************************************************)
EXTENDS MonitorManager, FiniteSetTheorems, SequenceTheorems, TLAPS

(***************************************************************************)
(* The inductive invariant.                                                *)
(***************************************************************************)

\* An item that is not expired has a node to sample, and only the items of
\* deleted nodes expire.
ItemSound(item) ==
    /\ item.node \in Node /\ item.queSize >= 1
    /\ IF item.expired THEN item.node \in removed ELSE value[item.node] # Deleted

ItemsSound == \A i \in monitorItemMap : ItemSound(monitorItem[i])

\* The places of the array that are left are for events still queued.
DrainSound ==
    /\ \A i \in Id : eventList[i] <= MaxEvents
    /\ drain.free <= Cardinality(Events(drain.items))

IndInv ==
    /\ TypeOK
    /\ ItemsSound
    /\ QueuePolicy
    /\ NewestKept
    /\ StartStopBalanced
    /\ DrainSound

-----------------------------------------------------------------------------
(***************************************************************************)
(* Sequences: a part of one, one that is cut at either end, and the queue  *)
(* of an item when a notification is added.                                *)
(***************************************************************************)
LEMMA CutFacts ==
    ASSUME NEW S, NEW p \in Seq(S),
           NEW a \in 1 .. Len(p) + 1, NEW b \in 0 .. Len(p), a <= b + 1
    PROVE  /\ SubSeq(p, a, b) \in Seq(S) /\ Len(SubSeq(p, a, b)) = (b - a) + 1
           /\ \A k \in 1 .. (b - a) + 1 : SubSeq(p, a, b)[k] = p[(a - 1) + k]
<1>1. Len(p) \in Nat /\ a \in Int /\ b \in Int
    OBVIOUS
<1>2. \A k \in a .. b : p[k] \in S
  <2>1. \A k \in a .. b : k \in 1 .. Len(p)
      BY <1>1
  <2>2. QED
      BY <2>1, ElementOfSeq
<1>3. /\ SubSeq(p, a, b) \in Seq(S)
      /\ Len(SubSeq(p, a, b)) = IF a <= b THEN b - a + 1 ELSE 0
      /\ \A k \in 1 .. b - a + 1 : SubSeq(p, a, b)[k] = p[a + k - 1]
    BY <1>1, <1>2, SubSeqProperties
<1>4. Len(SubSeq(p, a, b)) = (b - a) + 1
    BY <1>1, <1>3
<1>5. \A k \in 1 .. (b - a) + 1 : a + k - 1 = (a - 1) + k
    BY <1>1
<1>6. QED
    BY <1>3, <1>4, <1>5

LEMMA AppendFacts ==
    ASSUME NEW S, NEW p \in Seq(S), NEW v \in S
    PROVE  /\ Append(p, v) \in Seq(S) /\ Len(Append(p, v)) = Len(p) + 1
           /\ \A k \in 1 .. Len(p) : Append(p, v)[k] = p[k]
           /\ Append(p, v)[Len(p) + 1] = v
           /\ Append(p, v) # <<>>
    OBVIOUS

LEMMA FrontFacts ==
    ASSUME NEW S, NEW p \in Seq(S), p # <<>>
    PROVE  /\ Front(p) \in Seq(S) /\ Len(Front(p)) = Len(p) - 1
           /\ \A k \in 1 .. Len(p) - 1 : Front(p)[k] = p[k]
<1>1. Len(p) \in Nat \ {0}
    OBVIOUS
<1>2. 1 \in 1 .. Len(p) + 1 /\ Len(p) - 1 \in 0 .. Len(p) /\ 1 <= (Len(p) - 1) + 1
    BY <1>1
<1> DEFINE f == SubSeq(p, 1, Len(p) - 1)
<1>3. /\ f \in Seq(S) /\ Len(f) = ((Len(p) - 1) - 1) + 1
      /\ \A k \in 1 .. ((Len(p) - 1) - 1) + 1 : f[k] = p[(1 - 1) + k]
    BY <1>2, CutFacts
<1>4. ((Len(p) - 1) - 1) + 1 = Len(p) - 1 /\ \A k \in 1 .. Len(p) - 1 : (1 - 1) + k = k
    BY <1>1
<1>5. Front(p) = f
    BY DEF Front
<1> HIDE DEF f
<1>6. QED
    BY <1>3, <1>4, <1>5

\* PushBack as a function of the parts of the item.
Pushed(list, q, discardOldest, v) ==
    Append(IF Len(list) < q THEN list ELSE IF discardOldest THEN Tail(list) ELSE Front(list), v)

LEMMA PushedFacts ==
    ASSUME NEW S, NEW list \in Seq(S), NEW q \in Nat \ {0}, NEW d \in BOOLEAN, NEW v \in S
    PROVE  /\ Pushed(list, q, d, v) \in Seq(S) /\ Pushed(list, q, d, v) # <<>>
           /\ Pushed(list, q, d, v)[Len(Pushed(list, q, d, v))] = v
<1> DEFINE r == IF Len(list) < q THEN list ELSE IF d THEN Tail(list) ELSE Front(list)
<1>1. r \in Seq(S)
  <2>1. CASE Len(list) < q
      BY <2>1
  <2>2. CASE ~(Len(list) < q)
    <3>1. list # <<>>
        BY <2>2
    <3>2. Tail(list) \in Seq(S) /\ Front(list) \in Seq(S)
        BY <3>1, FrontFacts
    <3>3. QED
        BY <3>2, <2>2
  <2>3. QED
      BY <2>1, <2>2
<1> HIDE DEF r
<1>2. /\ Append(r, v) \in Seq(S) /\ Append(r, v) # <<>>
      /\ Append(r, v)[Len(Append(r, v))] = v
    BY <1>1, AppendFacts
<1>3. Pushed(list, q, d, v) = Append(r, v)
    BY DEF Pushed, r
<1>4. QED
    BY <1>2, <1>3

\* The discard policy is kept by one more notification.
LEMMA DiscardedAppend ==
    ASSUME NEW S, NEW p \in Seq(S), NEW v \in S, NEW q \in Nat \ {0}, NEW d \in BOOLEAN
    PROVE  Discarded(Append(p, v), q, d) = Pushed(Discarded(p, q, d), q, d, v)
<1> DEFINE L == Len(p)
           a == Append(p, v)
<1>1. L \in Nat /\ q \in Nat /\ q >= 1
    OBVIOUS
<1>2. /\ a \in Seq(S) /\ Len(a) = L + 1
      /\ \A k \in 1 .. L : a[k] = p[k]
      /\ a[L + 1] = v
    BY AppendFacts
<1> HIDE DEF L, a
<1>3. CASE L < q
  <2>1. Discarded(p, q, d) = p /\ Discarded(a, q, d) = a
      BY <1>1, <1>2, <1>3 DEF Discarded, L
  <2>2. QED
      BY <2>1, <1>3 DEF Pushed, L, a
<1>4. CASE L >= q /\ d
  <2> DEFINE f == (L - q) + 1
             list == Discarded(p, q, d)
             next == SubSeq(a, (L - q) + 2, L + 1)
  <2>1. f \in 1 .. L + 1 /\ L \in 0 .. L /\ f <= L + 1 /\ (L - f) + 1 = q
      BY <1>1, <1>4
  <2>2. /\ SubSeq(p, f, L) \in Seq(S) /\ Len(SubSeq(p, f, L)) = q
        /\ \A k \in 1 .. q : SubSeq(p, f, L)[k] = p[(f - 1) + k]
      BY <2>1, CutFacts DEF L
  <2>3. /\ list \in Seq(S) /\ Len(list) = q
        /\ \A k \in 1 .. q : list[k] = p[(L - q) + k]
    <3>1. CASE L = q
      <4>1. list = p
          BY <3>1, <1>1 DEF Discarded, L
      <4>2. \A k \in 1 .. q : (L - q) + k = k
          BY <3>1, <1>1
      <4> HIDE DEF list
      <4>3. list \in Seq(S) /\ Len(list) = q
          BY <3>1, <4>1 DEF L
      <4>4. \A k \in 1 .. q : list[k] = p[(L - q) + k]
        <5>1. TAKE k \in 1 .. q
        <5>2. (L - q) + k = k
            BY <4>2
        <5>3. QED
            BY <4>1, <5>2
      <4>5. QED
          BY <4>3, <4>4
    <3>2. CASE L > q
      <4>1. list = SubSeq(p, L - q + 1, L)
          BY <3>2, <1>1, <1>4 DEF Discarded, L
      <4>2. L - q + 1 = f /\ f - 1 = L - q
          BY <1>1
      <4> HIDE DEF list, f
      <4>3. QED
          BY <4>1, <4>2, <2>2
    <3>3. L = q \/ L > q
        BY <1>1, <1>4
    <3>4. QED
        BY <3>1, <3>2, <3>3
  <2>4. /\ next \in Seq(S) /\ Len(next) = q
        /\ \A k \in 1 .. q : next[k] = a[((L - q) + 1) + k]
    <3>1. (L - q) + 2 \in 1 .. Len(a) + 1 /\ L + 1 \in 0 .. Len(a)
          /\ (L - q) + 2 <= (L + 1) + 1
        BY <1>1, <1>2, <1>4
    <3>2. /\ next \in Seq(S) /\ Len(next) = ((L + 1) - ((L - q) + 2)) + 1
          /\ \A k \in 1 .. ((L + 1) - ((L - q) + 2)) + 1 : next[k] = a[(((L - q) + 2) - 1) + k]
        BY <3>1, <1>2, CutFacts, SMTT(30)
    <3>3. ((L + 1) - ((L - q) + 2)) + 1 = q /\ ((L - q) + 2) - 1 = (L - q) + 1
        BY <1>1
    <3> HIDE DEF next
    <3>4. QED
        BY <3>2, <3>3
  <2>5. Discarded(a, q, d) = next
    <3>1. ~(Len(a) <= q) /\ Len(a) - q + 1 = (L - q) + 2
        BY <1>1, <1>2, <1>4
    <3>2. Discarded(a, q, d) = SubSeq(a, Len(a) - q + 1, Len(a))
        BY <3>1, <1>4 DEF Discarded
    <3>3. QED
        BY <3>1, <3>2, <1>2
  <2> HIDE DEF f, list, next
  <2>6. /\ Tail(list) \in Seq(S) /\ Len(Tail(list)) = q - 1
        /\ \A k \in 1 .. q - 1 : Tail(list)[k] = list[k + 1]
    <3>1. list # <<>>
        BY <2>3, <1>1
    <3>2. QED
        BY <3>1, <2>3, <1>1, HeadTailProperties
  <2> DEFINE new == Append(Tail(list), v)
  <2>7. /\ new \in Seq(S) /\ Len(new) = (q - 1) + 1
        /\ \A k \in 1 .. q - 1 : new[k] = Tail(list)[k]
        /\ new[(q - 1) + 1] = v
      BY <2>6, AppendFacts
  <2> HIDE DEF new
  <2>8. Len(new) = q /\ new[q] = v
    <3>1. (q - 1) + 1 = q
        BY <1>1
    <3>2. QED
        BY <3>1, <2>7
  <2>9. \A k \in 1 .. q : new[k] = next[k]
    <3>1. TAKE k \in 1 .. q
    <3>2. CASE k = q
      <4>1. ((L - q) + 1) + k = L + 1
          BY <3>2, <1>1
      <4>2. QED
          BY <4>1, <3>1, <3>2, <2>4, <2>8, <1>2
    <3>3. CASE k # q
      <4>1. k \in 1 .. q - 1 /\ k + 1 \in 1 .. q /\ (L - q) + (k + 1) = ((L - q) + 1) + k
            /\ ((L - q) + 1) + k \in 1 .. L
          BY <3>1, <3>3, <1>1, <1>4
      <4>2. new[k] = p[(L - q) + (k + 1)]
          BY <4>1, <2>3, <2>6, <2>7
      <4>3. next[k] = p[((L - q) + 1) + k]
          BY <4>1, <3>1, <2>4, <1>2
      <4>4. QED
          BY <4>1, <4>2, <4>3
    <3>4. QED
        BY <3>2, <3>3
  <2>10. new = next
      BY <2>4, <2>7, <2>8, <2>9, SeqEqual
  <2>11. Pushed(list, q, d, v) = new
      BY <2>3, <1>1, <1>4 DEF Pushed, new
  <2>12. QED
      BY <2>5, <2>10, <2>11 DEF list, a
<1>5. CASE L >= q /\ ~d
  <2> DEFINE list == Discarded(p, q, d)
             kept == SubSeq(a, 1, q - 1)
  <2>1. q - 1 \in 0 .. L /\ q - 1 \in 0 .. Len(a) /\ 1 \in 1 .. L + 1
        /\ 1 \in 1 .. Len(a) + 1 /\ 1 <= (q - 1) + 1 /\ ((q - 1) - 1) + 1 = q - 1
      BY <1>1, <1>2, <1>5
  <2>2. /\ kept \in Seq(S) /\ Len(kept) = q - 1
        /\ \A k \in 1 .. q - 1 : kept[k] = a[(1 - 1) + k]
      BY <2>1, <1>2, CutFacts
  <2>3. Discarded(a, q, d) = Append(kept, v)
    <3>1. ~(Len(a) <= q)
        BY <1>1, <1>2, <1>5
    <3>2. QED
        BY <3>1, <1>2, <1>5 DEF Discarded
  <2> HIDE DEF kept
  <2>4. \A k \in 1 .. q - 1 : kept[k] = p[k]
    <3>1. TAKE k \in 1 .. q - 1
    <3>2. (1 - 1) + k = k /\ k \in 1 .. L
        BY <3>1, <1>1, <1>5
    <3>3. QED
        BY <3>1, <3>2, <2>2, <1>2
  <2>5. /\ list \in Seq(S) /\ Len(list) = q
        /\ \A k \in 1 .. q - 1 : list[k] = p[k]
    <3>1. CASE L = q
      <4>1. list = p
          BY <3>1, <1>1 DEF Discarded, L
      <4> HIDE DEF list
      <4>2. QED
          BY <3>1, <4>1 DEF L
    <3>2. CASE L > q
      <4> DEFINE c == SubSeq(p, 1, q - 1)
      <4>1. list = Append(c, p[L])
          BY <3>2, <1>1, <1>5 DEF Discarded, L
      <4>2. /\ c \in Seq(S) /\ Len(c) = q - 1
            /\ \A k \in 1 .. q - 1 : c[k] = p[(1 - 1) + k]
          BY <2>1, CutFacts DEF L
      <4>3. p[L] \in S
          BY <3>2, <1>1, ElementOfSeq DEF L
      <4> HIDE DEF c, list
      <4>4. /\ list \in Seq(S) /\ Len(list) = (q - 1) + 1
            /\ \A k \in 1 .. q - 1 : list[k] = c[k]
          BY <4>1, <4>2, <4>3, AppendFacts
      <4>5. (q - 1) + 1 = q /\ \A k \in 1 .. q - 1 : (1 - 1) + k = k
          BY <1>1
      <4>6. QED
          BY <4>2, <4>4, <4>5
    <3>3. QED
        BY <3>1, <3>2, <1>1, <1>5
  <2> HIDE DEF list
  <2>6. /\ Front(list) \in Seq(S) /\ Len(Front(list)) = q - 1
        /\ \A k \in 1 .. q - 1 : Front(list)[k] = list[k]
    <3>1. list # <<>>
        BY <2>5, <1>1
    <3>2. QED
        BY <3>1, <2>5, FrontFacts
  <2>7. Front(list) = kept
    <3>1. \A k \in 1 .. Len(kept) : kept[k] = Front(list)[k]
        BY <2>2, <2>4, <2>5, <2>6
    <3>2. QED
        BY <3>1, <2>2, <2>6, SeqEqual
  <2>8. Pushed(list, q, d, v) = Append(Front(list), v)
      BY <2>5, <1>1, <1>5 DEF Pushed
  <2>9. QED
      BY <2>3, <2>7, <2>8 DEF list, a
<1>6. QED
    BY <1>1, <1>3, <1>4, <1>5

-----------------------------------------------------------------------------
(***************************************************************************)
(* The number of events that a set of event items has queued.              *)
(***************************************************************************)
Places(f, S) == {e \in S \X (1 .. MaxEvents) : e[2] <= f[e[1]]}

LEMMA PlacesFinite ==
    ASSUME NEW S \in SUBSET Id, NEW f
    PROVE  IsFiniteSet(Places(f, S)) /\ Cardinality(Places(f, S)) \in Nat
<1>1. IsFiniteSet(Id) /\ IsFiniteSet(1 .. MaxEvents)
    BY ItemBoundsAssumption, FS_Interval DEF Id
<1>2. IsFiniteSet(S)
    BY <1>1, FS_Subset
<1>3. IsFiniteSet(S \X (1 .. MaxEvents))
    BY <1>1, <1>2, FS_Product
<1>4. Places(f, S) \in SUBSET (S \X (1 .. MaxEvents))
    BY DEF Places
<1>5. IsFiniteSet(Places(f, S))
    BY <1>3, <1>4, FS_Subset
<1>6. QED
    BY <1>5, FS_CardinalityType

LEMMA PlacesEmpty ==
    ASSUME NEW f
    PROVE  Cardinality(Places(f, {})) = 0
<1>1. Places(f, {}) = {}
    BY DEF Places
<1>2. QED
    BY <1>1, FS_EmptySet

LEMMA PlacesGrow ==
    ASSUME NEW S \in SUBSET Id, NEW f \in [Id -> Nat], NEW g \in [Id -> Nat],
           \A j \in S : f[j] <= g[j]
    PROVE  Cardinality(Places(f, S)) <= Cardinality(Places(g, S))
<1>1. Places(f, S) \subseteq Places(g, S)
  <2>1. SUFFICES ASSUME NEW j \in S, NEW k \in 1 .. MaxEvents, k <= f[j]
                 PROVE  k <= g[j]
      BY DEF Places
  <2>2. f[j] \in Nat /\ g[j] \in Nat /\ f[j] <= g[j] /\ k \in Nat
      OBVIOUS
  <2>3. QED
      BY <2>1, <2>2
<1>2. QED
    BY <1>1, PlacesFinite, FS_Subset

LEMMA PlacesSplit ==
    ASSUME NEW S \in SUBSET Id, NEW f \in [Id -> Nat], NEW i \in S, f[i] <= MaxEvents
    PROVE  Cardinality(Places(f, S)) = f[i] + Cardinality(Places(f, S \ {i}))
<1> DEFINE own == {i} \X (1 .. f[i])
           rest == Places(f, S \ {i})
<1>1. f[i] \in Nat
    OBVIOUS
<1>2. IsFiniteSet(own) /\ Cardinality(own) = f[i]
  <2>1. IsFiniteSet({i}) /\ Cardinality({i}) = 1
      BY FS_Singleton
  <2>2. IsFiniteSet(1 .. f[i]) /\ Cardinality(1 .. f[i]) = f[i]
    <3>1. /\ IsFiniteSet(1 .. f[i])
          /\ Cardinality(1 .. f[i]) = IF 1 > f[i] THEN 0 ELSE f[i] - 1 + 1
        BY <1>1, FS_Interval
    <3>2. QED
        BY <3>1, <1>1
  <2>3. IsFiniteSet(own) /\ Cardinality(own) = 1 * f[i]
    <3> DEFINE one == {i}
               span == 1 .. f[i]
    <3>1. IsFiniteSet(one) /\ IsFiniteSet(span) /\ Cardinality(one) = 1
          /\ Cardinality(span) = f[i] /\ own = one \X span
        BY <2>1, <2>2
    <3> HIDE DEF one, span, own
    <3>2. IsFiniteSet(one \X span)
          /\ Cardinality(one \X span) = Cardinality(one) * Cardinality(span)
        BY <3>1, FS_Product
    <3>3. QED
        BY <3>1, <3>2
  <2>4. QED
      BY <2>3, <1>1
<1>3. IsFiniteSet(rest) /\ Cardinality(rest) \in Nat
    BY PlacesFinite
<1>4. Places(f, S) = own \cup rest
  <2>1. Places(f, S) \subseteq own \cup rest
    <3>1. SUFFICES ASSUME NEW j \in S, NEW k \in 1 .. MaxEvents, k <= f[j]
                   PROVE  <<j, k>> \in own \cup rest
        BY DEF Places
    <3>2. CASE j = i
        BY <3>1, <3>2, <1>1
    <3>3. CASE j # i
        BY <3>1, <3>3 DEF Places
    <3>4. QED
        BY <3>2, <3>3
  <2>2. own \subseteq Places(f, S)
    <3>1. SUFFICES ASSUME NEW k \in 1 .. f[i]
                   PROVE  <<i, k>> \in Places(f, S)
        OBVIOUS
    <3>2. k \in 1 .. MaxEvents /\ k <= f[i]
        BY <1>1, ItemBoundsAssumption
    <3>3. QED
        BY <3>2 DEF Places
  <2>3. rest \subseteq Places(f, S)
      BY DEF Places
  <2>4. QED
      BY <2>1, <2>2, <2>3
<1>5. own \cap rest = {}
    BY DEF Places
<1> HIDE DEF own, rest
<1>6. Cardinality(own \cup rest) = Cardinality(own) + Cardinality(rest) - Cardinality(own \cap rest)
    BY <1>2, <1>3, FS_Union
<1>7. Cardinality(own \cap rest) = 0
    BY <1>5, FS_EmptySet
<1>8. Cardinality(Places(f, S)) = f[i] + Cardinality(rest)
    BY <1>1, <1>2, <1>3, <1>4, <1>6, <1>7
<1>9. QED
    BY <1>8 DEF rest

-----------------------------------------------------------------------------
(***************************************************************************)
(* The parts of the invariant that a step leaves alone.                    *)
(***************************************************************************)
LEMMA ItemsKept ==
    ASSUME ItemsSound, QueuePolicy, NewestKept, UNCHANGED nodeVars,
           monitorItemMap' \subseteq monitorItemMap,
           \A i \in monitorItemMap' :
               /\ monitorItem'[i] = monitorItem[i]
               /\ pending'[i] = pending[i] /\ received'[i] = received[i]
    PROVE  ItemsSound' /\ QueuePolicy' /\ NewestKept'
<1>1. value' = value /\ removed' = removed
    BY DEF nodeVars
<1>2. ItemsSound'
    BY <1>1 DEF ItemsSound, ItemSound
<1>3. QueuePolicy'
    BY DEF QueuePolicy
<1>4. NewestKept'
    BY DEF NewestKept
<1>5. QED
    BY <1>2, <1>3, <1>4

LEMMA ItemsUntouched ==
    ASSUME ItemsSound, QueuePolicy, NewestKept, UNCHANGED <<nodeVars, itemVars>>
    PROVE  ItemsSound' /\ QueuePolicy' /\ NewestKept'
<1>1. UNCHANGED nodeVars /\ monitorItemMap' \subseteq monitorItemMap
      /\ \A i \in monitorItemMap' :
               /\ monitorItem'[i] = monitorItem[i]
               /\ pending'[i] = pending[i] /\ received'[i] = received[i]
    BY DEF itemVars
<1>2. QED
    BY <1>1, ItemsKept

LEMMA StartKept ==
    ASSUME StartStopBalanced, UNCHANGED <<startVars, removed>>,
           \A n \in Node \ removed : LiveItems(n)' = LiveItems(n)
    PROVE  StartStopBalanced'
<1>1. monitoredItemIds' = monitoredItemIds /\ monitoring' = monitoring /\ removed' = removed
    BY DEF startVars
<1>2. SUFFICES ASSUME NEW n \in Node \ removed
               PROVE  /\ monitoredItemIds'[n] = LiveItems(n)'
                      /\ monitoring'[n] = IF LiveItems(n)' = {} THEN 0 ELSE 1
    BY <1>1 DEF StartStopBalanced
<1>3. LiveItems(n)' = LiveItems(n)
    OBVIOUS
<1>4. /\ monitoredItemIds[n] = LiveItems(n)
      /\ monitoring[n] = IF LiveItems(n) = {} THEN 0 ELSE 1
    BY DEF StartStopBalanced
<1>5. QED
    BY <1>1, <1>3, <1>4

LEMMA StartUntouched ==
    ASSUME StartStopBalanced, UNCHANGED <<startVars, removed, monitorItemMap, monitorItem>>
    PROVE  StartStopBalanced'
<1>1. \A n \in Node \ removed : LiveItems(n)' = LiveItems(n)
    BY DEF LiveItems
<1>2. QED
    BY <1>1, StartKept

LEMMA DrainUntouched ==
    ASSUME DrainSound, UNCHANGED <<eventList, drain>>
    PROVE  DrainSound'
BY DEF DrainSound, Events

\* No event item is drained while the I/O thread runs a handler.
LEMMA IdleDrain ==
    ASSUME IndInv, IOThreadIdle
    PROVE  drain.items = {} /\ drain.free = 0
<1>1. drain.items = {}
    BY DEF IOThreadIdle
<1>2. Events({}) = Places(eventList, {})
    BY DEF Events, Places
<1>3. Cardinality(Events(drain.items)) = 0
    BY <1>1, <1>2, PlacesEmpty
<1>4. drain.free \in Nat /\ drain.free <= 0
    BY <1>3 DEF IndInv, TypeOK, DrainSound
<1>5. QED
    BY <1>1, <1>4

LEMMA IdleDrainSound ==
    ASSUME drain'.items = {}, drain'.free = 0, \A i \in Id : eventList'[i] <= MaxEvents
    PROVE  DrainSound'
<1>1. Places(eventList', {}) = Events(drain.items)'
    BY DEF Events, Places
<1>2. Cardinality(Events(drain.items)') = 0
    BY <1>1, PlacesEmpty
<1>3. QED
    BY <1>2 DEF DrainSound

LEMMA ErasedType == Erased \in MonitorItem
<1>1. <<>> \in Seq(Notification) /\ NoValue \in Notification
    BY DEF Notification
<1>2. QED
    BY <1>1 DEF Erased, MonitorItem

\* What is left when monitored items have gone.
LEMMA EraseMonitoredFacts ==
    ASSUME IndInv, NEW S, EraseMonitored(S), UNCHANGED <<nodeVars, lastId>>
    PROVE  /\ monitorItemMap' = monitorItemMap \ S
           /\ monitorItem' \in [Id -> MonitorItem]
           /\ pending' \in [Id -> Seq(Notification)] /\ received' \in [Id -> Notification]
           /\ ItemsSound' /\ QueuePolicy' /\ NewestKept'
           /\ \A n \in Node : LiveItems(n)' = LiveItems(n) \ S
<1>1. TypeOK /\ ItemsSound /\ QueuePolicy /\ NewestKept
    BY DEF IndInv
<1>2. /\ monitorItemMap' = monitorItemMap \ S
      /\ monitorItem' = [i \in Id |-> IF i \in S THEN Erased ELSE monitorItem[i]]
      /\ pending' = [i \in Id |-> IF i \in S THEN <<>> ELSE pending[i]]
      /\ received' = [i \in Id |-> IF i \in S THEN NoValue ELSE received[i]]
    BY DEF EraseMonitored
<1>3. /\ monitorItem \in [Id -> MonitorItem] /\ monitorItemMap \subseteq Id
      /\ pending \in [Id -> Seq(Notification)] /\ received \in [Id -> Notification]
  <2>1. monitorItemMap \subseteq 1 .. lastId /\ lastId \in 0 .. MaxItems
      BY <1>1 DEF TypeOK
  <2>2. 1 .. lastId \subseteq Id
      BY <2>1, ItemBoundsAssumption DEF Id
  <2>3. QED
      BY <1>1, <2>1, <2>2 DEF TypeOK
<1>4. /\ monitorItem' \in [Id -> MonitorItem]
      /\ pending' \in [Id -> Seq(Notification)] /\ received' \in [Id -> Notification]
  <2>1. <<>> \in Seq(Notification) /\ NoValue \in Notification
      BY DEF Notification
  <2>2. QED
      BY <2>1, <1>2, <1>3, ErasedType
<1>5. \A i \in monitorItemMap' :
         /\ i \in monitorItemMap /\ i \notin S
         /\ monitorItem'[i] = monitorItem[i]
         /\ pending'[i] = pending[i] /\ received'[i] = received[i]
    BY <1>2, <1>3
<1>6. ItemsSound' /\ QueuePolicy' /\ NewestKept'
    BY <1>1, <1>2, <1>5, ItemsKept
<1>7. \A n \in Node : LiveItems(n)' = LiveItems(n) \ S
    BY <1>2, <1>5 DEF LiveItems
<1>8. QED
    BY <1>2, <1>4, <1>6, <1>7

LEMMA EraseEventFacts ==
    ASSUME IndInv, NEW S, EraseEvent(S), IOThreadIdle, UNCHANGED drain
    PROVE  /\ eventItemMap' = eventItemMap \ S /\ eventList' \in [Id -> Nat]
           /\ drain' \in [items: SUBSET (eventItemMap'), free: Nat]
           /\ DrainSound'
<1>1. eventItemMap' = eventItemMap \ S
      /\ eventList' = [i \in Id |-> IF i \in S THEN 0 ELSE eventList[i]]
    BY DEF EraseEvent
<1>2. eventList \in [Id -> Nat] /\ drain \in [items: SUBSET eventItemMap, free: Nat]
    BY DEF IndInv, TypeOK
<1>3. drain.items = {} /\ drain.free = 0
    BY IdleDrain
<1>4. drain' \in [items: SUBSET (eventItemMap'), free: Nat]
    BY <1>2, <1>3
<1>5. \A i \in Id : eventList'[i] <= MaxEvents
    BY <1>1, ItemBoundsAssumption DEF IndInv, DrainSound
<1>6. DrainSound'
    BY <1>3, <1>5, IdleDrainSound
<1>7. QED
    BY <1>1, <1>2, <1>4, <1>6

-----------------------------------------------------------------------------
(***************************************************************************)
(* One lemma for each action.                                              *)
(***************************************************************************)
LEMMA Types ==
    ASSUME IndInv
    PROVE  /\ lastId \in Nat /\ lastId <= MaxItems /\ 1 .. lastId \subseteq Id
           /\ monitorItemMap \subseteq Id /\ eventItemMap \subseteq Id
           /\ drain.items \subseteq eventItemMap /\ drain.free \in Nat
<1>1. TypeOK
    BY DEF IndInv
<1>2. lastId \in Nat /\ lastId <= MaxItems /\ 1 .. lastId \subseteq Id
    BY <1>1, ItemBoundsAssumption DEF TypeOK, Id
<1>3. monitorItemMap \subseteq 1 .. lastId /\ eventItemMap \subseteq 1 .. lastId
    BY <1>1 DEF TypeOK
<1>4. drain.items \subseteq eventItemMap /\ drain.free \in Nat
    BY <1>1 DEF TypeOK
<1>5. QED
    BY <1>2, <1>3, <1>4

LEMMA CreateRefusedInv ==
    ASSUME IndInv, CreateRefused
    PROVE  IndInv'
<1>1. lastId' = lastId + 1 /\ lastId < MaxItems
      /\ UNCHANGED <<nodeVars, itemVars, startVars, eventVars, drain>>
    BY DEF CreateRefused
<1>2. lastId' \in 0 .. MaxItems /\ 1 .. lastId \subseteq 1 .. lastId'
    BY <1>1, Types, ItemBoundsAssumption
<1>3. TypeOK'
    BY <1>1, <1>2 DEF IndInv, TypeOK, nodeVars, itemVars, startVars, eventVars
<1>4. ItemsSound' /\ QueuePolicy' /\ NewestKept'
    BY <1>1, ItemsUntouched DEF IndInv
<1>5. StartStopBalanced'
    BY <1>1, StartUntouched DEF IndInv, nodeVars, itemVars
<1>6. DrainSound'
    BY <1>1, DrainUntouched DEF IndInv, eventVars
<1>7. QED
    BY <1>3, <1>4, <1>5, <1>6 DEF IndInv

LEMMA CreateEventItemInv ==
    ASSUME IndInv, CreateEventItem
    PROVE  IndInv'
<1>1. lastId' = lastId + 1 /\ lastId < MaxItems /\ IOThreadIdle
      /\ eventItemMap' = eventItemMap \cup {lastId + 1}
      /\ UNCHANGED <<nodeVars, itemVars, startVars, eventList, drain>>
    BY DEF CreateEventItem
<1>2. /\ lastId' \in 0 .. MaxItems /\ 1 .. lastId \subseteq 1 .. lastId'
      /\ lastId + 1 \in 1 .. lastId' /\ lastId + 1 \notin 1 .. lastId
    BY <1>1, Types, ItemBoundsAssumption
<1>3. eventItemMap' \subseteq (1 .. lastId') \ monitorItemMap'
    BY <1>1, <1>2 DEF IndInv, TypeOK, itemVars
<1>4. drain' \in [items: SUBSET (eventItemMap'), free: Nat]
    BY <1>1 DEF IndInv, TypeOK
<1>5. TypeOK'
    BY <1>1, <1>2, <1>3, <1>4 DEF IndInv, TypeOK, nodeVars, itemVars, startVars
<1>6. ItemsSound' /\ QueuePolicy' /\ NewestKept'
    BY <1>1, ItemsUntouched DEF IndInv
<1>7. StartStopBalanced'
    BY <1>1, StartUntouched DEF IndInv, nodeVars, itemVars
<1>8. DrainSound'
    BY <1>1, DrainUntouched DEF IndInv
<1>9. QED
    BY <1>5, <1>6, <1>7, <1>8 DEF IndInv

LEMMA CountEventsInv ==
    ASSUME IndInv, CountEvents
    PROVE  IndInv'
<1>1. drain' = [items |-> eventItemMap, free |-> Cardinality(Events(eventItemMap))]
      /\ UNCHANGED <<nodeVars, lastId, itemVars, startVars, eventVars>>
    BY DEF CountEvents, Queued
<1>2. Events(eventItemMap) = Places(eventList, eventItemMap)
    BY DEF Events, Places
<1>3. Cardinality(Events(eventItemMap)) \in Nat
    BY <1>2, Types, PlacesFinite
<1>4. drain' \in [items: SUBSET (eventItemMap'), free: Nat]
    BY <1>1, <1>3 DEF eventVars
<1>5. TypeOK'
    BY <1>1, <1>4 DEF IndInv, TypeOK, nodeVars, itemVars, startVars, eventVars
<1>6. ItemsSound' /\ QueuePolicy' /\ NewestKept'
    BY <1>1, ItemsUntouched DEF IndInv
<1>7. StartStopBalanced'
    BY <1>1, StartUntouched DEF IndInv, nodeVars, itemVars
<1>8. DrainSound'
  <2>1. Events(drain.items)' = Events(eventItemMap)
      BY <1>1 DEF Events, eventVars
  <2>2. QED
      BY <2>1, <1>1, <1>3 DEF DrainSound, IndInv, eventVars
<1>9. QED
    BY <1>5, <1>6, <1>7, <1>8 DEF IndInv

LEMMA DrainEventItemInv ==
    ASSUME IndInv, NEW i \in Id, DrainEventItem(i)
    PROVE  IndInv'
<1> DEFINE n == IF eventList[i] < drain.free THEN eventList[i] ELSE drain.free
<1>1. /\ i \in drain.items
      /\ eventList' = [eventList EXCEPT ![i] = @ - n]
      /\ drain' = [items |-> IF n < eventList[i] THEN {} ELSE drain.items \ {i},
                   free |-> drain.free - n]
      /\ UNCHANGED <<nodeVars, lastId, itemVars, startVars, eventItemMap>>
    BY DEF DrainEventItem
<1>2. /\ eventList \in [Id -> Nat] /\ eventList[i] \in Nat
      /\ eventList[i] <= MaxEvents /\ drain.free \in Nat
      /\ drain.items \subseteq eventItemMap /\ drain.items \in SUBSET Id
    BY Types DEF IndInv, TypeOK, DrainSound
<1>3. n \in Nat /\ n <= drain.free /\ n <= eventList[i]
      /\ (n < eventList[i] => n = drain.free)
    BY <1>2
<1> HIDE DEF n
<1>4. eventList' \in [Id -> Nat] /\ eventList'[i] = eventList[i] - n
      /\ \A j \in Id \ {i} : eventList'[j] = eventList[j]
    BY <1>1, <1>2, <1>3
<1>5. \A j \in Id : eventList'[j] <= MaxEvents
  <2>1. \A j \in Id : eventList[j] <= MaxEvents
      BY DEF IndInv, DrainSound
  <2>2. QED
      BY <2>1, <1>2, <1>3, <1>4, ItemBoundsAssumption
<1>6. drain' \in [items: SUBSET (eventItemMap'), free: Nat]
    BY <1>1, <1>2, <1>3
<1>7. TypeOK'
    BY <1>1, <1>4, <1>6 DEF IndInv, TypeOK, nodeVars, itemVars, startVars
<1>8. ItemsSound' /\ QueuePolicy' /\ NewestKept'
    BY <1>1, ItemsUntouched DEF IndInv
<1>9. StartStopBalanced'
    BY <1>1, StartUntouched DEF IndInv, nodeVars, itemVars
<1>10. DrainSound'
  <2>1. CASE n < eventList[i]
    <3>1. drain'.items = {} /\ drain'.free = 0
        BY <2>1, <1>1, <1>2, <1>3
    <3>2. QED
        BY <3>1, <1>5, IdleDrainSound
  <2>2. CASE ~(n < eventList[i])
    <3> DEFINE rest == drain.items \ {i}
    <3>1. n = eventList[i] /\ drain'.items = rest /\ drain'.free = drain.free - eventList[i]
        BY <2>2, <1>1, <1>2, <1>3
    <3>2. rest \in SUBSET Id
        BY <1>2
    <3>3. Cardinality(Places(eventList, drain.items)) =
            eventList[i] + Cardinality(Places(eventList, rest))
        BY <1>1, <1>2, PlacesSplit
    <3>4. Cardinality(Places(eventList, rest)) <= Cardinality(Places(eventList', rest))
      <4>1. \A j \in rest : eventList[j] <= eventList'[j]
          BY <1>2, <1>4
      <4>2. QED
          BY <4>1, <3>2, <1>2, <1>4, PlacesGrow
    <3>5. Cardinality(Places(eventList, rest)) \in Nat
          /\ Cardinality(Places(eventList', rest)) \in Nat
        BY <3>2, PlacesFinite
    <3> HIDE DEF rest
    <3>6. Events(drain.items) = Places(eventList, drain.items)
          /\ Events(drain.items)' = Places(eventList', rest)
        BY <3>1 DEF Events, Places
    <3>7. drain.free <= Cardinality(Places(eventList, drain.items))
        BY <3>6 DEF IndInv, DrainSound
    <3>8. drain'.free <= Cardinality(Places(eventList', rest))
        BY <3>1, <3>3, <3>4, <3>5, <3>7, <1>2
    <3>9. QED
        BY <3>6, <3>8, <1>5 DEF DrainSound
  <2>3. QED
      BY <2>1, <2>2
<1>11. QED
    BY <1>7, <1>8, <1>9, <1>10 DEF IndInv

LEMMA FireEventInv ==
    ASSUME IndInv, NEW i \in Id, FireEvent(i)
    PROVE  IndInv'
<1>1. /\ eventList[i] < MaxEvents
      /\ eventList' = [eventList EXCEPT ![i] = @ + 1]
      /\ UNCHANGED <<nodeVars, lastId, itemVars, startVars, eventItemMap, drain>>
    BY DEF FireEvent
<1>2. eventList \in [Id -> Nat] /\ drain.items \in SUBSET Id /\ drain.free \in Nat
    BY Types DEF IndInv, TypeOK
<1>3. eventList' \in [Id -> Nat] /\ \A j \in Id : eventList[j] <= eventList'[j]
    BY <1>1, <1>2
<1>4. \A j \in Id : eventList'[j] <= MaxEvents
    BY <1>1, <1>2, ItemBoundsAssumption DEF IndInv, DrainSound
<1>5. TypeOK'
    BY <1>1, <1>3 DEF IndInv, TypeOK, nodeVars, itemVars, startVars
<1>6. ItemsSound' /\ QueuePolicy' /\ NewestKept'
    BY <1>1, ItemsUntouched DEF IndInv
<1>7. StartStopBalanced'
    BY <1>1, StartUntouched DEF IndInv, nodeVars, itemVars
<1>8. DrainSound'
  <2> DEFINE S == drain.items
  <2>1. Cardinality(Places(eventList, S)) <= Cardinality(Places(eventList', S))
      BY <1>2, <1>3, PlacesGrow
  <2>2. Cardinality(Places(eventList, S)) \in Nat /\ Cardinality(Places(eventList', S)) \in Nat
      BY <1>2, PlacesFinite
  <2>3. Events(drain.items) = Places(eventList, S) /\ Events(drain.items)' = Places(eventList', S)
      BY <1>1 DEF Events, Places
  <2>4. drain.free <= Cardinality(Places(eventList, S))
      BY <2>3 DEF IndInv, DrainSound
  <2> HIDE DEF S
  <2>5. drain'.free <= Cardinality(Places(eventList', S))
      BY <2>1, <2>2, <2>4, <1>1, <1>2
  <2>6. QED
      BY <2>3, <2>5, <1>4 DEF DrainSound
<1>9. QED
    BY <1>5, <1>6, <1>7, <1>8 DEF IndInv

\* The callbacks stay balanced when the items in S are stopped and leave.
LEMMA StopFacts ==
    ASSUME IndInv, NEW S, StopCallbacks(S), removed' = removed,
           \A n \in Node : LiveItems(n)' = LiveItems(n) \ S,
           \A n \in Node \ removed : monitoredItemIds'[n] = LiveItems(n) \ S
    PROVE  monitoring' \in [Node -> Int] /\ StartStopBalanced'
<1>1. monitoring \in [Node -> Int] /\ StartStopBalanced
    BY DEF IndInv, TypeOK
<1>2. monitoring' = [n \in Node |->
        IF LastStopped(S, n) THEN monitoring[n] - 1 ELSE monitoring[n]]
    BY DEF StopCallbacks
<1>3. monitoring' \in [Node -> Int]
    BY <1>1, <1>2
<1>4. SUFFICES ASSUME NEW n \in Node \ removed
               PROVE  /\ monitoredItemIds'[n] = LiveItems(n)'
                      /\ monitoring'[n] = IF LiveItems(n)' = {} THEN 0 ELSE 1
    BY <1>3 DEF StartStopBalanced
<1> DEFINE live == LiveItems(n)
<1>5. /\ monitoredItemIds[n] = live
      /\ monitoring[n] = IF live = {} THEN 0 ELSE 1
    BY <1>1 DEF StartStopBalanced
<1>6. monitoredItemIds'[n] = LiveItems(n)' /\ LiveItems(n)' = live \ S
    OBVIOUS
<1>7. LastStopped(S, n) <=> live # {} /\ live \subseteq S
    BY <1>5 DEF LastStopped
<1>8. monitoring'[n] = IF live # {} /\ live \subseteq S THEN monitoring[n] - 1 ELSE monitoring[n]
    BY <1>2, <1>7
<1> HIDE DEF live
<1>9. live \subseteq S <=> live \ S = {}
    OBVIOUS
<1>10. monitoring'[n] = IF live \ S = {} THEN 0 ELSE 1
  <2>1. CASE live = {}
      BY <2>1, <1>5, <1>8
  <2>2. CASE live # {} /\ live \subseteq S
      BY <2>2, <1>5, <1>8, <1>9
  <2>3. CASE live # {} /\ ~(live \subseteq S)
      BY <2>3, <1>5, <1>8, <1>9
  <2>4. QED
      BY <2>1, <2>2, <2>3
<1>11. QED
    BY <1>6, <1>10

LEMMA DeleteMonitoredItemInv ==
    ASSUME IndInv, NEW i \in Id, DeleteMonitoredItem(i)
    PROVE  IndInv'
<1>1. IOThreadIdle /\ UNCHANGED <<nodeVars, lastId, drain>>
    BY DEF DeleteMonitoredItem
<1>2. value' = value /\ removed' = removed /\ lastId' = lastId /\ drain' = drain
    BY <1>1 DEF nodeVars
<1>3. CASE /\ i \in monitorItemMap
           /\ forwardStopMonitoredItem({i})
           /\ EraseMonitored({i})
           /\ UNCHANGED eventVars
  <2>1. /\ monitorItemMap' = monitorItemMap \ {i}
        /\ monitorItem' \in [Id -> MonitorItem]
        /\ pending' \in [Id -> Seq(Notification)] /\ received' \in [Id -> Notification]
        /\ ItemsSound' /\ QueuePolicy' /\ NewestKept'
        /\ \A n \in Node : LiveItems(n)' = LiveItems(n) \ {i}
      BY <1>1, <1>3, EraseMonitoredFacts
  <2>2. /\ StopCallbacks({i})
        /\ monitoredItemIds' = [n \in Node |-> monitoredItemIds[n] \ ({i} \cap LiveItems(n))]
      BY <1>3 DEF forwardStopMonitoredItem
  <2>3. \A n \in Node \ removed : monitoredItemIds'[n] = LiveItems(n) \ {i}
      BY <2>2 DEF IndInv, StartStopBalanced
  <2>4. monitoring' \in [Node -> Int] /\ StartStopBalanced'
      BY <1>2, <2>1, <2>2, <2>3, StopFacts
  <2>5. monitoredItemIds' \in [Node -> SUBSET (1 .. lastId)]
      BY <2>2 DEF IndInv, TypeOK
  <2>6. eventItemMap' = eventItemMap /\ eventList' = eventList
      BY <1>3 DEF eventVars
  <2>7. TypeOK'
      BY <1>2, <2>1, <2>4, <2>5, <2>6 DEF IndInv, TypeOK
  <2>8. DrainSound'
      BY <1>2, <2>6, DrainUntouched DEF IndInv
  <2>9. QED
      BY <2>1, <2>4, <2>7, <2>8 DEF IndInv
<1>4. CASE /\ i \in eventItemMap
           /\ EraseEvent({i})
           /\ UNCHANGED <<startVars, itemVars>>
  <2>1. /\ eventItemMap' = eventItemMap \ {i} /\ eventList' \in [Id -> Nat]
        /\ drain' \in [items: SUBSET (eventItemMap'), free: Nat]
        /\ DrainSound'
      BY <1>1, <1>4, EraseEventFacts
  <2>2. TypeOK'
      BY <1>2, <1>4, <2>1 DEF IndInv, TypeOK, startVars, itemVars
  <2>3. ItemsSound' /\ QueuePolicy' /\ NewestKept'
      BY <1>1, <1>4, ItemsUntouched DEF IndInv
  <2>4. StartStopBalanced'
      BY <1>2, <1>4, StartUntouched DEF IndInv, itemVars
  <2>5. QED
      BY <2>1, <2>2, <2>3, <2>4 DEF IndInv
<1>5. QED
    BY <1>3, <1>4 DEF DeleteMonitoredItem

LEMMA DestroyMonitorManagerInv ==
    ASSUME IndInv, DestroyMonitorManager
    PROVE  IndInv'
<1>1. /\ IOThreadIdle /\ UNCHANGED <<nodeVars, lastId, drain>>
      /\ StopCallbacks(monitorItemMap)
      /\ monitoredItemIds' = [n \in Node |-> {}]
      /\ EraseMonitored(monitorItemMap)
      /\ EraseEvent(eventItemMap)
    BY DEF DestroyMonitorManager
<1>2. value' = value /\ removed' = removed /\ lastId' = lastId /\ drain' = drain
    BY <1>1 DEF nodeVars
<1>3. /\ monitorItemMap' = monitorItemMap \ monitorItemMap
      /\ monitorItem' \in [Id -> MonitorItem]
      /\ pending' \in [Id -> Seq(Notification)] /\ received' \in [Id -> Notification]
      /\ ItemsSound' /\ QueuePolicy' /\ NewestKept'
      /\ \A n \in Node : LiveItems(n)' = LiveItems(n) \ monitorItemMap
    BY <1>1, EraseMonitoredFacts
<1>4. /\ eventItemMap' = eventItemMap \ eventItemMap /\ eventList' \in [Id -> Nat]
      /\ drain' \in [items: SUBSET (eventItemMap'), free: Nat]
      /\ DrainSound'
    BY <1>1, EraseEventFacts
<1>5. \A n \in Node : LiveItems(n) \subseteq monitorItemMap
    BY DEF LiveItems
<1>6. \A n \in Node \ removed : monitoredItemIds'[n] = LiveItems(n) \ monitorItemMap
    BY <1>1, <1>5
<1>7. monitoring' \in [Node -> Int] /\ StartStopBalanced'
    BY <1>1, <1>2, <1>3, <1>6, StopFacts
<1>8. monitoredItemIds' \in [Node -> SUBSET (1 .. lastId)]
    BY <1>1
<1>9. TypeOK'
    BY <1>2, <1>3, <1>4, <1>7, <1>8 DEF IndInv, TypeOK
<1>10. QED
    BY <1>3, <1>4, <1>7, <1>9 DEF IndInv

LEMMA SampleExpiredInv ==
    ASSUME IndInv, NEW i \in Id, SampleExpired(i)
    PROVE  IndInv'
<1>1. /\ monitorItem[i].expired /\ EraseMonitored({i})
      /\ UNCHANGED <<nodeVars, lastId, startVars, eventVars, drain>>
    BY DEF SampleExpired
<1>2. /\ monitorItemMap' = monitorItemMap \ {i}
      /\ monitorItem' \in [Id -> MonitorItem]
      /\ pending' \in [Id -> Seq(Notification)] /\ received' \in [Id -> Notification]
      /\ ItemsSound' /\ QueuePolicy' /\ NewestKept'
      /\ \A n \in Node : LiveItems(n)' = LiveItems(n) \ {i}
    BY <1>1, EraseMonitoredFacts
<1>3. \A n \in Node \ removed : LiveItems(n)' = LiveItems(n)
    BY <1>1, <1>2 DEF LiveItems
<1>4. TypeOK'
    BY <1>1, <1>2 DEF IndInv, TypeOK, nodeVars, startVars, eventVars
<1>5. StartStopBalanced'
    BY <1>1, <1>3, StartKept DEF IndInv, nodeVars
<1>6. DrainSound'
    BY <1>1, DrainUntouched DEF IndInv, eventVars
<1>7. QED
    BY <1>2, <1>4, <1>5, <1>6 DEF IndInv

-----------------------------------------------------------------------------
(***************************************************************************)
(* The actions on attributes and on the queues of the monitored items.     *)
(***************************************************************************)
LEMMA DataValueFacts ==
    ASSUME NEW v \in DataValue
    PROVE  v \in Notification /\ v # Deleted /\ [v EXCEPT !.good = TRUE] \in DataValue
<1>1. v # Deleted
  <2>1. DOMAIN v = {"variant", "good"} /\ DOMAIN Deleted = {"status"}
      BY DEF DataValue, Deleted
  <2>2. "good" \notin {"status"}
      OBVIOUS
  <2>3. QED
      BY <2>1, <2>2
<1>2. [v EXCEPT !.good = TRUE] \in DataValue
    BY DEF DataValue
<1>3. QED
    BY <1>1, <1>2 DEF Notification

\* The value of a node that exists can be sent, and so can the one with which
\* the queue of a new item starts.
LEMMA PresentFacts ==
    ASSUME IndInv, NEW n \in Node, value[n] # Deleted
    PROVE  value[n] \in Notification /\ FirstNotification(n) \in Notification
<1>1. value[n] \in DataValue \/ value[n] = NoValue
    BY DEF IndInv, TypeOK
<1>2. CASE value[n] = NoValue
    BY <1>2 DEF FirstNotification, Notification
<1>3. CASE value[n] # NoValue
    BY <1>1, <1>3, DataValueFacts DEF FirstNotification, Notification
<1>4. QED
    BY <1>2, <1>3

\* The fields of an item.
LEMMA ItemTypes ==
    ASSUME IndInv, NEW i \in Id
    PROVE  LET item == monitorItem[i] IN
           /\ item \in MonitorItem
           /\ item.node \in Node \cup {NoItem} /\ item.expired \in BOOLEAN
           /\ item.queSize \in Nat /\ item.discardOldest \in BOOLEAN
           /\ item.list \in Seq(Notification) /\ item.dataValue \in Notification
           /\ pending[i] \in Seq(Notification) /\ received[i] \in Notification
<1>1. monitorItem[i] \in MonitorItem
    BY DEF IndInv, TypeOK
<1>2. pending[i] \in Seq(Notification) /\ received[i] \in Notification
    BY DEF IndInv, TypeOK
<1>3. QED
    BY <1>1, <1>2 DEF MonitorItem

\* A value is written to a node, or a node is created with it.
LEMMA ValueWritten ==
    ASSUME IndInv, NEW n \in Node, NEW v \in Content(n),
           value' = [value EXCEPT ![n] = v],
           UNCHANGED <<lastId, removed, itemVars, startVars, eventVars, drain>>
    PROVE  IndInv'
<1>1. v \in DataValue /\ v # Deleted
    BY DataValueFacts DEF Content
<1>2. TypeOK'
    BY <1>1 DEF IndInv, TypeOK, itemVars, startVars, eventVars
<1>3. ItemsSound'
  <2>1. SUFFICES ASSUME NEW i \in monitorItemMap PROVE ItemSound(monitorItem[i])'
      BY DEF ItemsSound, itemVars
  <2>2. ItemSound(monitorItem[i])
      BY DEF IndInv, ItemsSound
  <2>3. monitorItem' = monitorItem /\ removed' = removed
      BY DEF itemVars
  <2>4. value \in [Node -> DataValue \cup {NoValue, Deleted}]
      BY DEF IndInv, TypeOK
  <2>5. \A m \in Node : value[m] # Deleted => value'[m] # Deleted
      BY <1>1, <2>4
  <2>6. QED
      BY <2>2, <2>3, <2>5 DEF ItemSound
<1>4. QueuePolicy' /\ NewestKept'
    BY DEF IndInv, QueuePolicy, NewestKept, itemVars
<1>5. StartStopBalanced'
    BY StartUntouched DEF IndInv, itemVars
<1>6. DrainSound'
    BY DrainUntouched DEF IndInv, eventVars
<1>7. QED
    BY <1>2, <1>3, <1>4, <1>5, <1>6 DEF IndInv

LEMMA DeleteNodeInv ==
    ASSUME IndInv, NEW n \in Node, DeleteNode(n)
    PROVE  IndInv'
<1>1. /\ value' = [value EXCEPT ![n] = Deleted]
      /\ removed' = removed \cup {n}
      /\ monitorItem' = [i \in Id |->
           IF monitorItem[i].node = n THEN [monitorItem[i] EXCEPT !.expired = TRUE]
                                      ELSE monitorItem[i]]
      /\ monitoring' = [monitoring EXCEPT ![n] = 0]
      /\ UNCHANGED <<lastId, monitorItemMap, received, pending, monitoredItemIds,
                     eventVars, drain>>
    BY DEF DeleteNode
<1>2. value \in [Node -> DataValue \cup {NoValue, Deleted}] /\ removed \subseteq Node
      /\ monitoring \in [Node -> Int]
    BY DEF IndInv, TypeOK
<1>3. ASSUME NEW i \in Id
      PROVE  /\ monitorItem'[i] \in MonitorItem
             /\ monitorItem'[i].node = monitorItem[i].node
             /\ monitorItem'[i].expired = (monitorItem[i].expired \/ monitorItem[i].node = n)
             /\ monitorItem'[i].queSize = monitorItem[i].queSize
             /\ monitorItem'[i].discardOldest = monitorItem[i].discardOldest
             /\ monitorItem'[i].list = monitorItem[i].list
             /\ monitorItem'[i].dataValue = monitorItem[i].dataValue
  <2> DEFINE item == monitorItem[i]
  <2>1. item \in MonitorItem
      BY ItemTypes
  <2>2. monitorItem'[i] = IF item.node = n THEN [item EXCEPT !.expired = TRUE] ELSE item
      BY <1>1
  <2> HIDE DEF item
  <2>3. CASE item.node = n
      BY <2>1, <2>2, <2>3 DEF MonitorItem, item
  <2>4. CASE item.node # n
      BY <2>1, <2>2, <2>4 DEF MonitorItem, item
  <2>5. QED
      BY <2>3, <2>4
<1>4. monitorItem' \in [Id -> MonitorItem]
    BY <1>1, <1>3
<1>5. TypeOK'
    BY <1>1, <1>2, <1>4 DEF IndInv, TypeOK, eventVars
<1>6. monitorItemMap' = monitorItemMap /\ monitorItemMap \subseteq Id
    BY <1>1, Types
<1>7. ItemsSound'
  <2>1. SUFFICES ASSUME NEW i \in monitorItemMap PROVE ItemSound(monitorItem[i])'
      BY <1>6 DEF ItemsSound
  <2>2. ItemSound(monitorItem[i]) /\ i \in Id
      BY <1>6 DEF IndInv, ItemsSound
  <2>3. /\ monitorItem'[i].node = monitorItem[i].node
        /\ monitorItem'[i].queSize = monitorItem[i].queSize
        /\ monitorItem'[i].expired = (monitorItem[i].expired \/ monitorItem[i].node = n)
      BY <2>2, <1>3
  <2>4. CASE monitorItem[i].node = n
    <3>1. monitorItem'[i].expired /\ monitorItem'[i].node \in removed'
      <4>1. monitorItem'[i].expired
        <5>1. monitorItem'[i] = [monitorItem[i] EXCEPT !.expired = TRUE]
            BY <2>2, <2>4, <1>1
        <5>2. monitorItem[i] \in MonitorItem
            BY <2>2, ItemTypes
        <5>3. QED
            BY <5>1, <5>2 DEF MonitorItem
      <4>2. monitorItem'[i].node \in removed'
          BY <2>3, <2>4, <1>1
      <4>3. QED
          BY <4>1, <4>2
    <3>2. QED
        BY <3>1, <2>2, <2>3 DEF ItemSound
  <2>5. CASE monitorItem[i].node # n
      BY <2>2, <2>3, <2>5, <1>1, <1>2 DEF ItemSound
  <2>6. QED
      BY <2>4, <2>5
<1>8. QueuePolicy'
    BY <1>1, <1>3, <1>6 DEF IndInv, QueuePolicy
<1>9. NewestKept'
    BY <1>1, <1>3, <1>6 DEF IndInv, NewestKept
<1>10. StartStopBalanced'
  <2>1. SUFFICES ASSUME NEW m \in Node \ removed, m # n
                 PROVE  /\ monitoredItemIds'[m] = LiveItems(m)'
                        /\ monitoring'[m] = IF LiveItems(m)' = {} THEN 0 ELSE 1
      BY <1>1 DEF StartStopBalanced
  <2>2. LiveItems(m)' = LiveItems(m)
      BY <2>1, <1>3, <1>6 DEF LiveItems
  <2>3. /\ monitoredItemIds[m] = LiveItems(m)
        /\ monitoring[m] = IF LiveItems(m) = {} THEN 0 ELSE 1
      BY DEF IndInv, StartStopBalanced
  <2>4. monitoredItemIds'[m] = monitoredItemIds[m] /\ monitoring'[m] = monitoring[m]
      BY <2>1, <1>1, <1>2
  <2>5. QED
      BY <2>2, <2>3, <2>4
<1>11. DrainSound'
    BY <1>1, DrainUntouched DEF IndInv, eventVars
<1>12. QED
    BY <1>5, <1>7, <1>8, <1>9, <1>10, <1>11 DEF IndInv

LEMMA PublishDataInv ==
    ASSUME IndInv, PublishData
    PROVE  IndInv'
<1>1. /\ monitorItem' = [i \in Id |-> [monitorItem[i] EXCEPT !.list = <<>>]]
      /\ received' = [i \in Id |-> IF monitorItem[i].list = <<>> THEN received[i]
                                   ELSE Last(monitorItem[i].list)]
      /\ pending' = [i \in Id |-> <<>>]
      /\ UNCHANGED <<nodeVars, lastId, monitorItemMap, startVars, eventVars, drain>>
    BY DEF PublishData
<1>2. monitorItemMap' = monitorItemMap /\ monitorItemMap \subseteq Id
    BY <1>1, Types
<1>3. ASSUME NEW i \in Id
      PROVE  /\ monitorItem'[i] \in MonitorItem
             /\ monitorItem'[i].node = monitorItem[i].node
             /\ monitorItem'[i].expired = monitorItem[i].expired
             /\ monitorItem'[i].queSize = monitorItem[i].queSize
             /\ monitorItem'[i].dataValue = monitorItem[i].dataValue
             /\ monitorItem'[i].list = <<>> /\ pending'[i] = <<>>
  <2>1. monitorItem[i] \in MonitorItem
      BY ItemTypes
  <2>2. monitorItem'[i] = [monitorItem[i] EXCEPT !.list = <<>>]
      BY <1>1
  <2>3. pending'[i] = <<>> /\ <<>> \in Seq(Notification)
      BY <1>1
  <2> DEFINE item == monitorItem[i]
             next == monitorItem'[i]
  <2> HIDE DEF item, next
  <2>4. item \in MonitorItem /\ next = [item EXCEPT !.list = <<>>]
      BY <2>1, <2>2 DEF item, next
  <2>5. /\ next \in MonitorItem /\ next.node = item.node /\ next.expired = item.expired
        /\ next.queSize = item.queSize /\ next.dataValue = item.dataValue /\ next.list = <<>>
      BY <2>3, <2>4 DEF MonitorItem
  <2>6. QED
      BY <2>3, <2>5 DEF item, next
<1>4. ASSUME NEW i \in Id
      PROVE  /\ received'[i] \in Notification
             /\ received'[i] = IF monitorItem[i].list = <<>> THEN received[i]
                               ELSE monitorItem[i].list[Len(monitorItem[i].list)]
  <2> DEFINE list == monitorItem[i].list
  <2>1. list \in Seq(Notification) /\ received[i] \in Notification
      BY ItemTypes
  <2>2. received'[i] = IF list = <<>> THEN received[i] ELSE list[Len(list)]
      BY <1>1 DEF Last
  <2> HIDE DEF list
  <2>3. list # <<>> => list[Len(list)] \in Notification
    <3>1. list # <<>> => Len(list) \in 1 .. Len(list)
        BY <2>1
    <3>2. QED
        BY <3>1, <2>1, ElementOfSeq
  <2>4. received'[i] \in Notification
      BY <2>1, <2>2, <2>3
  <2>5. QED
      BY <2>2, <2>4 DEF list
<1>5. /\ monitorItem' \in [Id -> MonitorItem]
      /\ received' \in [Id -> Notification] /\ pending' \in [Id -> Seq(Notification)]
  <2>1. <<>> \in Seq(Notification)
      OBVIOUS
  <2>2. QED
      BY <2>1, <1>1, <1>3, <1>4
<1>6. TypeOK'
    BY <1>1, <1>5 DEF IndInv, TypeOK, nodeVars, startVars, eventVars
<1>7. ItemsSound'
  <2>1. SUFFICES ASSUME NEW i \in monitorItemMap PROVE ItemSound(monitorItem[i])'
      BY <1>2 DEF ItemsSound
  <2>2. ItemSound(monitorItem[i]) /\ i \in Id
      BY <1>2 DEF IndInv, ItemsSound
  <2>3. QED
      BY <2>2, <1>1, <1>3 DEF ItemSound, nodeVars
<1>8. QueuePolicy'
  <2>1. SUFFICES ASSUME NEW i \in monitorItemMap
                 PROVE  monitorItem'[i].list =
                          Discarded(pending'[i], monitorItem'[i].queSize, monitorItem'[i].discardOldest)
      BY <1>2 DEF QueuePolicy
  <2>2. monitorItem'[i].queSize \in Nat /\ monitorItem'[i].list = <<>> /\ pending'[i] = <<>>
      BY <1>2, <1>3, ItemTypes
  <2>3. Len(<<>>) <= monitorItem'[i].queSize
      BY <2>2
  <2>4. QED
      BY <2>2, <2>3 DEF Discarded
<1>9. NewestKept'
  <2>1. SUFFICES ASSUME NEW i \in monitorItemMap, monitorItem'[i].dataValue # NoValue
                 PROVE  monitorItem'[i].dataValue =
                          IF monitorItem'[i].list = <<>> THEN received'[i]
                          ELSE monitorItem'[i].list[Len(monitorItem'[i].list)]
      BY <1>2 DEF NewestKept
  <2>2. i \in Id
      BY <1>2
  <2>3. monitorItem'[i].dataValue = monitorItem[i].dataValue /\ monitorItem'[i].list = <<>>
      BY <2>2, <1>3
  <2>4. monitorItem[i].dataValue = IF monitorItem[i].list = <<>> THEN received[i]
                                   ELSE monitorItem[i].list[Len(monitorItem[i].list)]
      BY <2>1, <2>3 DEF IndInv, NewestKept
  <2>5. QED
      BY <2>2, <2>3, <2>4, <1>4
<1>10. StartStopBalanced'
  <2>1. \A n \in Node \ removed : LiveItems(n)' = LiveItems(n)
      BY <1>2, <1>3 DEF LiveItems
  <2>2. QED
      BY <2>1, <1>1, StartKept DEF IndInv, nodeVars
<1>11. DrainSound'
    BY <1>1, DrainUntouched DEF IndInv, eventVars
<1>12. QED
    BY <1>6, <1>7, <1>8, <1>9, <1>10, <1>11 DEF IndInv

LEMMA SampleInv ==
    ASSUME IndInv, NEW i \in Id, Sample(i)
    PROVE  IndInv'
<1> DEFINE item == monitorItem[i]
           v == value[item.node]
           list == Pushed(item.list, item.queSize, item.discardOldest, v)
<1>1. /\ i \in monitorItemMap /\ ~item.expired
      /\ monitorItem' = [monitorItem EXCEPT ![i].list = list, ![i].dataValue = v]
      /\ pending' = [pending EXCEPT ![i] = Append(@, v)]
      /\ UNCHANGED <<nodeVars, lastId, monitorItemMap, received, startVars, eventVars, drain>>
    BY DEF Sample, PushBack, Pushed
<1>2. /\ item \in MonitorItem /\ item.queSize \in Nat /\ item.discardOldest \in BOOLEAN
      /\ item.list \in Seq(Notification) /\ pending[i] \in Seq(Notification)
    BY ItemTypes
<1>3. item.node \in Node /\ item.queSize \in Nat \ {0} /\ value[item.node] # Deleted
    BY <1>1, <1>2 DEF IndInv, ItemsSound, ItemSound
<1>4. v \in Notification
    BY <1>3, PresentFacts
<1>5. list \in Seq(Notification) /\ list # <<>> /\ list[Len(list)] = v
  <2> DEFINE Nonempty(p, w) == p \in Seq(Notification) /\ p # <<>> /\ p[Len(p)] = w
  <2>1. ASSUME NEW l \in Seq(Notification), NEW q \in Nat \ {0}, NEW d \in BOOLEAN,
               NEW w \in Notification
        PROVE  Nonempty(Pushed(l, q, d, w), w)
      BY PushedFacts
  <2> DEFINE l == item.list
             q == item.queSize
             d == item.discardOldest
  <2>2. l \in Seq(Notification) /\ q \in Nat \ {0} /\ d \in BOOLEAN /\ list = Pushed(l, q, d, v)
      BY <1>2, <1>3
  <2> HIDE DEF l, q, d, v, list, Nonempty
  <2>3. Nonempty(list, v)
      BY <2>1, <2>2, <1>4
  <2>4. QED
      BY <2>3 DEF Nonempty
<1>6. list = Discarded(Append(pending[i], v), item.queSize, item.discardOldest)
  <2>1. item.list = Discarded(pending[i], item.queSize, item.discardOldest)
      BY <1>1 DEF IndInv, QueuePolicy
  <2>2. QED
      BY <2>1, <1>2, <1>3, <1>4, DiscardedAppend
<1>7. Append(pending[i], v) \in Seq(Notification)
    BY <1>2, <1>4, AppendFacts
<1>8. monitorItem \in [Id -> MonitorItem] /\ pending \in [Id -> Seq(Notification)]
    BY DEF IndInv, TypeOK
<1> HIDE DEF list, v
<1>9. monitorItem'[i] = [item EXCEPT !.list = list, !.dataValue = v]
      /\ \A j \in Id \ {i} : monitorItem'[j] = monitorItem[j]
    BY <1>1, <1>8
<1>10. pending'[i] = Append(pending[i], v)
       /\ \A j \in Id \ {i} : pending'[j] = pending[j]
    BY <1>1, <1>8
<1>11. /\ monitorItem'[i] \in MonitorItem
       /\ monitorItem'[i].node = item.node /\ monitorItem'[i].expired = item.expired
       /\ monitorItem'[i].queSize = item.queSize
       /\ monitorItem'[i].discardOldest = item.discardOldest
       /\ monitorItem'[i].list = list /\ monitorItem'[i].dataValue = v
  <2> HIDE DEF item
  <2>1. QED
      BY <1>2, <1>4, <1>5, <1>9 DEF MonitorItem
<1>12. monitorItem' \in [Id -> MonitorItem] /\ pending' \in [Id -> Seq(Notification)]
  <2>1. DOMAIN monitorItem' = Id /\ DOMAIN pending' = Id
      BY <1>1, <1>8
  <2>2. pending' \in [Id -> Seq(Notification)]
      BY <1>1, <1>7, <1>8
  <2>3. \A j \in Id : monitorItem'[j] \in MonitorItem
      BY <1>8, <1>9, <1>11
  <2>4. monitorItem' = [j \in Id |-> monitorItem'[j]]
      BY <2>1, <1>1, <1>8
  <2>5. QED
      BY <2>2, <2>3, <2>4
<1>13. TypeOK'
    BY <1>1, <1>12 DEF IndInv, TypeOK, nodeVars, startVars, eventVars
<1>14. monitorItemMap' = monitorItemMap /\ monitorItemMap \subseteq Id
       /\ received' = received /\ value' = value /\ removed' = removed
    BY <1>1, Types DEF nodeVars
<1>15. ItemsSound'
  <2>1. SUFFICES ASSUME NEW j \in monitorItemMap PROVE ItemSound(monitorItem[j])'
      BY <1>14 DEF ItemsSound
  <2>2. ItemSound(monitorItem[j]) /\ j \in Id
      BY <1>14 DEF IndInv, ItemsSound
  <2>3. CASE j = i
      BY <2>2, <2>3, <1>11, <1>14 DEF ItemSound
  <2>4. CASE j # i
      BY <2>2, <2>4, <1>9, <1>14 DEF ItemSound
  <2>5. QED
      BY <2>3, <2>4
<1>16. QueuePolicy'
  <2>1. SUFFICES ASSUME NEW j \in monitorItemMap
                 PROVE  monitorItem'[j].list =
                          Discarded(pending'[j], monitorItem'[j].queSize, monitorItem'[j].discardOldest)
      BY <1>14 DEF QueuePolicy
  <2>2. CASE j = i
      BY <2>2, <1>6, <1>10, <1>11
  <2>3. CASE j # i
      BY <2>3, <1>9, <1>10, <1>14 DEF IndInv, QueuePolicy
  <2>4. QED
      BY <2>2, <2>3
<1>17. NewestKept'
  <2>1. SUFFICES ASSUME NEW j \in monitorItemMap, monitorItem'[j].dataValue # NoValue
                 PROVE  monitorItem'[j].dataValue =
                          IF monitorItem'[j].list = <<>> THEN received'[j]
                          ELSE monitorItem'[j].list[Len(monitorItem'[j].list)]
      BY <1>14 DEF NewestKept
  <2>2. CASE j = i
      BY <2>2, <1>5, <1>11
  <2>3. CASE j # i
      BY <2>1, <2>3, <1>9, <1>14 DEF IndInv, NewestKept
  <2>4. QED
      BY <2>2, <2>3
<1>18. StartStopBalanced'
  <2>1. \A n \in Node \ removed : LiveItems(n)' = LiveItems(n)
      BY <1>9, <1>11, <1>14 DEF LiveItems
  <2>2. QED
      BY <2>1, <1>1, <1>14, StartKept DEF IndInv
<1>19. DrainSound'
    BY <1>1, DrainUntouched DEF IndInv, eventVars
<1>20. QED
    BY <1>13, <1>15, <1>16, <1>17, <1>18, <1>19 DEF IndInv

LEMMA CreateMonitoredItemInv ==
    ASSUME IndInv, NEW n \in Node, NEW queueSize \in QueueSize, NEW d \in BOOLEAN,
           CreateMonitoredItem(n, queueSize, d)
    PROVE  IndInv'
<1> DEFINE i == lastId + 1
           q == IF queueSize < 1 THEN 1 ELSE queueSize
           v == FirstNotification(n)
           empty == [node |-> n, expired |-> FALSE, queSize |-> q,
                     discardOldest |-> d, list |-> <<>>, dataValue |-> NoValue]
           item == [empty EXCEPT !.list = <<v>>]
<1>1. /\ lastId < MaxItems /\ value[n] # Deleted
      /\ lastId' = i
      /\ monitorItemMap' = monitorItemMap \cup {i}
      /\ monitorItem' = [monitorItem EXCEPT ![i] = [empty EXCEPT !.list = PushBack(empty, v)]]
      /\ pending' = [pending EXCEPT ![i] = <<v>>]
      /\ forwardStartMonitoredItem(n, i)
      /\ UNCHANGED <<nodeVars, received, eventVars, drain>>
    BY DEF CreateMonitoredItem
<1>2. q \in Nat \ {0}
    BY QueueSizeAssumption
<1>3. v \in Notification /\ <<v>> \in Seq(Notification) /\ NoValue \in Notification
  <2>1. v \in Notification
      BY <1>1, PresentFacts
  <2>2. QED
      BY <2>1 DEF Notification
<1> HIDE DEF v, q
<1>4. /\ empty \in MonitorItem /\ empty.node = n /\ empty.expired = FALSE
      /\ empty.queSize = q /\ empty.discardOldest = d /\ empty.list = <<>>
      /\ empty.dataValue = NoValue
  <2>1. <<>> \in Seq(Notification)
      OBVIOUS
  <2>2. QED
      BY <2>1, <1>2, <1>3 DEF MonitorItem
<1> HIDE DEF empty
<1>5. /\ [empty EXCEPT !.list = PushBack(empty, v)] = item
      /\ item \in MonitorItem /\ item.node = n /\ ~item.expired /\ item.queSize = q
      /\ item.discardOldest = d /\ item.list = <<v>> /\ item.dataValue = NoValue
  <2>1. Len(<<>>) < q /\ Append(<<>>, v) = <<v>>
      BY <1>2, <1>3
  <2>2. PushBack(empty, v) = <<v>>
      BY <2>1, <1>4 DEF PushBack
  <2>3. /\ item \in MonitorItem /\ item.node = n /\ item.expired = FALSE /\ item.queSize = q
        /\ item.discardOldest = d /\ item.list = <<v>> /\ item.dataValue = NoValue
      BY <1>3, <1>4 DEF MonitorItem
  <2>4. QED
      BY <2>2, <2>3
<1> HIDE DEF item
<1>6. /\ lastId \in Nat /\ i \in Id /\ i \in 1 .. lastId' /\ lastId' \in 0 .. MaxItems
      /\ 1 .. lastId \subseteq 1 .. lastId' /\ i \notin 1 .. lastId
    BY <1>1, Types, ItemBoundsAssumption DEF Id
<1>7. /\ monitorItemMap \subseteq 1 .. lastId /\ eventItemMap \subseteq (1 .. lastId) \ monitorItemMap
      /\ monitoredItemIds \in [Node -> SUBSET (1 .. lastId)] /\ monitoring \in [Node -> Int]
      /\ monitorItem \in [Id -> MonitorItem] /\ pending \in [Id -> Seq(Notification)]
    BY DEF IndInv, TypeOK
<1>8. i \notin monitorItemMap /\ i \notin eventItemMap /\ monitorItemMap \subseteq Id
    BY <1>6, <1>7, Types
<1>9. /\ monitoredItemIds' = [monitoredItemIds EXCEPT ![n] = @ \cup {i}]
      /\ monitoring' =
           [monitoring EXCEPT ![n] = IF monitoredItemIds[n] = {} THEN @ + 1 ELSE @]
    BY <1>1 DEF forwardStartMonitoredItem
<1> HIDE DEF i
<1>10. /\ monitorItem' \in [Id -> MonitorItem] /\ monitorItem'[i] = item
       /\ \A j \in Id \ {i} : monitorItem'[j] = monitorItem[j]
    BY <1>1, <1>5, <1>6, <1>7
<1>11. /\ pending' \in [Id -> Seq(Notification)] /\ pending'[i] = <<v>>
       /\ \A j \in Id \ {i} : pending'[j] = pending[j]
    BY <1>1, <1>3, <1>6, <1>7
<1>12. TypeOK'
  <2>1. monitorItemMap' \subseteq 1 .. lastId'
        /\ eventItemMap' \subseteq (1 .. lastId') \ monitorItemMap'
      BY <1>1, <1>6, <1>7, <1>8 DEF eventVars
  <2>2. monitoredItemIds' \in [Node -> SUBSET (1 .. lastId')] /\ monitoring' \in [Node -> Int]
      BY <1>6, <1>7, <1>9
  <2>3. QED
      BY <2>1, <2>2, <1>1, <1>6, <1>10, <1>11 DEF IndInv, TypeOK, nodeVars, eventVars
<1>13. value' = value /\ removed' = removed /\ received' = received
    BY <1>1 DEF nodeVars
<1>14. \A j \in monitorItemMap : j \in Id \ {i} /\ monitorItem'[j] = monitorItem[j]
                                 /\ pending'[j] = pending[j]
    BY <1>8, <1>10, <1>11
<1>15. ItemsSound'
  <2>1. SUFFICES ASSUME NEW j \in monitorItemMap' PROVE ItemSound(monitorItem[j])'
      BY DEF ItemsSound
  <2>2. CASE j = i
    <3>1. monitorItem'[i].node = n /\ monitorItem'[i].queSize >= 1 /\ ~monitorItem'[i].expired
        BY <1>2, <1>5, <1>10
    <3>2. value'[n] # Deleted
        BY <1>1, <1>13
    <3>3. QED
        BY <2>2, <3>1, <3>2 DEF ItemSound
  <2>3. CASE j \in monitorItemMap
      BY <2>3, <1>13, <1>14 DEF IndInv, ItemsSound, ItemSound
  <2>4. QED
      BY <2>2, <2>3, <1>1
<1>16. QueuePolicy'
  <2>1. SUFFICES ASSUME NEW j \in monitorItemMap'
                 PROVE  monitorItem'[j].list =
                          Discarded(pending'[j], monitorItem'[j].queSize, monitorItem'[j].discardOldest)
      BY DEF QueuePolicy
  <2>2. CASE j = i
    <3>1. Len(<<v>>) <= q
        BY <1>2
    <3>2. QED
        BY <3>1, <2>2, <1>5, <1>10, <1>11 DEF Discarded
  <2>3. CASE j \in monitorItemMap
      BY <2>3, <1>14 DEF IndInv, QueuePolicy
  <2>4. QED
      BY <2>2, <2>3, <1>1
<1>17. NewestKept'
  <2>1. SUFFICES ASSUME NEW j \in monitorItemMap', monitorItem'[j].dataValue # NoValue
                 PROVE  monitorItem'[j].dataValue =
                          IF monitorItem'[j].list = <<>> THEN received'[j]
                          ELSE monitorItem'[j].list[Len(monitorItem'[j].list)]
      BY DEF NewestKept
  <2>2. j # i
      BY <2>1, <1>5, <1>10
  <2>3. j \in monitorItemMap
      BY <2>2, <1>1
  <2>4. QED
      BY <2>1, <2>3, <1>13, <1>14 DEF IndInv, NewestKept
<1>18. StartStopBalanced'
  <2>1. SUFFICES ASSUME NEW m \in Node \ removed
                 PROVE  /\ monitoredItemIds'[m] = LiveItems(m)'
                        /\ monitoring'[m] = IF LiveItems(m)' = {} THEN 0 ELSE 1
      BY <1>13 DEF StartStopBalanced
  <2> DEFINE live == LiveItems(m)
  <2>2. /\ monitoredItemIds[m] = live
        /\ monitoring[m] = IF live = {} THEN 0 ELSE 1
      BY DEF IndInv, StartStopBalanced
  <2>3. LiveItems(m)' = IF m = n THEN live \cup {i} ELSE live
    <3>1. \A j \in monitorItemMap : monitorItem'[j] = monitorItem[j]
        BY <1>14
    <3>2. monitorItem'[i].node = n /\ ~monitorItem'[i].expired
        BY <1>5, <1>10
    <3>3. QED
        BY <3>1, <3>2, <1>1 DEF LiveItems
  <2> HIDE DEF live
  <2>4. CASE m = n
    <3>1. monitoredItemIds'[m] = live \cup {i} /\ live \cup {i} # {}
        BY <2>2, <2>4, <1>7, <1>9
    <3>2. monitoring'[m] = 1
        BY <2>2, <2>4, <1>7, <1>9
    <3>3. QED
        BY <3>1, <3>2, <2>3, <2>4
  <2>5. CASE m # n
      BY <2>2, <2>3, <2>5, <1>7, <1>9
  <2>6. QED
      BY <2>4, <2>5
<1>19. DrainSound'
    BY <1>1, DrainUntouched DEF IndInv, eventVars
<1>20. QED
    BY <1>12, <1>15, <1>16, <1>17, <1>18, <1>19 DEF IndInv

-----------------------------------------------------------------------------
(***************************************************************************)
(* The invariant holds at the start, and every step preserves it.          *)
(***************************************************************************)
LEMMA InitInv ==
    ASSUME Init
    PROVE  IndInv
<1>1. NoValue \in Notification /\ <<>> \in Seq(Notification)
    BY DEF Notification
<1>2. TypeOK
  <2>1. monitorItem \in [Id -> MonitorItem]
      BY ErasedType DEF Init
  <2>2. received \in [Id -> Notification] /\ pending \in [Id -> Seq(Notification)]
      BY <1>1 DEF Init
  <2>3. lastId \in 0 .. MaxItems
      BY ItemBoundsAssumption DEF Init
  <2>4. drain \in [items: SUBSET eventItemMap, free: Nat]
      BY DEF Init, NotDraining
  <2>5. QED
      BY <2>1, <2>2, <2>3, <2>4 DEF Init, TypeOK
<1>3. ItemsSound /\ QueuePolicy /\ NewestKept
    BY DEF Init, ItemsSound, QueuePolicy, NewestKept
<1>4. StartStopBalanced
  <2>1. \A n \in Node : LiveItems(n) = {}
      BY DEF Init, LiveItems
  <2>2. QED
      BY <2>1 DEF Init, StartStopBalanced
<1>5. DrainSound
  <2>1. drain.items = {} /\ drain.free = 0
      BY DEF Init, NotDraining
  <2>2. Events({}) = Places(eventList, {})
      BY DEF Events, Places
  <2>3. Cardinality(Events(drain.items)) = 0
      BY <2>1, <2>2, PlacesEmpty
  <2>4. \A i \in Id : eventList[i] <= MaxEvents
      BY ItemBoundsAssumption DEF Init
  <2>5. QED
      BY <2>1, <2>3, <2>4 DEF DrainSound
<1>6. QED
    BY <1>2, <1>3, <1>4, <1>5 DEF IndInv

LEMMA StutterInv ==
    ASSUME IndInv, UNCHANGED vars
    PROVE  IndInv'
<1>1. UNCHANGED <<nodeVars, lastId, itemVars, startVars, eventVars, drain>>
    BY DEF vars
<1>2. TypeOK'
    BY <1>1 DEF IndInv, TypeOK, nodeVars, itemVars, startVars, eventVars
<1>3. ItemsSound' /\ QueuePolicy' /\ NewestKept'
    BY <1>1, ItemsUntouched DEF IndInv
<1>4. StartStopBalanced'
    BY <1>1, StartUntouched DEF IndInv, nodeVars, itemVars
<1>5. DrainSound'
    BY <1>1, DrainUntouched DEF IndInv, eventVars
<1>6. QED
    BY <1>2, <1>3, <1>4, <1>5 DEF IndInv

LEMMA NextInv ==
    ASSUME IndInv, [Next]_vars
    PROVE  IndInv'
<1>1. CASE \E n \in Node, q \in QueueSize, d \in BOOLEAN : CreateMonitoredItem(n, q, d)
    BY <1>1, CreateMonitoredItemInv
<1>2. CASE CreateRefused
    BY <1>2, CreateRefusedInv
<1>3. CASE CreateEventItem
    BY <1>3, CreateEventItemInv
<1>4. CASE \E i \in Id : DeleteMonitoredItem(i)
    BY <1>4, DeleteMonitoredItemInv
<1>5. CASE DestroyMonitorManager
    BY <1>5, DestroyMonitorManagerInv
<1>6. CASE \E i \in Id : Sample(i)
    BY <1>6, SampleInv
<1>7. CASE \E i \in Id : SampleExpired(i)
    BY <1>7, SampleExpiredInv
<1>8. CASE PublishData
    BY <1>8, PublishDataInv
<1>9. CASE CountEvents
    BY <1>9, CountEventsInv
<1>10. CASE \E i \in Id : DrainEventItem(i)
    BY <1>10, DrainEventItemInv
<1>11. CASE \E i \in Id : FireEvent(i)
    BY <1>11, FireEventInv
<1>12. CASE \E n \in Node : \E v \in Content(n) : Write(n, v)
  <2>1. PICK n \in Node : \E v \in Content(n) : Write(n, v)
      BY <1>12
  <2>2. PICK v \in Content(n) : Write(n, v)
      BY <2>1
  <2>3. QED
      BY <2>2, ValueWritten DEF Write
<1>13. CASE \E n \in Node : DeleteNode(n)
    BY <1>13, DeleteNodeInv
<1>14. CASE \E n \in Node : \E v \in Content(n) : CreateNode(n, v)
  <2>1. PICK n \in Node : \E v \in Content(n) : CreateNode(n, v)
      BY <1>14
  <2>2. PICK v \in Content(n) : CreateNode(n, v)
      BY <2>1
  <2>3. QED
      BY <2>2, ValueWritten DEF CreateNode
<1>15. CASE UNCHANGED vars
    BY <1>15, StutterInv
<1>16. QED
    BY <1>1, <1>2, <1>3, <1>4, <1>5, <1>6, <1>7, <1>8, <1>9, <1>10, <1>11, <1>12,
       <1>13, <1>14, <1>15 DEF Next

\* Every reachable state satisfies the inductive invariant.
THEOREM Invariant == Spec => []IndInv
<1>1. Init => IndInv
    BY InitInv
<1>2. IndInv /\ [Next]_vars => IndInv'
    BY NextInv
<1>3. QED
    BY <1>1, <1>2, PTL DEF Spec

(***************************************************************************)
(* The state stays within its types; in particular monitored items and     *)
(* event items never share an id, for any number of nodes and items.       *)
(***************************************************************************)
THEOREM TypeCorrect == Spec => []TypeOK
<1>1. IndInv => TypeOK
    BY DEF IndInv
<1>2. QED
    BY <1>1, Invariant, PTL

(***************************************************************************)
(* Whatever queue sizes the clients ask for, zero included, and whatever   *)
(* is sampled, published and deleted in between, monitorItemListPushBack   *)
(* leaves in a queue what the item's discard policy says.                  *)
(***************************************************************************)
THEOREM QueueKeepsPolicy == Spec => []QueuePolicy
<1>1. IndInv => QueuePolicy
    BY DEF IndInv
<1>2. QED
    BY <1>1, Invariant, PTL

(***************************************************************************)
(* The value that sample() compares with is the newest one that the client *)
(* has received or that is queued for it.                                  *)
(***************************************************************************)
THEOREM NewestNotLost == Spec => []NewestKept
<1>1. IndInv => NewestKept
    BY DEF IndInv
<1>2. QED
    BY <1>1, Invariant, PTL

(***************************************************************************)
(* forwardStartMonitoredItem and forwardStopMonitoredItem announce each    *)
(* node that was never deleted exactly while it is monitored.              *)
(***************************************************************************)
THEOREM CallbacksBalanced == Spec => []StartStopBalanced
<1>1. IndInv => StartStopBalanced
    BY DEF IndInv
<1>2. QED
    BY <1>1, Invariant, PTL

(***************************************************************************)
(* receive(EventFieldListArray) leaves no place of the array it has sized  *)
(* empty, however many events are fired while it drains the items.         *)
(***************************************************************************)
THEOREM ArrayFilled == Spec => []DrainFillsArray
<1>1. IndInv => DrainFillsArray
    BY IdleDrain DEF DrainFillsArray
<1>2. QED
    BY <1>1, Invariant, PTL
=============================================================================
