------------------------- MODULE EventDispatchProofs -------------------------
(***************************************************************************)
(* Proofs about the dispatch of events: the handlers of the node being     *)
(* served are alive, a where filter reads the event of its own request,    *)
(* all receivers are told one source node, and a request that is answered  *)
(* has reached the node and its direct notifiers and nobody else.          *)
(***************************************************************************)
EXTENDS EventDispatch, FiniteSetTheorems, TLAPS

(***************************************************************************)
(* The inductive invariant.                                                *)
(***************************************************************************)

\* Identities up to lastId have a node, the others were never used.
ItemsNumbered ==
    /\ \A i \in alive : i <= lastId
    /\ \A i \in Item : i <= lastId => nodeId[i] \in Node
    /\ \A t \in Thread, i \in Item : lastId < i => copies[t][i] = 0

\* The map holds the items that are alive, each once, under its own node.
MapSound ==
    /\ \A n \in Node : \A k \in 1 .. Len(handlerMap[n]) :
         handlerMap[n][k] \in alive /\ nodeId[handlerMap[n][k]] = n
    /\ \A n \in Node : \A j, k \in 1 .. Len(handlerMap[n]) :
         handlerMap[n][j] = handlerMap[n][k] => j = k
    /\ \A i \in alive : \E k \in 1 .. Len(handlerMap[nodeId[i]]) :
         handlerMap[nodeId[i]][k] = i

\* The mutex is held while a node is served, by the thread that serves it.
MutexHeld ==
    \A t \in Thread : fire[t].pc \in {"call", "filter"} <=> mutex = t

\* What a thread relies on while it serves a node.
Serving(t) ==
    /\ fire[t].nodeIdVec # <<>>
    /\ fire[t].it >= 1
    /\ fire[t].stale <= Len(fire[t].vec)
    /\ \A k \in fire[t].stale + 1 .. Len(fire[t].vec) : fire[t].vec[k] \in alive

\* The call in progress: the item has the event and cannot go away.
Filtering(t) ==
    /\ fire[t].it <= Len(fire[t].vec)
    /\ Called(t) \in alive
    /\ eventBase[Called(t)] = t
    /\ copies[t][Called(t)] > 0
    /\ fire[t].source # NoNode

\* A thread without a request has told nobody anything.
Resting(t) ==
    /\ \A i \in Item : copies[t][i] = 0
    /\ told[t] = {}
    /\ standing[t] = {}

\* The node of a request and its direct notifiers.
Notified(t) == {fire[t].node} \cup parents[fire[t].node]

\* Nothing of a request leaves the nodes it is for.
Within(t) ==
    /\ fire[t].node \in Node
    /\ \A k \in 1 .. Len(fire[t].nodeIdVec) : fire[t].nodeIdVec[k] \in Notified(t)
    /\ \A k \in 1 .. Len(fire[t].vec) :
         fire[t].vec[k] <= lastId /\ nodeId[fire[t].vec[k]] \in Notified(t)
    /\ \A i \in Item : copies[t][i] > 0 => nodeId[i] \in Notified(t)

\* A standing item of these nodes has the event, or its node is to come.
Pending(t) ==
    \A i \in standing[t] :
        \/ nodeId[i] \notin Notified(t)
        \/ copies[t][i] > 0
        \/ \E k \in 1 .. Len(fire[t].nodeIdVec) : fire[t].nodeIdVec[k] = nodeId[i]

\* A standing item of the node being served has the event, or its handler is
\* to come.
PendingHere(t) ==
    \A i \in standing[t] :
        \/ nodeId[i] # fire[t].nodeIdVec[1]
        \/ copies[t][i] > 0
        \/ \E k \in 1 .. Len(fire[t].vec) : k >= fire[t].it /\ fire[t].vec[k] = i

ThreadInv(t) ==
    /\ standing[t] \subseteq alive
    /\ told[t] \subseteq {fire[t].source}
    /\ fire[t].pc = "idle" => Resting(t)
    /\ fire[t].pc # "idle" => Within(t) /\ Pending(t)
    /\ fire[t].pc \in {"call", "filter"} => Serving(t) /\ PendingHere(t)
    /\ fire[t].pc = "filter" => Filtering(t)

IndInv ==
    /\ TypeOK
    /\ ItemsNumbered
    /\ MapSound
    /\ MutexHeld
    /\ \A t \in Thread : ThreadInv(t)

-----------------------------------------------------------------------------
(***************************************************************************)
(* The operators of the model.                                             *)
(***************************************************************************)

\* deregisterEvent takes out the one handler of an item and closes the gap.
LEMMA RemoveOne ==
    ASSUME NEW S, NEW s \in Seq(S), NEW k \in 1 .. Len(s),
           \A j, m \in 1 .. Len(s) : s[j] = s[m] => j = m
    PROVE  /\ RemoveFirst(s, s[k]) \in Seq(S)
           /\ Len(RemoveFirst(s, s[k])) = Len(s) - 1
           /\ \A j \in 1 .. Len(s) - 1 :
                RemoveFirst(s, s[k])[j] = IF j < k THEN s[j] ELSE s[j + 1]
<1> DEFINE I == {j \in 1 .. Len(s) : s[j] = s[k]}
<1>1. I = {k}
    OBVIOUS
<1>2. \A y \in {k} : k <= y
    OBVIOUS
<1>3. Min({k}) = k
    BY <1>2 DEF Min
<1>4. SelectInSeq(s, LAMBDA v : v = s[k]) = k
    BY <1>1, <1>3 DEF SelectInSeq
<1>5. RemoveFirst(s, s[k]) = RemoveAt(s, k)
    BY <1>4 DEF RemoveFirst
<1> HIDE DEF I
<1> DEFINE a == SubSeq(s, 1, k - 1)
           b == SubSeq(s, k + 1, Len(s))
<1>6. RemoveFirst(s, s[k]) = a \o b
    BY <1>5 DEF RemoveAt
<1>7. a \in Seq(S) /\ Len(a) = k - 1 /\ \A j \in 1 .. k - 1 : a[j] = s[j]
    OBVIOUS
<1>8. b \in Seq(S) /\ Len(b) = Len(s) - k /\ \A j \in 1 .. Len(s) - k : b[j] = s[k + j]
    OBVIOUS
<1>9. Len(s) \in Nat
    OBVIOUS
<1> HIDE DEF a, b
<1>10. /\ a \o b \in Seq(S)
       /\ Len(a \o b) = Len(s) - 1
    BY <1>7, <1>8, <1>9
<1>11. ASSUME NEW j \in 1 .. Len(s) - 1
       PROVE  (a \o b)[j] = IF j < k THEN s[j] ELSE s[j + 1]
  <2>1. CASE j < k
    <3>1. j \in 1 .. Len(a)
        BY <1>7, <2>1
    <3>2. (a \o b)[j] = a[j]
        BY <3>1, <1>7, <1>8
    <3>3. QED
        BY <2>1, <3>1, <3>2, <1>7
  <2>2. CASE ~(j < k)
    <3>1. j - (k - 1) \in 1 .. Len(s) - k
        BY <2>2
    <3>2. (a \o b)[j] = b[j - (k - 1)]
      <4>1. PICK d \in 1 .. Len(b) : d = j - (k - 1) /\ Len(a) + d = j
          BY <3>1, <1>7, <1>8
      <4>2. a \in Seq(S) /\ b \in Seq(S) /\ Len(a) \in Nat /\ Len(b) \in Nat
          BY <1>7, <1>8
      <4>3. (a \o b)[Len(a) + d] = b[d]
          BY <4>1, <4>2
      <4>4. QED
          BY <4>1, <4>3
    <3>3. b[j - (k - 1)] = s[k + (j - (k - 1))]
        BY <3>1, <1>8
    <3>4. QED
        BY <2>2, <3>2, <3>3
  <2>3. QED
      BY <2>1, <2>2
<1>12. QED
    BY <1>6, <1>10, <1>11

\* The climb visits the node of the request and each of its parents.
LEMMA ClimbVisits ==
    ASSUME TypeOK, NEW n \in Node, NEW climb \in Climb(n)
    PROVE  /\ climb \in Seq(Node)
           /\ \A k \in 1 .. Len(climb) : climb[k] \in {n} \cup parents[n]
           /\ \A m \in {n} \cup parents[n] : \E k \in 1 .. Len(climb) : climb[k] = m
<1> DEFINE P == parents[n] \ {n}
           c == Cardinality(P)
<1>1. PICK s \in [1 .. c -> P] : /\ climb = <<n>> \o s
                                 /\ \A j, k \in DOMAIN s : j < k => s[j] < s[k]
    BY DEF Climb, ParentsOnly
<1>2. P \subseteq Node
    BY DEF TypeOK
<1>3. IsFiniteSet(Node)
    BY FS_Interval, DispatchAssumption DEF Node
<1>4. IsFiniteSet(P) /\ c \in Nat
    BY <1>2, <1>3, FS_Subset, FS_CardinalityType
<1> HIDE DEF P, c
<1>5. P \subseteq Nat
    BY <1>2, DispatchAssumption DEF Node
<1>6. s \in Injection(1 .. c, P)
  <2> SUFFICES ASSUME NEW j \in 1 .. c, NEW k \in 1 .. c, s[j] = s[k]
               PROVE  j = k
      BY DEF Injection, IsInjective
  <2>1. s[j] \in Nat /\ s[k] \in Nat
      BY <1>5
  <2>2. QED
      BY <1>1, <1>4, <2>1
<1>7. Cardinality(1 .. c) = c
    BY <1>4, FS_Interval
<1>8. s \in Surjection(1 .. c, P)
    BY <1>4, <1>6, <1>7, FS_Injection DEF c
<1>9. \A m \in P : \E k \in 1 .. c : s[k] = m
    BY <1>8 DEF Surjection
<1>10. s \in Seq(P) /\ Len(s) = c
    BY <1>4
<1>11. /\ climb \in Seq(P \cup {n}) /\ Len(climb) = c + 1
       /\ climb[1] = n
       /\ \A k \in 1 .. c : climb[k + 1] = s[k]
    BY <1>1, <1>4, <1>10
<1>12. P \cup {n} = parents[n] \cup {n}
    BY DEF P
<1>13. climb \in Seq(Node)
    BY <1>2, <1>11
<1>14. \A m \in P \cup {n} : \E k \in 1 .. Len(climb) : climb[k] = m
  <2>1. TAKE m \in P \cup {n}
  <2>2. CASE m = n
      BY <1>4, <1>11, <2>2
  <2>3. CASE m \in P
    <3>1. PICK k \in 1 .. c : s[k] = m
        BY <2>3, <1>9
    <3>2. k + 1 \in 1 .. Len(climb) /\ climb[k + 1] = m
        BY <3>1, <1>4, <1>11
    <3>3. QED
        BY <3>2
  <2>4. QED
      BY <2>1, <2>2, <2>3
<1>15. \A k \in 1 .. Len(climb) : climb[k] \in P \cup {n}
    BY <1>11
<1>16. QED
    BY <1>12, <1>13, <1>14, <1>15
-----------------------------------------------------------------------------
(***************************************************************************)
(* Every step keeps the invariant.                                         *)
(***************************************************************************)

LEMMA InitInv == Init => IndInv
<1> SUFFICES ASSUME Init PROVE IndInv
    OBVIOUS
<1>1. Idle \in FireRequest
    BY DEF Idle, FireRequest
<1>2. TypeOK
    BY <1>1, DispatchAssumption DEF Init, TypeOK
<1>3. ItemsNumbered /\ MapSound /\ MutexHeld
    BY DispatchAssumption DEF Init, ItemsNumbered, MapSound, MutexHeld, Idle, Item
<1>4. \A t \in Thread : ThreadInv(t)
    BY DEF Init, ThreadInv, Resting, Idle
<1>5. QED
    BY <1>2, <1>3, <1>4 DEF IndInv

\* The types of one thread's part of the state.
LEMMA ThreadTypes ==
    ASSUME TypeOK, NEW t \in Thread
    PROVE  /\ fire[t] \in FireRequest
           /\ fire[t].pc \in {"idle", "lock", "call", "filter"}
           /\ fire[t].node \in Node \cup {NoNode}
           /\ fire[t].nodeIdVec \in Seq(Node)
           /\ fire[t].vec \in Seq(Item)
           /\ fire[t].it \in Nat
           /\ fire[t].stale \in Nat
           /\ fire[t].source \in Node \cup {NoNode}
           /\ copies[t] \in [Item -> Nat]
           /\ told[t] \subseteq Node
           /\ standing[t] \subseteq Item
<1>1. fire[t] \in FireRequest /\ copies[t] \in [Item -> Nat]
      /\ told[t] \subseteq Node /\ standing[t] \subseteq Item
    BY DEF TypeOK
<1>2. QED
    BY <1>1 DEF FireRequest

\* A step that leaves a thread's request and the items alone leaves its
\* invariant alone, if it does not touch the event of its filter.
LEMMA OtherThread ==
    ASSUME NEW u \in Thread, ThreadInv(u),
           fire'[u] = fire[u], copies'[u] = copies[u],
           told'[u] = told[u], standing'[u] = standing[u],
           UNCHANGED <<parents, itemVars>>,
           fire[u].pc = "filter" => eventBase' = eventBase
    PROVE  ThreadInv(u)'
BY DEF ThreadInv, Resting, Within, Notified, Pending, PendingHere, Serving, Filtering,
       Called, itemVars

\* A step of a thread on its own request: the items are not touched.
LEMMA ItemsStay ==
    ASSUME IndInv, UNCHANGED <<parents, itemVars>>, copies' = copies
    PROVE  ItemsNumbered' /\ MapSound'
BY DEF IndInv, ItemsNumbered, MapSound, itemVars

LEMMA CreateInv ==
    ASSUME IndInv, NEW n \in Node, CreateEventItem(n)
    PROVE  IndInv'
<1> DEFINE new == lastId + 1
<1>1. TypeOK /\ ItemsNumbered /\ MapSound /\ MutexHeld
    BY DEF IndInv
<1>2. new \in Item /\ lastId' = new /\ lastId \in Nat /\ alive \subseteq Item
    BY <1>1, DispatchAssumption DEF CreateEventItem, TypeOK, Item
<1>3. /\ handlerMap' = [handlerMap EXCEPT ![n] = Append(@, new)]
      /\ nodeId' = [nodeId EXCEPT ![new] = n]
      /\ alive' = alive \cup {new}
      /\ mutex = NoThread
      /\ UNCHANGED <<parents, eventBase, mutex, fire, fires, history>>
    BY DEF CreateEventItem
<1> HIDE DEF new
<1>4. new \notin alive /\ \A i \in alive : i # new
    BY <1>1, <1>2 DEF ItemsNumbered, new
<1>5. handlerMap[n] \in Seq(Item) /\ handlerMap \in [Node -> Seq(Item)]
      /\ nodeId \in [Item -> Node \cup {NoNode}]
    BY <1>1 DEF TypeOK
<1>6. /\ Append(handlerMap[n], new) \in Seq(Item)
      /\ Len(Append(handlerMap[n], new)) = Len(handlerMap[n]) + 1
      /\ \A k \in 1 .. Len(handlerMap[n]) :
           Append(handlerMap[n], new)[k] = handlerMap[n][k]
      /\ Append(handlerMap[n], new)[Len(handlerMap[n]) + 1] = new
    BY <1>2, <1>5
<1>7. TypeOK'
  <2>1. handlerMap' \in [Node -> Seq(Item)]
      BY <1>3, <1>5, <1>6
  <2>2. nodeId' \in [Item -> Node \cup {NoNode}]
      BY <1>3, <1>5
  <2>3. lastId' \in 0 .. MaxItems
      BY <1>2, DispatchAssumption DEF Item
  <2>4. QED
      BY <1>1, <1>2, <1>3, <2>1, <2>2, <2>3 DEF TypeOK, history
<1>8. ItemsNumbered'
  <2>1. \A i \in alive' : i <= lastId'
      BY <1>1, <1>2, <1>3 DEF ItemsNumbered, new, Item
  <2>2. \A i \in Item : i <= lastId' => nodeId'[i] \in Node
      BY <1>1, <1>2, <1>3, <1>5 DEF ItemsNumbered, new, Item
  <2>3. \A t \in Thread, i \in Item : lastId' < i => copies'[t][i] = 0
      BY <1>1, <1>2, <1>3 DEF ItemsNumbered, new, Item, history
  <2>4. QED
      BY <2>1, <2>2, <2>3 DEF ItemsNumbered
<1>9. MapSound'
  <2>1. ASSUME NEW m \in Node, m # n
        PROVE  handlerMap'[m] = handlerMap[m]
      BY <2>1, <1>3, <1>5
  <2>2. handlerMap'[n] = Append(handlerMap[n], new)
      BY <1>3, <1>5
  <2>3. \A i \in alive : nodeId'[i] = nodeId[i]
      BY <1>2, <1>3, <1>4, <1>5
  <2>4. nodeId'[new] = n
      BY <1>2, <1>3, <1>5
  <2>5. ASSUME NEW m \in Node, NEW k \in 1 .. Len(handlerMap'[m])
        PROVE  handlerMap'[m][k] \in alive' /\ nodeId'[handlerMap'[m][k]] = m
    <3>1. CASE m # n
        BY <3>1, <2>1, <2>3, <1>1, <1>3 DEF MapSound
    <3>2. CASE m = n /\ k = Len(handlerMap[n]) + 1
        BY <3>2, <2>2, <2>4, <1>3, <1>6
    <3>3. CASE m = n /\ k # Len(handlerMap[n]) + 1
      <4>1. k \in 1 .. Len(handlerMap[n])
          BY <3>3, <2>2, <1>5, <1>6
      <4>2. QED
          BY <3>3, <4>1, <2>2, <2>3, <1>1, <1>3, <1>6 DEF MapSound
    <3>4. QED
        BY <3>1, <3>2, <3>3
  <2>6. ASSUME NEW m \in Node, NEW j \in 1 .. Len(handlerMap'[m]),
               NEW k \in 1 .. Len(handlerMap'[m]), handlerMap'[m][j] = handlerMap'[m][k]
        PROVE  j = k
    <3>1. CASE m # n
        BY <3>1, <2>1, <2>6, <1>1 DEF MapSound
    <3>2. CASE m = n
      <4>1. \A x \in 1 .. Len(handlerMap[n]) : handlerMap[n][x] # new
          BY <1>1, <1>4 DEF MapSound
      <4>2. QED
          BY <3>2, <4>1, <2>2, <2>6, <1>1, <1>5, <1>6 DEF MapSound
    <3>3. QED
        BY <3>1, <3>2
  <2>7. ASSUME NEW i \in alive'
        PROVE  \E k \in 1 .. Len(handlerMap'[nodeId'[i]]) : handlerMap'[nodeId'[i]][k] = i
    <3>1. CASE i = new
        BY <3>1, <2>2, <2>4, <1>5, <1>6
    <3>2. CASE i # new
      <4>1. i \in alive /\ nodeId'[i] = nodeId[i] /\ nodeId[i] \in Node
          BY <3>2, <2>3, <1>1, <1>2, <1>3 DEF ItemsNumbered
      <4>2. PICK k \in 1 .. Len(handlerMap[nodeId[i]]) : handlerMap[nodeId[i]][k] = i
          BY <4>1, <1>1 DEF MapSound
      <4>3. k \in 1 .. Len(handlerMap'[nodeId[i]]) /\ handlerMap'[nodeId[i]][k] = i
        <5>1. CASE nodeId[i] = n
          <6>1. k \in 1 .. Len(handlerMap[n]) /\ handlerMap[n][k] = i
              BY <4>2, <5>1
          <6>2. k \in 1 .. Len(handlerMap'[n]) /\ handlerMap'[n][k] = i
              BY <6>1, <2>2, <1>5, <1>6
          <6>3. QED
              BY <5>1, <6>2
        <5>2. CASE nodeId[i] # n
            BY <4>1, <4>2, <5>2, <2>1
        <5>3. QED
            BY <5>1, <5>2
      <4>4. QED
          BY <4>1, <4>3
    <3>3. QED
        BY <3>1, <3>2
  <2>8. QED
      BY <2>5, <2>6, <2>7 DEF MapSound
<1>10. MutexHeld'
    BY <1>1, <1>3 DEF MutexHeld
<1>11. ASSUME NEW t \in Thread
       PROVE  ThreadInv(t)'
  <2>1. ThreadInv(t)
      BY DEF IndInv
  <2>2. fire[t].vec \in Seq(Item) /\ copies[t] \in [Item -> Nat]
      BY <1>1, ThreadTypes
  <2>3. fire[t].pc \notin {"call", "filter"}
      BY <1>1, <1>3, DispatchAssumption DEF MutexHeld
  <2>4. fire' = fire /\ copies' = copies /\ told' = told /\ standing' = standing /\ parents' = parents
      BY <1>3 DEF history
  <2>5. \A i \in Item : i <= lastId => nodeId'[i] = nodeId[i]
      BY <1>2, <1>3, <1>5 DEF Item, new
  <2>6. ASSUME fire[t].pc # "idle"
        PROVE  Within(t)' /\ Pending(t)'
    <3>1. Within(t) /\ Pending(t) /\ standing[t] \subseteq alive
        BY <2>1, <2>6 DEF ThreadInv
    <3>2. \A k \in 1 .. Len(fire[t].vec) : fire[t].vec[k] \in Item
        BY <2>2
    <3>3. \A k \in 1 .. Len(fire[t].vec) :
            fire[t].vec[k] <= lastId' /\ nodeId'[fire[t].vec[k]] \in Notified(t)
      <4>1. TAKE k \in 1 .. Len(fire[t].vec)
      <4>2. fire[t].vec[k] <= lastId /\ nodeId[fire[t].vec[k]] \in Notified(t)
            /\ fire[t].vec[k] \in Item
          BY <3>1, <3>2 DEF Within
      <4>3. QED
          BY <4>2, <2>5, <1>2 DEF new, Item
    <3>4. \A i \in Item : copies[t][i] > 0 => nodeId'[i] \in Notified(t)
      <4>1. SUFFICES ASSUME NEW i \in Item, copies[t][i] > 0
                     PROVE  nodeId'[i] \in Notified(t)
          OBVIOUS
      <4>2. i <= lastId
          BY <4>1, <1>1, <1>2, <2>2 DEF ItemsNumbered, Item
      <4>3. QED
          BY <4>1, <4>2, <2>5, <3>1 DEF Within
    <3>5. Notified(t)' = Notified(t)
        BY <2>4 DEF Notified
    <3>6. Within(t)'
        BY <2>4, <3>1, <3>3, <3>4, <3>5 DEF Within
    <3>7. \A i \in standing[t] : nodeId'[i] = nodeId[i]
        BY <3>1, <2>5, <1>1, <1>2 DEF ItemsNumbered
    <3>8. Pending(t)'
        BY <2>4, <3>1, <3>5, <3>7 DEF Pending
    <3>9. QED
        BY <3>6, <3>8
  <2>7. QED
      BY <2>1, <2>3, <2>4, <2>6, <1>3 DEF ThreadInv, Resting
<1>12. QED
    BY <1>7, <1>8, <1>9, <1>10, <1>11 DEF IndInv
LEMMA DestroyInv ==
    ASSUME IndInv, NEW i \in Item, DestroyEventItem(i)
    PROVE  IndInv'
<1> DEFINE n == nodeId[i]
           h == handlerMap[n]
<1>1. TypeOK /\ ItemsNumbered /\ MapSound /\ MutexHeld
    BY DEF IndInv
<1>2. /\ i \in alive
      /\ mutex = NoThread
      /\ handlerMap' = [handlerMap EXCEPT ![n] = RemoveFirst(h, i)]
      /\ alive' = alive \ {i}
      /\ standing' = [t \in Thread |-> standing[t] \ {i}]
      /\ UNCHANGED <<parents, nodeId, lastId, eventBase, mutex, fire, fires, copies, told>>
    BY DEF DestroyEventItem, DestroyUnlockedEventItem
<1>3. n \in Node /\ handlerMap \in [Node -> Seq(Item)] /\ h \in Seq(Item)
    BY <1>1, <1>2 DEF TypeOK, ItemsNumbered
<1>4. PICK p \in 1 .. Len(h) : h[p] = i
    BY <1>1, <1>2 DEF MapSound
<1>5. \A j, k \in 1 .. Len(h) : h[j] = h[k] => j = k
    BY <1>1, <1>3 DEF MapSound
<1> HIDE DEF n, h
<1>6. /\ RemoveFirst(h, i) \in Seq(Item)
      /\ Len(RemoveFirst(h, i)) = Len(h) - 1
      /\ \A j \in 1 .. Len(h) - 1 : RemoveFirst(h, i)[j] = IF j < p THEN h[j] ELSE h[j + 1]
    BY <1>3, <1>4, <1>5, RemoveOne
<1> DEFINE g == RemoveFirst(h, i)
<1>7. /\ g \in Seq(Item) /\ Len(g) = Len(h) - 1 /\ Len(h) \in Nat
      /\ \A j \in 1 .. Len(h) - 1 : g[j] = IF j < p THEN h[j] ELSE h[j + 1]
      /\ handlerMap' = [handlerMap EXCEPT ![n] = g]
    BY <1>2, <1>3, <1>6
<1> HIDE DEF g
<1>8. handlerMap'[n] = g /\ h = handlerMap[n]
      /\ \A m \in Node : m # n => handlerMap'[m] = handlerMap[m]
    BY <1>3, <1>7 DEF h
<1>9. TypeOK'
  <2>1. handlerMap' \in [Node -> Seq(Item)]
      BY <1>3, <1>7
  <2>2. standing' \in [Thread -> SUBSET Item]
      BY <1>1, <1>2 DEF TypeOK
  <2>3. QED
      BY <1>1, <1>2, <2>1, <2>2 DEF TypeOK
<1>10. ItemsNumbered'
    BY <1>1, <1>2 DEF ItemsNumbered
<1>11. MapSound'
  <2>1. ASSUME NEW m \in Node, NEW k \in 1 .. Len(handlerMap'[m])
        PROVE  handlerMap'[m][k] \in alive' /\ nodeId'[handlerMap'[m][k]] = m
    <3>1. CASE m # n
      <4>1. /\ k \in 1 .. Len(handlerMap[m]) /\ handlerMap'[m][k] = handlerMap[m][k]
            /\ nodeId[handlerMap[m][k]] = m /\ handlerMap[m][k] \in alive
          BY <3>1, <1>8, <1>1 DEF MapSound
      <4>2. QED
          BY <3>1, <4>1, <1>2 DEF n
    <3>2. CASE m = n
      <4>1. PICK q \in 1 .. Len(h) : g[k] = h[q] /\ q # p
        <5>1. k \in 1 .. Len(h) - 1
            BY <3>2, <1>7, <1>8
        <5>2. CASE k < p
            BY <5>1, <5>2, <1>7
        <5>3. CASE ~(k < p)
            BY <5>1, <5>3, <1>7, k + 1 \in 1 .. Len(h), k + 1 # p
        <5>4. QED
            BY <5>2, <5>3
      <4>2. h[q] \in alive /\ nodeId[h[q]] = n
          BY <1>1, <1>3, <1>8 DEF MapSound
      <4>3. h[q] # i
          BY <4>1, <1>4, <1>5
      <4>4. QED
          BY <3>2, <4>1, <4>2, <4>3, <1>2, <1>8
    <3>3. QED
        BY <3>1, <3>2
  <2>2. ASSUME NEW m \in Node, NEW j \in 1 .. Len(handlerMap'[m]),
               NEW k \in 1 .. Len(handlerMap'[m]), handlerMap'[m][j] = handlerMap'[m][k]
        PROVE  j = k
    <3>1. CASE m # n
        BY <3>1, <2>2, <1>8, <1>1 DEF MapSound
    <3>2. CASE m = n
      <4>1. j \in 1 .. Len(h) - 1 /\ k \in 1 .. Len(h) - 1 /\ g[j] = g[k]
          BY <3>2, <2>2, <1>7, <1>8
      <4> DEFINE At(a) == IF a < p THEN a ELSE a + 1
      <4>2. g[j] = h[At(j)] /\ g[k] = h[At(k)]
          BY <4>1, <1>7
      <4>3. At(j) \in 1 .. Len(h) /\ At(k) \in 1 .. Len(h)
          BY <4>1, <1>7
      <4>4. At(j) = At(k)
          BY <4>1, <4>2, <4>3, <1>5
      <4>5. QED
          BY <4>1, <4>4
    <3>3. QED
        BY <3>1, <3>2
  <2>3. ASSUME NEW x \in alive'
        PROVE  \E k \in 1 .. Len(handlerMap'[nodeId'[x]]) : handlerMap'[nodeId'[x]][k] = x
    <3>1. x \in alive /\ x # i /\ nodeId'[x] = nodeId[x] /\ nodeId[x] \in Node
        BY <1>1, <1>2 DEF ItemsNumbered, TypeOK
    <3>2. PICK q \in 1 .. Len(handlerMap[nodeId[x]]) : handlerMap[nodeId[x]][q] = x
        BY <3>1, <1>1 DEF MapSound
    <3>3. CASE nodeId[x] # n
        BY <3>1, <3>2, <3>3, <1>8
    <3>4. CASE nodeId[x] = n
      <4>1. q \in 1 .. Len(h) /\ h[q] = x /\ q # p
          BY <3>1, <3>2, <3>4, <1>4, <1>8
      <4>2. CASE q < p
        <5>1. q \in 1 .. Len(g) /\ g[q] = x
            BY <4>1, <4>2, <1>4, <1>7
        <5>2. QED
            BY <5>1, <3>1, <3>4, <1>8
      <4>3. CASE q > p
        <5>1. q - 1 \in 1 .. Len(g) /\ g[q - 1] = h[(q - 1) + 1] /\ (q - 1) + 1 = q
            BY <4>1, <4>3, <1>4, <1>7
        <5>2. QED
            BY <5>1, <4>1, <3>1, <3>4, <1>8
      <4>4. QED
          BY <4>1, <4>2, <4>3, <1>4
    <3>5. QED
        BY <3>3, <3>4
  <2>4. QED
      BY <2>1, <2>2, <2>3 DEF MapSound
<1>12. MutexHeld'
    BY <1>1, <1>2 DEF MutexHeld
<1>13. ASSUME NEW t \in Thread
       PROVE  ThreadInv(t)'
  <2>1. ThreadInv(t)
      BY DEF IndInv
  <2>2. fire[t].pc \notin {"call", "filter"}
      BY <1>1, <1>2, DispatchAssumption DEF MutexHeld
  <2>3. standing'[t] = standing[t] \ {i}
      BY <1>2
  <2>4. QED
      BY <2>1, <2>2, <2>3, <1>2 DEF ThreadInv, Resting, Within, Pending, Notified
<1>14. QED
    BY <1>9, <1>10, <1>11, <1>12, <1>13 DEF IndInv
LEMMA FireInv ==
    ASSUME IndInv, NEW t \in Thread, NEW n \in Node, FireEventRequest(t, n)
    PROVE  IndInv'
<1>1. TypeOK /\ ItemsNumbered /\ MapSound /\ MutexHeld /\ ThreadInv(t)
    BY DEF IndInv
<1>2. PICK climb \in Climb(n) :
        fire' = [fire EXCEPT ![t] =
                   [Idle EXCEPT !.pc = "lock", !.node = n, !.nodeIdVec = climb]]
    BY DEF FireEventRequest
<1>3. /\ fire[t].pc = "idle"
      /\ fires < MaxFires /\ fires' = fires + 1
      /\ standing' = [standing EXCEPT ![t] = alive]
      /\ UNCHANGED <<parents, itemVars, eventBase, mutex, copies, told>>
    BY DEF FireEventRequest
<1>4. /\ climb \in Seq(Node)
      /\ \A k \in 1 .. Len(climb) : climb[k] \in {n} \cup parents[n]
      /\ \A m \in {n} \cup parents[n] : \E k \in 1 .. Len(climb) : climb[k] = m
    BY <1>1, ClimbVisits
<1> DEFINE f == [Idle EXCEPT !.pc = "lock", !.node = n, !.nodeIdVec = climb]
<1>5. /\ f \in FireRequest
      /\ f.pc = "lock" /\ f.node = n /\ f.nodeIdVec = climb
      /\ f.vec = <<>> /\ f.it = 0 /\ f.stale = 0 /\ f.source = NoNode
  <2>1. Idle \in FireRequest
      BY DEF Idle, FireRequest
  <2>2. f \in FireRequest
      BY <2>1, <1>4 DEF FireRequest
  <2>3. f.pc = "lock" /\ f.node = n /\ f.nodeIdVec = climb
      BY <2>1 DEF FireRequest
  <2>4. /\ f.vec = Idle.vec /\ f.it = Idle.it
        /\ f.stale = Idle.stale /\ f.source = Idle.source
      BY <2>1 DEF FireRequest
  <2>5. Idle.vec = <<>> /\ Idle.it = 0 /\ Idle.stale = 0 /\ Idle.source = NoNode
      BY DEF Idle
  <2>6. QED
      BY <2>2, <2>3, <2>4, <2>5
<1> HIDE DEF f
<1>6. fire' = [fire EXCEPT ![t] = f] /\ fire \in [Thread -> FireRequest]
    BY <1>1, <1>2 DEF f, TypeOK
<1>7. TypeOK'
  <2>1. fire' \in [Thread -> FireRequest]
      BY <1>5, <1>6
  <2>2. fires' \in 0 .. MaxFires
      BY <1>1, <1>3, DispatchAssumption DEF TypeOK
  <2>3. standing' \in [Thread -> SUBSET Item]
      BY <1>1, <1>3 DEF TypeOK
  <2>4. QED
      BY <1>1, <1>3, <2>1, <2>2, <2>3 DEF TypeOK, itemVars
<1>8. ItemsNumbered' /\ MapSound'
    BY <1>3, ItemsStay
<1>9. fire'[t] = f /\ \A u \in Thread : u # t => fire'[u] = fire[u]
    BY <1>6
<1>10. MutexHeld'
    BY <1>1, <1>3, <1>5, <1>9 DEF MutexHeld
<1>11. ASSUME NEW u \in Thread
       PROVE  ThreadInv(u)'
  <2>1. ThreadInv(u)
      BY DEF IndInv
  <2>2. CASE u # t
    <3>1. standing'[u] = standing[u]
        BY <2>2, <1>1, <1>3 DEF TypeOK
    <3>2. QED
        BY <2>1, <2>2, <3>1, <1>3, <1>9, OtherThread
  <2>3. CASE u = t
    <3>1. Resting(t)
        BY <1>1, <1>3 DEF ThreadInv
    <3>2. standing'[t] = alive /\ alive' = alive
        BY <1>1, <1>3 DEF TypeOK, itemVars
    <3>3. Notified(t)' = {n} \cup parents[n]
        BY <1>3, <1>5, <1>9 DEF Notified
    <3>4. Within(t)'
        BY <3>1, <3>3, <1>3, <1>4, <1>5, <1>9 DEF Within, Resting
    <3>5. Pending(t)'
        BY <3>3, <1>3, <1>4, <1>5, <1>9 DEF Pending, itemVars
    <3>6. told'[t] = {}
        BY <3>1, <1>3 DEF Resting
    <3>7. QED
        BY <2>3, <3>2, <3>4, <3>5, <3>6, <1>5, <1>9 DEF ThreadInv
  <2>4. QED
      BY <2>2, <2>3
<1>12. QED
    BY <1>7, <1>8, <1>10, <1>11 DEF IndInv

LEMMA LockInv ==
    ASSUME IndInv, NEW t \in Thread, LockNode(t)
    PROVE  IndInv'
<1> DEFINE f == fire[t]
           h == handlerMap[Head(f.nodeIdVec)]
           g == [f EXCEPT !.pc = "call", !.it = 1, !.stale = Len(f.vec), !.vec = @ \o h]
<1>1. TypeOK /\ ItemsNumbered /\ MapSound /\ MutexHeld /\ ThreadInv(t)
    BY DEF IndInv
<1>2. /\ f.pc = "lock" /\ f.nodeIdVec # <<>>
      /\ mutex = NoThread /\ mutex' = t
      /\ UNCHANGED <<parents, itemVars, eventBase, fires, history>>
    BY DEF LockNode, GetEvents
<1>3. f \in FireRequest /\ f.nodeIdVec \in Seq(Node) /\ f.vec \in Seq(Item)
      /\ fire \in [Thread -> FireRequest]
    BY <1>1, ThreadTypes DEF TypeOK
<1>4. fire' = [fire EXCEPT ![t] = g]
    BY <1>3 DEF LockNode, GetEvents, FireRequest
<1>5. f.nodeIdVec[1] \in Node /\ h = handlerMap[f.nodeIdVec[1]] /\ 1 \in 1 .. Len(f.nodeIdVec)
    BY <1>2, <1>3
<1>6. h \in Seq(Item)
    BY <1>1, <1>5 DEF TypeOK
<1> HIDE DEF f, h
<1> DEFINE v == f.vec \o h
<1>7. /\ v \in Seq(Item) /\ Len(v) = Len(f.vec) + Len(h)
      /\ Len(f.vec) \in Nat /\ Len(h) \in Nat
      /\ \A k \in 1 .. Len(f.vec) : v[k] = f.vec[k]
      /\ \A k \in 1 .. Len(h) : v[Len(f.vec) + k] = h[k]
    BY <1>3, <1>6
<1> HIDE DEF v
<1>8. /\ g \in FireRequest
      /\ g.pc = "call" /\ g.it = 1 /\ g.stale = Len(f.vec) /\ g.vec = v
      /\ g.node = f.node /\ g.nodeIdVec = f.nodeIdVec /\ g.source = f.source
    BY <1>3, <1>7 DEF FireRequest, v
<1> HIDE DEF g
<1>9. fire'[t] = g /\ \A u \in Thread : u # t => fire'[u] = fire[u]
    BY <1>3, <1>4
<1>10. TypeOK'
  <2>1. fire' \in [Thread -> FireRequest]
      BY <1>3, <1>4, <1>8
  <2>2. QED
      BY <1>1, <1>2, <2>1 DEF TypeOK, itemVars, history
<1>11. ItemsNumbered' /\ MapSound'
    BY <1>2, ItemsStay DEF history
<1>12. MutexHeld'
    BY <1>1, <1>2, <1>8, <1>9, DispatchAssumption DEF MutexHeld
<1>13. \A k \in 1 .. Len(h) : h[k] \in alive /\ nodeId[h[k]] = f.nodeIdVec[1]
    BY <1>1, <1>5 DEF MapSound
<1>14. ASSUME NEW k \in 1 .. Len(v), k > Len(f.vec)
       PROVE  k - Len(f.vec) \in 1 .. Len(h) /\ v[k] = h[k - Len(f.vec)]
  <2>1. k - Len(f.vec) \in 1 .. Len(h) /\ Len(f.vec) + (k - Len(f.vec)) = k
      BY <1>14, <1>7
  <2>2. QED
      BY <2>1, <1>7
<1>15. ThreadInv(t)'
  <2>1. Within(t) /\ Pending(t) /\ standing[t] \subseteq alive
        /\ told[t] \subseteq {f.source}
      BY <1>1, <1>2 DEF ThreadInv, f
  <2>2. Notified(t)' = Notified(t)
      BY <1>2, <1>8, <1>9 DEF Notified, f
  <2>3. \A k \in 1 .. Len(v) : v[k] <= lastId /\ nodeId[v[k]] \in Notified(t)
    <3>1. TAKE k \in 1 .. Len(v)
    <3>2. CASE k <= Len(f.vec)
        BY <3>2, <2>1, <1>7 DEF Within, f
    <3>3. CASE k > Len(f.vec)
      <4>1. h[k - Len(f.vec)] \in alive /\ nodeId[h[k - Len(f.vec)]] = f.nodeIdVec[1]
            /\ v[k] = h[k - Len(f.vec)]
          BY <3>3, <1>13, <1>14
      <4>2. f.nodeIdVec[1] \in Notified(t)
          BY <2>1, <1>5 DEF Within, f
      <4>3. QED
          BY <4>1, <4>2, <1>1 DEF ItemsNumbered
    <3>4. QED
        BY <3>2, <3>3, <1>7
  <2>4. Within(t)'
      BY <2>1, <2>2, <2>3, <1>2, <1>8, <1>9 DEF Within, f, itemVars, history
  <2>5. Pending(t)'
      BY <2>1, <2>2, <1>2, <1>8, <1>9 DEF Pending, f, itemVars, history
  <2>6. Serving(t)'
    <3>1. \A k \in Len(f.vec) + 1 .. Len(v) : v[k] \in alive
      <4>1. ASSUME NEW k \in Len(f.vec) + 1 .. Len(v)
            PROVE  v[k] \in alive
        <5>1. k - Len(f.vec) \in 1 .. Len(h) /\ v[k] = h[k - Len(f.vec)]
            BY <1>7, <1>14
        <5>2. QED
            BY <1>13, <5>1
      <4>2. QED
          BY <4>1
    <3>2. fire'[t].stale = Len(f.vec) /\ fire'[t].vec = v /\ fire'[t].it = 1
          /\ fire'[t].nodeIdVec # <<>> /\ alive' = alive
        BY <1>2, <1>8, <1>9 DEF itemVars
    <3>3. QED
        BY <3>1, <3>2, <1>7 DEF Serving
  <2>7. PendingHere(t)'
    <3>1. SUFFICES ASSUME NEW i \in standing[t], nodeId[i] = f.nodeIdVec[1]
                   PROVE  \E k \in 1 .. Len(v) : k >= 1 /\ v[k] = i
        BY <1>2, <1>8, <1>9 DEF PendingHere, f, itemVars, history
    <3>2. PICK k \in 1 .. Len(h) : h[k] = i
        BY <3>1, <2>1, <1>1, <1>5 DEF MapSound
    <3>3. Len(f.vec) + k \in 1 .. Len(v) /\ v[Len(f.vec) + k] = i
        BY <3>2, <1>7
    <3>4. QED
        BY <3>3
  <2>8. QED
      BY <2>1, <2>4, <2>5, <2>6, <2>7, <1>2, <1>8, <1>9 DEF ThreadInv, itemVars, history
<1>16. ASSUME NEW u \in Thread
       PROVE  ThreadInv(u)'
  <2>1. CASE u # t
      BY <2>1, <1>2, <1>9, OtherThread DEF IndInv, history
  <2>2. QED
      BY <2>1, <1>15
<1>17. QED
    BY <1>10, <1>11, <1>12, <1>16 DEF IndInv
LEMMA CallInv ==
    ASSUME IndInv, NEW t \in Thread, CallHandler(t)
    PROVE  IndInv'
<1> DEFINE f == fire[t]
           i == Called(t)
           g == [f EXCEPT !.pc = "filter", !.source = SetSource(@, i)]
<1>1. TypeOK /\ ItemsNumbered /\ MapSound /\ MutexHeld /\ ThreadInv(t)
    BY DEF IndInv
<1>2. /\ f.pc = "call" /\ f.it <= Len(f.vec)
      /\ i \in alive /\ i = f.vec[f.it]
      /\ eventBase' = [eventBase EXCEPT ![i] = t]
      /\ copies' = [copies EXCEPT ![t][i] = @ + 1]
      /\ UNCHANGED <<parents, itemVars, mutex, fires, told, standing>>
    BY DEF CallHandler, Called
<1>3. /\ f \in FireRequest /\ f.vec \in Seq(Item) /\ f.it \in Nat
      /\ f.source \in Node \cup {NoNode}
      /\ fire \in [Thread -> FireRequest]
      /\ copies[t] \in [Item -> Nat]
    BY <1>1, ThreadTypes DEF TypeOK
<1>4. fire' = [fire EXCEPT ![t] = g]
    BY <1>3 DEF CallHandler, FireRequest
<1> HIDE DEF f
<1>5. /\ Serving(t) /\ PendingHere(t) /\ Within(t) /\ Pending(t)
      /\ standing[t] \subseteq alive /\ told[t] \subseteq {f.source}
    BY <1>1, <1>2 DEF ThreadInv, f
<1>6. f.it \in 1 .. Len(f.vec) /\ i \in Item
    BY <1>2, <1>3, <1>5 DEF Serving, f
<1>7. i <= lastId /\ nodeId[i] \in Notified(t) /\ nodeId[i] \in Node
    BY <1>1, <1>2, <1>5, <1>6 DEF Within, f, ItemsNumbered
<1> HIDE DEF i
<1> DEFINE src == SetSource(f.source, i)
<1>8. src \in Node /\ (f.source # NoNode => src = f.source)
    BY <1>3, <1>7 DEF SetSource, NoNode
<1> HIDE DEF src
<1>9. /\ g \in FireRequest
      /\ g.pc = "filter" /\ g.source = src
      /\ g.node = f.node /\ g.nodeIdVec = f.nodeIdVec /\ g.vec = f.vec
      /\ g.it = f.it /\ g.stale = f.stale
    BY <1>3, <1>8 DEF FireRequest, src
<1> HIDE DEF g
<1>10. fire'[t] = g /\ \A u \in Thread : u # t => fire'[u] = fire[u]
    BY <1>3, <1>4
<1>11. /\ copies' \in [Thread -> [Item -> Nat]]
       /\ copies'[t][i] > 0
       /\ \A j \in Item : j # i => copies'[t][j] = copies[t][j]
       /\ \A u \in Thread : u # t => copies'[u] = copies[u]
  <2>1. copies \in [Thread -> [Item -> Nat]]
      BY <1>1 DEF TypeOK
  <2>2. copies' = [copies EXCEPT ![t] = [copies[t] EXCEPT ![i] = copies[t][i] + 1]]
      BY <1>2
  <2>3. [copies[t] EXCEPT ![i] = copies[t][i] + 1] \in [Item -> Nat]
      BY <1>3, <1>6
  <2>4. copies'[t] = [copies[t] EXCEPT ![i] = copies[t][i] + 1]
      BY <2>1, <2>2
  <2>5. QED
      BY <2>1, <2>2, <2>3, <2>4, <1>3, <1>6
<1>12. NoNode \notin Node
    BY DEF Node, NoNode
<1>13. told[t] \subseteq {src}
  <2>1. told[t] \subseteq Node
      BY <1>1, ThreadTypes
  <2>2. QED
      BY <2>1, <1>5, <1>8, <1>12
<1>14. TypeOK'
  <2>1. fire' \in [Thread -> FireRequest]
      BY <1>3, <1>4, <1>9
  <2>2. eventBase' \in [Item -> Thread \cup {NoThread}]
      BY <1>1, <1>2 DEF TypeOK
  <2>3. QED
      BY <1>1, <1>2, <1>11, <2>1, <2>2 DEF TypeOK, itemVars
<1>15. ItemsNumbered' /\ MapSound'
  <2>1. ASSUME NEW u \in Thread, NEW j \in Item, lastId < j
        PROVE  copies'[u][j] = 0
    <3>1. j # i \/ u # t
        BY <2>1, <1>1, <1>7, DispatchAssumption DEF TypeOK, Item
    <3>2. QED
        BY <2>1, <3>1, <1>1, <1>11 DEF ItemsNumbered
  <2>2. QED
      BY <2>1, <1>1, <1>2 DEF ItemsNumbered, MapSound, itemVars
<1>16. mutex = t /\ MutexHeld'
    BY <1>1, <1>2, <1>9, <1>10 DEF MutexHeld, f
<1>17. ThreadInv(t)'
  <2>1. Notified(t)' = Notified(t)
      BY <1>2, <1>9, <1>10 DEF Notified, f
  <2>2. \A j \in Item : copies[t][j] > 0 => copies'[t][j] > 0
      BY <1>11
  <2>3. Within(t)'
    <3>1. \A j \in Item : copies'[t][j] > 0 => nodeId[j] \in Notified(t)
        BY <1>5, <1>7, <1>11 DEF Within
    <3>2. QED
        BY <3>1, <2>1, <1>2, <1>5, <1>9, <1>10 DEF Within, f, itemVars
  <2>4. standing[t] \subseteq Item
      BY <1>1, ThreadTypes
  <2>5. Pending(t)'
      BY <2>1, <2>2, <2>4, <1>2, <1>5, <1>9, <1>10 DEF Pending, f, itemVars
  <2>6. PendingHere(t)'
      BY <2>2, <2>4, <1>2, <1>5, <1>9, <1>10 DEF PendingHere, f, itemVars
  <2>7. Serving(t)'
      BY <1>2, <1>5, <1>9, <1>10 DEF Serving, f, itemVars
  <2>8. Filtering(t)'
    <3>1. Called(t)' = i
        BY <1>9, <1>10 DEF Called, f, i
    <3>2. eventBase'[i] = t
        BY <1>1, <1>2, <1>6 DEF TypeOK
    <3>3. QED
        BY <3>1, <3>2, <1>2, <1>8, <1>9, <1>10, <1>11, <1>12 DEF Filtering, itemVars
  <2>9. QED
      BY <2>3, <2>5, <2>6, <2>7, <2>8, <1>2, <1>5, <1>9, <1>10, <1>13 DEF ThreadInv, itemVars
<1>18. ASSUME NEW u \in Thread
       PROVE  ThreadInv(u)'
  <2>1. CASE u # t
    <3>1. fire[u].pc # "filter"
        BY <2>1, <1>1, <1>16 DEF MutexHeld
    <3>2. QED
        BY <2>1, <3>1, <1>2, <1>10, <1>11, OtherThread DEF IndInv
  <2>2. QED
      BY <2>1, <1>17
<1>19. QED
    BY <1>14, <1>15, <1>16, <1>18 DEF IndInv

LEMMA CallDestroyedInv ==
    ASSUME IndInv, NEW t \in Thread, CallDestroyed(t)
    PROVE  IndInv'
<1> DEFINE f == fire[t]
<1>1. TypeOK /\ ItemsNumbered /\ MapSound /\ MutexHeld /\ ThreadInv(t)
    BY DEF IndInv
<1>2. /\ f.pc = "call" /\ f.it <= Len(f.vec) /\ f.vec[f.it] \notin alive
      /\ UNCHANGED <<parents, itemVars, eventBase, mutex, fires, history>>
    BY DEF CallDestroyed, Called
<1>3. f \in FireRequest /\ f.vec \in Seq(Item) /\ f.it \in Nat
      /\ f.source \in Node \cup {NoNode}
      /\ fire \in [Thread -> FireRequest]
    BY <1>1, ThreadTypes DEF TypeOK
<1>4. PICK source \in Node \cup {NoNode} :
        fire' = [fire EXCEPT ![t].it = @ + 1,
                             ![t].source = IF @ = NoNode THEN source ELSE @]
    BY DEF CallDestroyed
<1> DEFINE src == IF f.source = NoNode THEN source ELSE f.source
           g == [f EXCEPT !.it = @ + 1, !.source = src]
<1>5. fire' = [fire EXCEPT ![t] = g]
    BY <1>3, <1>4 DEF FireRequest
<1> HIDE DEF f
<1>6. src \in Node \cup {NoNode} /\ (f.source # NoNode => src = f.source)
    BY <1>3, <1>4
<1> HIDE DEF src
<1>7. /\ g \in FireRequest
      /\ g.it = f.it + 1 /\ g.source = src
      /\ g.node = f.node /\ g.nodeIdVec = f.nodeIdVec /\ g.vec = f.vec
      /\ g.pc = f.pc /\ g.stale = f.stale
  <2>1. f.it + 1 \in Nat
      BY <1>3
  <2>2. g \in FireRequest
      BY <2>1, <1>3, <1>6 DEF FireRequest
  <2>3. /\ g.it = f.it + 1 /\ g.source = src
        /\ g.node = f.node /\ g.nodeIdVec = f.nodeIdVec /\ g.vec = f.vec
        /\ g.pc = f.pc /\ g.stale = f.stale
      BY <1>3 DEF FireRequest
  <2>4. QED
      BY <2>2, <2>3
<1> HIDE DEF g
<1>8. fire'[t] = g /\ \A u \in Thread : u # t => fire'[u] = fire[u]
    BY <1>3, <1>5
<1>9. TypeOK'
  <2>1. fire' \in [Thread -> FireRequest]
      BY <1>3, <1>5, <1>7
  <2>2. QED
      BY <1>1, <1>2, <2>1 DEF TypeOK, itemVars, history
<1>10. ItemsNumbered' /\ MapSound'
    BY <1>2, ItemsStay DEF history
<1>11. MutexHeld'
    BY <1>1, <1>2, <1>7, <1>8 DEF MutexHeld, f
<1>12. ThreadInv(t)'
  <2>1. /\ Serving(t) /\ PendingHere(t) /\ Within(t) /\ Pending(t)
        /\ standing[t] \subseteq alive /\ told[t] \subseteq {f.source}
      BY <1>1, <1>2 DEF ThreadInv, f
  <2>2. Notified(t)' = Notified(t)
      BY <1>2, <1>7, <1>8 DEF Notified, f
  <2>3. Within(t)' /\ Pending(t)'
      BY <2>1, <2>2, <1>2, <1>7, <1>8 DEF Within, Pending, f, itemVars, history
  <2>4. Serving(t)'
      BY <2>1, <1>2, <1>3, <1>7, <1>8 DEF Serving, f, itemVars
  <2>5. PendingHere(t)'
    <3>1. SUFFICES ASSUME NEW j \in standing[t], nodeId[j] = f.nodeIdVec[1],
                          ~(copies[t][j] > 0)
                   PROVE  \E k \in 1 .. Len(f.vec) : k >= f.it + 1 /\ f.vec[k] = j
        BY <1>2, <1>7, <1>8 DEF PendingHere, f, itemVars, history
    <3>2. PICK k \in 1 .. Len(f.vec) : k >= f.it /\ f.vec[k] = j
        BY <3>1, <2>1 DEF PendingHere, f
    <3>3. k # f.it
        BY <3>1, <3>2, <2>1, <1>2
    <3>4. QED
        BY <3>2, <3>3, <1>3
  <2>6. told[t] \subseteq {src}
    <3>1. told[t] \subseteq Node /\ NoNode \notin Node
        BY <1>1, ThreadTypes DEF Node, NoNode
    <3>2. QED
        BY <3>1, <2>1, <1>6
  <2>7. QED
      BY <2>1, <2>3, <2>4, <2>5, <2>6, <1>2, <1>7, <1>8 DEF ThreadInv, itemVars, history
<1>13. ASSUME NEW u \in Thread
       PROVE  ThreadInv(u)'
  <2>1. CASE u # t
      BY <2>1, <1>2, <1>8, OtherThread DEF IndInv, history
  <2>2. QED
      BY <2>1, <1>12
<1>14. QED
    BY <1>9, <1>10, <1>11, <1>13 DEF IndInv
LEMMA FilterInv ==
    ASSUME IndInv, NEW t \in Thread, NEW pass \in BOOLEAN, FilterEvent(t, pass)
    PROVE  IndInv'
<1> DEFINE f == fire[t]
           i == Called(t)
           g == [f EXCEPT !.pc = "call", !.it = @ + 1]
<1>1. TypeOK /\ ItemsNumbered /\ MapSound /\ MutexHeld /\ ThreadInv(t)
    BY DEF IndInv
<1>2. /\ f.pc = "filter" /\ i = f.vec[f.it]
      /\ eventBase' = [eventBase EXCEPT ![i] = NoThread]
      /\ told' = [told EXCEPT ![t] = IF pass THEN @ \cup {f.source} ELSE @]
      /\ UNCHANGED <<parents, itemVars, mutex, fires, copies, standing>>
    BY DEF FilterEvent, Called
<1>3. /\ f \in FireRequest /\ f.vec \in Seq(Item) /\ f.it \in Nat
      /\ f.source \in Node \cup {NoNode}
      /\ fire \in [Thread -> FireRequest]
      /\ told \in [Thread -> SUBSET Node]
    BY <1>1, ThreadTypes DEF TypeOK
<1>4. fire' = [fire EXCEPT ![t] = g]
    BY <1>3 DEF FilterEvent, FireRequest
<1> HIDE DEF f
<1>5. /\ Serving(t) /\ PendingHere(t) /\ Within(t) /\ Pending(t)
      /\ standing[t] \subseteq alive /\ told[t] \subseteq {f.source}
      /\ copies[t][i] > 0 /\ f.source # NoNode
    BY <1>1, <1>2 DEF ThreadInv, Filtering, f
<1> HIDE DEF i
<1>6. /\ g \in FireRequest
      /\ g.pc = "call" /\ g.it = f.it + 1
      /\ g.node = f.node /\ g.nodeIdVec = f.nodeIdVec /\ g.vec = f.vec
      /\ g.source = f.source /\ g.stale = f.stale
  <2>1. f.it + 1 \in Nat
      BY <1>3
  <2>2. g \in FireRequest
      BY <2>1, <1>3 DEF FireRequest
  <2>3. /\ g.pc = "call" /\ g.it = f.it + 1
        /\ g.node = f.node /\ g.nodeIdVec = f.nodeIdVec /\ g.vec = f.vec
        /\ g.source = f.source /\ g.stale = f.stale
      BY <1>3 DEF FireRequest
  <2>4. QED
      BY <2>2, <2>3
<1> HIDE DEF g
<1>7. fire'[t] = g /\ \A u \in Thread : u # t => fire'[u] = fire[u]
    BY <1>3, <1>4
<1>8. /\ told' \in [Thread -> SUBSET Node]
      /\ told'[t] \subseteq {f.source}
      /\ \A u \in Thread : u # t => told'[u] = told[u]
  <2>1. f.source \in Node
      BY <1>3, <1>5
  <2>2. QED
      BY <2>1, <1>2, <1>3, <1>5
<1>9. TypeOK'
  <2>1. fire' \in [Thread -> FireRequest]
      BY <1>3, <1>4, <1>6
  <2>2. eventBase' \in [Item -> Thread \cup {NoThread}]
      BY <1>1, <1>2 DEF TypeOK
  <2>3. QED
      BY <1>1, <1>2, <1>8, <2>1, <2>2 DEF TypeOK, itemVars
<1>10. ItemsNumbered' /\ MapSound'
    BY <1>2, ItemsStay
<1>11. mutex = t /\ MutexHeld'
    BY <1>1, <1>2, <1>6, <1>7 DEF MutexHeld, f
<1>12. ThreadInv(t)'
  <2>1. Notified(t)' = Notified(t)
      BY <1>2, <1>6, <1>7 DEF Notified, f
  <2>2. Within(t)' /\ Pending(t)'
      BY <2>1, <1>2, <1>5, <1>6, <1>7 DEF Within, Pending, f, itemVars
  <2>3. Serving(t)'
      BY <1>2, <1>3, <1>5, <1>6, <1>7 DEF Serving, f, itemVars
  <2>4. PendingHere(t)'
    <3>1. SUFFICES ASSUME NEW j \in standing[t], nodeId[j] = f.nodeIdVec[1],
                          ~(copies[t][j] > 0)
                   PROVE  \E k \in 1 .. Len(f.vec) : k >= f.it + 1 /\ f.vec[k] = j
        BY <1>2, <1>6, <1>7 DEF PendingHere, f, itemVars
    <3>2. PICK k \in 1 .. Len(f.vec) : k >= f.it /\ f.vec[k] = j
        BY <3>1, <1>5 DEF PendingHere, f
    <3>3. k # f.it
        BY <3>1, <3>2, <1>2, <1>5
    <3>4. QED
        BY <3>2, <3>3, <1>3
  <2>5. QED
      BY <2>2, <2>3, <2>4, <1>2, <1>5, <1>6, <1>7, <1>8 DEF ThreadInv, itemVars
<1>13. ASSUME NEW u \in Thread
       PROVE  ThreadInv(u)'
  <2>1. CASE u # t
    <3>1. fire[u].pc # "filter"
        BY <2>1, <1>1, <1>11 DEF MutexHeld
    <3>2. QED
        BY <2>1, <3>1, <1>2, <1>7, <1>8, OtherThread DEF IndInv
  <2>2. QED
      BY <2>1, <1>12
<1>14. QED
    BY <1>9, <1>10, <1>11, <1>13 DEF IndInv

LEMMA UnlockInv ==
    ASSUME IndInv, NEW t \in Thread, UnlockNode(t)
    PROVE  IndInv'
<1> DEFINE f == fire[t]
           v == Tail(f.nodeIdVec)
           g == [f EXCEPT !.pc = "lock", !.nodeIdVec = v]
<1>1. TypeOK /\ ItemsNumbered /\ MapSound /\ MutexHeld /\ ThreadInv(t)
    BY DEF IndInv
<1>2. /\ f.pc = "call" /\ f.it > Len(f.vec) /\ mutex' = NoThread
      /\ UNCHANGED <<parents, itemVars, eventBase, fires, history>>
    BY DEF UnlockNode
<1>3. f \in FireRequest /\ f.vec \in Seq(Item) /\ f.it \in Nat /\ f.nodeIdVec \in Seq(Node)
      /\ fire \in [Thread -> FireRequest]
    BY <1>1, ThreadTypes DEF TypeOK
<1>4. fire' = [fire EXCEPT ![t] = g]
    BY <1>3 DEF UnlockNode, FireRequest
<1> HIDE DEF f
<1>5. /\ Serving(t) /\ PendingHere(t) /\ Within(t) /\ Pending(t)
      /\ standing[t] \subseteq alive /\ told[t] \subseteq {f.source}
    BY <1>1, <1>2 DEF ThreadInv, f
<1>6. f.nodeIdVec # <<>>
    BY <1>5 DEF Serving, f
<1>7. /\ v \in Seq(Node) /\ Len(v) = Len(f.nodeIdVec) - 1 /\ Len(f.nodeIdVec) \in Nat
      /\ \A k \in 1 .. Len(f.nodeIdVec) - 1 : v[k] = f.nodeIdVec[k + 1]
    BY <1>3, <1>6
<1> HIDE DEF v
<1>8. /\ g \in FireRequest
      /\ g.pc = "lock" /\ g.nodeIdVec = v
      /\ g.node = f.node /\ g.it = f.it /\ g.vec = f.vec
      /\ g.source = f.source /\ g.stale = f.stale
    BY <1>3, <1>7 DEF FireRequest
<1> HIDE DEF g
<1>9. fire'[t] = g /\ \A u \in Thread : u # t => fire'[u] = fire[u]
    BY <1>3, <1>4
<1>10. TypeOK'
  <2>1. fire' \in [Thread -> FireRequest]
      BY <1>3, <1>4, <1>8
  <2>2. QED
      BY <1>1, <1>2, <2>1 DEF TypeOK, itemVars, history
<1>11. ItemsNumbered' /\ MapSound'
    BY <1>2, ItemsStay DEF history
<1>12. MutexHeld'
    BY <1>1, <1>2, <1>8, <1>9, DispatchAssumption DEF MutexHeld, f
<1>13. ThreadInv(t)'
  <2>1. Notified(t)' = Notified(t)
      BY <1>2, <1>8, <1>9 DEF Notified, f
  <2>2. \A k \in 1 .. Len(v) : v[k] \in Notified(t)
      BY <1>5, <1>7 DEF Within, f
  <2>3. Within(t)'
      BY <2>1, <2>2, <1>2, <1>5, <1>8, <1>9 DEF Within, f, itemVars, history
  <2>4. Pending(t)'
    <3>1. SUFFICES ASSUME NEW j \in standing[t], nodeId[j] \in Notified(t),
                          ~(copies[t][j] > 0)
                   PROVE  \E k \in 1 .. Len(v) : v[k] = nodeId[j]
        BY <2>1, <1>2, <1>8, <1>9 DEF Pending, f, itemVars, history
    <3>2. PICK k \in 1 .. Len(f.nodeIdVec) : f.nodeIdVec[k] = nodeId[j]
        BY <3>1, <1>5 DEF Pending, f
    <3>3. nodeId[j] # f.nodeIdVec[1]
        BY <3>1, <1>2, <1>3, <1>5 DEF PendingHere, f
    <3>4. k - 1 \in 1 .. Len(v) /\ v[k - 1] = f.nodeIdVec[(k - 1) + 1]
        BY <3>2, <3>3, <1>7
    <3>5. QED
        BY <3>2, <3>4, (k - 1) + 1 = k
  <2>5. QED
      BY <2>3, <2>4, <1>2, <1>5, <1>8, <1>9 DEF ThreadInv, itemVars, history
<1>14. ASSUME NEW u \in Thread
       PROVE  ThreadInv(u)'
  <2>1. CASE u # t
      BY <2>1, <1>2, <1>9, OtherThread DEF IndInv, history
  <2>2. QED
      BY <2>1, <1>13
<1>15. QED
    BY <1>10, <1>11, <1>12, <1>14 DEF IndInv

LEMMA RespondInv ==
    ASSUME IndInv, NEW t \in Thread, Respond(t)
    PROVE  IndInv'
<1>1. TypeOK /\ ItemsNumbered /\ MapSound /\ MutexHeld /\ ThreadInv(t)
    BY DEF IndInv
<1>2. /\ fire[t].pc = "lock"
      /\ fire' = [fire EXCEPT ![t] = Idle]
      /\ copies' = [copies EXCEPT ![t] = [i \in Item |-> 0]]
      /\ told' = [told EXCEPT ![t] = {}]
      /\ standing' = [standing EXCEPT ![t] = {}]
      /\ UNCHANGED <<parents, itemVars, eventBase, mutex, fires>>
    BY DEF Respond, Dispatched
<1>3. Idle \in FireRequest /\ Idle.pc = "idle"
    BY DEF Idle, FireRequest
<1>4. TypeOK'
    BY <1>1, <1>2, <1>3 DEF TypeOK, itemVars
<1>5. /\ fire'[t] = Idle /\ copies'[t] = [i \in Item |-> 0]
      /\ told'[t] = {} /\ standing'[t] = {}
      /\ \A u \in Thread : u # t => /\ fire'[u] = fire[u] /\ copies'[u] = copies[u]
                                    /\ told'[u] = told[u] /\ standing'[u] = standing[u]
    BY <1>1, <1>2 DEF TypeOK
<1>6. ItemsNumbered'
  <2>1. \A u \in Thread, j \in Item : lastId < j => copies'[u][j] = 0
      BY <1>1, <1>5 DEF ItemsNumbered
  <2>2. QED
      BY <2>1, <1>1, <1>2 DEF ItemsNumbered, itemVars
<1>7. MapSound'
    BY <1>1, <1>2 DEF MapSound, itemVars
<1>8. MutexHeld'
    BY <1>1, <1>2, <1>3, <1>5 DEF MutexHeld
<1>9. ASSUME NEW u \in Thread
      PROVE  ThreadInv(u)'
  <2>1. CASE u # t
      BY <2>1, <1>2, <1>5, OtherThread DEF IndInv
  <2>2. CASE u = t
      BY <2>2, <1>3, <1>5 DEF ThreadInv, Resting
  <2>3. QED
      BY <2>1, <2>2
<1>10. QED
    BY <1>4, <1>6, <1>7, <1>8, <1>9 DEF IndInv

LEMMA NextInv == IndInv /\ [Next]_vars => IndInv'
<1> SUFFICES ASSUME IndInv, [Next]_vars PROVE IndInv'
    OBVIOUS
<1>1. CASE UNCHANGED vars
  <2>1. ASSUME NEW t \in Thread PROVE ThreadInv(t)'
      BY <1>1, OtherThread DEF IndInv, vars, history
  <2>2. TypeOK' /\ MutexHeld'
      BY <1>1 DEF IndInv, vars, itemVars, history, TypeOK, MutexHeld
  <2>3. ItemsNumbered' /\ MapSound'
      BY <1>1, ItemsStay DEF vars, history
  <2>4. QED
      BY <2>1, <2>2, <2>3 DEF IndInv
<1>2. ASSUME NEW t \in Thread, DispatchStep(t) PROVE IndInv'
    BY <1>2, LockInv, CallInv, CallDestroyedInv, FilterInv, UnlockInv, RespondInv
       DEF DispatchStep
<1>3. QED
    BY <1>1, <1>2, CreateInv, DestroyInv, FireInv DEF Next

LEMMA Invariant == Spec => []IndInv
BY InitInv, NextInv, PTL DEF Spec

-----------------------------------------------------------------------------
(***************************************************************************)
(* The type invariant holds for any number of nodes, threads, items and    *)
(* events; in particular an event that a filter lets through names a       *)
(* source node.                                                            *)
(***************************************************************************)
THEOREM TypeCorrect == Spec => []TypeOK
<1>1. IndInv => TypeOK
    BY DEF IndInv
<1>2. QED
    BY <1>1, Invariant, PTL

(***************************************************************************)
(* A handler that getEvent looked up for the node being served belongs to  *)
(* an item that is alive when receiveFireEventRequest calls it, since the  *)
(* destructor deregisters under the mutex the dispatch holds.              *)
(***************************************************************************)
THEOREM FreshAlive == Spec => []FreshHandlersAlive
<1>1. IndInv => FreshHandlersAlive
    BY DEF IndInv, ThreadInv, Serving, FreshHandlersAlive
<1>2. QED
    BY <1>1, Invariant, PTL

(***************************************************************************)
(* The where filter that fireEvent evaluates reads the event of its own    *)
(* request, however many threads fire events, and all receivers of one     *)
(* event are told the same source node.                                    *)
(***************************************************************************)
THEOREM FiltersUndisturbed == Spec => []FilterReadsOwnEvent
<1>1. IndInv => FilterReadsOwnEvent
  <2>1. SUFFICES ASSUME IndInv, NEW t \in Thread
                 PROVE  /\ fire[t].pc = "filter" => eventBase[Called(t)] = t
                        /\ Cardinality(told[t]) <= 1
      BY DEF FilterReadsOwnEvent
  <2>2. ThreadInv(t)
      BY <2>1 DEF IndInv
  <2>3. told[t] = {} \/ told[t] = {fire[t].source}
      BY <2>2 DEF ThreadInv
  <2>4. Cardinality({}) = 0 /\ Cardinality({fire[t].source}) = 1
      BY FS_EmptySet, FS_Singleton
  <2>5. Cardinality(told[t]) <= 1
      BY <2>3, <2>4
  <2>6. QED
      BY <2>2, <2>5 DEF ThreadInv, Filtering
<1>2. QED
    BY <1>1, Invariant, PTL

(***************************************************************************)
(* When receiveFireEventRequest answers, every item that stood all the     *)
(* time on the node of the request or on one of its direct notifiers was   *)
(* offered the event, and no item outside the hierarchy above the node     *)
(* was, whatever items came and went between two nodes.                    *)
(***************************************************************************)
THEOREM RequestReachesNotifiers == Spec => []NotifiersReached
<1>1. IndInv => NotifiersReached
  <2>1. SUFFICES ASSUME IndInv, NEW t \in Thread, Dispatched(t)
                 PROVE  /\ \A i \in standing[t] :
                             nodeId[i] \in Notified(t) => copies[t][i] > 0
                        /\ \A i \in Item :
                             nodeId[i] \notin Above(fire[t].node) => copies[t][i] = 0
      BY DEF NotifiersReached, Notified
  <2>2. TypeOK /\ Within(t) /\ Pending(t) /\ fire[t].nodeIdVec = <<>>
      BY <2>1 DEF IndInv, ThreadInv, Dispatched
  <2>3. copies[t] \in [Item -> Nat]
      BY <2>2, ThreadTypes
  <2>4. \A i \in standing[t] : nodeId[i] \in Notified(t) => copies[t][i] > 0
      BY <2>2 DEF Pending
  <2>5. \A i \in Item : nodeId[i] \notin Notified(t) => copies[t][i] = 0
      BY <2>2, <2>3 DEF Within
  <2>6. Notified(t) \subseteq Above(fire[t].node)
    <3>1. fire[t].node \in Node /\ parents[fire[t].node] \subseteq Node
        BY <2>2 DEF TypeOK, Within
    <3>2. QED
        BY <3>1 DEF Notified, Above, ClosedAbove
  <2>7. QED
      BY <2>4, <2>5, <2>6
<1>2. QED
    BY <1>1, Invariant, PTL
=============================================================================
