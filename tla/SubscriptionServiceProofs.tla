--------------------- MODULE SubscriptionServiceProofs ---------------------
(***************************************************************************)
(* Proofs about SubscriptionService, for every set of sessions and         *)
(* transactions, every uint32 width and every list size.                   *)
(*                                                                         *)
(* None of the properties is inductive by itself.  IndInv adds what they   *)
(* lean on: who owns a subscription, that a subscription's two counters    *)
(* and the client's view of them add up, and what a publish() call in      *)
(* progress may rely on.                                                   *)
(***************************************************************************)
EXTENDS SubscriptionService, TLAPS

(***************************************************************************)
(* A subscription belongs to one session, which has a manager, and its id  *)
(* has been handed out.                                                    *)
(***************************************************************************)
Owned ==
    /\ \A x \in Session : \A s \in subscriptionMap[x] :
          x \in managers /\ s <= uniqueSubscriptionId
    /\ \A x, y \in Session : \A s \in subscriptionMap[x] :
          s \in subscriptionMap[y] => x = y

(***************************************************************************)
(* An id that is not in use has its initial counters, queues and history.  *)
(***************************************************************************)
Unused ==
    \A s \in Sub : (\A x \in Session : s \notin subscriptionMap[x]) =>
        /\ ack[s] = NewAckManager
        /\ expected[s] = 1
        /\ ~overrun[s]
        /\ events[s] = 0
        /\ quiet[s] = 0
        /\ ~attention[s]
        /\ idle[s] = 0

(***************************************************************************)
(* The lifetime counter counts down from lifetimeCount with each idle tick *)
(* and is never zero between steps.                                        *)
(***************************************************************************)
LifetimeCounts ==
    \A x \in Session : \A s \in subscriptionMap[x] :
        /\ actLifetimeCount[s] # 0
        /\ idle[s] + actLifetimeCount[s] = lifetimeCount[s]

(***************************************************************************)
(* Until publish() returns NeedAttention the keepalive counter and the     *)
(* ticks since the last response add up to the keepalive count.            *)
(***************************************************************************)
KeepaliveCounts ==
    \A x \in Session : \A s \in subscriptionMap[x] :
        /\ quiet[s] <= maxKeepAliveCount[s]
        /\ maxKeepAliveCount[s] # 0
        /\ ~attention[s] =>
             /\ actMaxKeepAliveCount[s] # 0
             /\ quiet[s] + actMaxKeepAliveCount[s]
                  = maxKeepAliveCount[s]

(***************************************************************************)
(* A publish() call in progress still has its subscription, the events it  *)
(* counted, and the request it will answer.                                *)
(***************************************************************************)
PublishingOK ==
    publishing # NotPublishing =>
        \E x \in Session :
            /\ publishing.sub \in subscriptionMap[x]
            /\ publishing.events <= events[publishing.sub]
            /\ publishList[x] # <<>>

(***************************************************************************)
(* SequenceContinuous, said of the maps.                                   *)
(***************************************************************************)
Continuous ==
    \A x \in Session : \A s \in subscriptionMap[x] :
        ~overrun[s] => expected[s] = NextSequenceNumber(ack[s])

IndInv == /\ TypeOK /\ Owned /\ Unused /\ LifetimeCounts /\ KeepaliveCounts
          /\ PublishingOK /\ RequestsAnsweredOnce /\ Continuous

-----------------------------------------------------------------------------
(***************************************************************************)
(* The methods of AcknowledgementManager return objects of its type.       *)
(***************************************************************************)
LEMMA AckTypes ==
    ASSUME NEW a \in AckManager, NEW k \in BOOLEAN, NEW n \in UInt
    PROVE  /\ NextSequenceNumber(a) \in UInt
           /\ Successor(n) \in UInt
           /\ TakeSequenceNumber(a, k) \in AckManager
           /\ AddNotification(a, n) \in AckManager
           /\ DeleteNotification(a, n) \in AckManager
           /\ Notify(a) \in AckManager
<1>1. \A m \in UInt : Successor(m) \in UInt
  BY UIntMaxAssumption DEF Successor, UInt
<1>2. NextSequenceNumber(a) \in UInt
  BY <1>1 DEF NextSequenceNumber, AckManager
<1>3. \A q \in BOOLEAN : TakeSequenceNumber(a, q) \in AckManager
  BY <1>2 DEF TakeSequenceNumber, AckManager
<1>4. ASSUME NEW b \in AckManager, NEW m \in UInt
      PROVE  AddNotification(b, m) \in AckManager
  <2> DEFINE grown == Append(b.list, m)
  <2>1. grown \in Seq(UInt) /\ Len(grown) # 0
    BY <1>4 DEF AckManager
  <2>2. Tail(grown) \in Seq(UInt)
    <3> HIDE DEF grown
    <3> QED
      BY <2>1
  <2>3. QED
    BY <2>1, <2>2, <1>4 DEF AddNotification, AckManager
<1>5. DeleteNotification(a, n) \in AckManager
  <2>1. CASE n \in Range(a.list)
    <3>1. Len(a.list) \in Nat \ {0}
      BY <2>1 DEF AckManager, Range
    <3>2. [i \in 1 .. Len(a.list) - 1 |->
             IF \E j \in 1 .. i : a.list[j] = n THEN a.list[i + 1] ELSE a.list[i]]
            \in Seq(UInt)
      BY <3>1 DEF AckManager
    <3>3. QED
      BY <2>1, <3>2 DEF DeleteNotification, AckManager
  <2>2. CASE n \notin Range(a.list)
    BY <2>2 DEF DeleteNotification
  <2>3. QED
    BY <2>1, <2>2
<1>6. Notify(a) \in AckManager
  BY <1>2, <1>3, <1>4 DEF Notify
<1>7. QED
  BY <1>1, <1>2, <1>3, <1>4, <1>5, <1>6

(***************************************************************************)
(* What the methods do to the number that comes next: a notification takes *)
(* it, a keepalive only announces it, an acknowledgement leaves it alone.  *)
(***************************************************************************)
LEMMA AckNumbers ==
    ASSUME NEW a \in AckManager, NEW n \in UInt
    PROVE  /\ NextSequenceNumber(Notify(a)) = Successor(NextSequenceNumber(a))
           /\ NextSequenceNumber(TakeSequenceNumber(a, TRUE)) = NextSequenceNumber(a)
           /\ NextSequenceNumber(DeleteNotification(a, n)) = NextSequenceNumber(a)
<1>1. /\ Notify(a).sequenceNumber = NextSequenceNumber(a)
      /\ Notify(a).keepalive = FALSE
  BY DEF Notify, AddNotification, TakeSequenceNumber, AckManager
<1>2. /\ TakeSequenceNumber(a, TRUE).sequenceNumber = NextSequenceNumber(a)
      /\ TakeSequenceNumber(a, TRUE).keepalive = TRUE
  BY DEF TakeSequenceNumber, AckManager
<1>3. /\ DeleteNotification(a, n).sequenceNumber = a.sequenceNumber
      /\ DeleteNotification(a, n).keepalive = a.keepalive
  BY DEF DeleteNotification, AckManager
<1>4. QED
  BY <1>1, <1>2, <1>3 DEF NextSequenceNumber

-----------------------------------------------------------------------------
(***************************************************************************)
(* Types.                                                                  *)
(***************************************************************************)
LEMMA ResetType ==
    ASSUME NEW V, NEW f \in [Sub -> V], NEW S, NEW v \in V
    PROVE  Reset(f, S, v) \in [Sub -> V]
BY DEF Reset

LEMMA EraseTypes ==
    ASSUME TypeOK, NEW x \in Session, NEW S, Erase(x, S),
           UNCHANGED <<uniqueSubscriptionId, publishing>>,
           publishList' \in [Session -> Seq(Trx)],
           outstanding' \in [Trx -> Session \cup {NoSession}],
           managers' \subseteq Session
    PROVE  TypeOK'
<1>1. 0 \in UInt /\ 1 \in UInt /\ 0 \in Nat
  BY UIntMaxAssumption DEF UInt
<1>2. NewAckManager \in AckManager
  BY <1>1 DEF NewAckManager, AckManager
<1>3. /\ lifetimeCount' \in [Sub -> UInt] /\ actLifetimeCount' \in [Sub -> UInt]
      /\ maxKeepAliveCount' \in [Sub -> UInt] /\ actMaxKeepAliveCount' \in [Sub -> UInt]
      /\ expected' \in [Sub -> UInt] /\ quiet' \in [Sub -> UInt] /\ idle' \in [Sub -> UInt]
  BY <1>1, ResetType DEF TypeOK, Erase
<1>4. /\ overrun' \in [Sub -> BOOLEAN] /\ wrapped' \in [Sub -> BOOLEAN]
      /\ attention' \in [Sub -> BOOLEAN] /\ data' \in [Sub -> BOOLEAN]
  BY ResetType DEF TypeOK, Erase
<1>5. ack' \in [Sub -> AckManager] /\ events' \in [Sub -> Nat]
  BY <1>1, <1>2, ResetType DEF TypeOK, Erase
<1>6. subscriptionMap' \in [Session -> SUBSET Sub]
  BY DEF TypeOK, Erase
<1>7. QED
  BY <1>3, <1>4, <1>5, <1>6 DEF TypeOK

LEMMA CountTypes ==
    ASSUME NEW n \in UInt
    PROVE  /\ Decrement(n) \in UInt
           /\ AtLeast(n, 2) \in UInt /\ AtLeast(n, 2) # 0
BY UIntMaxAssumption DEF UInt, Decrement, AtLeast

LEMMA FieldTypes ==
    ASSUME TypeOK, NEW s \in Sub
    PROVE  /\ lifetimeCount[s] \in UInt /\ actLifetimeCount[s] \in UInt
           /\ maxKeepAliveCount[s] \in UInt /\ actMaxKeepAliveCount[s] \in UInt
           /\ quiet[s] \in UInt /\ idle[s] \in UInt /\ expected[s] \in UInt
           /\ ack[s] \in AckManager
BY DEF TypeOK

LEMMA RestartTypes ==
    ASSUME TypeOK, NEW s \in Sub
    PROVE  /\ RestartLifetime(s) =>
                actLifetimeCount' \in [Sub -> UInt] /\ idle' \in [Sub -> UInt]
           /\ RestartKeepalive(s) =>
                /\ actMaxKeepAliveCount' \in [Sub -> UInt]
                /\ quiet' \in [Sub -> UInt]
                /\ attention' \in [Sub -> BOOLEAN]
           /\ QuietTick(s) => quiet' \in [Sub -> UInt]
           /\ NumberNotification(s) =>
                ack' \in [Sub -> AckManager] /\ wrapped' \in [Sub -> BOOLEAN]
<1>1. 0 \in UInt
  BY UIntMaxAssumption DEF UInt
<1>2. RestartLifetime(s) =>
        actLifetimeCount' \in [Sub -> UInt] /\ idle' \in [Sub -> UInt]
  BY <1>1 DEF TypeOK, RestartLifetime
<1>3. RestartKeepalive(s) =>
        /\ actMaxKeepAliveCount' \in [Sub -> UInt]
        /\ quiet' \in [Sub -> UInt]
        /\ attention' \in [Sub -> BOOLEAN]
  BY <1>1 DEF TypeOK, RestartKeepalive
<1>4. QuietTick(s) => quiet' \in [Sub -> UInt]
  <2>1. (IF quiet[s] < maxKeepAliveCount[s] THEN quiet[s] + 1 ELSE quiet[s]) \in UInt
    BY FieldTypes, UIntMaxAssumption DEF UInt
  <2>2. QED
    BY <2>1 DEF TypeOK, QuietTick
<1>5. NumberNotification(s) =>
        ack' \in [Sub -> AckManager] /\ wrapped' \in [Sub -> BOOLEAN]
  <2>1. Notify(ack[s]) \in AckManager
    BY <1>1, AckTypes DEF TypeOK
  <2>2. QED
    BY <2>1 DEF TypeOK, NumberNotification
<1>6. QED
  BY <1>2, <1>3, <1>4, <1>5

LEMMA RespondTypes ==
    ASSUME TypeOK, NEW x \in Session, publishList[x] # <<>>, Respond(x)
    PROVE  /\ publishList' \in [Session -> Seq(Trx)]
           /\ outstanding' \in [Trx -> Session \cup {NoSession}]
<1>1. publishList[x] \in Seq(Trx)
  BY DEF TypeOK
<1>2. Tail(publishList[x]) \in Seq(Trx)
  BY <1>1
<1>3. QED
  BY <1>2 DEF TypeOK, Respond

LEMMA CreateTypes ==
    ASSUME TypeOK, NEW x \in Session, NEW l \in RequestedLifetime,
           NEW k \in RequestedKeepAlive, CreateSubscription(x, l, k)
    PROVE  TypeOK'
<1> DEFINE s == uniqueSubscriptionId + 1
<1>1. s \in Sub
  BY BoundsAssumption DEF TypeOK, CreateSubscription, Sub
<1>2. /\ AtLeast(l, minLifetimeCount) \in UInt
      /\ AtLeast(k, minMaxKeepAliveCount) \in UInt
  BY CountTypes, RequestedAssumption DEF minLifetimeCount, minMaxKeepAliveCount
<1>3. /\ uniqueSubscriptionId' \in 0 .. MaxSubscriptions
      /\ subscriptionMap' \in [Session -> SUBSET Sub]
      /\ managers' \subseteq Session
  BY <1>1, BoundsAssumption DEF TypeOK, CreateSubscription, Sub
<1>4. QED
  BY <1>1, <1>2, <1>3
     DEF TypeOK, CreateSubscription, requestVars, numberVars

LEMMA DeleteTypes ==
    ASSUME TypeOK, NEW x \in Session, NEW ids \in SUBSET Sub,
           DeleteSubscriptions(x, ids)
    PROVE  TypeOK'
<1>1. Erase(x, subscriptionMap[x] \cap ids)
  BY DEF DeleteSubscriptions
<1>2. <<>> \in Seq(Trx)
  OBVIOUS
<1>3. /\ publishList' \in [Session -> Seq(Trx)]
      /\ outstanding' \in [Trx -> Session \cup {NoSession}]
      /\ managers' \subseteq Session
  BY <1>2 DEF TypeOK, DeleteSubscriptions
<1>4. QED
  BY <1>1, <1>3, EraseTypes DEF DeleteSubscriptions

LEMMA PublishTypes ==
    ASSUME TypeOK, NEW x \in Session, NEW t \in Trx, NEW a \in Acks, Publish(x, t, a)
    PROVE  TypeOK'
<1>1. Append(publishList[x], t) \in Seq(Trx)
  BY DEF TypeOK
<1>2. \A s \in Sub : a # <<>> => DeleteNotification(ack[s], a[2]) \in AckManager
  <2>1. a # <<>> => a[2] \in UInt
    BY UIntMaxAssumption DEF Acks, UInt
  <2>2. QED
    BY <2>1, AckTypes DEF TypeOK
<1>3. ack' \in [Sub -> AckManager]
  BY <1>2 DEF TypeOK, Publish
<1>4. QED
  BY <1>1, <1>3
     DEF TypeOK, Publish, managerVars, countVars, lifetimeVars, keepaliveVars

LEMMA TickWithoutRequestTypes ==
    ASSUME TypeOK, LifetimeCounts, NEW x \in Session, NEW s \in subscriptionMap[x],
           TickWithoutRequest(x, s), UNCHANGED <<uniqueSubscriptionId, managers>>
    PROVE  TypeOK'
<1>1. s \in Sub
  BY DEF TypeOK
<1>2. CASE LifetimeOver(actLifetimeCount[s])
  BY <1>2, EraseTypes DEF TypeOK, TickWithoutRequest, requestVars
<1>3. CASE ~LifetimeOver(actLifetimeCount[s])
  <2>1. idle[s] + 1 \in UInt
    <3>1. actLifetimeCount[s] # 0 /\ idle[s] + actLifetimeCount[s] = lifetimeCount[s]
      BY DEF LifetimeCounts
    <3>2. idle[s] \in UInt /\ actLifetimeCount[s] \in UInt /\ lifetimeCount[s] \in UInt
      BY <1>1, FieldTypes
    <3>3. QED
      BY <3>1, <3>2, UIntMaxAssumption DEF UInt
  <2>2. Decrement(actLifetimeCount[s]) \in UInt
    BY <1>1, CountTypes DEF TypeOK
  <2>3. (IF actMaxKeepAliveCount[s] = 0 THEN 0 ELSE actMaxKeepAliveCount[s] - 1) \in UInt
    BY <1>1, FieldTypes, UIntMaxAssumption DEF UInt
  <2>4. quiet' \in [Sub -> UInt]
    BY <1>1, <1>3, RestartTypes DEF TickWithoutRequest
  <2>5. /\ actLifetimeCount' \in [Sub -> UInt] /\ idle' \in [Sub -> UInt]
        /\ actMaxKeepAliveCount' \in [Sub -> UInt] /\ attention' \in [Sub -> BOOLEAN]
    <3>1. actLifetimeCount' \in [Sub -> UInt]
      <4> DEFINE k == Decrement(actLifetimeCount[s])
      <4>1. actLifetimeCount' = [actLifetimeCount EXCEPT ![s] = k]
        BY <1>3 DEF TickWithoutRequest
      <4>2. k \in UInt
        BY <2>2
      <4> HIDE DEF k
      <4>3. QED
        BY <4>1, <4>2 DEF TypeOK
    <3>2. idle' \in [Sub -> UInt]
      <4> DEFINE k == idle[s] + 1
      <4>1. idle' = [idle EXCEPT ![s] = k]
        BY <1>3 DEF TickWithoutRequest
      <4>2. k \in UInt
        BY <2>1
      <4> HIDE DEF k
      <4>3. QED
        BY <4>1, <4>2 DEF TypeOK
    <3>3. actMaxKeepAliveCount' \in [Sub -> UInt]
      <4> DEFINE k == IF actMaxKeepAliveCount[s] = 0 THEN 0 ELSE actMaxKeepAliveCount[s] - 1
      <4>1. actMaxKeepAliveCount' = [actMaxKeepAliveCount EXCEPT ![s] = k]
        BY <1>3 DEF TickWithoutRequest
      <4>2. k \in UInt
        BY <2>3
      <4> HIDE DEF k
      <4>3. QED
        BY <4>1, <4>2 DEF TypeOK
    <3>4. attention' \in [Sub -> BOOLEAN]
      BY <1>3 DEF TypeOK, TickWithoutRequest
    <3>5. QED
      BY <3>1, <3>2, <3>3, <3>4
  <2>6. QED
    BY <1>3, <2>4, <2>5
       DEF TypeOK, TickWithoutRequest, requestVars, countVars, numberVars
<1>4. QED
  BY <1>2, <1>3

LEMMA TickWithRequestTypes ==
    ASSUME TypeOK, NEW x \in Session, NEW s \in subscriptionMap[x],
           UNCHANGED <<uniqueSubscriptionId, managers>>
    PROVE  /\ CountEvents(x, s) => TypeOK'
           /\ PublishData(x, s) => TypeOK'
           /\ PublishNothing(x, s) => TypeOK'
<1>1. s \in Sub /\ 0 \in UInt
  BY UIntMaxAssumption DEF TypeOK, UInt
<1>2. CountEvents(x, s) => TypeOK'
  BY <1>1, RestartTypes
     DEF TypeOK, CountEvents, requestVars, countVars, keepaliveVars, numberVars
<1>3. PublishData(x, s) => TypeOK'
  <2>1. Successor(NextSequenceNumber(ack[s])) \in UInt
    BY <1>1, AckTypes DEF TypeOK
  <2>2. QED
    BY <1>1, <2>1, RestartTypes, RespondTypes DEF TypeOK, PublishData, countVars
<1>4. PublishNothing(x, s) => TypeOK'
  <2>1. TakeSequenceNumber(ack[s], TRUE) \in AckManager
    BY <1>1, AckTypes DEF TypeOK
  <2>2. Decrement(actMaxKeepAliveCount[s]) \in UInt
    BY <1>1, CountTypes DEF TypeOK
  <2> SUFFICES ASSUME PublishNothing(x, s) PROVE TypeOK'
    OBVIOUS
  <2>3. actLifetimeCount' \in [Sub -> UInt] /\ idle' \in [Sub -> UInt]
    BY <1>1, RestartTypes DEF PublishNothing
  <2>4. CASE KeepaliveDue(actMaxKeepAliveCount[s])
    <3>1. /\ actMaxKeepAliveCount' \in [Sub -> UInt] /\ quiet' \in [Sub -> UInt]
          /\ attention' \in [Sub -> BOOLEAN]
      BY <1>1, <2>4, RestartTypes DEF PublishNothing
    <3>2. /\ publishList' \in [Session -> Seq(Trx)]
          /\ outstanding' \in [Trx -> Session \cup {NoSession}]
      BY <2>4, RespondTypes DEF PublishNothing
    <3>3. ack' \in [Sub -> AckManager]
      BY <2>1, <2>4 DEF TypeOK, PublishNothing
    <3>4. wrapped' \in [Sub -> BOOLEAN]
      BY <2>4 DEF TypeOK, PublishNothing
    <3>5. QED
      BY <2>3, <3>1, <3>2, <3>3, <3>4 DEF TypeOK, PublishNothing, countVars
  <2>5. CASE ~KeepaliveDue(actMaxKeepAliveCount[s])
    <3>1. actMaxKeepAliveCount' \in [Sub -> UInt] /\ quiet' \in [Sub -> UInt]
      BY <1>1, <2>2, <2>5, RestartTypes DEF TypeOK, PublishNothing
    <3>2. QED
      BY <2>3, <2>5, <3>1 DEF TypeOK, PublishNothing, countVars, requestVars
  <2>6. QED
    BY <2>4, <2>5
<1>5. QED
  BY <1>2, <1>3, <1>4

LEMMA DrainEventsTypes ==
    ASSUME TypeOK, Owned, PublishingOK, NEW x \in Session, NEW s \in Sub, DrainEvents(x, s)
    PROVE  /\ TypeOK'
           /\ publishList[x] # <<>>
<1>1. publishing # NotPublishing
  BY BoundsAssumption DEF DrainEvents, NotPublishing, Sub
<1>2. publishing.events <= events[s] /\ publishList[x] # <<>>
  BY <1>1 DEF DrainEvents, PublishingOK, Owned
<1>3. events' \in [Sub -> Nat]
  BY <1>2 DEF TypeOK, DrainEvents
<1>4. Successor(NextSequenceNumber(ack[s])) \in UInt
  <2>1. 0 \in UInt
    BY UIntMaxAssumption DEF UInt
  <2>2. QED
    BY <2>1, AckTypes DEF TypeOK
<1>5. publishing' \in [sub: Sub \cup {0}, events: Nat]
  BY DEF DrainEvents, NotPublishing
<1>6. ack' \in [Sub -> AckManager] /\ wrapped' \in [Sub -> BOOLEAN]
  BY RestartTypes DEF DrainEvents
<1>7. CASE events[s] > publishing.events
  <2>1. quiet' \in [Sub -> UInt]
    BY <1>7, RestartTypes DEF DrainEvents
  <2>2. /\ actMaxKeepAliveCount' \in [Sub -> UInt] /\ attention' \in [Sub -> BOOLEAN]
        /\ overrun' \in [Sub -> BOOLEAN]
    <3>1. actMaxKeepAliveCount' \in [Sub -> UInt]
      <4>1. actMaxKeepAliveCount' =
              [actMaxKeepAliveCount EXCEPT ![s] = maxKeepAliveCount[s]]
        BY <1>7 DEF DrainEvents
      <4>2. QED
        BY <4>1, FieldTypes DEF TypeOK
    <3>2. attention' \in [Sub -> BOOLEAN]
      BY <1>7 DEF TypeOK, DrainEvents
    <3>3. overrun' \in [Sub -> BOOLEAN]
      BY <1>7 DEF TypeOK, DrainEvents
    <3>4. QED
      BY <3>1, <3>2, <3>3
  <2>3. QED
    BY <1>2, <1>3, <1>5, <1>6, <1>7, <2>1, <2>2
       DEF TypeOK, DrainEvents, requestVars, managerVars, countVars, lifetimeVars
<1>8. CASE ~(events[s] > publishing.events)
  <2>1. /\ actMaxKeepAliveCount' \in [Sub -> UInt] /\ quiet' \in [Sub -> UInt]
        /\ attention' \in [Sub -> BOOLEAN]
    BY <1>8, RestartTypes DEF DrainEvents
  <2>2. /\ publishList' \in [Session -> Seq(Trx)]
        /\ outstanding' \in [Trx -> Session \cup {NoSession}]
    BY <1>2, <1>8, RespondTypes DEF DrainEvents
  <2>3. expected' \in [Sub -> UInt]
    BY <1>4, <1>8 DEF TypeOK, DrainEvents
  <2>4. QED
    BY <1>2, <1>3, <1>5, <1>6, <1>8, <2>1, <2>2, <2>3
       DEF TypeOK, DrainEvents, managerVars, countVars, lifetimeVars
<1>9. QED
  BY <1>7, <1>8

LEMMA OtherTypes ==
    ASSUME TypeOK
    PROVE  /\ \A s \in Sub : FireEvent(s) => TypeOK'
           /\ \A s \in Sub : QueueData(s) => TypeOK'
           /\ \A s \in Sub, e \in 0 .. MaxEvents, d \in BOOLEAN :
                DeleteMonitoredItems(s, e, d) => TypeOK'
           /\ UNCHANGED vars => TypeOK'
<1> USE DEF managerVars, requestVars, countVars, lifetimeVars, keepaliveVars, numberVars
<1>1. ASSUME NEW s \in Sub, FireEvent(s) PROVE TypeOK'
  BY <1>1 DEF TypeOK, FireEvent
<1>2. ASSUME NEW s \in Sub, QueueData(s) PROVE TypeOK'
  BY <1>2 DEF TypeOK, QueueData
<1>3. ASSUME NEW s \in Sub, NEW e \in 0 .. MaxEvents, NEW d \in BOOLEAN,
             DeleteMonitoredItems(s, e, d)
      PROVE  TypeOK'
  BY <1>3, BoundsAssumption DEF TypeOK, DeleteMonitoredItems
<1>4. ASSUME UNCHANGED vars PROVE TypeOK'
  BY <1>4 DEF TypeOK, vars
<1>5. QED
  BY <1>1, <1>2, <1>3, <1>4

LEMMA TypeStep ==
    ASSUME IndInv, [Next]_vars
    PROVE  TypeOK'
<1> USE DEF IndInv
<1>1. ASSUME NEW x \in Session, NEW s \in Sub, PublishTimeout(x, s) PROVE TypeOK'
  BY <1>1, TickWithoutRequestTypes, TickWithRequestTypes DEF PublishTimeout
<1>2. ASSUME NEW x \in Session, NEW t \in Trx, PublishRefused(x, t) PROVE TypeOK'
  BY <1>2, OtherTypes DEF PublishRefused
<1>3. QED
  BY <1>1, <1>2, CreateTypes, DeleteTypes, PublishTypes, DrainEventsTypes, OtherTypes DEF Next

-----------------------------------------------------------------------------
(***************************************************************************)
(* Sequences without repetition.                                           *)
(***************************************************************************)
Distinct(q) == \A i, j \in DOMAIN q : q[i] = q[j] => i = j

LEMMA TailDistinct ==
    ASSUME NEW S, NEW q \in Seq(S), q # <<>>, Distinct(q)
    PROVE  /\ Distinct(Tail(q))
           /\ Range(Tail(q)) = Range(q) \ {Head(q)}
           /\ Head(q) \in S
<1>1. /\ Len(q) \in Nat \ {0}
      /\ DOMAIN q = 1 .. Len(q)
      /\ DOMAIN Tail(q) = 1 .. Len(q) - 1
      /\ \A i \in 1 .. Len(q) - 1 : Tail(q)[i] = q[i + 1]
      /\ Head(q) = q[1]
      /\ Head(q) \in S
  OBVIOUS
<1>2. Distinct(Tail(q))
  BY <1>1 DEF Distinct
<1>3. ASSUME NEW e \in Range(Tail(q)) PROVE e \in Range(q) \ {Head(q)}
  BY <1>1 DEF Distinct, Range
<1>4. ASSUME NEW e \in Range(q) \ {Head(q)} PROVE e \in Range(Tail(q))
  <2>1. PICK i \in 1 .. Len(q) : e = q[i]
    BY <1>1 DEF Range
  <2>2. i # 1
    BY <2>1, <1>1
  <2>3. i - 1 \in 1 .. Len(q) - 1 /\ Tail(q)[i - 1] = e
    BY <2>1, <2>2, <1>1
  <2>4. QED
    BY <2>3, <1>1 DEF Range
<1>5. QED
  BY <1>1, <1>2, <1>3, <1>4

LEMMA AppendDistinct ==
    ASSUME NEW S, NEW q \in Seq(S), NEW e \in S, e \notin Range(q), Distinct(q)
    PROVE  /\ Distinct(Append(q, e))
           /\ Range(Append(q, e)) = Range(q) \cup {e}
           /\ Append(q, e) # <<>>
<1>1. /\ Len(q) \in Nat
      /\ DOMAIN q = 1 .. Len(q)
      /\ DOMAIN Append(q, e) = 1 .. Len(q) + 1
      /\ \A i \in 1 .. Len(q) : Append(q, e)[i] = q[i]
      /\ Append(q, e)[Len(q) + 1] = e
      /\ Append(q, e) # <<>>
  OBVIOUS
<1>2. Distinct(Append(q, e))
  BY <1>1 DEF Distinct, Range
<1>3. Range(Append(q, e)) = Range(q) \cup {e}
  <2>1. ASSUME NEW d \in Range(q) PROVE d \in Range(Append(q, e))
    BY <1>1 DEF Range
  <2>2. e \in Range(Append(q, e))
    BY <1>1 DEF Range
  <2>3. ASSUME NEW d \in Range(Append(q, e)) PROVE d \in Range(q) \cup {e}
    BY <1>1 DEF Range
  <2>4. QED
    BY <2>1, <2>2, <2>3
<1>4. QED
  BY <1>1, <1>2, <1>3

-----------------------------------------------------------------------------
(***************************************************************************)
(* The queue of open requests.                                             *)
(***************************************************************************)
LEMMA RespondKeepsRequests ==
    ASSUME TypeOK, RequestsAnsweredOnce, NEW x \in Session, publishList[x] # <<>>,
           Respond(x), managers' = managers
    PROVE  RequestsAnsweredOnce'
<1> DEFINE q == publishList[x]
           t == Head(q)
<1>1. q \in Seq(Trx) /\ Distinct(q)
  BY DEF TypeOK, RequestsAnsweredOnce, Distinct
<1>2. /\ Distinct(Tail(q)) /\ Range(Tail(q)) = Range(q) \ {t} /\ t \in Trx
  BY <1>1, TailDistinct
<1>3. t \in Range(q)
  BY <1>1 DEF Range
<1>4. outstanding[t] = x
  BY <1>2, <1>3 DEF RequestsAnsweredOnce
<1>5. /\ publishList' = [publishList EXCEPT ![x] = Tail(q)]
      /\ outstanding' = [outstanding EXCEPT ![t] = NoSession]
  BY DEF Respond
<1> HIDE DEF q, t
<1>6. ASSUME NEW y \in Session
      PROVE  /\ Range(publishList'[y]) = {r \in Trx : outstanding'[r] = y}
             /\ Distinct(publishList'[y])
             /\ publishList'[y] # <<>> => y \in managers'
  <2>1. CASE y = x
    <3>1. publishList'[y] = Tail(q)
      BY <2>1, <1>5 DEF TypeOK
    <3>2. Range(q) = {r \in Trx : outstanding[r] = x}
      BY DEF RequestsAnsweredOnce, q
    <3>3. {r \in Trx : outstanding'[r] = x} = {r \in Trx : outstanding[r] = x} \ {t}
      BY <1>2, <1>5, NoSessionAssumption DEF TypeOK
    <3>4. x \in managers
      BY DEF RequestsAnsweredOnce
    <3>5. QED
      BY <2>1, <3>1, <3>2, <3>3, <3>4, <1>2
  <2>2. CASE y # x
    <3>1. publishList'[y] = publishList[y]
      BY <2>2, <1>5 DEF TypeOK
    <3>2. {r \in Trx : outstanding'[r] = y} = {r \in Trx : outstanding[r] = y}
      BY <2>2, <1>2, <1>4, <1>5, NoSessionAssumption DEF TypeOK
    <3>3. QED
      BY <3>1, <3>2 DEF RequestsAnsweredOnce, Distinct
  <2>3. QED
    BY <2>1, <2>2
<1>7. QED
  BY <1>6 DEF RequestsAnsweredOnce, Distinct

LEMMA PublishKeepsRequests ==
    ASSUME TypeOK, RequestsAnsweredOnce, NEW x \in Session, NEW t \in Trx, NEW a \in Acks,
           Publish(x, t, a)
    PROVE  RequestsAnsweredOnce'
<1> DEFINE q == publishList[x]
<1>1. q \in Seq(Trx) /\ Distinct(q)
  BY DEF TypeOK, RequestsAnsweredOnce, Distinct
<1>2. /\ outstanding[t] = NoSession /\ x \in managers
      /\ publishList' = [publishList EXCEPT ![x] = Append(q, t)]
      /\ outstanding' = [outstanding EXCEPT ![t] = x]
      /\ managers' = managers
  BY DEF Publish, managerVars
<1>3. t \notin Range(q)
  BY <1>2, NoSessionAssumption DEF RequestsAnsweredOnce
<1>4. Distinct(Append(q, t)) /\ Range(Append(q, t)) = Range(q) \cup {t}
  BY <1>1, <1>3, AppendDistinct
<1> HIDE DEF q
<1>5. ASSUME NEW y \in Session
      PROVE  /\ Range(publishList'[y]) = {r \in Trx : outstanding'[r] = y}
             /\ Distinct(publishList'[y])
             /\ publishList'[y] # <<>> => y \in managers'
  <2>1. CASE y = x
    <3>1. publishList'[y] = Append(q, t)
      BY <2>1, <1>2 DEF TypeOK
    <3>2. Range(q) = {r \in Trx : outstanding[r] = x}
      BY DEF RequestsAnsweredOnce, q
    <3>3. {r \in Trx : outstanding'[r] = x} = {r \in Trx : outstanding[r] = x} \cup {t}
      BY <1>2 DEF TypeOK
    <3>4. QED
      BY <2>1, <3>1, <3>2, <3>3, <1>2, <1>4
  <2>2. CASE y # x
    <3>1. publishList'[y] = publishList[y]
      BY <2>2, <1>2 DEF TypeOK
    <3>2. {r \in Trx : outstanding'[r] = y} = {r \in Trx : outstanding[r] = y}
      BY <2>2, <1>2, NoSessionAssumption DEF TypeOK
    <3>3. QED
      BY <3>1, <3>2, <1>2 DEF RequestsAnsweredOnce, Distinct
  <2>3. QED
    BY <2>1, <2>2
<1>6. QED
  BY <1>5 DEF RequestsAnsweredOnce, Distinct

LEMMA DeleteKeepsRequests ==
    ASSUME TypeOK, RequestsAnsweredOnce, NEW x \in Session, NEW ids \in SUBSET Sub,
           DeleteSubscriptions(x, ids)
    PROVE  RequestsAnsweredOnce'
<1>1. CASE subscriptionMap[x] \subseteq ids
  <2>1. /\ publishList' = [publishList EXCEPT ![x] = <<>>]
        /\ outstanding' = [t \in Trx |->
             IF t \in Range(publishList[x]) THEN NoSession ELSE outstanding[t]]
        /\ managers' = managers \ {x}
    BY <1>1 DEF DeleteSubscriptions
  <2>2. ASSUME NEW y \in Session
        PROVE  /\ Range(publishList'[y]) = {r \in Trx : outstanding'[r] = y}
               /\ Distinct(publishList'[y])
               /\ publishList'[y] # <<>> => y \in managers'
    <3>1. CASE y = x
      <4>1. publishList'[y] = <<>>
        BY <3>1, <2>1 DEF TypeOK
      <4>2. {r \in Trx : outstanding'[r] = x} = {}
        BY <2>1, NoSessionAssumption DEF RequestsAnsweredOnce
      <4>3. Range(<<>>) = {} /\ Distinct(<<>>)
        BY DEF Range, Distinct
      <4>4. QED
        BY <3>1, <4>1, <4>2, <4>3
    <3>2. CASE y # x
      <4>1. publishList'[y] = publishList[y] /\ (y \in managers => y \in managers')
        BY <3>2, <2>1 DEF TypeOK
      <4>2. {r \in Trx : outstanding'[r] = y} = {r \in Trx : outstanding[r] = y}
        BY <3>2, <2>1, NoSessionAssumption DEF RequestsAnsweredOnce
      <4>3. QED
        BY <4>1, <4>2 DEF RequestsAnsweredOnce, Distinct
    <3>3. QED
      BY <3>1, <3>2
  <2>3. QED
    BY <2>2 DEF RequestsAnsweredOnce, Distinct
<1>2. CASE ~(subscriptionMap[x] \subseteq ids)
  BY <1>2 DEF DeleteSubscriptions, RequestsAnsweredOnce
<1>3. QED
  BY <1>1, <1>2

LEMMA RequestsStep ==
    ASSUME IndInv, [Next]_vars
    PROVE  RequestsAnsweredOnce'
<1> USE DEF IndInv, managerVars, requestVars
<1>1. ASSUME publishList' = publishList, outstanding' = outstanding, managers \subseteq managers'
      PROVE  RequestsAnsweredOnce'
  BY <1>1 DEF RequestsAnsweredOnce
<1>2. ASSUME NEW x \in Session, NEW s \in Sub, PublishTimeout(x, s)
      PROVE  RequestsAnsweredOnce'
  <2>1. CASE TickWithoutRequest(x, s)
    BY <2>1, <1>1, <1>2 DEF TickWithoutRequest, PublishTimeout
  <2>2. CASE CountEvents(x, s)
    BY <2>2, <1>1, <1>2 DEF CountEvents, PublishTimeout
  <2>3. CASE PublishData(x, s)
    BY <2>3, <1>2, RespondKeepsRequests DEF PublishData, PublishTimeout
  <2>4. CASE PublishNothing(x, s)
    <3>1. CASE Respond(x)
      BY <3>1, <2>4, <1>2, RespondKeepsRequests DEF PublishNothing, PublishTimeout
    <3>2. CASE ~Respond(x)
      BY <3>2, <2>4, <1>1, <1>2 DEF PublishNothing, PublishTimeout
    <3>3. QED
      BY <3>1, <3>2
  <2>5. QED
    BY <1>2, <2>1, <2>2, <2>3, <2>4 DEF PublishTimeout
<1>3. ASSUME NEW x \in Session, NEW s \in Sub, DrainEvents(x, s)
      PROVE  RequestsAnsweredOnce'
  <2>1. CASE Respond(x)
    BY <2>1, <1>3, DrainEventsTypes, RespondKeepsRequests DEF DrainEvents
  <2>2. CASE ~Respond(x)
    BY <2>2, <1>3, <1>1 DEF DrainEvents
  <2>3. QED
    BY <2>1, <2>2
<1>4. ASSUME NEW x \in Session, NEW l \in RequestedLifetime, NEW k \in RequestedKeepAlive,
             CreateSubscription(x, l, k)
      PROVE  RequestsAnsweredOnce'
  BY <1>4, <1>1 DEF CreateSubscription
<1>5. ASSUME NEW s \in Sub, FireEvent(s) \/ QueueData(s) PROVE RequestsAnsweredOnce'
  BY <1>5, <1>1 DEF FireEvent, QueueData
<1>6. ASSUME NEW s \in Sub, NEW e \in 0 .. MaxEvents, NEW d \in BOOLEAN,
             DeleteMonitoredItems(s, e, d)
      PROVE  RequestsAnsweredOnce'
  BY <1>6, <1>1 DEF DeleteMonitoredItems
<1>7. ASSUME UNCHANGED vars PROVE RequestsAnsweredOnce'
  BY <1>7, <1>1 DEF vars
<1>8. ASSUME NEW x \in Session, NEW t \in Trx, PublishRefused(x, t)
      PROVE  RequestsAnsweredOnce'
  BY <1>8, <1>7 DEF PublishRefused
<1>9. QED
  BY <1>2, <1>3, <1>4, <1>5, <1>6, <1>7, <1>8, PublishKeepsRequests, DeleteKeepsRequests
     DEF Next

-----------------------------------------------------------------------------
(***************************************************************************)
(* Erasing subscriptions leaves the others as they are.                    *)
(***************************************************************************)
LEMMA EraseKeepsOthers ==
    ASSUME TypeOK, Owned, NEW x \in Session, NEW S \in SUBSET subscriptionMap[x],
           Erase(x, S), NEW y \in Session, NEW s \in subscriptionMap'[y]
    PROVE  /\ s \in Sub /\ s \in subscriptionMap[y] /\ s \notin S
           /\ lifetimeCount'[s] = lifetimeCount[s]
           /\ actLifetimeCount'[s] = actLifetimeCount[s]
           /\ maxKeepAliveCount'[s] = maxKeepAliveCount[s]
           /\ actMaxKeepAliveCount'[s] = actMaxKeepAliveCount[s]
           /\ ack'[s] = ack[s]
           /\ expected'[s] = expected[s]
           /\ overrun'[s] = overrun[s]
           /\ quiet'[s] = quiet[s]
           /\ attention'[s] = attention[s]
           /\ idle'[s] = idle[s]
<1>1. s \in subscriptionMap[y] /\ s \in Sub
  BY DEF TypeOK, Erase
<1>2. s \notin S
  <2>1. CASE y = x
    BY <2>1 DEF TypeOK, Erase
  <2>2. CASE y # x
    BY <2>2, <1>1 DEF Owned
  <2>3. QED
    BY <2>1, <2>2
<1>3. QED
  BY <1>1, <1>2 DEF Erase, Reset

(***************************************************************************)
(* An id that is not in use, after an erasure: it was unused before, or it *)
(* has just been erased.                                                   *)
(***************************************************************************)
LEMMA EraseKeepsUnused ==
    ASSUME TypeOK, Unused, NEW x \in Session, NEW S \in SUBSET subscriptionMap[x],
           Erase(x, S)
    PROVE  Unused'
<1> SUFFICES ASSUME NEW s \in Sub, \A y \in Session : s \notin subscriptionMap'[y]
             PROVE  /\ ack'[s] = NewAckManager
                    /\ expected'[s] = 1 /\ ~overrun'[s] /\ events'[s] = 0
                    /\ quiet'[s] = 0 /\ ~attention'[s] /\ idle'[s] = 0
  BY DEF Unused
<1>1. CASE s \in S
  BY <1>1 DEF Erase, Reset
<1>2. CASE s \notin S
  <2>1. \A y \in Session : s \notin subscriptionMap[y]
    BY <1>2 DEF TypeOK, Erase
  <2>2. /\ ack[s] = NewAckManager
        /\ expected[s] = 1 /\ ~overrun[s] /\ events[s] = 0
        /\ quiet[s] = 0 /\ ~attention[s] /\ idle[s] = 0
    BY <2>1 DEF Unused
  <2>3. QED
    BY <1>2, <2>2 DEF Erase, Reset
<1>3. QED
  BY <1>1, <1>2

LEMMA CreateFresh ==
    ASSUME TypeOK, Owned, Unused, NEW x \in Session, NEW l \in RequestedLifetime,
           NEW k \in RequestedKeepAlive, CreateSubscription(x, l, k)
    PROVE  LET s == uniqueSubscriptionId + 1
           IN  /\ s \in Sub
               /\ \A y \in Session : s \notin subscriptionMap[y]
               /\ ack[s] = NewAckManager
               /\ expected[s] = 1 /\ ~overrun[s] /\ events[s] = 0
               /\ quiet[s] = 0 /\ ~attention[s] /\ idle[s] = 0
<1> DEFINE s == uniqueSubscriptionId + 1
<1>1. s \in Sub
  BY BoundsAssumption DEF TypeOK, CreateSubscription, Sub
<1>2. \A y \in Session : s \notin subscriptionMap[y]
  BY DEF TypeOK, Owned
<1>3. QED
  BY <1>1, <1>2 DEF Unused

LEMMA OwnedStep ==
    ASSUME IndInv, [Next]_vars
    PROVE  Owned'
<1> USE DEF IndInv
<1>1. ASSUME UNCHANGED managerVars PROVE Owned'
  BY <1>1 DEF managerVars, Owned
<1>2. ASSUME NEW x \in Session, NEW l \in RequestedLifetime, NEW k \in RequestedKeepAlive,
             CreateSubscription(x, l, k)
      PROVE  Owned'
  <2> DEFINE n == uniqueSubscriptionId + 1
  <2>1. \A y \in Session : n \notin subscriptionMap[y]
    BY <1>2, CreateFresh
  <2>2. /\ uniqueSubscriptionId' = n
        /\ subscriptionMap' = [subscriptionMap EXCEPT ![x] = @ \cup {n}]
        /\ managers' = managers \cup {x}
    BY <1>2 DEF CreateSubscription
  <2>3. ASSUME NEW y \in Session, NEW s \in subscriptionMap'[y]
        PROVE  \/ s \in subscriptionMap[y] /\ s # n
               \/ s = n /\ y = x
    BY <2>1, <2>2 DEF TypeOK
  <2>4. uniqueSubscriptionId \in Nat /\ \A y \in Session : subscriptionMap[y] \subseteq Nat
    BY BoundsAssumption DEF TypeOK, Sub
  <2> HIDE DEF n
  <2>5. n = uniqueSubscriptionId + 1
    BY DEF n
  <2>6. ASSUME NEW y \in Session, NEW s \in subscriptionMap'[y]
        PROVE  y \in managers' /\ s <= uniqueSubscriptionId'
    BY <2>2, <2>3, <2>4, <2>5 DEF Owned
  <2>7. ASSUME NEW y \in Session, NEW z \in Session, NEW s \in subscriptionMap'[y],
               s \in subscriptionMap'[z]
        PROVE  y = z
    BY <2>3, <2>7 DEF Owned
  <2>8. QED
    BY <2>6, <2>7 DEF Owned
<1>3. ASSUME NEW x \in Session, NEW ids \in SUBSET Sub, DeleteSubscriptions(x, ids)
      PROVE  Owned'
  <2>1. Erase(x, subscriptionMap[x] \cap ids) /\ uniqueSubscriptionId' = uniqueSubscriptionId
    BY <1>3 DEF DeleteSubscriptions
  <2>2. ASSUME NEW y \in Session, NEW s \in subscriptionMap'[y]
        PROVE  s \in subscriptionMap[y] /\ s \notin subscriptionMap[x] \cap ids
    BY <2>1, EraseKeepsOthers
  <2>3. ASSUME NEW y \in Session, NEW s \in subscriptionMap'[y]
        PROVE  y \in managers'
    BY <1>3, <2>2 DEF DeleteSubscriptions, Owned
  <2>4. QED
    BY <2>1, <2>2, <2>3 DEF Owned
<1>4. ASSUME NEW x \in Session, NEW s \in Sub, PublishTimeout(x, s)
      PROVE  Owned'
  <2>1. UNCHANGED <<uniqueSubscriptionId, managers>> /\ s \in subscriptionMap[x]
    BY <1>4 DEF PublishTimeout
  <2>2. CASE subscriptionMap' = subscriptionMap
    BY <2>1, <2>2, <1>1 DEF managerVars
  <2>3. CASE Erase(x, {s})
    BY <2>1, <2>3, EraseKeepsOthers DEF Owned
  <2>4. QED
    BY <1>4, <2>2, <2>3
       DEF PublishTimeout, TickWithoutRequest, CountEvents, PublishData, PublishNothing
<1>5. ASSUME NEW x \in Session, NEW s \in Sub, DrainEvents(x, s) PROVE Owned'
  BY <1>5, <1>1 DEF DrainEvents
<1>6. ASSUME NEW s \in Sub, FireEvent(s) \/ QueueData(s) PROVE Owned'
  BY <1>6, <1>1 DEF FireEvent, QueueData
<1>7. ASSUME NEW s \in Sub, NEW e \in 0 .. MaxEvents, NEW d \in BOOLEAN,
             DeleteMonitoredItems(s, e, d)
      PROVE  Owned'
  BY <1>7, <1>1 DEF DeleteMonitoredItems
<1>8. ASSUME NEW x \in Session, NEW t \in Trx, NEW a \in Acks, Publish(x, t, a) PROVE Owned'
  BY <1>8, <1>1 DEF Publish
<1>9. ASSUME UNCHANGED vars PROVE Owned'
  BY <1>9, <1>1 DEF vars
<1>10. QED
  BY <1>2, <1>3, <1>4, <1>5, <1>6, <1>7, <1>8, <1>9 DEF Next, PublishRefused

-----------------------------------------------------------------------------
(***************************************************************************)
(* The lifetime counter.                                                   *)
(***************************************************************************)
LEMMA LifetimeStep ==
    ASSUME IndInv, [Next]_vars
    PROVE  LifetimeCounts'
<1> USE DEF IndInv
<1>1. ASSUME UNCHANGED <<subscriptionMap, lifetimeCount, lifetimeVars>> PROVE LifetimeCounts'
  BY <1>1 DEF LifetimeCounts, lifetimeVars
<1>2. ASSUME NEW x \in Session, NEW S \in SUBSET subscriptionMap[x], Erase(x, S)
      PROVE  LifetimeCounts'
  BY <1>2, EraseKeepsOthers DEF LifetimeCounts
<1>3. ASSUME NEW s \in Sub, RestartLifetime(s), UNCHANGED <<subscriptionMap, lifetimeCount>>
      PROVE  LifetimeCounts'
  <2> SUFFICES ASSUME NEW y \in Session, NEW r \in subscriptionMap[y]
               PROVE  /\ actLifetimeCount'[r] # 0
                      /\ idle'[r] + actLifetimeCount'[r] = lifetimeCount[r]
    BY <1>3 DEF LifetimeCounts
  <2>1. r \in Sub
    BY DEF TypeOK
  <2>2. actLifetimeCount[r] # 0 /\ idle[r] + actLifetimeCount[r] = lifetimeCount[r]
    BY DEF LifetimeCounts
  <2>3. lifetimeCount[r] \in UInt /\ idle[r] \in UInt /\ actLifetimeCount[r] \in UInt
    BY <2>1, FieldTypes
  <2>4. CASE r = s
    <3>1. actLifetimeCount'[r] = lifetimeCount[r] /\ idle'[r] = 0
      BY <1>3, <2>1, <2>4 DEF RestartLifetime, TypeOK
    <3>2. QED
      BY <3>1, <2>2, <2>3, UIntMaxAssumption DEF UInt
  <2>5. CASE r # s
    BY <1>3, <2>1, <2>2, <2>5 DEF RestartLifetime, TypeOK
  <2>6. QED
    BY <2>4, <2>5
<1>4. ASSUME NEW x \in Session, NEW s \in subscriptionMap[x], TickWithoutRequest(x, s)
      PROVE  LifetimeCounts'
  <2>1. CASE LifetimeOver(actLifetimeCount[s])
    BY <2>1, <1>2, <1>4 DEF TickWithoutRequest
  <2>2. CASE ~LifetimeOver(actLifetimeCount[s])
    <3>1. /\ actLifetimeCount' = [actLifetimeCount EXCEPT ![s] = Decrement(@)]
          /\ idle' = [idle EXCEPT ![s] = @ + 1]
          /\ UNCHANGED <<subscriptionMap, lifetimeCount>>
      BY <2>2, <1>4 DEF TickWithoutRequest, countVars
    <3> SUFFICES ASSUME NEW y \in Session, NEW r \in subscriptionMap[y]
                 PROVE  /\ actLifetimeCount'[r] # 0
                        /\ idle'[r] + actLifetimeCount'[r] = lifetimeCount[r]
      BY <3>1 DEF LifetimeCounts
    <3>2. r \in Sub
      BY DEF TypeOK
    <3>3. actLifetimeCount[r] # 0 /\ idle[r] + actLifetimeCount[r] = lifetimeCount[r]
      BY DEF LifetimeCounts
    <3>4. lifetimeCount[r] \in UInt /\ idle[r] \in UInt /\ actLifetimeCount[r] \in UInt
      BY <3>2, FieldTypes
    <3>5. CASE r = s
      <4>1. actLifetimeCount'[r] = Decrement(actLifetimeCount[r]) /\ idle'[r] = idle[r] + 1
        BY <3>1, <3>2, <3>5 DEF TypeOK
      <4>2. Decrement(actLifetimeCount[r]) # 0
        BY <2>2, <3>5 DEF LifetimeOver
      <4>3. QED
        BY <4>1, <4>2, <3>3, <3>4, UIntMaxAssumption DEF UInt, Decrement
    <3>6. CASE r # s
      BY <3>1, <3>2, <3>3, <3>6 DEF TypeOK
    <3>7. QED
      BY <3>5, <3>6
  <2>3. QED
    BY <2>1, <2>2
<1>5. ASSUME NEW x \in Session, NEW l \in RequestedLifetime, NEW k \in RequestedKeepAlive,
             CreateSubscription(x, l, k)
      PROVE  LifetimeCounts'
  <2> DEFINE n == uniqueSubscriptionId + 1
             m == AtLeast(l, minLifetimeCount)
  <2>1. n \in Sub /\ idle[n] = 0 /\ \A y \in Session : n \notin subscriptionMap[y]
    BY <1>5, CreateFresh
  <2>2. m \in UInt /\ m # 0
    BY CountTypes, RequestedAssumption DEF minLifetimeCount
  <2>3. /\ subscriptionMap' = [subscriptionMap EXCEPT ![x] = @ \cup {n}]
        /\ lifetimeCount' = [lifetimeCount EXCEPT ![n] = m]
        /\ actLifetimeCount' = [actLifetimeCount EXCEPT ![n] = m]
        /\ idle' = idle
    BY <1>5 DEF CreateSubscription
  <2> HIDE DEF n, m
  <2> SUFFICES ASSUME NEW y \in Session, NEW r \in subscriptionMap'[y]
               PROVE  /\ actLifetimeCount'[r] # 0
                      /\ idle'[r] + actLifetimeCount'[r] = lifetimeCount'[r]
    BY DEF LifetimeCounts
  <2>4. CASE r = n
    BY <2>1, <2>2, <2>3, <2>4, UIntMaxAssumption DEF TypeOK, UInt
  <2>5. CASE r # n
    <3>1. r \in subscriptionMap[y] /\ r \in Sub
      BY <2>3, <2>5 DEF TypeOK
    <3>2. QED
      BY <3>1, <2>3, <2>5 DEF TypeOK, LifetimeCounts
  <2>6. QED
    BY <2>4, <2>5
<1>6. ASSUME NEW x \in Session, NEW s \in Sub, PublishTimeout(x, s) PROVE LifetimeCounts'
  BY <1>6, <1>3, <1>4
     DEF PublishTimeout, CountEvents, PublishData, PublishNothing, countVars
<1>7. ASSUME NEW x \in Session, NEW ids \in SUBSET Sub, DeleteSubscriptions(x, ids)
      PROVE  LifetimeCounts'
  BY <1>7, <1>2 DEF DeleteSubscriptions
<1>8. ASSUME NEW x \in Session, NEW s \in Sub, DrainEvents(x, s) PROVE LifetimeCounts'
  BY <1>8, <1>1 DEF DrainEvents, managerVars, countVars
<1>9. ASSUME NEW s \in Sub, FireEvent(s) \/ QueueData(s) PROVE LifetimeCounts'
  BY <1>9, <1>1 DEF FireEvent, QueueData, managerVars, countVars
<1>10. ASSUME NEW s \in Sub, NEW e \in 0 .. MaxEvents, NEW d \in BOOLEAN,
              DeleteMonitoredItems(s, e, d)
       PROVE  LifetimeCounts'
  BY <1>10, <1>1 DEF DeleteMonitoredItems, managerVars, countVars
<1>11. ASSUME NEW x \in Session, NEW t \in Trx, NEW a \in Acks, Publish(x, t, a)
       PROVE  LifetimeCounts'
  BY <1>11, <1>1 DEF Publish, managerVars, countVars
<1>12. ASSUME UNCHANGED vars PROVE LifetimeCounts'
  BY <1>12, <1>1 DEF vars, managerVars, countVars
<1>13. QED
  BY <1>5, <1>6, <1>7, <1>8, <1>9, <1>10, <1>11, <1>12 DEF Next, PublishRefused

-----------------------------------------------------------------------------
(***************************************************************************)
(* The keepalive counter.  KeepaliveCount(s) is KeepaliveCounts for one    *)
(* subscription.                                                           *)
(***************************************************************************)
KeepaliveCount(s) ==
    /\ quiet[s] <= maxKeepAliveCount[s]
    /\ maxKeepAliveCount[s] # 0
    /\ ~attention[s] => /\ actMaxKeepAliveCount[s] # 0
                        /\ quiet[s] + actMaxKeepAliveCount[s] = maxKeepAliveCount[s]

LEMMA KeepaliveFrame ==
    ASSUME TypeOK, KeepaliveCounts, NEW s \in Sub,
           UNCHANGED <<subscriptionMap, maxKeepAliveCount>>,
           \A r \in Sub \ {s} : /\ actMaxKeepAliveCount'[r] = actMaxKeepAliveCount[r]
                                /\ quiet'[r] = quiet[r]
                                /\ attention'[r] = attention[r],
           (\E x \in Session : s \in subscriptionMap[x]) => KeepaliveCount(s)'
    PROVE  KeepaliveCounts'
<1> SUFFICES ASSUME NEW y \in Session, NEW r \in subscriptionMap[y]
             PROVE  KeepaliveCount(r)'
  BY DEF KeepaliveCounts, KeepaliveCount
<1>1. r \in Sub /\ KeepaliveCount(r)
  BY DEF TypeOK, KeepaliveCounts, KeepaliveCount
<1>2. CASE r = s
  BY <1>2
<1>3. CASE r # s
  BY <1>1, <1>3 DEF KeepaliveCount
<1>4. QED
  BY <1>2, <1>3

LEMMA RestartKeepaliveCounts ==
    ASSUME TypeOK, KeepaliveCounts, NEW x \in Session, NEW s \in subscriptionMap[x],
           RestartKeepalive(s), UNCHANGED <<subscriptionMap, maxKeepAliveCount>>
    PROVE  KeepaliveCounts'
<1>1. s \in Sub
  BY DEF TypeOK
<1>2. maxKeepAliveCount[s] \in UInt /\ maxKeepAliveCount[s] # 0
  BY <1>1, FieldTypes DEF KeepaliveCounts
<1>3. /\ actMaxKeepAliveCount'[s] = maxKeepAliveCount[s]
      /\ quiet'[s] = 0
      /\ ~attention'[s]
  BY <1>1 DEF TypeOK, RestartKeepalive
<1>4. KeepaliveCount(s)'
  BY <1>2, <1>3, UIntMaxAssumption DEF KeepaliveCount, UInt
<1>5. \A r \in Sub \ {s} : /\ actMaxKeepAliveCount'[r] = actMaxKeepAliveCount[r]
                           /\ quiet'[r] = quiet[r]
                           /\ attention'[r] = attention[r]
  BY DEF TypeOK, RestartKeepalive
<1>6. QED
  BY <1>1, <1>4, <1>5, KeepaliveFrame

(***************************************************************************)
(* A tick that sends nothing: the counter runs down while the ticks since  *)
(* the last response run up, unless attention is (now) called for.         *)
(***************************************************************************)
LEMMA QuietTickCounts ==
    ASSUME TypeOK, KeepaliveCounts, NEW x \in Session, NEW s \in subscriptionMap[x],
           QuietTick(s), UNCHANGED <<subscriptionMap, maxKeepAliveCount>>,
           NEW k, actMaxKeepAliveCount' = [actMaxKeepAliveCount EXCEPT ![s] = k],
           NEW a \in BOOLEAN, attention' = [attention EXCEPT ![s] = a],
           ~a => ~attention[s] /\ k = actMaxKeepAliveCount[s] - 1 /\ k # 0
    PROVE  KeepaliveCounts'
<1>1. s \in Sub
  BY DEF TypeOK
<1>2. /\ maxKeepAliveCount[s] \in UInt /\ quiet[s] \in UInt
      /\ actMaxKeepAliveCount[s] \in UInt
  BY <1>1, FieldTypes
<1>3. KeepaliveCount(s)
  BY DEF KeepaliveCounts, KeepaliveCount
<1>4. /\ actMaxKeepAliveCount'[s] = k
      /\ quiet'[s] = IF quiet[s] < maxKeepAliveCount[s] THEN quiet[s] + 1 ELSE quiet[s]
      /\ maxKeepAliveCount'[s] = maxKeepAliveCount[s]
  BY <1>1 DEF TypeOK, QuietTick
<1>5. attention'[s] = a
  BY <1>1 DEF TypeOK
<1>6. KeepaliveCount(s)'
  <2>1. CASE a
    <3>1. attention'[s]
      BY <2>1, <1>5, Zenon
    <3>2. quiet'[s] <= maxKeepAliveCount'[s] /\ maxKeepAliveCount'[s] # 0
      BY <1>2, <1>3, <1>4, UIntMaxAssumption DEF KeepaliveCount, UInt
    <3>3. QED
      BY <3>1, <3>2 DEF KeepaliveCount
  <2>2. CASE ~a
    <3>1. ~attention[s] /\ k = actMaxKeepAliveCount[s] - 1 /\ k # 0
      BY <2>2
    <3>2. QED
      BY <3>1, <1>2, <1>3, <1>4, UIntMaxAssumption DEF KeepaliveCount, UInt
  <2>3. QED
    BY <2>1, <2>2
<1>7. \A r \in Sub \ {s} : /\ actMaxKeepAliveCount'[r] = actMaxKeepAliveCount[r]
                           /\ quiet'[r] = quiet[r]
                           /\ attention'[r] = attention[r]
  BY DEF TypeOK, QuietTick
<1>8. QED
  BY <1>1, <1>6, <1>7, KeepaliveFrame

LEMMA KeepaliveStep ==
    ASSUME IndInv, [Next]_vars
    PROVE  KeepaliveCounts'
<1> USE DEF IndInv
<1>1. ASSUME UNCHANGED <<subscriptionMap, maxKeepAliveCount, keepaliveVars>>
      PROVE  KeepaliveCounts'
  BY <1>1 DEF KeepaliveCounts, keepaliveVars
<1>2. ASSUME NEW x \in Session, NEW S \in SUBSET subscriptionMap[x], Erase(x, S)
      PROVE  KeepaliveCounts'
  BY <1>2, EraseKeepsOthers DEF KeepaliveCounts
<1>3. ASSUME NEW x \in Session, NEW s \in subscriptionMap[x], TickWithoutRequest(x, s)
      PROVE  KeepaliveCounts'
  <2>1. CASE LifetimeOver(actLifetimeCount[s])
    BY <2>1, <1>2, <1>3 DEF TickWithoutRequest
  <2>2. CASE ~LifetimeOver(actLifetimeCount[s])
    <3> DEFINE c == actMaxKeepAliveCount[s]
               k == IF c = 0 THEN 0 ELSE c - 1
               a == attention[s] \/ c = 1
    <3>1. /\ actMaxKeepAliveCount' = [actMaxKeepAliveCount EXCEPT ![s] = k]
          /\ attention' = [attention EXCEPT ![s] = a]
          /\ QuietTick(s)
          /\ UNCHANGED <<subscriptionMap, maxKeepAliveCount>>
      BY <2>2, <1>3 DEF TickWithoutRequest, countVars
    <3>2. s \in Sub
      BY DEF TypeOK
    <3>3. a \in BOOLEAN /\ c \in UInt
      BY <3>2, FieldTypes DEF TypeOK
    <3>4. ~a => ~attention[s] /\ k = c - 1 /\ k # 0
      <4>1. ~attention[s] => c # 0
        BY DEF KeepaliveCounts
      <4>2. QED
        BY <3>3, <4>1, UIntMaxAssumption DEF UInt
    <3> HIDE DEF k, a
    <3>5. QED
      BY <3>1, <3>3, <3>4, QuietTickCounts
  <2>3. QED
    BY <2>1, <2>2
<1>4. ASSUME NEW x \in Session, NEW s \in subscriptionMap[x], PublishNothing(x, s)
      PROVE  KeepaliveCounts'
  <2>1. CASE KeepaliveDue(actMaxKeepAliveCount[s])
    BY <2>1, <1>4, RestartKeepaliveCounts DEF PublishNothing, countVars
  <2>2. CASE ~KeepaliveDue(actMaxKeepAliveCount[s])
    <3> DEFINE c == actMaxKeepAliveCount[s]
               k == Decrement(c)
               a == attention[s]
    <3>1. s \in Sub
      BY DEF TypeOK
    <3>2. a \in BOOLEAN /\ c \in UInt
      BY <3>1, FieldTypes DEF TypeOK
    <3>3. /\ actMaxKeepAliveCount' = [actMaxKeepAliveCount EXCEPT ![s] = k]
          /\ attention' = attention
          /\ QuietTick(s)
          /\ UNCHANGED <<subscriptionMap, maxKeepAliveCount>>
      BY <2>2, <1>4 DEF PublishNothing, countVars
    <3>4. attention' = [attention EXCEPT ![s] = a]
      BY <3>1, <3>3 DEF TypeOK
    <3>5. ~a => k = c - 1 /\ k # 0
      <4>1. ~a => c # 0
        BY DEF KeepaliveCounts
      <4>2. k # 0
        BY <2>2 DEF KeepaliveDue
      <4>3. QED
        BY <4>1, <4>2 DEF Decrement
    <3> HIDE DEF k
    <3>6. QED
      BY <3>2, <3>3, <3>4, <3>5, QuietTickCounts
  <2>3. QED
    BY <2>1, <2>2
<1>5. ASSUME NEW x \in Session, NEW s \in Sub, DrainEvents(x, s) PROVE KeepaliveCounts'
  <2>1. s \in subscriptionMap[x] /\ UNCHANGED <<subscriptionMap, maxKeepAliveCount>>
    BY <1>5 DEF DrainEvents, managerVars, countVars
  <2>2. CASE events[s] > publishing.events
    <3>1. /\ actMaxKeepAliveCount' = [actMaxKeepAliveCount EXCEPT ![s] = maxKeepAliveCount[s]]
          /\ attention' = [attention EXCEPT ![s] = TRUE]
          /\ QuietTick(s)
      BY <1>5, <2>2 DEF DrainEvents
    <3>2. QED
      BY <2>1, <3>1, QuietTickCounts
  <2>3. CASE ~(events[s] > publishing.events)
    BY <1>5, <2>1, <2>3, RestartKeepaliveCounts DEF DrainEvents
  <2>4. QED
    BY <2>2, <2>3
<1>6. ASSUME NEW x \in Session, NEW l \in RequestedLifetime, NEW k \in RequestedKeepAlive,
             CreateSubscription(x, l, k)
      PROVE  KeepaliveCounts'
  <2> DEFINE n == uniqueSubscriptionId + 1
             m == AtLeast(k, minMaxKeepAliveCount)
  <2>1. n \in Sub /\ quiet[n] = 0 /\ ~attention[n]
    BY <1>6, CreateFresh
  <2>2. m \in UInt /\ m # 0
    BY CountTypes, RequestedAssumption DEF minMaxKeepAliveCount
  <2>3. /\ subscriptionMap' = [subscriptionMap EXCEPT ![x] = @ \cup {n}]
        /\ maxKeepAliveCount' = [maxKeepAliveCount EXCEPT ![n] = m]
        /\ actMaxKeepAliveCount' = [actMaxKeepAliveCount EXCEPT ![n] = m]
        /\ quiet' = quiet /\ attention' = attention
    BY <1>6 DEF CreateSubscription
  <2> HIDE DEF n, m
  <2> SUFFICES ASSUME NEW y \in Session, NEW r \in subscriptionMap'[y]
               PROVE  KeepaliveCount(r)'
    BY DEF KeepaliveCounts, KeepaliveCount
  <2>4. CASE r = n
    <3>1. maxKeepAliveCount'[r] = m /\ actMaxKeepAliveCount'[r] = m /\ quiet'[r] = 0
      BY <2>1, <2>3, <2>4 DEF TypeOK
    <3>2. QED
      BY <3>1, <2>2, UIntMaxAssumption DEF UInt, KeepaliveCount
  <2>5. CASE r # n
    <3>1. r \in subscriptionMap[y] /\ r \in Sub
      BY <2>3, <2>5 DEF TypeOK
    <3>2. /\ maxKeepAliveCount'[r] = maxKeepAliveCount[r]
          /\ actMaxKeepAliveCount'[r] = actMaxKeepAliveCount[r]
      BY <3>1, <2>3, <2>5 DEF TypeOK
    <3>3. KeepaliveCount(r)
      BY <3>1 DEF KeepaliveCounts, KeepaliveCount
    <3>4. QED
      BY <2>3, <3>2, <3>3 DEF KeepaliveCount
  <2>6. QED
    BY <2>4, <2>5
<1>7. ASSUME NEW x \in Session, NEW s \in Sub, PublishTimeout(x, s) PROVE KeepaliveCounts'
  <2>1. s \in subscriptionMap[x]
    BY <1>7 DEF PublishTimeout
  <2>2. CASE CountEvents(x, s)
    BY <2>2, <1>1 DEF CountEvents, countVars
  <2>3. CASE PublishData(x, s)
    BY <2>1, <2>3, RestartKeepaliveCounts DEF PublishData, countVars
  <2>4. QED
    BY <1>7, <2>1, <2>2, <2>3, <1>3, <1>4 DEF PublishTimeout
<1>8. ASSUME NEW x \in Session, NEW ids \in SUBSET Sub, DeleteSubscriptions(x, ids)
      PROVE  KeepaliveCounts'
  BY <1>8, <1>2 DEF DeleteSubscriptions
<1>9. ASSUME NEW s \in Sub, FireEvent(s) \/ QueueData(s) PROVE KeepaliveCounts'
  BY <1>9, <1>1 DEF FireEvent, QueueData, managerVars, countVars
<1>10. ASSUME NEW s \in Sub, NEW e \in 0 .. MaxEvents, NEW d \in BOOLEAN,
              DeleteMonitoredItems(s, e, d)
       PROVE  KeepaliveCounts'
  BY <1>10, <1>1 DEF DeleteMonitoredItems, managerVars, countVars
<1>11. ASSUME NEW x \in Session, NEW t \in Trx, NEW a \in Acks, Publish(x, t, a)
       PROVE  KeepaliveCounts'
  BY <1>11, <1>1 DEF Publish, managerVars, countVars
<1>12. ASSUME UNCHANGED vars PROVE KeepaliveCounts'
  BY <1>12, <1>1 DEF vars, managerVars, countVars
<1>13. QED
  BY <1>5, <1>6, <1>7, <1>8, <1>9, <1>10, <1>11, <1>12 DEF Next, PublishRefused

-----------------------------------------------------------------------------
(***************************************************************************)
(* The sequence numbers.  A step changes those of one subscription s, and  *)
(* what it expects next stays the number that comes next.                  *)
(***************************************************************************)
LEMMA ContinuousFrame ==
    ASSUME TypeOK, Continuous, NEW s \in Sub, UNCHANGED subscriptionMap,
           \A r \in Sub \ {s} : /\ ack'[r] = ack[r]
                                /\ expected'[r] = expected[r]
                                /\ overrun'[r] = overrun[r],
           (\E x \in Session : s \in subscriptionMap[x]) /\ ~overrun'[s] =>
               expected'[s] = NextSequenceNumber(ack'[s])
    PROVE  Continuous'
BY DEF TypeOK, Continuous, NextSequenceNumber

LEMMA SentContinuous ==
    ASSUME TypeOK, Continuous, NEW s \in Sub, UNCHANGED <<subscriptionMap, overrun>>,
           NumberNotification(s),
           expected' = [expected EXCEPT ![s] = Successor(NextSequenceNumber(ack[s]))]
    PROVE  Continuous'
<1>1. ack[s] \in AckManager /\ 0 \in UInt
  BY UIntMaxAssumption DEF TypeOK, UInt
<1>2. NextSequenceNumber(Notify(ack[s])) = Successor(NextSequenceNumber(ack[s]))
  BY <1>1, AckNumbers
<1>3. ack'[s] = Notify(ack[s]) /\ expected'[s] = Successor(NextSequenceNumber(ack[s]))
  BY DEF TypeOK, NumberNotification
<1>4. \A r \in Sub \ {s} : ack'[r] = ack[r] /\ expected'[r] = expected[r]
  BY DEF TypeOK, NumberNotification
<1>5. QED
  BY <1>2, <1>3, <1>4, ContinuousFrame

LEMMA ContinuousStep ==
    ASSUME IndInv, [Next]_vars
    PROVE  Continuous'
<1> USE DEF IndInv
<1>1. ASSUME UNCHANGED <<subscriptionMap, numberVars>> PROVE Continuous'
  BY <1>1 DEF Continuous, numberVars, NextSequenceNumber
<1>2. ASSUME NEW x \in Session, NEW S \in SUBSET subscriptionMap[x], Erase(x, S)
      PROVE  Continuous'
  BY <1>2, EraseKeepsOthers DEF Continuous, NextSequenceNumber
<1>3. ASSUME NEW x \in Session, NEW s \in Sub, PublishTimeout(x, s) PROVE Continuous'
  <2>1. s \in subscriptionMap[x]
    BY <1>3 DEF PublishTimeout
  <2>2. CASE TickWithoutRequest(x, s)
    <3>1. CASE LifetimeOver(actLifetimeCount[s])
      BY <2>1, <2>2, <3>1, <1>2 DEF TickWithoutRequest
    <3>2. CASE ~LifetimeOver(actLifetimeCount[s])
      BY <2>2, <3>2, <1>1 DEF TickWithoutRequest
    <3>3. QED
      BY <3>1, <3>2
  <2>3. CASE CountEvents(x, s)
    BY <2>3, <1>1 DEF CountEvents
  <2>4. CASE PublishData(x, s)
    BY <2>4, SentContinuous DEF PublishData
  <2>5. CASE PublishNothing(x, s)
    <3>1. CASE KeepaliveDue(actMaxKeepAliveCount[s])
      <4>1. /\ ack' = [ack EXCEPT ![s] = TakeSequenceNumber(@, TRUE)]
            /\ UNCHANGED <<subscriptionMap, expected, overrun>>
        BY <2>5, <3>1 DEF PublishNothing
      <4>2. ack[s] \in AckManager /\ 0 \in UInt
        BY UIntMaxAssumption DEF TypeOK, UInt
      <4>3. NextSequenceNumber(TakeSequenceNumber(ack[s], TRUE)) = NextSequenceNumber(ack[s])
        BY <4>2, AckNumbers
      <4>4. /\ ack'[s] = TakeSequenceNumber(ack[s], TRUE)
            /\ \A r \in Sub \ {s} : ack'[r] = ack[r]
        BY <4>1 DEF TypeOK
      <4>5. ~overrun[s] => expected[s] = NextSequenceNumber(ack[s])
        BY <2>1 DEF Continuous
      <4>6. QED
        BY <4>1, <4>3, <4>4, <4>5, ContinuousFrame
    <3>2. CASE ~KeepaliveDue(actMaxKeepAliveCount[s])
      BY <2>5, <3>2, <1>1 DEF PublishNothing, numberVars
    <3>3. QED
      BY <3>1, <3>2
  <2>6. QED
    BY <1>3, <2>2, <2>3, <2>4, <2>5 DEF PublishTimeout
<1>4. ASSUME NEW x \in Session, NEW s \in Sub, DrainEvents(x, s) PROVE Continuous'
  <2>1. subscriptionMap' = subscriptionMap /\ NumberNotification(s)
    BY <1>4 DEF DrainEvents, managerVars
  <2>2. CASE events[s] > publishing.events
    <3>1. overrun' = [overrun EXCEPT ![s] = TRUE] /\ expected' = expected
      BY <1>4, <2>2 DEF DrainEvents
    <3>2. overrun'[s] /\ \A r \in Sub \ {s} : overrun'[r] = overrun[r]
      BY <3>1 DEF TypeOK
    <3>3. \A r \in Sub \ {s} : ack'[r] = ack[r]
      BY <2>1 DEF TypeOK, NumberNotification
    <3>4. QED
      BY <2>1, <3>1, <3>2, <3>3, ContinuousFrame
  <2>3. CASE ~(events[s] > publishing.events)
    BY <1>4, <2>1, <2>3, SentContinuous DEF DrainEvents
  <2>4. QED
    BY <2>2, <2>3
<1>5. ASSUME NEW x \in Session, NEW t \in Trx, NEW a \in Acks, Publish(x, t, a)
      PROVE  Continuous'
  <2>1. UNCHANGED <<subscriptionMap, expected, overrun>>
    BY <1>5 DEF Publish, managerVars
  <2>2. ASSUME NEW s \in Sub PROVE NextSequenceNumber(ack'[s]) = NextSequenceNumber(ack[s])
    <3>1. a # <<>> => a[2] \in UInt
      BY UIntMaxAssumption DEF Acks, UInt
    <3>2. a # <<>> =>
            NextSequenceNumber(DeleteNotification(ack[s], a[2])) = NextSequenceNumber(ack[s])
      BY <3>1, AckNumbers DEF TypeOK
    <3>3. \/ ack'[s] = ack[s]
          \/ a # <<>> /\ ack'[s] = DeleteNotification(ack[s], a[2])
      BY <1>5 DEF Publish
    <3>4. QED
      BY <3>2, <3>3
  <2>3. QED
    BY <2>1, <2>2 DEF TypeOK, Continuous
<1>6. ASSUME NEW x \in Session, NEW l \in RequestedLifetime, NEW k \in RequestedKeepAlive,
             CreateSubscription(x, l, k)
      PROVE  Continuous'
  <2> DEFINE n == uniqueSubscriptionId + 1
  <2>1. expected[n] = 1 /\ ack[n] = NewAckManager
    BY <1>6, CreateFresh
  <2>2. NextSequenceNumber(NewAckManager) = 1
    BY UIntMaxAssumption DEF NextSequenceNumber, NewAckManager, Successor
  <2>3. subscriptionMap' = [subscriptionMap EXCEPT ![x] = @ \cup {n}] /\ UNCHANGED numberVars
    BY <1>6 DEF CreateSubscription
  <2> HIDE DEF n
  <2>4. ASSUME NEW y \in Session, NEW s \in subscriptionMap'[y]
        PROVE  s \in subscriptionMap[y] \/ s = n
    BY <2>3 DEF TypeOK
  <2>5. QED
    BY <2>1, <2>2, <2>3, <2>4 DEF Continuous, numberVars
<1>7. ASSUME NEW x \in Session, NEW ids \in SUBSET Sub, DeleteSubscriptions(x, ids)
      PROVE  Continuous'
  BY <1>7, <1>2 DEF DeleteSubscriptions
<1>8. ASSUME NEW s \in Sub, FireEvent(s) \/ QueueData(s) PROVE Continuous'
  BY <1>8, <1>1 DEF FireEvent, QueueData, managerVars
<1>9. ASSUME NEW s \in Sub, NEW e \in 0 .. MaxEvents, NEW d \in BOOLEAN,
             DeleteMonitoredItems(s, e, d)
      PROVE  Continuous'
  BY <1>9, <1>1 DEF DeleteMonitoredItems, managerVars
<1>10. ASSUME UNCHANGED vars PROVE Continuous'
  BY <1>10, <1>1 DEF vars, managerVars
<1>11. QED
  BY <1>3, <1>4, <1>5, <1>6, <1>7, <1>8, <1>9, <1>10 DEF Next, PublishRefused

-----------------------------------------------------------------------------
(***************************************************************************)
(* Unused ids, and the publish() call in progress.                         *)
(***************************************************************************)
LEMMA UnusedFrame ==
    ASSUME TypeOK, Unused, UNCHANGED subscriptionMap, NEW s \in Sub,
           \E x \in Session : s \in subscriptionMap[x],
           \A r \in Sub \ {s} :
              /\ ack'[r] = ack[r] /\ expected'[r] = expected[r] /\ overrun'[r] = overrun[r]
              /\ events'[r] = events[r] /\ quiet'[r] = quiet[r]
              /\ attention'[r] = attention[r] /\ idle'[r] = idle[r]
    PROVE  Unused'
BY DEF Unused

LEMMA UnusedStep ==
    ASSUME IndInv, [Next]_vars
    PROVE  Unused'
<1> USE DEF IndInv
<1>1. ASSUME NEW x \in Session, NEW s \in Sub, PublishTimeout(x, s) PROVE Unused'
  <2>1. s \in subscriptionMap[x]
    BY <1>1 DEF PublishTimeout
  <2> DEFINE Others == \A r \in Sub \ {s} :
        /\ ack'[r] = ack[r] /\ expected'[r] = expected[r] /\ overrun'[r] = overrun[r]
        /\ events'[r] = events[r] /\ quiet'[r] = quiet[r]
        /\ attention'[r] = attention[r] /\ idle'[r] = idle[r]
  <2>2. CASE TickWithoutRequest(x, s)
    <3>1. CASE LifetimeOver(actLifetimeCount[s])
      BY <2>1, <2>2, <3>1, EraseKeepsUnused DEF TickWithoutRequest
    <3>2. CASE ~LifetimeOver(actLifetimeCount[s])
      <4>1. Others /\ UNCHANGED subscriptionMap
        BY <2>2, <3>2 DEF TypeOK, TickWithoutRequest, QuietTick, numberVars
      <4>2. QED
        BY <2>1, <4>1, UnusedFrame
    <3>3. QED
      BY <3>1, <3>2
  <2>3. CASE CountEvents(x, s)
    <3>1. Others /\ UNCHANGED subscriptionMap
      BY <2>3 DEF TypeOK, CountEvents, RestartLifetime, numberVars, keepaliveVars
    <3>2. QED
      BY <2>1, <3>1, UnusedFrame
  <2>4. CASE PublishData(x, s)
    <3>1. Others /\ UNCHANGED subscriptionMap
      BY <2>4 DEF TypeOK, PublishData, RestartLifetime, RestartKeepalive, NumberNotification
    <3>2. QED
      BY <2>1, <3>1, UnusedFrame
  <2>5. CASE PublishNothing(x, s)
    <3>1. Others /\ UNCHANGED subscriptionMap
      <4>1. UNCHANGED <<subscriptionMap, expected, overrun, events>> /\ RestartLifetime(s)
        BY <2>5 DEF PublishNothing
      <4>2. \A r \in Sub \ {s} : idle'[r] = idle[r]
        BY <4>1 DEF TypeOK, RestartLifetime
      <4>3. \A r \in Sub \ {s} :
               ack'[r] = ack[r] /\ quiet'[r] = quiet[r] /\ attention'[r] = attention[r]
        <5>1. CASE KeepaliveDue(actMaxKeepAliveCount[s])
          BY <2>5, <5>1 DEF TypeOK, PublishNothing, RestartKeepalive
        <5>2. CASE ~KeepaliveDue(actMaxKeepAliveCount[s])
          BY <2>5, <5>2 DEF TypeOK, PublishNothing, QuietTick
        <5>3. QED
          BY <5>1, <5>2
      <4>4. QED
        BY <4>1, <4>2, <4>3
    <3>2. QED
      BY <2>1, <3>1, UnusedFrame
  <2>6. QED
    BY <1>1, <2>2, <2>3, <2>4, <2>5 DEF PublishTimeout
<1>2. ASSUME NEW x \in Session, NEW s \in Sub, DrainEvents(x, s) PROVE Unused'
  <2> DEFINE Others == \A r \in Sub \ {s} :
        /\ ack'[r] = ack[r] /\ expected'[r] = expected[r] /\ overrun'[r] = overrun[r]
        /\ events'[r] = events[r] /\ quiet'[r] = quiet[r]
        /\ attention'[r] = attention[r] /\ idle'[r] = idle[r]
  <2>1. s \in subscriptionMap[x] /\ UNCHANGED subscriptionMap
    BY <1>2 DEF DrainEvents, managerVars
  <2>2. Others
    BY <1>2
       DEF TypeOK, DrainEvents, RestartKeepalive, QuietTick, NumberNotification, lifetimeVars
  <2>3. QED
    BY <2>1, <2>2, UnusedFrame
<1>3. ASSUME NEW x \in Session, NEW t \in Trx, NEW a \in Acks, Publish(x, t, a) PROVE Unused'
  BY <1>3 DEF Unused, TypeOK, Publish, managerVars, lifetimeVars, keepaliveVars
<1>4. ASSUME NEW x \in Session, NEW l \in RequestedLifetime, NEW k \in RequestedKeepAlive,
             CreateSubscription(x, l, k)
      PROVE  Unused'
  BY <1>4 DEF Unused, TypeOK, CreateSubscription, numberVars
<1>5. ASSUME NEW x \in Session, NEW ids \in SUBSET Sub, DeleteSubscriptions(x, ids)
      PROVE  Unused'
  BY <1>5, EraseKeepsUnused DEF DeleteSubscriptions
<1>6. ASSUME NEW s \in Sub, FireEvent(s) PROVE Unused'
  BY <1>6 DEF Unused, TypeOK, FireEvent, Live, managerVars, lifetimeVars, keepaliveVars, numberVars
<1>7. ASSUME NEW s \in Sub, QueueData(s) PROVE Unused'
  BY <1>7 DEF Unused, QueueData, managerVars, lifetimeVars, keepaliveVars, numberVars
<1>8. ASSUME NEW s \in Sub, NEW e \in 0 .. MaxEvents, NEW d \in BOOLEAN,
             DeleteMonitoredItems(s, e, d)
      PROVE  Unused'
  BY <1>8 DEF Unused, TypeOK, DeleteMonitoredItems, Live, managerVars, lifetimeVars,
              keepaliveVars, numberVars
<1>9. ASSUME UNCHANGED vars PROVE Unused'
  BY <1>9 DEF Unused, vars, managerVars, lifetimeVars, keepaliveVars, numberVars
<1>10. QED
  BY <1>1, <1>2, <1>3, <1>4, <1>5, <1>6, <1>7, <1>8, <1>9 DEF Next, PublishRefused

LEMMA PublishingStep ==
    ASSUME IndInv, [Next]_vars
    PROVE  PublishingOK'
<1> USE DEF IndInv
<1>1. ASSUME publishing' = NotPublishing PROVE PublishingOK'
  BY <1>1 DEF PublishingOK, NotPublishing
<1>2. ASSUME NEW x \in Session, NEW s \in Sub, PublishTimeout(x, s) PROVE PublishingOK'
  <2>1. CASE CountEvents(x, s)
    <3>1. /\ publishing' = [sub |-> s, events |-> events[s]]
          /\ UNCHANGED <<subscriptionMap, publishList, events>>
          /\ publishList[x] # <<>> /\ s \in subscriptionMap[x]
      BY <2>1, <1>2 DEF CountEvents, PublishTimeout, requestVars
    <3>2. events[s] \in Nat
      BY DEF TypeOK
    <3>3. QED
      BY <3>1, <3>2 DEF PublishingOK
  <2>2. CASE ~CountEvents(x, s)
    BY <2>2, <1>1, <1>2
       DEF PublishTimeout, TickWithoutRequest, PublishData, PublishNothing, IOThreadIdle
  <2>3. QED
    BY <2>1, <2>2
<1>3. ASSUME NEW s \in Sub, FireEvent(s) PROVE PublishingOK'
  <2>1. UNCHANGED <<subscriptionMap, publishList, publishing>>
    BY <1>3 DEF FireEvent, managerVars, requestVars
  <2>2. \A r \in Sub : events'[r] >= events[r]
    BY <1>3 DEF FireEvent, TypeOK
  <2>3. ASSUME publishing # NotPublishing, NEW x \in Session,
               publishing.sub \in subscriptionMap[x],
               publishing.events <= events[publishing.sub], publishList[x] # <<>>
        PROVE  PublishingOK'
    <3>1. /\ publishing.sub \in Sub /\ publishing.events \in Nat
          /\ events[publishing.sub] \in Nat /\ events'[publishing.sub] \in Nat
      BY <2>3, TypeStep DEF TypeOK
    <3>2. publishing.events <= events'[publishing.sub]
      BY <2>2, <2>3, <3>1
    <3>3. QED
      BY <2>1, <2>3, <3>2 DEF PublishingOK
  <2>4. QED
    BY <2>1, <2>3 DEF PublishingOK
<1>4. ASSUME UNCHANGED vars PROVE PublishingOK'
  BY <1>4 DEF PublishingOK, vars, managerVars, requestVars
<1>5. ASSUME NEW x \in Session, NEW s \in Sub, DrainEvents(x, s) PROVE PublishingOK'
  BY <1>5, <1>1 DEF DrainEvents
<1>6. ASSUME NEW x \in Session, NEW l \in RequestedLifetime, NEW k \in RequestedKeepAlive,
             CreateSubscription(x, l, k)
      PROVE  PublishingOK'
  BY <1>6, <1>1 DEF CreateSubscription, IOThreadIdle
<1>7. ASSUME NEW x \in Session, NEW ids \in SUBSET Sub, DeleteSubscriptions(x, ids)
      PROVE  PublishingOK'
  BY <1>7, <1>1 DEF DeleteSubscriptions, IOThreadIdle
<1>8. ASSUME NEW x \in Session, NEW t \in Trx, NEW a \in Acks, Publish(x, t, a)
      PROVE  PublishingOK'
  BY <1>8, <1>1 DEF Publish, IOThreadIdle
<1>9. ASSUME NEW s \in Sub, QueueData(s) PROVE PublishingOK'
  BY <1>9, <1>1 DEF QueueData, IOThreadIdle
<1>10. ASSUME NEW s \in Sub, NEW e \in 0 .. MaxEvents, NEW d \in BOOLEAN,
              DeleteMonitoredItems(s, e, d)
       PROVE  PublishingOK'
  BY <1>10, <1>1 DEF DeleteMonitoredItems, IOThreadIdle
<1>11. QED
  BY <1>2, <1>3, <1>4, <1>5, <1>6, <1>7, <1>8, <1>9, <1>10 DEF Next, PublishRefused

-----------------------------------------------------------------------------
LEMMA InitIndInv == Init => IndInv
<1> SUFFICES ASSUME Init PROVE IndInv
  OBVIOUS
<1>1. TypeOK
  <2>1. 0 \in UInt /\ 1 \in UInt
    BY UIntMaxAssumption DEF UInt
  <2>2. NewAckManager \in AckManager
    BY <2>1 DEF NewAckManager, AckManager
  <2>3. uniqueSubscriptionId \in 0 .. MaxSubscriptions
    BY BoundsAssumption DEF Init
  <2>4. publishList \in [Session -> Seq(Trx)]
    BY DEF Init
  <2>5. publishing \in [sub: Sub \cup {0}, events: Nat]
    BY DEF Init, NotPublishing
  <2>6. QED
    BY <2>1, <2>2, <2>3, <2>4, <2>5 DEF Init, TypeOK
<1>2. Owned /\ LifetimeCounts /\ KeepaliveCounts /\ Continuous
  BY DEF Init, Owned, LifetimeCounts, KeepaliveCounts, Continuous
<1>3. Unused /\ PublishingOK
  BY DEF Init, Unused, PublishingOK
<1>4. RequestsAnsweredOnce
  BY NoSessionAssumption DEF Init, RequestsAnsweredOnce, Range
<1>5. QED
  BY <1>1, <1>2, <1>3, <1>4 DEF IndInv

(***************************************************************************)
(* The inductive invariant holds in every reachable state.                 *)
(***************************************************************************)
THEOREM Inductive == Spec => []IndInv
<1>1. IndInv /\ [Next]_vars => IndInv'
  BY TypeStep, OwnedStep, UnusedStep, LifetimeStep, KeepaliveStep, PublishingStep,
     RequestsStep, ContinuousStep DEF IndInv
<1>2. QED
  BY InitIndInv, <1>1, PTL DEF Spec

(***************************************************************************)
(* Every counter stays a uint32: in particular the count of idle ticks     *)
(* never passes lifetimeCount, and publish() never takes more events from  *)
(* the queues than they hold.                                              *)
(***************************************************************************)
THEOREM TypeCorrect == Spec => []TypeOK
<1>1. IndInv => TypeOK
  BY DEF IndInv
<1>2. QED
  BY Inductive, <1>1, PTL

(***************************************************************************)
(* No publish request is answered twice, answered to another session or    *)
(* lost, however many sessions, subscriptions and requests there are.      *)
(***************************************************************************)
THEOREM RequestsOnce == Spec => []RequestsAnsweredOnce
<1>1. IndInv => RequestsAnsweredOnce
  BY DEF IndInv
<1>2. QED
  BY Inductive, <1>1, PTL

(***************************************************************************)
(* Without an overrun a client sees consecutive sequence numbers, across   *)
(* keepalives and the wrap of the counter.                                 *)
(***************************************************************************)
THEOREM NumbersContinuous == Spec => []SequenceContinuous
<1>1. IndInv => SequenceContinuous
  BY DEF IndInv, Continuous, SequenceContinuous, Live
<1>2. QED
  BY Inductive, <1>1, PTL

(***************************************************************************)
(* A subscription answers within maxKeepAliveCount ticks unless publish()  *)
(* has reported NeedAttention.                                             *)
(***************************************************************************)
THEOREM KeepaliveTimely == Spec => []KeepaliveInTime
<1>1. IndInv => KeepaliveInTime
  <2> SUFFICES ASSUME IndInv, NEW x \in Session, NEW s \in Sub, s \in subscriptionMap[x],
                      ~attention[s]
               PROVE  quiet[s] < maxKeepAliveCount[s]
    BY DEF KeepaliveInTime, Live
  <2>1. actMaxKeepAliveCount[s] # 0
        /\ quiet[s] + actMaxKeepAliveCount[s] = maxKeepAliveCount[s]
    BY DEF IndInv, KeepaliveCounts
  <2>2. /\ quiet[s] \in UInt /\ actMaxKeepAliveCount[s] \in UInt
        /\ maxKeepAliveCount[s] \in UInt
    BY FieldTypes DEF IndInv
  <2>3. QED
    BY <2>1, <2>2, UIntMaxAssumption DEF UInt
<1>2. QED
  BY Inductive, <1>1, PTL

(***************************************************************************)
(* A timer tick reclaims a subscription only after lifetimeCount ticks in  *)
(* a row without a publish request.                                        *)
(***************************************************************************)
THEOREM LifetimeKept == Spec => TimeoutOnlyWhenStarved
<1>1. ASSUME IndInv, NEW x \in Session, NEW s \in Sub,
             PublishTimeout(x, s), s \notin subscriptionMap'[x]
      PROVE  publishList[x] = <<>> /\ idle[s] + 1 = lifetimeCount[s]
  <2>1. s \in subscriptionMap[x]
    BY <1>1 DEF PublishTimeout
  <2>2. TickWithoutRequest(x, s)
    BY <1>1, <2>1 DEF PublishTimeout, CountEvents, PublishData, PublishNothing
  <2>3. publishList[x] = <<>> /\ LifetimeOver(actLifetimeCount[s])
    BY <1>1, <2>1, <2>2 DEF TickWithoutRequest
  <2>4. /\ actLifetimeCount[s] # 0
        /\ idle[s] + actLifetimeCount[s] = lifetimeCount[s]
    BY <1>1, <2>1 DEF IndInv, LifetimeCounts
  <2>5. actLifetimeCount[s] \in UInt /\ idle[s] \in UInt
    BY <1>1, FieldTypes DEF IndInv
  <2>6. actLifetimeCount[s] = 1
    BY <2>3, <2>4, <2>5, UIntMaxAssumption DEF LifetimeOver, Decrement, UInt
  <2>7. QED
    BY <2>3, <2>4, <2>6
<1>2. IndInv /\ [Next]_vars => [StarvedTimeout]_vars
  BY <1>1 DEF StarvedTimeout
<1>3. QED
  BY Inductive, <1>2, PTL DEF Spec, TimeoutOnlyWhenStarved

-----------------------------------------------------------------------------
(***************************************************************************)
(* The list of unacknowledged notifications.  What AckListOrdered says of  *)
(* one AckManager, and of all of them, used or not.                        *)
(***************************************************************************)
Bounded(list) == MaxListSize # 0 => Len(list) <= MaxListSize

Ascending(list) == \A i, j \in 1 .. Len(list) : i < j => list[i] < list[j]

Below(list, n) == \A i \in 1 .. Len(list) : list[i] < n

\* All numbers in the list have been given out, and one that a keepalive has
\* announced is not in it yet.
Ordered(a) ==
    /\ Ascending(a.list)
    /\ IF a.keepalive THEN Below(a.list, a.sequenceNumber)
                      ELSE \A i \in 1 .. Len(a.list) : a.list[i] <= a.sequenceNumber

ListsOrdered == \A s \in Sub : Bounded(ack[s].list) /\ (~wrapped[s] => Ordered(ack[s]))

LEMMA AckFields ==
    ASSUME NEW a \in AckManager
    PROVE  /\ a.sequenceNumber \in UInt /\ a.keepalive \in BOOLEAN /\ a.list \in Seq(UInt)
           /\ UInt \subseteq Nat /\ Len(a.list) \in Nat
           /\ \A i \in 1 .. Len(a.list) : a.list[i] \in Nat
<1>1. a.sequenceNumber \in UInt /\ a.keepalive \in BOOLEAN /\ a.list \in Seq(UInt)
  BY DEF AckManager
<1>2. UInt \subseteq Nat
  BY UIntMaxAssumption DEF UInt
<1> DEFINE list == a.list
<1>3. list \in Seq(UInt)
  BY <1>1
<1> HIDE DEF list
<1>4. Len(list) \in Nat /\ \A i \in 1 .. Len(list) : list[i] \in UInt
  BY <1>3
<1>5. Len(list) \in Nat /\ \A i \in 1 .. Len(list) : list[i] \in Nat
  BY <1>2, <1>4
<1>6. QED
  BY <1>1, <1>2, <1>5 DEF list

\* A number that does not wrap is above all those in the list.
LEMMA NextAbove ==
    ASSUME NEW a \in AckManager, Ordered(a), ~Wraps(a)
    PROVE  NextSequenceNumber(a) \in Nat /\ Below(a.list, NextSequenceNumber(a))
<1>1. a.sequenceNumber \in 0 .. UIntMax /\ UIntMax \in Nat \ {0, 1}
  BY AckFields, UIntMaxAssumption DEF UInt
<1>2. CASE a.keepalive
  BY <1>1, <1>2 DEF Ordered, NextSequenceNumber
<1>3. CASE ~a.keepalive
  <2>1. NextSequenceNumber(a) = Successor(a.sequenceNumber)
    BY <1>3 DEF NextSequenceNumber
  <2>2. NextSequenceNumber(a) = a.sequenceNumber + 1
    BY <1>1, <2>1 DEF Wraps, Successor
  <2>3. \A i \in 1 .. Len(a.list) : a.list[i] <= a.sequenceNumber /\ a.list[i] \in Nat
    BY <1>3, AckFields DEF Ordered
  <2>4. QED
    BY <1>1, <2>2, <2>3 DEF Below
<1>4. QED
  BY <1>2, <1>3

\* A list to which a larger number is appended, and one that loses its head.
LEMMA AscendingAppend ==
    ASSUME NEW list \in Seq(Nat), NEW n \in Nat, Ascending(list), Below(list, n)
    PROVE  /\ Append(list, n) \in Seq(Nat) /\ Len(Append(list, n)) = Len(list) + 1
           /\ Ascending(Append(list, n))
           /\ \A i \in 1 .. Len(list) + 1 : Append(list, n)[i] <= n
<1> DEFINE grown == Append(list, n)
<1>1. /\ grown \in Seq(Nat) /\ Len(grown) = Len(list) + 1 /\ Len(list) \in Nat
      /\ \A i \in 1 .. Len(list) : grown[i] = list[i]
      /\ grown[Len(list) + 1] = n
  OBVIOUS
<1>2. \A i \in 1 .. Len(list) : list[i] \in Nat
  OBVIOUS
<1> HIDE DEF grown
<1>3. \A i \in 1 .. Len(list) + 1 : i \in 1 .. Len(list) \/ i = Len(list) + 1
  BY <1>1
<1>4. \A i \in 1 .. Len(list) + 1 : grown[i] <= n
  <2>1. TAKE i \in 1 .. Len(list) + 1
  <2>2. CASE i \in 1 .. Len(list)
    <3>1. grown[i] = list[i] /\ list[i] \in Nat
      BY <1>1, <1>2, <2>2
    <3>2. list[i] < n
      BY <2>2 DEF Below
    <3>3. QED
      BY <3>1, <3>2
  <2>3. CASE i = Len(list) + 1
    BY <1>1, <2>3
  <2>4. QED
    BY <1>3, <2>2, <2>3
<1>5. Ascending(grown)
  <2>1. SUFFICES ASSUME NEW i \in 1 .. Len(list) + 1, NEW j \in 1 .. Len(list) + 1, i < j
                 PROVE  grown[i] < grown[j]
    BY <1>1 DEF Ascending
  <2>2. i \in 1 .. Len(list)
    BY <1>1, <2>1
  <2>3. CASE j \in 1 .. Len(list)
    BY <1>1, <2>1, <2>2, <2>3 DEF Ascending
  <2>4. CASE j = Len(list) + 1
    BY <1>1, <2>2, <2>4 DEF Below
  <2>5. QED
    BY <1>3, <2>3, <2>4
<1>6. QED
  BY <1>1, <1>4, <1>5 DEF grown

LEMMA AscendingTail ==
    ASSUME NEW list \in Seq(Nat), Len(list) # 0, NEW n \in Nat, Ascending(list),
           \A i \in 1 .. Len(list) : list[i] <= n
    PROVE  /\ Len(Tail(list)) = Len(list) - 1 /\ Ascending(Tail(list))
           /\ \A i \in 1 .. Len(Tail(list)) : Tail(list)[i] <= n
<1> DEFINE t == Tail(list)
<1>1. /\ Len(t) = Len(list) - 1 /\ Len(list) \in Nat \ {0}
      /\ \A i \in 1 .. Len(list) - 1 : t[i] = list[i + 1]
  OBVIOUS
<1> HIDE DEF t
<1>2. \A i \in 1 .. Len(list) - 1 : i + 1 \in 1 .. Len(list)
  BY <1>1
<1>3. \A i \in 1 .. Len(t) : t[i] <= n
  BY <1>1, <1>2
<1>4. Ascending(t)
  <2>1. SUFFICES ASSUME NEW i \in 1 .. Len(list) - 1, NEW j \in 1 .. Len(list) - 1, i < j
                 PROVE  t[i] < t[j]
    BY <1>1 DEF Ascending
  <2>2. i + 1 \in 1 .. Len(list) /\ j + 1 \in 1 .. Len(list) /\ i + 1 < j + 1
    BY <1>1, <2>1
  <2>3. QED
    BY <1>1, <2>2 DEF Ascending
<1>5. QED
  BY <1>1, <1>3, <1>4 DEF t

LEMMA NotifyOrdered ==
    ASSUME NEW a \in AckManager, Bounded(a.list)
    PROVE  /\ Bounded(Notify(a).list)
           /\ Ordered(a) /\ ~Wraps(a) => Ordered(Notify(a))
<1> DEFINE n == NextSequenceNumber(a)
           grown == Append(a.list, n)
           list == IF MaxListSize # 0 /\ Len(grown) > MaxListSize THEN Tail(grown) ELSE grown
<1>1. n \in Nat /\ a.list \in Seq(Nat) /\ Len(a.list) \in Nat
  <2>1. 0 \in UInt
    BY UIntMaxAssumption DEF UInt
  <2>2. n \in UInt
    BY <2>1, AckTypes
  <2>3. QED
    BY <2>2, AckFields
<1>2. /\ Notify(a).sequenceNumber = n /\ Notify(a).keepalive = FALSE
      /\ Notify(a).list = list
  BY DEF Notify, AddNotification, TakeSequenceNumber, AckManager
<1>3. grown \in Seq(Nat) /\ Len(grown) = Len(a.list) + 1
  BY <1>1
<1> HIDE DEF n, grown
<1>4. Len(grown) # 0 /\ Len(Tail(grown)) = Len(a.list)
  BY <1>1, <1>3
<1>5. Bounded(list)
  <2>1. CASE MaxListSize # 0 /\ Len(grown) > MaxListSize
    BY <2>1, <1>4 DEF Bounded
  <2>2. CASE ~(MaxListSize # 0 /\ Len(grown) > MaxListSize)
    BY <2>2, <1>1, <1>3, MaxListSizeAssumption DEF Bounded
  <2>3. QED
    BY <2>1, <2>2
<1>6. ASSUME Ordered(a), ~Wraps(a) PROVE Ordered(Notify(a))
  <2>1. Ascending(a.list) /\ Below(a.list, n)
    BY <1>6, NextAbove DEF Ordered, n
  <2>2. Ascending(grown) /\ \A i \in 1 .. Len(grown) : grown[i] <= n
    BY <2>1, <1>1, AscendingAppend DEF grown
  <2>3. Ascending(Tail(grown)) /\ \A i \in 1 .. Len(Tail(grown)) : Tail(grown)[i] <= n
    BY <2>2, <1>1, <1>3, <1>4, AscendingTail
  <2>4. Ascending(list) /\ \A i \in 1 .. Len(list) : list[i] <= n
    BY <2>2, <2>3
  <2> HIDE DEF list
  <2>5. QED
    BY <2>4, <1>2 DEF Ordered
<1>7. QED
  BY <1>2, <1>5, <1>6

LEMMA KeepaliveOrdered ==
    ASSUME NEW a \in AckManager, Bounded(a.list)
    PROVE  /\ Bounded(TakeSequenceNumber(a, TRUE).list)
           /\ Ordered(a) /\ ~Wraps(a) => Ordered(TakeSequenceNumber(a, TRUE))
<1> DEFINE t == TakeSequenceNumber(a, TRUE)
<1>1. /\ t.sequenceNumber = NextSequenceNumber(a) /\ t.keepalive = TRUE /\ t.list = a.list
  BY DEF TakeSequenceNumber, AckManager
<1> HIDE DEF t
<1>2. ASSUME Ordered(a), ~Wraps(a) PROVE Ordered(t)
  <2>1. Ascending(a.list) /\ Below(a.list, NextSequenceNumber(a))
    BY <1>2, NextAbove DEF Ordered
  <2>2. QED
    BY <1>1, <2>1 DEF Ordered
<1>3. QED
  BY <1>1, <1>2 DEF t

\* Every element of the list that is left was in the list, in the same order.
LEMMA DeleteOrdered ==
    ASSUME NEW a \in AckManager, Bounded(a.list), NEW n
    PROVE  /\ Bounded(DeleteNotification(a, n).list)
           /\ Ordered(a) => Ordered(DeleteNotification(a, n))
<1> DEFINE d == DeleteNotification(a, n)
           L == Len(a.list)
           Gone(i) == \E j \in 1 .. i : a.list[j] = n
           list == [i \in 1 .. L - 1 |-> IF Gone(i) THEN a.list[i + 1] ELSE a.list[i]]
<1>1. CASE n \notin Range(a.list)
  <2>1. d = a
    BY <1>1 DEF DeleteNotification
  <2>2. QED
    BY <2>1
<1>2. CASE n \in Range(a.list)
  <2>1. L \in Nat \ {0} /\ \A i \in 1 .. L : a.list[i] \in Nat
    BY <1>2, AckFields DEF Range
  <2>2. /\ d.sequenceNumber = a.sequenceNumber /\ d.keepalive = a.keepalive /\ d.list = list
    BY <1>2 DEF DeleteNotification, AckManager
  <2>3. Len(list) = L - 1
    <3>1. list \in [1 .. L - 1 -> Nat]
      <4>1. \A i \in 1 .. L - 1 : a.list[i + 1] \in Nat /\ a.list[i] \in Nat
        BY <2>1
      <4> HIDE DEF Gone, L
      <4>2. QED
        BY <4>1
    <3> HIDE DEF list, L
    <3>2. QED
      BY <3>1, <2>1
  <2> DEFINE g(i) == IF Gone(i) THEN i + 1 ELSE i
  <2>4. \A i \in 1 .. L - 1 : g(i) \in 1 .. L /\ list[i] = a.list[g(i)]
    BY <2>1
  <2>5. \A i, j \in 1 .. L - 1 : i < j => g(i) < g(j)
    <3>1. SUFFICES ASSUME NEW i \in 1 .. L - 1, NEW j \in 1 .. L - 1, i < j
                   PROVE  g(i) < g(j)
      OBVIOUS
    <3>2. Gone(i) => Gone(j)
      BY <2>1, <3>1
    <3> HIDE DEF Gone, L
    <3>3. CASE Gone(i)
      BY <2>1, <3>1, <3>2, <3>3
    <3>4. CASE ~Gone(i)
      BY <2>1, <3>1, <3>4
    <3>5. QED
      BY <3>3, <3>4
  <2> HIDE DEF g, list, Gone, L, d
  <2>6. Bounded(d.list)
    BY <2>1, <2>2, <2>3, MaxListSizeAssumption DEF Bounded, L
  <2>7. ASSUME Ordered(a) PROVE Ordered(d)
    <3>1. Ascending(list)
      BY <2>3, <2>4, <2>5, <2>7 DEF Ordered, Ascending, L
    <3>2. ASSUME a.keepalive PROVE Below(list, a.sequenceNumber)
      BY <2>3, <2>4, <2>7, <3>2 DEF Ordered, Below, L
    <3>3. ASSUME ~a.keepalive PROVE \A i \in 1 .. Len(list) : list[i] <= a.sequenceNumber
      BY <2>3, <2>4, <2>7, <3>3 DEF Ordered, L
    <3>4. QED
      BY <2>2, <3>1, <3>2, <3>3 DEF Ordered
  <2>8. QED
    BY <2>6, <2>7 DEF d
<1>3. QED
  BY <1>1, <1>2

LEMMA NewOrdered == Bounded(NewAckManager.list) /\ Ordered(NewAckManager)
<1>1. NewAckManager.list = <<>> /\ Len(<<>>) = 0 /\ ~NewAckManager.keepalive
  BY DEF NewAckManager
<1>2. QED
  BY <1>1, MaxListSizeAssumption DEF Bounded, Ordered, Ascending

-----------------------------------------------------------------------------
\* A step that numbers a response of s: ack[s] becomes b.
LEMMA NumberedOrdered ==
    ASSUME TypeOK, ListsOrdered, NEW s \in Sub, NEW b,
           ack' = [ack EXCEPT ![s] = b],
           wrapped' = [wrapped EXCEPT ![s] = @ \/ Wraps(ack[s])],
           Bounded(b.list), Ordered(ack[s]) /\ ~Wraps(ack[s]) => Ordered(b)
    PROVE  ListsOrdered'
<1>1. ack \in [Sub -> AckManager] /\ wrapped \in [Sub -> BOOLEAN]
  BY DEF TypeOK
<1>2. /\ ack'[s] = b /\ (wrapped'[s] <=> wrapped[s] \/ Wraps(ack[s]))
      /\ \A r \in Sub \ {s} : ack'[r] = ack[r] /\ wrapped'[r] = wrapped[r]
  BY <1>1
<1>3. SUFFICES ASSUME NEW r \in Sub
               PROVE  Bounded(ack'[r].list) /\ (~wrapped'[r] => Ordered(ack'[r]))
  BY DEF ListsOrdered, Bounded, Ordered, Ascending, Below
<1>4. CASE r = s
  BY <1>2, <1>4 DEF ListsOrdered
<1>5. CASE r # s
  BY <1>2, <1>5 DEF ListsOrdered
<1>6. QED
  BY <1>4, <1>5

LEMMA ListsStep ==
    ASSUME TypeOK, ListsOrdered, [Next]_vars
    PROVE  ListsOrdered'
<1>1. ASSUME UNCHANGED <<ack, wrapped>> PROVE ListsOrdered'
  BY <1>1 DEF ListsOrdered, Bounded, Ordered, Ascending, Below
<1>2. ASSUME NEW x \in Session, NEW S, Erase(x, S) PROVE ListsOrdered'
  <2>1. ack' = Reset(ack, S, NewAckManager) /\ wrapped' = Reset(wrapped, S, FALSE)
    BY <1>2 DEF Erase
  <2>2. \A r \in Sub : \/ ack'[r] = NewAckManager
                       \/ ack'[r] = ack[r] /\ wrapped'[r] = wrapped[r]
    BY <2>1 DEF Reset
  <2>3. SUFFICES ASSUME NEW r \in Sub
                 PROVE  Bounded(ack'[r].list) /\ (~wrapped'[r] => Ordered(ack'[r]))
    BY DEF ListsOrdered, Bounded, Ordered, Ascending, Below
  <2>4. QED
    BY <2>2, NewOrdered DEF ListsOrdered
<1>3. ASSUME NEW s \in Sub, NumberNotification(s) PROVE ListsOrdered'
  <2>1. /\ ack' = [ack EXCEPT ![s] = Notify(ack[s])]
        /\ wrapped' = [wrapped EXCEPT ![s] = @ \/ Wraps(ack[s])]
    BY <1>3 DEF NumberNotification
  <2>2. ack[s] \in AckManager /\ Bounded(ack[s].list)
    BY DEF TypeOK, ListsOrdered
  <2>3. Bounded(Notify(ack[s]).list) /\ (Ordered(ack[s]) /\ ~Wraps(ack[s]) => Ordered(Notify(ack[s])))
    BY <2>2, NotifyOrdered
  <2>4. QED
    BY <2>1, <2>3, NumberedOrdered
<1>4. ASSUME NEW x \in Session, NEW s \in Sub, PublishNothing(x, s) PROVE ListsOrdered'
  <2>1. CASE KeepaliveDue(actMaxKeepAliveCount[s])
    <3>1. /\ ack' = [ack EXCEPT ![s] = TakeSequenceNumber(ack[s], TRUE)]
          /\ wrapped' = [wrapped EXCEPT ![s] = @ \/ Wraps(ack[s])]
      BY <1>4, <2>1 DEF PublishNothing
    <3>2. ack[s] \in AckManager /\ Bounded(ack[s].list)
      BY DEF TypeOK, ListsOrdered
    <3>3. /\ Bounded(TakeSequenceNumber(ack[s], TRUE).list)
          /\ Ordered(ack[s]) /\ ~Wraps(ack[s]) => Ordered(TakeSequenceNumber(ack[s], TRUE))
      BY <3>2, KeepaliveOrdered
    <3>4. QED
      BY <3>1, <3>3, NumberedOrdered
  <2>2. CASE ~KeepaliveDue(actMaxKeepAliveCount[s])
    BY <1>1, <1>4, <2>2 DEF PublishNothing
  <2>3. QED
    BY <2>1, <2>2
<1>5. ASSUME NEW x \in Session, NEW s \in Sub, PublishTimeout(x, s) PROVE ListsOrdered'
  <2>1. CASE TickWithoutRequest(x, s)
    <3>1. CASE LifetimeOver(actLifetimeCount[s])
      BY <2>1, <3>1, <1>2 DEF TickWithoutRequest
    <3>2. CASE ~LifetimeOver(actLifetimeCount[s])
      BY <2>1, <3>2, <1>1 DEF TickWithoutRequest, numberVars
    <3>3. QED
      BY <3>1, <3>2
  <2>2. CASE CountEvents(x, s)
    BY <2>2, <1>1 DEF CountEvents, numberVars
  <2>3. CASE PublishData(x, s)
    BY <2>3, <1>3 DEF PublishData
  <2>4. QED
    BY <1>4, <1>5, <2>1, <2>2, <2>3 DEF PublishTimeout
<1>6. ASSUME NEW x \in Session, NEW s \in Sub, DrainEvents(x, s) PROVE ListsOrdered'
  BY <1>3, <1>6 DEF DrainEvents
<1>7. ASSUME NEW x \in Session, NEW t \in Trx, NEW a \in Acks, Publish(x, t, a)
      PROVE  ListsOrdered'
  <2>1. \A r \in Sub : \/ ack'[r] = ack[r]
                       \/ ack'[r] = DeleteNotification(ack[r], a[2])
    BY <1>7 DEF Publish
  <2>2. wrapped' = wrapped
    BY <1>7 DEF Publish
  <2>3. SUFFICES ASSUME NEW r \in Sub
                 PROVE  Bounded(ack'[r].list) /\ (~wrapped'[r] => Ordered(ack'[r]))
    BY DEF ListsOrdered, Bounded, Ordered, Ascending, Below
  <2>4. /\ ack[r] \in AckManager /\ Bounded(ack[r].list) /\ (~wrapped[r] => Ordered(ack[r]))
    BY DEF TypeOK, ListsOrdered
  <2>5. /\ Bounded(DeleteNotification(ack[r], a[2]).list)
        /\ Ordered(ack[r]) => Ordered(DeleteNotification(ack[r], a[2]))
    BY <2>4, DeleteOrdered
  <2>6. QED
    BY <2>1, <2>2, <2>4, <2>5
<1>8. ASSUME NEW x \in Session, NEW l \in RequestedLifetime, NEW k \in RequestedKeepAlive,
             CreateSubscription(x, l, k)
      PROVE  ListsOrdered'
  BY <1>1, <1>8 DEF CreateSubscription, numberVars
<1>9. ASSUME NEW x \in Session, NEW ids \in SUBSET Sub, DeleteSubscriptions(x, ids)
      PROVE  ListsOrdered'
  BY <1>2, <1>9 DEF DeleteSubscriptions
<1>10. ASSUME NEW s \in Sub, FireEvent(s) \/ QueueData(s) PROVE ListsOrdered'
  BY <1>1, <1>10 DEF FireEvent, QueueData, numberVars
<1>11. ASSUME NEW s \in Sub, NEW e \in 0 .. MaxEvents, NEW d \in BOOLEAN,
              DeleteMonitoredItems(s, e, d)
       PROVE  ListsOrdered'
  BY <1>1, <1>11 DEF DeleteMonitoredItems, numberVars
<1>12. ASSUME UNCHANGED vars PROVE ListsOrdered'
  BY <1>1, <1>12 DEF vars, numberVars
<1>13. QED
  BY <1>5, <1>6, <1>7, <1>8, <1>9, <1>10, <1>11, <1>12 DEF Next, PublishRefused

(***************************************************************************)
(* addNotification keeps the list of unacknowledged notifications within   *)
(* maxListSize_, and until the uint32 wraps the numbers in it ascend and   *)
(* differ, whatever is acknowledged, in whatever order: deleteNotification *)
(* erases the one notification that the client means.                      *)
(***************************************************************************)
THEOREM AcknowledgementsOrdered == Spec => []AckListOrdered
<1>1. Init => ListsOrdered
  BY NewOrdered DEF Init, ListsOrdered
<1>2. TypeOK /\ ListsOrdered /\ [Next]_vars => ListsOrdered'
  BY ListsStep
<1>3. TypeOK /\ ListsOrdered => AckListOrdered
  <2>1. SUFFICES ASSUME TypeOK, ListsOrdered, NEW s \in Sub
                 PROVE  LET a == ack[s]
                        IN  /\ MaxListSize # 0 => Len(a.list) <= MaxListSize
                            /\ ~wrapped[s] =>
                                 /\ \A i, j \in DOMAIN a.list : i < j => a.list[i] < a.list[j]
                                 /\ \A i \in DOMAIN a.list :
                                      IF a.keepalive THEN a.list[i] < a.sequenceNumber
                                                     ELSE a.list[i] <= a.sequenceNumber
    BY DEF AckListOrdered, Live
  <2>2. Bounded(ack[s].list) /\ (~wrapped[s] => Ordered(ack[s])) /\ ack[s] \in AckManager
    BY <2>1 DEF ListsOrdered, TypeOK
  <2>3. DOMAIN ack[s].list = 1 .. Len(ack[s].list)
    BY <2>2, AckFields
  <2>4. QED
    BY <2>2, <2>3 DEF Bounded, Ordered, Ascending, Below
<1>4. QED
  BY <1>1, <1>2, <1>3, TypeCorrect, PTL DEF Spec
=============================================================================
