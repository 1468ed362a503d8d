------------------------ MODULE SubscriptionService ------------------------
(***************************************************************************)
(* The subscription and publish service of the server: SubscriptionService *)
(* (one SubscriptionManager per session), SubscriptionManager (the queue   *)
(* of open publish requests shared by the session's subscriptions) and     *)
(* Subscription (lifetime and keepalive counters, sequence numbers).       *)
(*                                                                         *)
(* All service handlers and all slot timer callbacks run on the server's   *)
(* one I/O thread, so each of them is one action, with one exception: the  *)
(* queues of the event items are also filled by application threads, and   *)
(* Subscription::publish first counts the queued events and drains them    *)
(* later.  Those are the two steps CountEvents and DrainEvents, between    *)
(* which only FireEvent may happen.                                        *)
(*                                                                         *)
(* The monitored items are abstracted to what publish sees of them: the    *)
(* number of events queued and whether data change notifications are       *)
(* queued (module MonitorManager has the details).                         *)
(***************************************************************************)
EXTENDS AcknowledgementManager

CONSTANTS
    Session,            \* session ids
    NoSession,          \* not a session id
    Trx,                \* publish transactions a client may have open
    RequestedLifetime,  \* lifetime counts clients ask for
    RequestedKeepAlive, \* keepalive counts clients ask for
    MaxSubscriptions,   \* bound: subscriptions created in a behaviour
    MaxEvents           \* bound: events queued in one subscription

ASSUME NoSessionAssumption == NoSession \notin Session
ASSUME RequestedAssumption ==
    RequestedLifetime \subseteq UInt /\ RequestedKeepAlive \subseteq UInt
ASSUME BoundsAssumption == MaxSubscriptions \in Nat /\ MaxEvents \in Nat

Sub == 1 .. MaxSubscriptions

minLifetimeCount == 2
minMaxKeepAliveCount == 2

VARIABLES
    uniqueSubscriptionId,  \* the static counter of class Subscription
    managers,              \* sessions in subscriptionManagerMap_
    subscriptionMap,       \* per session: the keys of subscriptionMap_
    publishList,           \* per session: serviceTransactionPublishList_
    lifetimeCount,         \* per subscription, as are all that follow:
    actLifetimeCount,      \*   the lifetime counter and its start value,
    maxKeepAliveCount,
    actMaxKeepAliveCount,  \*   the keepalive counter and its start value,
    ack,                   \*   acknowledgementManager_,
    events,                \*   the events queued in its event items,
    data,                  \*   whether some data change is queued
    publishing             \* the publish() call that has counted its events

(***************************************************************************)
(* What a client can tell of its requests and subscriptions (history).     *)
(***************************************************************************)
VARIABLES
    outstanding,  \* per transaction: the session that waits for its answer
    expected,     \* per subscription, as are all that follow: the number the
                  \*   client's next notification must have,
    overrun,      \*   a notification was given a number and not sent,
    wrapped,      \*   the sequence numbers have wrapped,
    quiet,        \*   ticks since the last response, up to maxKeepAliveCount,
    attention,    \*   publish() has returned NeedAttention since then,
    idle          \*   successive ticks that found no publish request

managerVars == <<uniqueSubscriptionId, managers, subscriptionMap>>
requestVars == <<publishList, outstanding>>
countVars == <<lifetimeCount, maxKeepAliveCount>>
lifetimeVars == <<actLifetimeCount, idle>>
keepaliveVars == <<actMaxKeepAliveCount, quiet, attention>>
numberVars == <<ack, expected, overrun, wrapped>>
vars == <<managerVars, requestVars, countVars, lifetimeVars, keepaliveVars,
          numberVars, events, data, publishing>>

NotPublishing == [sub |-> 0, events |-> 0]
IOThreadIdle == publishing = NotPublishing
Live == {s \in Sub : \E x \in Session : s \in subscriptionMap[x]}

Init ==
    /\ uniqueSubscriptionId = 0
    /\ managers = {}
    /\ subscriptionMap = [x \in Session |-> {}]
    /\ publishList = [x \in Session |-> <<>>]
    /\ lifetimeCount = [s \in Sub |-> 0]
    /\ actLifetimeCount = [s \in Sub |-> 0]
    /\ maxKeepAliveCount = [s \in Sub |-> 0]
    /\ actMaxKeepAliveCount = [s \in Sub |-> 0]
    /\ ack = [s \in Sub |-> NewAckManager]
    /\ events = [s \in Sub |-> 0]
    /\ data = [s \in Sub |-> FALSE]
    /\ publishing = NotPublishing
    /\ outstanding = [t \in Trx |-> NoSession]
    /\ expected = [s \in Sub |-> 1]
    /\ overrun = [s \in Sub |-> FALSE]
    /\ wrapped = [s \in Sub |-> FALSE]
    /\ quiet = [s \in Sub |-> 0]
    /\ attention = [s \in Sub |-> FALSE]
    /\ idle = [s \in Sub |-> 0]

-----------------------------------------------------------------------------
(***************************************************************************)
(* A uint32 that is decremented: 0 becomes the largest value.              *)
(***************************************************************************)
DecrementSigned(n) == n - 1
Decrement(n) == IF n = 0 THEN UIntMax ELSE n - 1

(***************************************************************************)
(* The tests after the decrements: has the counter, n before, run out?     *)
(***************************************************************************)
LifetimeOverLate(n) == n = 0
LifetimeOver(n) == Decrement(n) = 0

KeepaliveDueLate(n) == n = 0
KeepaliveDueNegative(n) == Decrement(n) < 0
KeepaliveDue(n) == Decrement(n) = 0

AtLeast(n, minimum) == IF n < minimum THEN minimum ELSE n

(***************************************************************************)
(* The subscriptions in S are erased from their map: their timers stop and *)
(* the objects, with their queues, are gone.                               *)
(***************************************************************************)
Reset(f, S, v) == [s \in Sub |-> IF s \in S THEN v ELSE f[s]]

Erase(x, S) ==
    /\ subscriptionMap' = [subscriptionMap EXCEPT ![x] = @ \ S]
    /\ lifetimeCount' = Reset(lifetimeCount, S, 0)
    /\ actLifetimeCount' = Reset(actLifetimeCount, S, 0)
    /\ maxKeepAliveCount' = Reset(maxKeepAliveCount, S, 0)
    /\ actMaxKeepAliveCount' = Reset(actMaxKeepAliveCount, S, 0)
    /\ ack' = Reset(ack, S, NewAckManager)
    /\ events' = Reset(events, S, 0)
    /\ data' = Reset(data, S, FALSE)
    /\ expected' = Reset(expected, S, 1)
    /\ overrun' = Reset(overrun, S, FALSE)
    /\ wrapped' = Reset(wrapped, S, FALSE)
    /\ quiet' = Reset(quiet, S, 0)
    /\ attention' = Reset(attention, S, FALSE)
    /\ idle' = Reset(idle, S, 0)

(***************************************************************************)
(* receiveCreateSubscriptionRequest: the session's manager is created with *)
(* its first subscription; the requested counts are raised to the minima.  *)
(***************************************************************************)
CreateSubscription(x, lifetime, keepalive) ==
    /\ IOThreadIdle
    /\ uniqueSubscriptionId < MaxSubscriptions
    /\ LET s == uniqueSubscriptionId + 1
           l == AtLeast(lifetime, minLifetimeCount)
           k == AtLeast(keepalive, minMaxKeepAliveCount)
       IN  /\ uniqueSubscriptionId' = s
           /\ subscriptionMap' = [subscriptionMap EXCEPT ![x] = @ \cup {s}]
           /\ lifetimeCount' = [lifetimeCount EXCEPT ![s] = l]
           /\ actLifetimeCount' = [actLifetimeCount EXCEPT ![s] = l]
           /\ maxKeepAliveCount' = [maxKeepAliveCount EXCEPT ![s] = k]
           /\ actMaxKeepAliveCount' = [actMaxKeepAliveCount EXCEPT ![s] = k]
    /\ managers' = managers \cup {x}
    /\ UNCHANGED <<requestVars, numberVars, events, data, publishing,
                   quiet, attention, idle>>

(***************************************************************************)
(* receiveDeleteSubscriptionsRequest for a session with a manager: erase   *)
(* the listed subscriptions it has; when none is left, answer every open   *)
(* publish request and drop the manager.                                   *)
(***************************************************************************)
DeleteSubscriptions(x, ids) ==
    /\ IOThreadIdle
    /\ x \in managers
    /\ Erase(x, subscriptionMap[x] \cap ids)
    /\ IF subscriptionMap[x] \subseteq ids
         THEN /\ publishList' = [publishList EXCEPT ![x] = <<>>]
              /\ outstanding' = [t \in Trx |->
                   IF t \in Range(publishList[x]) THEN NoSession ELSE outstanding[t]]
              /\ managers' = managers \ {x}
         ELSE UNCHANGED <<publishList, outstanding, managers>>
    /\ UNCHANGED <<uniqueSubscriptionId, publishing>>

(***************************************************************************)
(* receivePublishRequest: without a manager the request is answered at     *)
(* once (BadNothingToDo), which leaves no trace in the state; with one its *)
(* acknowledgement is applied and it is queued.  A request carries at most *)
(* one acknowledgement, <<subscription, number>>; several have the effect  *)
(* of one after the other.                                                 *)
(***************************************************************************)
PublishRefused(x, t) ==
    /\ IOThreadIdle
    /\ outstanding[t] = NoSession
    /\ x \notin managers
    /\ UNCHANGED vars

Publish(x, t, acks) ==
    /\ IOThreadIdle
    /\ outstanding[t] = NoSession
    /\ x \in managers
    /\ publishList' = [publishList EXCEPT ![x] = Append(@, t)]
    /\ outstanding' = [outstanding EXCEPT ![t] = x]
    /\ ack' = [s \in Sub |->
         IF s \in subscriptionMap[x] /\ acks # <<>> /\ acks[1] = s
           THEN DeleteNotification(ack[s], acks[2]) ELSE ack[s]]
    /\ UNCHANGED <<managerVars, countVars, lifetimeVars, keepaliveVars,
                   expected, overrun, wrapped, events, data, publishing>>

Acks == {<<>>} \cup (Sub \X (1 .. UIntMax))

-----------------------------------------------------------------------------
(***************************************************************************)
(* subscriptionPublishTimeout: the publishing timer of subscription s in   *)
(* session x fires.  First the parts its outcomes share.                   *)
(*                                                                         *)
(* The response goes out for the request at the head of the queue.         *)
(***************************************************************************)
RespondKeeping(x) ==
    /\ publishList' = publishList
    /\ outstanding' = [outstanding EXCEPT ![Head(publishList[x])] = NoSession]
Respond(x) ==
    /\ publishList' = [publishList EXCEPT ![x] = Tail(@)]
    /\ outstanding' = [outstanding EXCEPT ![Head(publishList[x])] = NoSession]

(***************************************************************************)
(* A request was there: the lifetime counter starts again.                 *)
(***************************************************************************)
RestartLifetime(s) ==
    /\ actLifetimeCount' = [actLifetimeCount EXCEPT ![s] = lifetimeCount[s]]
    /\ idle' = [idle EXCEPT ![s] = 0]

(***************************************************************************)
(* A response is sent: the keepalive counter starts again.                 *)
(***************************************************************************)
RestartKeepalive(s) ==
    /\ actMaxKeepAliveCount' = [actMaxKeepAliveCount EXCEPT ![s] = maxKeepAliveCount[s]]
    /\ quiet' = [quiet EXCEPT ![s] = 0]
    /\ attention' = [attention EXCEPT ![s] = FALSE]

QuietTick(s) ==
    quiet' = [quiet EXCEPT ![s] = IF @ < maxKeepAliveCount[s] THEN @ + 1 ELSE @]

(***************************************************************************)
(* A notification takes the next sequence number and is remembered until   *)
(* it is acknowledged.                                                     *)
(***************************************************************************)
NumberNotification(s) ==
    /\ ack' = [ack EXCEPT ![s] = Notify(@)]
    /\ wrapped' = [wrapped EXCEPT ![s] = @ \/ Wraps(ack[s])]

(***************************************************************************)
(* No publish request is queued: both counters run down.  At lifetime zero *)
(* the subscription is erased; nothing is answered, and the manager stays. *)
(* The keepalive counter reports NeedAttention when it arrives at zero,    *)
(* and stops there.                                                        *)
(***************************************************************************)
TickRestartingLifetime(x, s) ==
    /\ publishList[x] = <<>>
    /\ RestartLifetime(s)
    /\ UNCHANGED <<subscriptionMap, requestVars, countVars, keepaliveVars,
                   numberVars, events, data, publishing>>
TickWithoutRequest(x, s) ==
    /\ publishList[x] = <<>>
    /\ IF LifetimeOver(actLifetimeCount[s])
         THEN Erase(x, {s})
         ELSE /\ actLifetimeCount' = [actLifetimeCount EXCEPT ![s] = Decrement(@)]
              /\ idle' = [idle EXCEPT ![s] = @ + 1]
              /\ actMaxKeepAliveCount' =
                   [actMaxKeepAliveCount EXCEPT ![s] = IF @ = 0 THEN 0 ELSE @ - 1]
              /\ attention' =
                   [attention EXCEPT ![s] = @ \/ actMaxKeepAliveCount[s] = 1]
              /\ QuietTick(s)
              /\ UNCHANGED <<subscriptionMap, countVars, numberVars, events, data>>
    /\ UNCHANGED <<requestVars, publishing>>

(***************************************************************************)
(* A request is queued and so are events: MonitorManager::receive has      *)
(* added up the sizes of the event items' queues.                          *)
(***************************************************************************)
CountEvents(x, s) ==
    /\ publishList[x] # <<>>
    /\ events[s] > 0
    /\ RestartLifetime(s)
    /\ publishing' = [sub |-> s, events |-> events[s]]
    /\ UNCHANGED <<subscriptionMap, requestVars, countVars, keepaliveVars,
                   numberVars, events, data>>

(***************************************************************************)
(* No event but a data change is queued: it is sent.                       *)
(***************************************************************************)
PublishData(x, s) ==
    /\ publishList[x] # <<>>
    /\ events[s] = 0
    /\ data[s]
    /\ RestartLifetime(s)
    /\ RestartKeepalive(s)
    /\ NumberNotification(s)
    /\ data' = [data EXCEPT ![s] = FALSE]
    /\ Respond(x)
    /\ expected' = [expected EXCEPT ![s] = Successor(NextSequenceNumber(ack[s]))]
    /\ UNCHANGED <<subscriptionMap, countVars, overrun, events, publishing>>

(***************************************************************************)
(* Nothing is queued: the keepalive counter runs down, and at zero a       *)
(* keepalive is sent.  A counter that is already zero becomes the largest  *)
(* uint32.                                                                 *)
(***************************************************************************)
PublishNothing(x, s) ==
    /\ publishList[x] # <<>>
    /\ events[s] = 0
    /\ ~data[s]
    /\ RestartLifetime(s)
    /\ IF KeepaliveDue(actMaxKeepAliveCount[s])
         THEN /\ RestartKeepalive(s)
              /\ ack' = [ack EXCEPT ![s] = TakeSequenceNumber(@, TRUE)]
              /\ wrapped' = [wrapped EXCEPT ![s] = @ \/ Wraps(ack[s])]
              /\ Respond(x)
         ELSE /\ actMaxKeepAliveCount' = [actMaxKeepAliveCount EXCEPT ![s] = Decrement(@)]
              /\ QuietTick(s)
              /\ UNCHANGED <<attention, ack, wrapped, requestVars>>
    /\ UNCHANGED <<subscriptionMap, countVars, expected, overrun, events, data, publishing>>

PublishTimeout(x, s) ==
    /\ IOThreadIdle
    /\ s \in subscriptionMap[x]
    /\ \/ TickWithoutRequest(x, s)
       \/ CountEvents(x, s)
       \/ PublishData(x, s)
       \/ PublishNothing(x, s)
    /\ UNCHANGED <<uniqueSubscriptionId, managers>>

(***************************************************************************)
(* The second half of publish() with events: as many as were counted are   *)
(* moved to the notification, which takes a sequence number.  If the event *)
(* items hold more by now the result is BadOutOfMemory and NeedAttention:  *)
(* the response is not sent and the request stays queued.                  *)
(***************************************************************************)
DrainEvents(x, s) ==
    /\ publishing.sub = s
    /\ s \in subscriptionMap[x]
    /\ NumberNotification(s)
    /\ events' = [events EXCEPT ![s] = @ - publishing.events]
    /\ publishing' = NotPublishing
    /\ IF events[s] > publishing.events
         THEN /\ actMaxKeepAliveCount' =
                   [actMaxKeepAliveCount EXCEPT ![s] = maxKeepAliveCount[s]]
              /\ QuietTick(s)
              /\ attention' = [attention EXCEPT ![s] = TRUE]
              /\ overrun' = [overrun EXCEPT ![s] = TRUE]
              /\ UNCHANGED <<expected, requestVars>>
         ELSE /\ RestartKeepalive(s)
              /\ expected' = [expected EXCEPT ![s] = Successor(NextSequenceNumber(ack[s]))]
              /\ Respond(x)
              /\ UNCHANGED overrun
    /\ UNCHANGED <<managerVars, countVars, lifetimeVars, data>>

-----------------------------------------------------------------------------
(***************************************************************************)
(* EventItem::fireEvent in a thread of the application: an event that      *)
(* passes the filter is queued, at any time.                               *)
(***************************************************************************)
FireEvent(s) ==
    /\ s \in Live
    /\ events[s] < MaxEvents
    /\ events' = [events EXCEPT ![s] = @ + 1]
    /\ UNCHANGED <<managerVars, requestVars, countVars, lifetimeVars,
                   keepaliveVars, numberVars, data, publishing>>

(***************************************************************************)
(* A monitored item queues a data change: when it is created or sampled.   *)
(***************************************************************************)
QueueData(s) ==
    /\ IOThreadIdle
    /\ s \in Live
    /\ data' = [data EXCEPT ![s] = TRUE]
    /\ UNCHANGED <<managerVars, requestVars, countVars, lifetimeVars,
                   keepaliveVars, numberVars, events, publishing>>

(***************************************************************************)
(* Monitored items are deleted, and what they have queued with them.       *)
(***************************************************************************)
DeleteMonitoredItems(s, e, d) ==
    /\ IOThreadIdle
    /\ s \in Live
    /\ e <= events[s] /\ (d => data[s])
    /\ events' = [events EXCEPT ![s] = e]
    /\ data' = [data EXCEPT ![s] = d]
    /\ UNCHANGED <<managerVars, requestVars, countVars, lifetimeVars,
                   keepaliveVars, numberVars, publishing>>

Next ==
    \/ \E x \in Session, l \in RequestedLifetime, k \in RequestedKeepAlive :
          CreateSubscription(x, l, k)
    \/ \E x \in Session, ids \in SUBSET Sub : DeleteSubscriptions(x, ids)
    \/ \E x \in Session, t \in Trx, a \in Acks : Publish(x, t, a)
    \/ \E x \in Session, t \in Trx : PublishRefused(x, t)
    \/ \E x \in Session, s \in Sub : PublishTimeout(x, s)
    \/ \E x \in Session, s \in Sub : DrainEvents(x, s)
    \/ \E s \in Sub : FireEvent(s)
    \/ \E s \in Sub : QueueData(s)
    \/ \E s \in Sub, e \in 0 .. MaxEvents, d \in BOOLEAN : DeleteMonitoredItems(s, e, d)

Spec == Init /\ [][Next]_vars

(***************************************************************************)
(* Fairness.  Each subscription has a periodic slot timer of its own; the  *)
(* timer loop runs every timer that is due, however busy the I/O thread    *)
(* is in between, so each subscription's ticks are strongly fair.  A       *)
(* publish() call that has begun runs to its end.                          *)
(***************************************************************************)
Fairness ==
    \A x \in Session, s \in Sub :
        SF_vars(PublishTimeout(x, s)) /\ WF_vars(DrainEvents(x, s))

FairSpec == Spec /\ Fairness

-----------------------------------------------------------------------------
(***************************************************************************)
(* Type invariant: every counter stays within uint32, every queue holds    *)
(* transactions.                                                           *)
(***************************************************************************)
TypeOK ==
    /\ uniqueSubscriptionId \in 0 .. MaxSubscriptions
    /\ managers \subseteq Session
    /\ subscriptionMap \in [Session -> SUBSET Sub]
    /\ publishList \in [Session -> Seq(Trx)]
    /\ lifetimeCount \in [Sub -> UInt]
    /\ actLifetimeCount \in [Sub -> UInt]
    /\ maxKeepAliveCount \in [Sub -> UInt]
    /\ actMaxKeepAliveCount \in [Sub -> UInt]
    /\ ack \in [Sub -> AckManager]
    /\ events \in [Sub -> Nat]
    /\ data \in [Sub -> BOOLEAN]
    /\ publishing \in [sub: Sub \cup {0}, events: Nat]
    /\ outstanding \in [Trx -> Session \cup {NoSession}]
    /\ expected \in [Sub -> UInt]
    /\ overrun \in [Sub -> BOOLEAN]
    /\ wrapped \in [Sub -> BOOLEAN]
    /\ quiet \in [Sub -> UInt]
    /\ attention \in [Sub -> BOOLEAN]
    /\ idle \in [Sub -> UInt]

(***************************************************************************)
(* A session's queue holds exactly the publish requests that its client is *)
(* waiting for, each once, and a session without a manager has none: no    *)
(* request is answered twice, answered to another session, or lost with    *)
(* the manager that held it.                                               *)
(***************************************************************************)
RequestsAnsweredOnce ==
    \A x \in Session :
        /\ Range(publishList[x]) = {t \in Trx : outstanding[t] = x}
        /\ \A i, j \in DOMAIN publishList[x] :
              publishList[x][i] = publishList[x][j] => i = j
        /\ publishList[x] # <<>> => x \in managers

(***************************************************************************)
(* The client sees no gap: unless an overrun has swallowed a notification, *)
(* the number that the next response will carry, keepalive or              *)
(* notification, is the one the client expects after those it received,    *)
(* over keepalives and over the wrap of the counter.                       *)
(***************************************************************************)
SequenceContinuous ==
    \A s \in Live :
        ~overrun[s] => expected[s] = NextSequenceNumber(ack[s])

(***************************************************************************)
(* The list of unacknowledged notifications is bounded, and until the      *)
(* numbers wrap it is strictly ascending, below the number of a pending    *)
(* keepalive: an acknowledgement removes one notification, the right one.  *)
(***************************************************************************)
AckListOrdered ==
    \A s \in Live :
        LET a == ack[s]
        IN  /\ MaxListSize # 0 => Len(a.list) <= MaxListSize
            /\ ~wrapped[s] =>
                 /\ \A i, j \in DOMAIN a.list : i < j => a.list[i] < a.list[j]
                 /\ \A i \in DOMAIN a.list :
                      IF a.keepalive THEN a.list[i] < a.sequenceNumber
                                     ELSE a.list[i] <= a.sequenceNumber

(***************************************************************************)
(* A subscription is silent for fewer ticks than its keepalive count,      *)
(* unless publish() returned NeedAttention since the last response (no     *)
(* request was queued when the keepalive was due, or an overrun).          *)
(***************************************************************************)
KeepaliveInTime ==
    \A s \in Live :
        quiet[s] < maxKeepAliveCount[s] \/ attention[s]

(***************************************************************************)
(* A timer tick removes a subscription only after lifetimeCount successive *)
(* ticks that found no publish request.                                    *)
(***************************************************************************)
StarvedTimeout ==
    \A x \in Session, s \in Sub :
        PublishTimeout(x, s) /\ s \notin subscriptionMap'[x] =>
            publishList[x] = <<>> /\ idle[s] + 1 = lifetimeCount[s]

TimeoutOnlyWhenStarved == [][StarvedTimeout]_vars

(***************************************************************************)
(* A subscription whose client has stopped sending publish requests is     *)
(* reclaimed.                                                              *)
(***************************************************************************)
StarvedIsReclaimed ==
    \A x \in Session, s \in Sub :
        s \in subscriptionMap[x] ~>
            s \notin subscriptionMap[x] \/ publishList[x] # <<>>

(***************************************************************************)
(* A publish request of a session that keeps a subscription is answered,   *)
(* provided events do not for ever keep arriving in the middle of a        *)
(* publish() call.                                                         *)
(***************************************************************************)
NoFireWhilePublishing ==
    (\E s \in Sub : events'[s] > events[s]) => IOThreadIdle

RequestAnswered ==
    <>[][NoFireWhilePublishing]_vars =>
        \A t \in Trx, x \in Session :
            outstanding[t] = x ~> outstanding[t] # x \/ subscriptionMap[x] = {}

(***************************************************************************)
(* SubscriptionManager.cpp:144: with no subscription left the manager will *)
(* "answer all open publish requests with status code BadNoSubscriptions": *)
(* no publish request stays open for ever.                                 *)
(***************************************************************************)
OpenRequestsAnswered ==
    \A t \in Trx : outstanding[t] # NoSession ~> outstanding[t] = NoSession
=============================================================================
