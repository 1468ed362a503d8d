--------------------------- MODULE MonitorManager ---------------------------
(***************************************************************************)
(* The MonitorManager of one subscription with its MonitorItems (sampled   *)
(* attributes) and EventItems.  Its handlers and the sample timers run on  *)
(* the server's one I/O thread, one action each, except that the events of *)
(* a notification are counted first and then drained item by item.         *)
(* Application threads write attributes, delete and create nodes and fire  *)
(* events between any two steps.                                           *)
(*                                                                         *)
(* When its subscription goes the manager is destroyed; the behaviour then *)
(* continues with the manager of the next subscription.                    *)
(***************************************************************************)
EXTENDS Integers, Sequences, FiniteSets, SequencesExt

CONSTANTS
    Node,         \* node ids, each monitored through one attribute
    ValueNode,    \* those of them that are monitored through Value
    MistypedNode, \* those that are monitored through NodeClass or ValueRank
    Variant,      \* contents an attribute may have
    NoItem,       \* not a node id
    QueueSize,    \* queue sizes clients ask for
    MaxItems,     \* bound: items created in a behaviour
    MaxPending,   \* bound: notifications of an item between two publishes
    MaxEvents     \* bound: events queued in one event item

ASSUME NodeAssumption ==
    ValueNode \subseteq Node /\ MistypedNode \subseteq Node \ ValueNode /\ NoItem \notin Node
ASSUME QueueSizeAssumption == QueueSize \subseteq Nat
ASSUME ItemBoundsAssumption ==
    MaxItems \in Nat /\ MaxPending \in Nat /\ MaxEvents \in Nat

Id == 1 .. MaxItems

(***************************************************************************)
(* What a node holds: a data value with its status (TRUE is Good), nothing *)
(* yet, or the node is not in the information model.  Only the Value       *)
(* attribute has a status, or may hold nothing.  Then the status codes of  *)
(* notifications without a value.                                          *)
(***************************************************************************)
DataValue == [variant: Variant, good: BOOLEAN]
NoValue == [status |-> "NoValue"]
Deleted == [status |-> "Deleted"]
BadDataUnavailable == [status |-> "BadDataUnavailable"]
BadNodeClassInvalid == [status |-> "BadNodeClassInvalid"]
Content(n) == {v \in DataValue : n \in ValueNode \/ v.good}
Notification == DataValue \cup {NoValue, BadDataUnavailable, BadNodeClassInvalid}

VARIABLES
    value,             \* per node: what the monitored attribute holds
    lastId,            \* the static counter of MonitorItemId
    monitorItemMap,    \* the keys of monitorItemMap_
    monitorItem,       \* per id: the MonitorItem
    monitoredItemIds,  \* per node: the ids in monitoredItemIds_
    eventItemMap,      \* the keys of eventItemMap_
    eventList,         \* per id: the number of events queued
    drain              \* the event notification being filled

(***************************************************************************)
(* History: what the client and the application have been told.  The       *)
(* application's knowledge of a node ends when it deletes the node.        *)
(***************************************************************************)
VARIABLES
    received,    \* per id: the last notification published
    pending,     \* per id: the notifications since then, none discarded
    monitoring,  \* per node: start callbacks minus stop callbacks
    removed      \* nodes that were deleted at some time

nodeVars == <<value, removed>>
itemVars == <<monitorItemMap, monitorItem, received, pending>>
startVars == <<monitoredItemIds, monitoring>>
eventVars == <<eventItemMap, eventList>>
vars == <<nodeVars, lastId, itemVars, startVars, eventVars, drain>>

MonitorItem ==
    [node: Node \cup {NoItem}, expired: BOOLEAN, queSize: Nat,
     discardOldest: BOOLEAN, list: Seq(Notification), dataValue: Notification]

Erased == [node |-> NoItem, expired |-> FALSE, queSize |-> 0,
           discardOldest |-> FALSE, list |-> <<>>, dataValue |-> NoValue]

NotDraining == [items |-> {}, free |-> 0]
IOThreadIdle == drain.items = {}

(***************************************************************************)
(* The items of node n whose weak pointer to the node is still good.       *)
(***************************************************************************)
LiveItems(n) ==
    {i \in monitorItemMap : monitorItem[i].node = n /\ ~monitorItem[i].expired}

Init ==
    /\ value \in [Node -> DataValue \cup {NoValue}]
    /\ \A n \in Node : value[n] \in Content(n) \/ (n \in ValueNode /\ value[n] = NoValue)
    /\ lastId = 0
    /\ monitorItemMap = {}
    /\ monitorItem = [i \in Id |-> Erased]
    /\ monitoredItemIds = [n \in Node |-> {}]
    /\ eventItemMap = {}
    /\ eventList = [i \in Id |-> 0]
    /\ drain = NotDraining
    /\ received = [i \in Id |-> NoValue]
    /\ pending = [i \in Id |-> <<>>]
    /\ monitoring = [n \in Node |-> 0]
    /\ removed = {}

-----------------------------------------------------------------------------
(***************************************************************************)
(* monitorItemListPushBack: a full queue makes room at its old end         *)
(* (discardOldest) or gives up its newest element.                         *)
(***************************************************************************)
PushBackDropping(item, notification) ==
    IF Len(item.list) < item.queSize \/ item.discardOldest
      THEN Append(IF Len(item.list) < item.queSize THEN item.list ELSE Tail(item.list),
                  notification)
      ELSE item.list
PushBackOverfull(item, notification) ==
    Append(IF Len(item.list) <= item.queSize THEN item.list
           ELSE IF item.discardOldest THEN Tail(item.list) ELSE Front(item.list),
           notification)
PushBack(item, notification) ==
    Append(IF Len(item.list) < item.queSize THEN item.list
           ELSE IF item.discardOldest THEN Tail(item.list) ELSE Front(item.list),
           notification)

(***************************************************************************)
(* forwardStartMonitoredItem: only the first item of a node is announced.  *)
(***************************************************************************)
StartAlways(n, i) ==
    /\ monitoredItemIds' = [monitoredItemIds EXCEPT ![n] = @ \cup {i}]
    /\ monitoring' = [monitoring EXCEPT ![n] = @ + 1]
forwardStartMonitoredItem(n, i) ==
    /\ monitoredItemIds' = [monitoredItemIds EXCEPT ![n] = @ \cup {i}]
    /\ monitoring' =
         [monitoring EXCEPT ![n] = IF monitoredItemIds[n] = {} THEN @ + 1 ELSE @]

(***************************************************************************)
(* forwardStopMonitoredItem for every item in S whose node still exists:   *)
(* the id is taken from the node's list, and the last one is announced.    *)
(***************************************************************************)
LastStopped(S, n) ==
    monitoredItemIds[n] # {} /\ monitoredItemIds[n] \subseteq S \cap LiveItems(n)

StopCallbacks(S) ==
    monitoring' = [n \in Node |->
        IF LastStopped(S, n) THEN monitoring[n] - 1 ELSE monitoring[n]]

forwardStopMonitoredItem(S) ==
    /\ monitoredItemIds' = [n \in Node |-> monitoredItemIds[n] \ (S \cap LiveItems(n))]
    /\ StopCallbacks(S)

(***************************************************************************)
(* createMonitoredItem.  The item's queue starts with the present value,   *)
(* always with status Good, or with BadDataUnavailable; dataValue_, which  *)
(* sample compares with, stays empty.  A request that is not authorised or *)
(* names an unknown node is refused without a trace; one for an attribute  *)
(* that the node does not have uses up an id.                              *)
(***************************************************************************)
FirstNotification(n) ==
    IF value[n] = NoValue THEN BadDataUnavailable ELSE [value[n] EXCEPT !.good = TRUE]

CreateMonitoredItem(n, queueSize, discardOldest) ==
    /\ IOThreadIdle
    /\ lastId < MaxItems
    /\ value[n] # Deleted
    /\ LET i == lastId + 1
           q == IF queueSize < 1 THEN 1 ELSE queueSize
           item == [node |-> n, expired |-> FALSE, queSize |-> q,
                    discardOldest |-> discardOldest, list |-> <<>>,
                    dataValue |-> NoValue]
       IN  /\ lastId' = i
           /\ monitorItemMap' = monitorItemMap \cup {i}
           /\ monitorItem' = [monitorItem EXCEPT ![i] =
                [item EXCEPT !.list = PushBack(item, FirstNotification(n))]]
           /\ pending' = [pending EXCEPT ![i] = <<FirstNotification(n)>>]
           /\ forwardStartMonitoredItem(n, i)
    /\ UNCHANGED <<nodeVars, received, eventVars, drain>>

CreateRefused ==
    /\ IOThreadIdle
    /\ lastId < MaxItems
    /\ lastId' = lastId + 1
    /\ UNCHANGED <<nodeVars, itemVars, startVars, eventVars, drain>>

(***************************************************************************)
(* createEventItem: the item registers with the event handler map of the   *)
(* information model and can be fired from then on.                        *)
(***************************************************************************)
CreateEventItemOwnIds ==
    /\ IOThreadIdle
    /\ lastId < MaxItems
    /\ lastId' = lastId
    /\ eventItemMap' = eventItemMap \cup {Cardinality(eventItemMap) + 1}
    /\ UNCHANGED <<nodeVars, itemVars, startVars, eventList, drain>>
CreateEventItem ==
    /\ IOThreadIdle
    /\ lastId < MaxItems
    /\ lastId' = lastId + 1
    /\ eventItemMap' = eventItemMap \cup {lastId + 1}
    /\ UNCHANGED <<nodeVars, itemVars, startVars, eventList, drain>>

(***************************************************************************)
(* The monitored items in S leave the map, and their queues with them.     *)
(***************************************************************************)
EraseMonitored(S) ==
    /\ monitorItemMap' = monitorItemMap \ S
    /\ monitorItem' = [i \in Id |-> IF i \in S THEN Erased ELSE monitorItem[i]]
    /\ pending' = [i \in Id |-> IF i \in S THEN <<>> ELSE pending[i]]
    /\ received' = [i \in Id |-> IF i \in S THEN NoValue ELSE received[i]]

EraseEvent(S) ==
    /\ eventItemMap' = eventItemMap \ S
    /\ eventList' = [i \in Id |-> IF i \in S THEN 0 ELSE eventList[i]]

(***************************************************************************)
(* receive(DeleteMonitoredItems) for one of the ids of the request; an     *)
(* unknown id changes nothing.                                             *)
(***************************************************************************)
DeleteMonitoredItem(i) ==
    /\ IOThreadIdle
    /\ \/ /\ i \in monitorItemMap
          /\ forwardStopMonitoredItem({i})
          /\ EraseMonitored({i})
          /\ UNCHANGED eventVars
       \/ /\ i \in eventItemMap
          /\ EraseEvent({i})
          /\ UNCHANGED <<startVars, itemVars>>
    /\ UNCHANGED <<nodeVars, lastId, drain>>

(***************************************************************************)
(* ~MonitorManager, and the manager of the next subscription.              *)
(***************************************************************************)
DestroyMonitorManager ==
    /\ IOThreadIdle
    /\ monitorItemMap \cup eventItemMap # {}
    /\ StopCallbacks(monitorItemMap)
    /\ monitoredItemIds' = [n \in Node |-> {}]
    /\ EraseMonitored(monitorItemMap)
    /\ EraseEvent(eventItemMap)
    /\ UNCHANGED <<nodeVars, lastId, drain>>

-----------------------------------------------------------------------------
(***************************************************************************)
(* AttributeAccess::trigger.  The Value attribute is compared with the     *)
(* value seen last and triggers when value or status differ; any other     *)
(* attribute triggers when nothing was seen, and then when it is equal.    *)
(* NodeClass and ValueRank are seen as Int32 but expected as UInt32, and   *)
(* trigger at every sample.                                                *)
(***************************************************************************)
TriggerVariant(item) ==
    IF item.dataValue = NoValue
      THEN value[item.node] # NoValue
      ELSE value[item.node].variant # item.dataValue.variant
Trigger(item) ==
    IF item.node \in ValueNode
      THEN item.dataValue # value[item.node]
      ELSE \/ item.dataValue = NoValue
           \/ item.node \in MistypedNode
           \/ item.dataValue = value[item.node]

(***************************************************************************)
(* sampleTimeout on an item whose node exists: sample() queues the value   *)
(* if it triggers.                                                         *)
(***************************************************************************)
Sample(i) ==
    LET item == monitorItem[i]
    IN  /\ IOThreadIdle
        /\ i \in monitorItemMap
        /\ ~item.expired
        /\ Trigger(item)
        /\ Len(pending[i]) < MaxPending
        /\ monitorItem' = [monitorItem EXCEPT
              ![i].list = PushBack(item, value[item.node]),
              ![i].dataValue = value[item.node]]
        /\ pending' = [pending EXCEPT ![i] = Append(@, value[item.node])]
        /\ UNCHANGED <<nodeVars, lastId, monitorItemMap, received, startVars,
                       eventVars, drain>>

(***************************************************************************)
(* sampleTimeout on an item whose node is gone: sample() queues the final  *)
(* notification, and then the item is erased.  monitoredItemIds_ keeps its *)
(* id, and no stop is announced.                                           *)
(***************************************************************************)
SampleExpired(i) ==
    /\ IOThreadIdle
    /\ i \in monitorItemMap
    /\ monitorItem[i].expired
    /\ EraseMonitored({i})
    /\ UNCHANGED <<nodeVars, lastId, startVars, eventVars, drain>>

(***************************************************************************)
(* receive(MonitoredItemNotificationArray): the notification takes over    *)
(* everything that the monitored items have queued.                        *)
(***************************************************************************)
PublishData ==
    /\ IOThreadIdle
    /\ \E i \in monitorItemMap : monitorItem[i].list # <<>>
    /\ monitorItem' = [i \in Id |-> [monitorItem[i] EXCEPT !.list = <<>>]]
    /\ received' = [i \in Id |-> IF monitorItem[i].list = <<>> THEN received[i]
                                 ELSE Last(monitorItem[i].list)]
    /\ pending' = [i \in Id |-> <<>>]
    /\ UNCHANGED <<nodeVars, lastId, monitorItemMap, startVars, eventVars, drain>>

-----------------------------------------------------------------------------
(***************************************************************************)
(* receive(EventFieldListArray): the queued events are counted and the     *)
(* array gets that many places; then each event item, in the order of the  *)
(* ids, moves its events to the array.  An item that finds the array full  *)
(* before it is empty makes the result BadOutOfMemory.                     *)
(***************************************************************************)
\* The events of the items in S, each by its item and its place in the queue.
Events(S) == {e \in S \X (1 .. MaxEvents) : e[2] <= eventList[e[1]]}

Queued == Cardinality(Events(eventItemMap))

CountOneMore ==
    /\ IOThreadIdle
    /\ Queued > 0
    /\ drain' = [items |-> eventItemMap, free |-> Queued + 1]
    /\ UNCHANGED <<nodeVars, lastId, itemVars, startVars, eventVars>>
CountEvents ==
    /\ IOThreadIdle
    /\ Queued > 0
    /\ drain' = [items |-> eventItemMap, free |-> Queued]
    /\ UNCHANGED <<nodeVars, lastId, itemVars, startVars, eventVars>>

DrainEventItem(i) ==
    LET n == IF eventList[i] < drain.free THEN eventList[i] ELSE drain.free
    IN  /\ i \in drain.items
        /\ \A j \in drain.items : i <= j
        /\ eventList' = [eventList EXCEPT ![i] = @ - n]
        /\ drain' = [items |-> IF n < eventList[i] THEN {} ELSE drain.items \ {i},
                     free |-> drain.free - n]
        /\ UNCHANGED <<nodeVars, lastId, itemVars, startVars, eventItemMap>>

-----------------------------------------------------------------------------
(***************************************************************************)
(* What application threads do.  EventItem::fireEvent with an event that   *)
(* passes the filter; a write to the monitored attribute; a node deleted   *)
(* from the information model, which ends the weak pointers of its items;  *)
(* a node created under the id of a deleted one.                           *)
(***************************************************************************)
FireEvent(i) ==
    /\ i \in eventItemMap
    /\ eventList[i] < MaxEvents
    /\ eventList' = [eventList EXCEPT ![i] = @ + 1]
    /\ UNCHANGED <<nodeVars, lastId, itemVars, startVars, eventItemMap, drain>>

Write(n, v) ==
    /\ value[n] # Deleted
    /\ value' = [value EXCEPT ![n] = v]
    /\ UNCHANGED <<lastId, removed, itemVars, startVars, eventVars, drain>>

DeleteNode(n) ==
    /\ value[n] # Deleted
    /\ value' = [value EXCEPT ![n] = Deleted]
    /\ removed' = removed \cup {n}
    /\ monitorItem' = [i \in Id |->
         IF monitorItem[i].node = n THEN [monitorItem[i] EXCEPT !.expired = TRUE]
                                    ELSE monitorItem[i]]
    /\ monitoring' = [monitoring EXCEPT ![n] = 0]
    /\ UNCHANGED <<lastId, monitorItemMap, received, pending, monitoredItemIds,
                   eventVars, drain>>

CreateNode(n, v) ==
    /\ value[n] = Deleted
    /\ value' = [value EXCEPT ![n] = v]
    /\ UNCHANGED <<lastId, removed, itemVars, startVars, eventVars, drain>>

Next ==
    \/ \E n \in Node, q \in QueueSize, d \in BOOLEAN : CreateMonitoredItem(n, q, d)
    \/ CreateRefused
    \/ CreateEventItem
    \/ \E i \in Id : DeleteMonitoredItem(i)
    \/ DestroyMonitorManager
    \/ \E i \in Id : Sample(i)
    \/ \E i \in Id : SampleExpired(i)
    \/ PublishData
    \/ CountEvents
    \/ \E i \in Id : DrainEventItem(i)
    \/ \E i \in Id : FireEvent(i)
    \/ \E n \in Node : \E v \in Content(n) : Write(n, v)
    \/ \E n \in Node : DeleteNode(n)
    \/ \E n \in Node : \E v \in Content(n) : CreateNode(n, v)

Spec == Init /\ [][Next]_vars

(***************************************************************************)
(* Fairness.  The sample timers are periodic; the client keeps publish     *)
(* requests queued, so that the subscription's publishing timer collects   *)
(* what is queued; a drain that has begun goes on.                         *)
(***************************************************************************)
Fairness ==
    /\ \A i \in Id : SF_vars(Sample(i)) /\ SF_vars(SampleExpired(i))
    /\ SF_vars(PublishData)
    /\ \A i \in Id : WF_vars(DrainEventItem(i))

FairSpec == Spec /\ Fairness

-----------------------------------------------------------------------------
(***************************************************************************)
(* Type invariant.  Monitored items and event items share one id space.    *)
(***************************************************************************)
TypeOK ==
    /\ value \in [Node -> DataValue \cup {NoValue, Deleted}]
    /\ lastId \in 0 .. MaxItems
    /\ monitorItemMap \subseteq 1 .. lastId
    /\ monitorItem \in [Id -> MonitorItem]
    /\ monitoredItemIds \in [Node -> SUBSET (1 .. lastId)]
    /\ eventItemMap \subseteq (1 .. lastId) \ monitorItemMap
    /\ eventList \in [Id -> Nat]
    /\ drain \in [items: SUBSET eventItemMap, free: Nat]
    /\ received \in [Id -> Notification]
    /\ pending \in [Id -> Seq(Notification)]
    /\ monitoring \in [Node -> Int]
    /\ removed \subseteq Node

(***************************************************************************)
(* The queue of an item is what its discard policy makes of all the        *)
(* notifications since the last publish: all of them while they fit, else  *)
(* the newest queSize ones (discardOldest), or the oldest queSize - 1 and  *)
(* the newest.                                                             *)
(***************************************************************************)
Discarded(p, q, discardOldest) ==
    IF Len(p) <= q THEN p
    ELSE IF discardOldest THEN SubSeq(p, Len(p) - q + 1, Len(p))
    ELSE Append(SubSeq(p, 1, q - 1), p[Len(p)])

QueuePolicy ==
    \A i \in monitorItemMap :
        LET item == monitorItem[i]
        IN  item.list = Discarded(pending[i], item.queSize, item.discardOldest)

(***************************************************************************)
(* However small its queue and whichever end is discarded, the newest      *)
(* notification of an item, queued or already published, is the value that *)
(* sample() compares with: a change that is not queued again later has not *)
(* been lost.                                                              *)
(***************************************************************************)
NewestKept ==
    \A i \in monitorItemMap :
        LET item == monitorItem[i]
        IN  item.dataValue # NoValue =>
              item.dataValue = IF item.list = <<>> THEN received[i]
                               ELSE item.list[Len(item.list)]

(***************************************************************************)
(* The application has been told of a start once, and not yet of a stop,   *)
(* exactly while a node that was never deleted has monitored items, over   *)
(* any sequence of creations, deletions and destroyed managers.            *)
(***************************************************************************)
StartStopBalanced ==
    \A n \in Node \ removed :
        /\ monitoredItemIds[n] = LiveItems(n)
        /\ monitoring[n] = IF LiveItems(n) = {} THEN 0 ELSE 1

(***************************************************************************)
(* The array of an event notification is filled to its last place, also    *)
(* when events are fired between counting and draining.                    *)
(***************************************************************************)
DrainFillsArray == IOThreadIdle => drain.free = 0

(***************************************************************************)
(* What a monitored attribute keeps is published, for every item that      *)
(* stays: the Value attribute because it is compared, NodeClass and        *)
(* ValueRank because they are queued at every sample.                      *)
(***************************************************************************)
Published(n) ==
    \A i \in Id, v \in DataValue :
        i \in LiveItems(n) /\ value[n] = v ~>
            i \notin LiveItems(n) \/ value[n] # v \/ received[i] = v

ValuePublished == \A n \in ValueNode \cup MistypedNode : Published(n)

(***************************************************************************)
(* docs/source/3_development/data_access.rst:309: "The MonitoredItems      *)
(* check changes of the Attributes with specified rate and if the          *)
(* Attributes are changed they store the new value in the buffer of its    *)
(* Subscription."                                                          *)
(***************************************************************************)
AttributePublished == \A n \in Node : Published(n)

(***************************************************************************)
(* MonitorItem.cpp:174: "base node class no longer exist. Generate final   *)
(* notification if necessary": after the sample that finds the node gone,  *)
(* the notification waits for the next publish.                            *)
(***************************************************************************)
FinalNotificationKept ==
    [][\A i \in Id : SampleExpired(i) =>
         BadNodeClassInvalid \in Range(monitorItem'[i].list)]_vars

(***************************************************************************)
(* docs/source/3_development/data_access.rst:322: "The user application    *)
(* may need to know that the client has subscribed or unsubscribed to an   *)
(* Attribute. [...] For this purpose the stack provides two callbacks":    *)
(* every node with monitored items has been announced.                     *)
(***************************************************************************)
SubscribedIsAnnounced ==
    \A n \in Node : LiveItems(n) # {} => monitoring[n] = 1
=============================================================================
