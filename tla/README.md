# OpcUaStack: TLA+ models of the stack's stateful services

OpcUaStack is a C++ implementation of OPC UA: a core library (encoding, secure
channel, timers, containers), a server library (sessions, services, information
model), a client library and some programs around them.  This directory holds
TLA+ models of the parts with state and timing of their own: the server's
subscription and monitored item services, the dispatch of events, the secure
channel of the server, the session manager, the slot timer, and the client's
session.  Paths below are relative to `src/src/`.

| file | content |
|---|---|
| `AcknowledgementManager.tla` | sequence numbers and unacknowledged notifications, as operators |
| `SubscriptionService.tla` | sessions' subscription managers, publish queues, counters, timers |
| `MCSubscriptionService.tla` | symmetry sets for TLC |
| `SubscriptionServiceProofs.tla`, `MonitorManagerProofs.tla`, `EventDispatchProofs.tla`, `SecureChannelServerProofs.tla`, `SessionManagerProofs.tla`, `SlotTimerProofs.tla`, `ClientSessionProofs.tla` | the inductive invariant of each model and the TLAPS proofs |
| `MonitorManager.tla` | monitored items and event items of one subscription |
| `EventDispatch.tla` | fired events climbing the notifier hierarchy |
| `SecureChannelServer.tla` | the reading and the writing loop of a server channel |
| `ResponseQueue.tla` | what a channel promises for the responses handed to it |
| `SessionManager.tla` | endpoints, channels, sessions, requests and shutdown |
| `SlotTimer.tla` | the wheel of slot arrays and the loop that turns it |
| `SlotTimerStops.tla` | the wheel with the stops that have returned |
| `TimerQueue.tla` | what a timer promises |
| `ClientSession.tla` | the client's session, its channel and its pending requests |
| `MC*.cfg` | TLC configurations: one per run, and those of section 3.4 |
| `PROJECT.json` | components, runs, mutants, source map, findings, hazards, theorems |

## 1. Inventory

### Threads

`Utility/IOThread.cpp` starts one I/O service with one thread.  All network
completions, hence all service handlers, run on it, and so do the callbacks of
the `SlotTimer`, whose loop is an `async_wait` on the same I/O service.
Handlers and timer callbacks therefore never overlap.  The application's own
threads call in at `ApplicationService` and through node callbacks: they write
attributes, create and delete nodes and fire events at any time.  The mutexes
in the server (`EventItem`, `EventHandlerMap`, `BaseNodeClass`) are for those.

### Components

**Subscription service** (`OpcUaStackServer/ServiceSet/SubscriptionService`,
`SubscriptionManager`, `Subscription`).  *State:* a map from session to
`SubscriptionManager`; per manager a map of subscriptions and the list of open
publish transactions; per subscription a lifetime counter, a keepalive counter
and their start values.  *Operations:* create and delete subscriptions,
publish (with acknowledgements), the publishing timer of each subscription.
Modify, Republish, SetPublishingMode and Transfer answer an error and change
nothing.  *Interaction:* it is called by the session's transaction dispatch,
sends responses through the transaction's session, and calls `MonitorManager`.
*Hard:* several subscriptions take requests from one queue; unsigned counters
that are decremented in two places; a `publish()` that has consumed a sequence
number and then does not send.  *Correct when:* every request is answered once
and to its session, sequence numbers have no gap, keepalives are in time, a
subscription lives exactly as long as its client serves it.

**Acknowledgement manager** (`AcknowledgementManager`).  *State:* last sequence
number, a flag that the last one went out with a keepalive, a bounded list of
notifications.  *Operations:* next number, add, delete.  *Hard:* wrap-around,
keepalive numbers that are used again, a full list.

**Monitor manager and items** (`MonitorManager`, `MonitorItem`, `EventItem`,
`AddressSpaceModel/AttributeAccess.cpp`).  *State:* two item maps with one id
space, a queue per item, the value each item saw last, a list of item ids per
node from which start and stop callbacks are derived.  *Operations:* create,
delete, destroy, sample, collect data changes, collect events.  *Hard:* queue
overflow under two policies, nodes deleted under their items, events fired
while they are collected.  *Correct when:* the newest value is never lost, and
the application's start and stop callbacks are balanced.

**Session and session manager** (`Session`, `SessionManager`,
`ChannelSessionHandle(Map)`, `TransactionManager`).  *State:* session state
(none, created, activated), handles linking a channel and a session, the
endpoints.  *Operations:* channel connect and disconnect, create, activate,
close and cancel session, message dispatch and response, endpoint shutdown.
*Hard:* responses that arrive for a session whose channel has gone; a second
CreateSession on a channel; shutdown with several endpoints, which shares one
condition with the end of the last channel.  *Correct when:* a response reaches
the channel its request came from or none; shutdown ends.

**Slot timer** (`OpcUaStackCore/Utility/SlotTimer`).  *State:* a hierarchy of
slot arrays of doubly linked elements.  *Operations:* start, stop, the loop,
the end of the loop.  *Hard:* carry from one array to the next, callbacks that
start or stop timers while the mutex is released, a `stop()` that looks before
it locks, a loop that is late.  *Correct when:* an element fires at its tick,
not earlier, and never after a `stop()` on the I/O thread.  The code keeps the
last of these (`MCSlotTimerStopFinal`), but not for a `stop()` on another thread
(`MCSlotTimerStopLost`).

**Secure channel** (`OpcUaStackCore/SecureChannel`, `TCPChannel`).  *State:*
channel state, security token, sequence number, two lists of responses, three
flags for what is in flight.  *Operations:* Hello, Acknowledge, open, renew,
close, send, receive.  *Hard:* asynchronous reads and writes that complete
after a close; two loops that share members; a cancel that comes too late.
*Correct when:* responses leave in order, whole and once, and the channel is
deleted when no handler can find it any more.

**Application service and event dispatch** (`ServiceSetApplication`,
`InformationModel/EventHandlerMap.cpp`).  A fired event climbs the notifier
hierarchy; for each node the registered handlers are collected and called under
the map's mutex, while event items register and deregister.  *Hard:* the vector
of handlers outlives the lock; items keep the event in a member.

**Information model** (`InformationModel`, `AddressSpaceModel`): nodes, their
attributes and references, creation and deletion of nodes.

**Attribute, method, view, node management and query services**: handlers of
one step each over the information model.

**Discovery and registered servers, server start-up**: registrations with lease
times; a fixed sequence of start-up and shutdown steps.

**Client service sets** (`OpcUaStackClient`): the client session with connect,
disconnect, reconnect and pending requests, and the services that send through
it.  *State:* a session state, the channel's own state, two reconnect timers, a
renew timer, one transaction for synchronous calls, the pending queue.  *Hard:*
handlers that are queued when a cancel comes; timers of two layers; an answer
racing its timeout.  *Correct when:* there is one channel when the session
believes so, and every request gets exactly one answer.

**Containers and memory** (`OpcUaStackCore/Container`, `Base`): object pool,
data memory array, condition variables.

**Filter**: evaluation of event where clauses.

**Encodings and data types, node set parser, generators, command line programs,
PubSub structures**: sequential conversions and I/O.

`PROJECT.json` lists each component with its sources and status, and each
hazard of the code at its line.

## 2. The models

### AcknowledgementManager

A value of the class is a record; each method is an operator on it.  `Successor`
is the `uint32` increment that skips zero; `NextSequenceNumber` and
`TakeSequenceNumber` are the result and the effect of `nextSequenceNumber`;
`AddNotification` and `DeleteNotification` are the list operations.  The bodies
of stored notifications are never read in the code, so the list holds numbers.
`UIntMax` stands for 4294967295 and `MaxListSize` for `maxListSize_` (20).

### SubscriptionService

The variables are the members of the three classes under their own names, one
function per member.  Subscription ids are handed out from the static counter
and never used again; an erased subscription's members return to their initial
values, as the object is gone.

| action | code |
|---|---|
| `CreateSubscription` | `receiveCreateSubscriptionRequest` in service and manager; the counts are raised to 2 |
| `DeleteSubscriptions` | `receiveDeleteSubscriptionsRequest` in service and manager |
| `Publish`, `PublishRefused` | `receivePublishRequest` with and without a manager |
| `PublishTimeout` | `subscriptionPublishTimeout` and `Subscription::publish`, by outcome: `TickWithoutRequest`, `CountEvents`, `PublishData`, `PublishNothing` |
| `DrainEvents` | the rest of `publish()` once events were counted |
| `FireEvent` | `EventItem::fireEvent` in an application thread |
| `QueueData`, `DeleteMonitoredItems` | what monitored items do to the subscription's queues |

A handler is one action.  The exception is the place where the code is not
atomic: `MonitorManager::receive` adds up the sizes of the event queues, sizes
the array, and drains the queues afterwards, while application threads may add
events.  Between `CountEvents` and `DrainEvents` only `FireEvent` can happen.

The monitored items are abstracted to the number of queued events and to whether
some data change is queued: that is all `publish()` sees.

Seven history variables record what a client could observe: which session waits
for which request, the number the next notification should have, whether a
number was consumed without being sent, whether numbers wrapped, the ticks since
the last response, whether `publish()` has returned `NeedAttention` since then,
and successive ticks without a request.  No guard reads them.

### MonitorManager

| action | code |
|---|---|
| `CreateMonitoredItem`, `CreateRefused` | `createMonitoredItem`, and the refusal that uses up an id |
| `CreateEventItem` | `createEventItem` |
| `DeleteMonitoredItem` | `receive(DeleteMonitoredItems)`, per id of the request |
| `DestroyMonitorManager` | `~MonitorManager`; the next subscription's manager follows |
| `Sample`, `SampleExpired` | `sampleTimeout` and `MonitorItem::sample` while the node exists, and after it is gone |
| `PublishData` | `receive(MonitoredItemNotificationArray)` |
| `CountEvents`, `DrainEventItem` | `receive(EventFieldListArray)`, per event item |
| `FireEvent`, `Write`, `DeleteNode`, `CreateNode` | application threads |

`PushBack` is `monitorItemListPushBack`, `Trigger` is `AttributeAccess::trigger`
(`Value` is compared, `NodeClass` and `ValueRank` always trigger, every other
attribute is compared the wrong way round),
`forwardStartMonitoredItem` and `forwardStopMonitoredItem` are the callbacks.
An item's weak pointer to its node is the field `expired`.  A sample that does
not trigger changes nothing and is a stuttering step.  Event filters are
abstracted: `FireEvent` is an event that passes.

History: the last notification published per item, all notifications since,
start minus stop callbacks of the present node, and which nodes were ever
deleted.

The two modules meet where `SubscriptionService` abstracts: `events[s]` is
`Queued` of the subscription's manager and `data[s]` is "some item's queue is
not empty".  Showing that as a refinement is on the plan.

### EventDispatch

`FireEventRequest` is the first half of `receiveFireEventRequest`: the lookup of
the node and the climb (`Climb`), which asks for the parents of the same node at
every turn, as the code does.  `LockNode`, `CallHandler`, `FilterEvent` and
`UnlockNode` are one turn of its loop over the nodes: the map's mutex is taken,
the handlers are appended to the vector, and all of the vector is called, with
the step into `EventItem::fireEvent` and the where filter apart, because other
threads can run between the two.  `Respond` ends the request.  The vector is not
cleared between nodes: `stale` counts the handlers left over, and
`CallDestroyed` is the call of one whose item is gone.  `CreateEventItem` and
`DestroyEventItem` run on the I/O thread and register under the mutex.  The
notifier references are any relation, chosen in `Init`; a request for a node
that does not exist is answered at once and changes nothing.

### SecureChannelServer and ResponseQueue

The record `ch` holds the members of `SecureChannel` that decide what happens:
the state, the flags of what is in flight and of the close, the header and the
request id the loops share, the two lists, the chunk being written.  What asio
does is external and open: `HeaderArrives`, `BodyArrives`, `ReadFails` and
`WriteEnds` complete an operation with any outcome, `Cancel` and `CloseSocket`
end what is pending and not what has completed.  Each `Handle...` action is one
completion handler with all it calls: `HandleReadHeader` starts the body's read,
`HandleReadOpen` queues a response, `HandleReadMessage` collects chunks,
`HandleWriteOpen` and `HandleWriteMessage` go on with `HandleWriteComplete`,
which writes the next open response, chunk or message.  `SendResponse` and
`Disconnect` are the calls from above.  Securing a chunk may fail where the
crypto functions may.

`ResponseQueue` is the promise: responses leave in the order they were handed
over, each once, until the channel closes or one cannot be sent.
`QueueRefined` says that the channel implements it, `queued` being the ids in
`transactionList` and `sent` the messages whose last chunk was handed to the
socket.

### SessionManager

| action | code |
|---|---|
| `ResolveComplete`, `ClientConnects`, `AcceptComplete`, `AcceptError`, `ResolveError` | the accept loop of `SecureChannelServer` per endpoint |
| `OpenSecureChannel`, `ReissueSecureChannel` | `handleConnect`, and the second ISSUE that is refused after it changed the id |
| `HandleDisconnect` | `handleDisconnect` with `deleteSecureChannel` |
| `CreateSessionRequest`, `ActivateSessionRequest`, `CloseSessionRequest` | the session requests, with their refusals |
| `MessageRequest`, `Receive`, `ReceiveDestroyed` | a request handed to a service, and its response, which finds its session alive or gone |
| `Disconnect`, `HandleEndpointClose`, `Shutdown` | the shutdown, in the order of the endpoints |

A request keeps the address of its session and the handle of its channel, as the
transaction does.  `astray` and `ended` are history: responses that were written
to a channel other than the requester's or to one that is deleted, and sessions
the client itself has ended.

### SlotTimer and TimerQueue

Arrays `1 .. Levels` have a window of ticks each, the last one none.  `Insert`
finds the array and slot, `RemoveElement` is `remove()` with `del()`.  The loop is cut
where it gives up the mutex or where another thread can look: `LoopBegin`,
`RunCall` (unlinks or re-inserts, then calls), `CallbackReturns`, `RunLimit`,
`RunEmpty`, `MoveSlot`, `Drain`, `MoveLast`, and `AfterRun`, which sets the
timer or ends.  `nextTick_` is never assigned in the code, so the loop runs
whenever its timer expires.  `stop()` is one action on the I/O thread; on
another thread it is `StopChecks`, before the mutex, and `StopRemoves`.  A
removal that corrupts the lists ends the model in the state `broken`.

`RunCall` and each element of `Drain` unlink and insert again in one step, as the
code does under the mutex.  A `stop()` that looks at the element in between finds
it not running and returns: it changes nothing, so the properties of `SlotTimer`
cannot tell.  `SlotTimerStops` adds the history that can, the elements whose stop
has returned (`stopped`), and lets a step that inserts an element again be the
one during which the other thread looked.  `StopIsFinal` is stated over it.

`TimerQueue` is the promise: each started element has a tick it is due at, and
the timer passes no tick before everything due at it was called or stopped.
`TimerQueueRefined` says that the wheel implements it: arrays, slots, carries
and the limit of calls do not show.

The widths of slots and the first offsets are recursive functions of the array
(`TicksPerSlot`, `InitOffset`), so that `Levels` can be any number.  `MaxTime`,
up to which ticks are typed, is twice the clock and what is started ahead of it:
a loop that was late once sets its timer one tick on at each turn of the wheel
and runs at once as well, and the wheel gets ahead of the clock, by a tick for
each one it was late with.  The history variable `late` counts them.

### ClientSession

| action | code |
|---|---|
| `Post`, `Return` | the four connect and disconnect calls; the wait of the synchronous ones |
| `RunPosted` | `asyncConnectInternal`, `asyncDisconnectInternal` on the I/O thread |
| `TimerFires` | `reconnectTimeout` of the session |
| `ResolveComplete`, `ConnectComplete`, `RecvAcknowledge`, `RecvOpenSecureChannelResponse`, `RenewSecurityToken`, `CloseRequestWritten`, `ChannelDisconnect`, `HandleReconnect` | the handlers of `SecureChannelClient`, each with the callback into `SessionService` |
| `RecvCreateSessionResponse`, `RecvActivateSessionResponse` | the session on the channel |
| `Receive`, `ReceiveMessage`, `PendingQueueTimeout` | a service's request, its answer, its timeout |

The server may answer, stay silent or close at any time.  A condition is
decremented without a look at its value and waited for to equal zero; a value
that went past it is `Passed`.  `mode` is chosen in `Init`.  Channels that
reconnect by themselves share one timer with any later one: with such a
configuration the model makes no second channel.

## 3. What is checked

### 3.1 The runs

Each run is one TLC configuration.  Where the code has a defect that a property
meets, the property names it as its exception, so that the run shows it is the
only one; section 3.4 has the counterexamples.

**subscription** (`MCSubscriptionService.cfg`): one session, one subscription,
two requests, `UIntMax` 3, list size 2, up to two events.
- `SequenceContinuous`: the number of the next response is the one the client
  expects, over keepalives and the wrap, unless an overrun consumed a number.
  It shows that the overrun of `DrainEvents` is the *only* source of gaps.
- `AckListOrdered`: the list is bounded and, until numbers wrap, ascending.
- `KeepaliveInTime`: the silence is shorter than the keepalive count unless
  `publish()` reported `NeedAttention`.  The exception is real: the counter
  stops at zero while no request is queued, and the next tick with a request
  decrements it to the largest `uint32`.
- `StarvedIsReclaimed`, `RequestAnswered`: a starved subscription is reclaimed,
  and a request of a session with a subscription is answered, provided events
  do not for ever arrive in the middle of `publish()`.  Without that proviso the
  second does not hold: `NeedAttention` leaves the request queued each time.

**shared** (`...Shared.cfg`): two sessions, two subscriptions, which may share a
queue, and managers that come and go.
- `RequestsAnsweredOnce`: a session's queue holds exactly the requests its
  client waits for, each once, and only a session with a manager has any.
- `TimeoutOnlyWhenStarved`: a tick removes a subscription only after exactly
  `lifetimeCount` successive ticks that found no request.

**monitor** (`MCMonitorManager.cfg`): two items on one variable, queue sizes 1
and 2 (a requested 0 becomes 1), three notifications between publishes.
- `QueuePolicy` compares each queue with a closed form of the discard policy
  applied to everything since the last publish; `NewestKept` says the value that
  sampling compares with has been published or is the newest queued.
- `StartStopBalanced`: the application sees start and stop alternate, and
  `monitoredItemIds_` agrees with the item map, for nodes never deleted.
- `DrainFillsArray`: the array sized before is filled to the last place,
  whatever is fired in between, so no event notification has an empty element.
- `ValuePublished`: a value that stays is published for every item that stays,
  for `Value` and, in `MCMonitorManagerMistyped`, for `NodeClass` and `ValueRank`.

**event_dispatch** (`MCEventDispatch.cfg`): two threads, two nodes with every
notifier relation, two items, two requests.
- `FreshHandlersAlive`: a handler just looked up is called before its item can
  be destroyed; only left-over handlers lack this protection.
- `FilterReadsOwnEvent`: the event an item filters is the one of the request
  that called it, and every receiver is told the same source.
- `NotifiersReached`: the items of the node and of its direct notifiers are
  offered the event, and no item outside the hierarchy of the node.  What lies
  further up is left open: that it is not reached is `MCEventDispatchHierarchy`
  below.
- `FireAnswered`: every request is answered.

**channel** (`MCSecureChannelServer.cfg`): four request ids, two chunks per
message, responses that may fail to be secured.
- `DeletedWhenQuiet`: when the channel is deleted no tracked operation is in
  flight.
- `OpenAnswersItsRequest`: an open response carries the id of its request.
- `ChunksContiguous`: chunks of a message follow one another, sequence numbers
  rise, and no write begins before the last one has completed.
- `QueueRefined`, `ResponsesLeave`: the channel implements `ResponseQueue`, and
  what is queued leaves or is dropped with the channel, unless a chunk could not
  be secured: then `asyncSend_` stays set and nothing is sent any more.

**sessions** (`MCSessionManager.cfg`): one endpoint, two channels, two sessions,
two waiting requests.
- `AnswersReachTheirChannel`: no response goes to another channel, and none to a
  deleted one, but for a channel that was issued twice.
- `SessionOutlivesRequests`: the session of a waiting request lives unless the
  client made another on the channel or failed to activate it again.

**shutdown** (`MCSessionManagerShutdown.cfg`): two endpoints, two channels.
- `HandlesMatchChannels`: `channelIdMap_` holds exactly the open channels, but
  for a channel that was issued twice.
- `ShutdownEnds`: shutdown gets past every endpoint whose accept was waiting
  when it was closed, in whatever order channels and endpoints end.

**timer** (`MCSlotTimer.cfg`): two elements, one-shot and periodic, three arrays
of two slots, both threads stop elements.
- `TimerQueueRefined`, `CountAgrees` (the lists hold what runs, and `count` is
  their number): unless a stop broke the lists, by looking before the call and
  removing after it, or by removing from the last array.
- `NeverEarly`: a callback comes before its tick by no more ticks than the loop
  was late with; none does while the loop keeps up with the clock.  The guard
  that should prevent it is dead (`nextTick_`).

**timer_live** (`MCSlotTimerLive.cfg`): nobody stops elements; `TimerFires` and
`StopReturns` hold unless the loop drains the last array for ever.

**client** (`MCClientSession.cfg`): both modes, two channels, three calls, one
request, all timeouts.
- `ChannelMatchesState`: at most one channel lives, in the states that need one;
  the session's timer runs exactly in `DisconnectedWait`, the renew timer only
  for a living channel.
- `AnsweredOnce`, `RequestsAnswered`: a request has one answer, whichever of
  response, timeout and end of the session comes first, and gets it in the end.

**open**, **attribute** (violations): see the findings.

### 3.2 Bounds

- `UIntMax` 3 (2 in the smaller runs): sequence numbers wrap after three
  notifications and the keepalive counter's step below zero is reached, which
  4294967295 steps would hide.  Requested counts 0, 2 and 3 include the one that
  is raised to the minimum.
- `MaxListSize` 2: the list overflows, and an acknowledgement can hit its first
  or second element or none.
- Two transactions: one stays queued while the other is answered, and each is
  used again after its answer.  The queue's order matters only with two.
- `MaxSubscriptions` bounds what is ever created; two are enough for sharing a
  queue and for a manager that is dropped and created again.
- `MaxEvents` 2 of a subscription: an event counted and one that arrives late;
  1 per item of the monitor manager, whose two items together give the same.
- `MaxPending` 3 against queue sizes 1 and 2: both queues overflow, by one and
  by two.
- Two nodes give no notifier, a notifier and a cycle.  They have no grandparent,
  so the run cannot show that the climb asks for the parents of the wrong node;
  `MCEventDispatchHierarchy` has three.  Two threads contend for the mutex.
- `MaxRequestId` 4 and two chunks: a renewal between the chunks of a request and
  of a response, with another response waiting.
- Two channels, endpoints and sessions: one replaces or outlives the other.
- `Slots1` 2, `Slots2` 2, `Levels` 2: an element goes through each array, and
  `MaxAhead` 6 reaches the last one; `MaxTick` 3 or 4 turns each array once.
  `MaxCallPerLoop` 2 means one call per turn, with two elements in a slot.
- `MaxChannels` 2, `MaxCalls` 3: connect, disconnect, connect again, and a
  reconnect by timer.

Requests and sessions of `MCSubscriptionService` are symmetric; liveness runs
use no symmetry.

### 3.3 Fairness

`SubscriptionService`: strong fairness of each subscription's `PublishTimeout`:
each has its own periodic timer element and the loop runs every element that is
due, however many handlers run in between (a tick can be disabled for a moment
by a `publish()` in progress).  Weak fairness of `DrainEvents`: a call that has
begun returns.  Nothing is assumed of clients.

`MonitorManager`: strong fairness of sampling for the same reason, weak fairness
of draining, and strong fairness of `PublishData`, which is an assumption on the
client: it keeps publish requests queued.  Writers are not assumed to be fair.

`EventDispatch`: a thread inside a request keeps running.  `SecureChannelServer`:
the I/O thread runs queued handlers, and a write completes, in success or error;
reads need not complete unless the client has gone.  `SessionManager`: queued
handlers run, the thread in shutdown goes on, and clients leave in the end,
without which shutdown may wait for ever.  `SlotTimer`: the clock ticks and the
I/O thread runs.  `ClientSession`: posted calls, timers and completed operations
are run, each pending request's timeout expires, and the server answers; that
it may also close the connection is not excluded.

Deadlock checking is on in the runs of `SubscriptionService` and
`MonitorManager`.  The other models bound what clients and clocks do, and end
when that is used up.

### 3.4 Findings and further disagreements

Two runs expect a violation:

1. **open**: `subscriptionPublishTimeout` erases the last subscription of a
   session and leaves the empty manager; later publish requests are queued and
   never answered, though `SubscriptionManager.cpp:144` announces that open
   requests are answered when no subscription is left.
2. **attribute**: for attributes other than `Value`, `AttributeAccess::trigger`
   returns true when the attribute *equals* the value seen last.  A change is
   never queued after the first sample.  `NodeClass` and `ValueRank` are not
   affected: they are seen as `Int32` and compared as `UInt32`, and are queued at
   every sample, changed or not.  For such a node `MCMonitorManagerMistyped`
   checks, and passes, what the run **monitor** checks.

The following configurations are kept beside the runs.  Each checks what a
comment or a document says, or what a caller relies on, and TLC finds a
counterexample:

| configuration, property | what the code does |
|---|---|
| `MCMonitorManagerFinal`, `FinalNotificationKept` | `sampleTimeout` erases the item whose `sample()` has just queued the final notification of a deleted node (`MonitorItem.cpp:174`) |
| `MCMonitorManagerAnnounced`, `SubscribedIsAnnounced` | the same erasure leaves the id in `monitoredItemIds_`: a node created again under the node id gets no start callback (`docs/source/3_development/data_access.rst:322`) |
| `MCEventDispatchHierarchy`, `HierarchyReached` | the climb asks for the parents of the request's node at every turn: an item two notifiers above gets nothing (`ApplicationService.cpp:400`, "get nodes from event hierarchy") |
| `MCEventDispatchOnce`, `EventOnce` | the vector of handlers is not cleared between nodes, and handlers are called again for each notifier (`ApplicationService.cpp:438`) |
| `MCSecureChannelServerChunks`, `MessageIsCompleted` | writing the response to a renewal sets the header both loops share to final, while a chunk of a request is read (`SecureChannelBase.cpp:1085`) |
| `MCSecureChannelServerDisconnect`, `DisconnectCloses` | a disconnect that comes when the read has completed cancels nothing (`SecureChannelServer.cpp:87`) |
| `MCSessionManagerReissue`, `HandleDeleted` | a refused second ISSUE has already changed `channelId_`; the handle under the old id stays (`SessionManager.cpp:193`) |
| `MCSessionManagerReplaced`, `RequestsHaveSessions` | a second CreateSession or a refused activation destroys a session whose requests wait (`Session.cpp:839`) |
| `MCSessionManagerCloseAll`, `AllChannelsCancelled` | channels that are accepted and not yet opened are not closed (`SessionManager.cpp:627`) |
| `MCSessionManagerOrder`, `EndpointsClosedFirst` | the end of the last channel is taken for the close of an endpoint (`SessionManager.cpp:143`) |
| `MCSessionManagerAccept`, `AcceptCompleteCalled` | an acceptor cancelled between two accepts accepts again (`SecureChannelServer.cpp:75`) |
| `MCSlotTimerStopLost`, `StopIsFinal` | `stop()` looks at an element while the loop has it unlinked, and returns without effect: the element is called again (`SlotTimer.cpp:403`); with stops on the I/O thread only (`MCSlotTimerStopFinal`) the property holds |
| `MCClientSessionTimers`, `NeverBothTimers` | the channel's reconnect timeout is cleared when there is a request timeout, not when the session reconnects (`SessionService.cpp:120`, "Never both.") |
| `MCClientSessionUser`, `StaysDisconnected` | the session reconnects after a disconnect by the user (`SecureChannelClient.cpp:286`) |
| `MCClientSessionStop`, `DisconnectStopsConnect` | a disconnect during a connect is forgotten by the next handler (`SessionService.cpp:275`) |
| `MCClientSessionResolve`, `CancelFindsSocket` | a disconnect while the host is resolved cancels a socket that is not open, which throws (`SessionService.cpp:275`) |
| `MCClientSessionConfirmed`, `DisconnectConfirmed` | the ActivateSession response completes the transaction of a later disconnect (`SecureChannelClient.cpp:95`) |
| `MCClientSessionSync`, `SyncReturns` | a transaction completed twice passes the zero its thread waits for, and the call hangs |

The exceptions in the timer's properties are defects too: `stop()` reads
`isRunning()` before it locks (`SlotTimer.cpp:403`), `remove()` lacks a return
after deleting from the last array (line 223), `moveSlot` puts elements back
into the slot it drains (line 283), and `nextTick_` is never set (line 460).

## 4. What is proved

Every safety property that a passing run checks, action properties and both refinements
included, is a theorem of its specification: `Spec => []P` for an invariant,
`Spec => P` for the others, for every value of the constants that the
assumptions of the model allow.  Seven modules hold the proofs.  Each states an
inductive invariant as a conjunction of named parts, a lemma for each action
that says the step keeps it, and the theorems, which follow from it.  TLC has
checked each of these invariants on the constants of its model's passing runs;
each holds there.

The assumptions are those of the models: bounds are natural numbers, the value
that stands for "none" is not one of the things it is not, the numbers a client
may ask for are `uint32`s.  One theorem has a hypothesis of its own
(`OneTimer`, below).

### SubscriptionServiceProofs

| theorem | property |
|---|---|
| `TypeCorrect` | `TypeOK` |
| `RequestsOnce` | `RequestsAnsweredOnce` |
| `NumbersContinuous` | `SequenceContinuous` |
| `AcknowledgementsOrdered` | `AckListOrdered` |
| `KeepaliveTimely` | `KeepaliveInTime` |
| `LifetimeKept` | `TimeoutOnlyWhenStarved` |

    IndInv == TypeOK /\ Owned /\ Unused /\ LifetimeCounts /\ KeepaliveCounts
              /\ PublishingOK /\ RequestsAnsweredOnce /\ Continuous

- `Owned`: a subscription is in one session's map, that session has a manager,
  and its id was handed out.  Without it a tick in one session could disturb a
  subscription of another, and a new id might be in use.
- `Unused`: an id not in a map has initial counters and history, so a created
  subscription starts right.
- `LifetimeCounts`: idle ticks plus the lifetime counter give `lifetimeCount`,
  and the counter is not zero; hence its decrement never wraps, and at zero
  exactly `lifetimeCount` ticks have passed.
- `KeepaliveCounts`: until `NeedAttention`, ticks since the last response plus
  the keepalive counter give `maxKeepAliveCount`, and the counter is not zero;
  hence a keepalive comes when the sum is used up.
- `PublishingOK`: while a `publish()` is between counting and draining, its
  subscription is there, the events counted are still queued and the request it
  will answer is still at the head of the queue.  `DrainEvents` needs all three.
- `Continuous`: `SequenceContinuous` quantified over the maps instead of over
  `Live`, the form the steps need.
- `ListsOrdered`, beside `IndInv` and inductive with `TypeOK`: the list is
  ascending and below the next number, where a number that went out with a
  keepalive will be used again and may not be in the list yet.

Lemmas about `AcknowledgementManager` (types, that a taken number is the expected
one, what adding and deleting leave of the order) and about the queue (head
removal and appending keep elements distinct) are stated once.

### MonitorManagerProofs

| theorem | property |
|---|---|
| `TypeCorrect` | `TypeOK` |
| `QueueKeepsPolicy` | `QueuePolicy` |
| `NewestNotLost` | `NewestKept` |
| `CallbacksBalanced` | `StartStopBalanced` |
| `ArrayFilled` | `DrainFillsArray` |

    IndInv == TypeOK /\ ItemsSound /\ QueuePolicy /\ NewestKept
              /\ StartStopBalanced /\ DrainSound

- `ItemsSound`: queues have a place, and an item that has not expired has its
  node: `Sample` and `DeleteNode` rely on it for the callbacks.
- `DrainSound`: the places of the array that are left are for events that are
  still queued: application threads only add.

The lemma behind the first three is `DiscardedAppend`: discarding from a list to
which one notification was added is the same as adding it to what was left and
discarding one, under either policy.

### EventDispatchProofs

| theorem | property |
|---|---|
| `TypeCorrect` | `TypeOK` |
| `FreshAlive` | `FreshHandlersAlive` |
| `FiltersUndisturbed` | `FilterReadsOwnEvent` |
| `RequestReachesNotifiers` | `NotifiersReached` |

    IndInv == TypeOK /\ ItemsNumbered /\ MapSound /\ MutexHeld
              /\ \A t \in Thread : ThreadInv(t)

- `MapSound`: the map has each living item once, under its node.
- `MutexHeld`: a thread that serves a node holds the map's mutex; so nobody
  deregisters the handlers it has just looked up (`Serving`), nor overwrites the
  event of the item it is calling (`Filtering`).
- `Within`: a request meets only items of its node and the direct notifiers.
- `Pending`, `PendingHere`: an item that stands since the request began has the
  event, or its node, or at the node being served its handler, is still to come.

### SecureChannelServerProofs

| theorem | property |
|---|---|
| `TypeCorrect` | `TypeOK` |
| `DeletedQuiet` | `DeletedWhenQuiet` |
| `OpenAnswers` | `OpenAnswersItsRequest` |
| `ChunksFollow` | `ChunksContiguous` |
| `QueueImplemented` | `QueueRefined` |

    IndInv == TypeOK /\ WriteSound(ch) /\ ReadSound(ch) /\ OneOpen(ch) /\ ClientSound

- `WriteSound`: `asyncSend_` is set while a write is in flight, and a message
  that is begun is at the head of the list until its last chunk, unless the
  connection failed, the channel is deleted or a chunk could not be secured.
- `ReadSound`: `asyncRecv_` is set for exactly the reads it is meant for, and a
  deleted channel has none.
- `OneOpen`: one open response waits at most, for the request read last: its id
  is the member both loops share.  `ClientSound` is what makes this true: a
  client sends no second renewal before the first is answered, and what is in
  the header agrees with it.

The operators that a handler passes the channel through (`AsyncRead`,
`CloseChannel`, `WriteNext`, ...) have a lemma each that says what they change
and what they leave alone; a handler's step composes them.  The same lemmas give
the refinement, a step of `ResponseQueue` or a stutter for each step of the
channel: `Accept` for `SendResponse`, which may send at once, `Send` when the
last chunk of a message goes out, `Stick` when a chunk cannot be secured,
`Drop` when the channel goes.

### SessionManagerProofs

| theorem | property |
|---|---|
| `TypeCorrect` | `TypeOK` |
| `HandlesMatch` | `HandlesMatchChannels` |
| `AnswersReach` | `AnswersReachTheirChannel` |
| `SessionOutlives` | `SessionOutlivesRequests` |

    IndInv == TypeOK /\ IdsCounted /\ ChannelsOK /\ ChannelsPointToHandles
              /\ HandlesPointToChannels /\ RequestsPointBack
              /\ AnswersReachTheirChannel /\ SessionOutlivesRequests

- `IdsCounted`: `gChannelId_` is the number of ISSUEs so far; so a new id is new.
- `ChannelsOK`: ids are distinct, and only a connected channel has a handle.
- `ChannelsPointToHandles`, `HandlesPointToChannels`: the map, the handles and
  the channels point at each other, but for a channel that was issued twice.
- `RequestsPointBack`: the handle of a waiting request leads to the channel the
  request came on, or to none.

### ClientSessionProofs

| theorem | property |
|---|---|
| `TypeCorrect` | `TypeOK` |
| `RequestsAnsweredOnce` | `AnsweredOnce` |
| `OneChannelAtATime` | `ChannelMatchesState`, assuming `OneTimer` |

    IndInv == TypeOK /\ ChannelKnown /\ RequestsGiven /\ AnsweredOnce
    ChannelInv == IndInv /\ ChannelMatchesState /\ ChannelParts

`OneTimer` excludes the configuration in which the channel's reconnect timeout
is set beside the session's, because there is no request timeout that would
clear it.  There both timers connect and `ChannelMatchesState` is false: that
is the disagreement of `MCClientSessionTimers`.  `ChannelParts` ties the renew
timer and the session to a channel that reads; without it a handler could leave
one behind.

### SlotTimerProofs

| theorem | property |
|---|---|
| `TypeCorrect` | `TypeOK` |
| `ListsCounted` | `CountAgrees` |
| `CallbacksNotEarly` | `NeverEarly` |
| `WheelImplementsQueue` | `TimerQueueRefined` |

These hold for any number of arrays and of slots.

    IndInv == LoopOK /\ WheelInv /\ Clock
    WheelInv == WheelOK /\ ListsOK /\ Links(slotList, elem) /\ Counted
                /\ Aligned /\ Turning /\ Placed

- `WheelOK`, `LoopOK`, `ListsOK`: the types the steps need, with lists as
  sequences; a handle names a list, even that of an element just unlinked.
- `Links`: an element is in a list exactly when it runs, once, and in the list
  its handle names.  With `Counted` it gives `CountAgrees`.
- `Aligned`: array `j + 1` begins where the round of array `j` ends.  While the
  finer one has begun its next round and the coarser one has not moved yet
  (`Ahead`), that is where the new round begins.
- `Placed`: an element is in the slot of its tick; slots before the current one
  are of the next round, the current slot of the first array also has what is
  overdue, the last array what is beyond the others.  This is what makes the
  choice in `insert` right: the slot it computes with a remainder is the one
  slot whose ticks hold the element's.
- `Turning`: the slot an array moves from is empty; an array is drained at its
  first slot; the last one never moves.
- `Clock`: how far the wheel may be ahead of the expiry of its timer, and the
  clock: by as many ticks as the loop was late with, and one more while the
  first array has moved and the timer is not set yet.

Widths and offsets are defined by recursion on the array, and the installed
provers cannot use an induction theorem, whose parameter is an operator.  The
proofs argue with a least counterexample instead (lemma `Least`, from the
well-foundedness of `<`): `Recurrence` shows in this way that such a function
exists, `Widths`, `Positive` and `Offsets` what it computes, `OffsetBound` and
`NoneDue` that no array begins before the one before it.  `NoneDue` is the heart
of the refinement: when the first array leaves its slot, every element in the
wheel, in whichever array, has a later tick.  Then the turn of the first array
is the queue's `Advance`, a call is `Call`, and what the other arrays do is a
stutter.  A stop that breaks the lists is the queue's `broken`, after which it
promises nothing.

### Only model-checked

The liveness properties, which the prover cannot handle: `StarvedIsReclaimed`,
`RequestAnswered`, `ValuePublished`, `FireAnswered`, `ResponsesLeave`,
`ShutdownEnds`, `TimerFires`, `StopReturns`, `RequestsAnswered`.  The violations
of section 3.4 are counterexamples and need no proof.

## 5. Not modelled

- Sampling and publishing *intervals*: timers fire in any order.  A property
  about elapsed time would need them; the ones here count ticks.
- Diagnostics, logging, user authorisation (a refused request changes nothing).
- The content of notifications beyond what properties tell apart; event filters
  and select clauses.
- What the crypto functions compute: they succeed or fail.
- Memory that only grows (event queues, security tokens, cycles of references).
- The write of the client's close request after its channel is deleted
  (`SecureChannelBase.cpp:968`): the model lets it finish on a living channel.
- The client's subscription manager with its window of publish requests
  (`OpcUaStackClient/ServiceSet/SubscriptionService*`, `ClientSubscription`).
- The information model's references, node management and the filter stack:
  sequential, over data structures that need large instances.
- Encodings, generated types, node set parser, generators, command line programs
  and PubSub structures: sequential conversions, which make up most of the
  repository's lines and which unit tests reach well.

## 6. Plan

1. The abstraction of `MonitorManager` in `SubscriptionService` as a refinement:
   `events[s]` as `Queued`, `data[s]` as "some queue is not empty", proved step
   by step like the two there are.
2. The client's publish window composed with `SubscriptionService`.
3. What the liveness properties rest on as invariants with proofs, for instance
   that a request in `SubscriptionService` whose session has a subscription is
   at a finite place of its queue and that only answers move it.
