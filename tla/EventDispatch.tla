---------------------------- MODULE EventDispatch ----------------------------
(***************************************************************************)
(* An event on its way from the application to the event items: the        *)
(* handler map of the information model, the EventItems that enter and     *)
(* leave it on the server's I/O thread, and receiveFireEventRequest of the *)
(* ApplicationService, which runs on the thread of the application that    *)
(* fires the event.  The map's mutex is held while the handlers of one     *)
(* node are looked up and called, and is free between two nodes.           *)
(***************************************************************************)
EXTENDS Integers, Sequences, FiniteSets, SequencesExt

CONSTANTS
    NodeCount,   \* node ids are numbers: the climb takes the smallest first
    Thread,      \* application threads
    NoThread,    \* not a thread
    MaxItems,    \* bound: event items created in a behaviour
    MaxFires     \* bound: events fired in a behaviour

ASSUME DispatchAssumption ==
    /\ NodeCount \in Nat
    /\ NoThread \notin Thread
    /\ MaxItems \in Nat /\ MaxFires \in Nat

Node == 1 .. NodeCount
Item == 1 .. MaxItems
NoNode == 0

VARIABLES
    parents,     \* per node: where its backward HasNotifier references lead
    handlerMap,  \* per node: the items registered for it
    nodeId,      \* per item: the node it was created for
    lastId,      \* the static counter of MonitorItemId
    alive,       \* items that are not destroyed
    eventBase,   \* per item: the thread whose event its where filter reads
    mutex,       \* the thread that holds the mutex of the map
    fire,        \* per thread: the request it is in
    fires        \* number of events fired

(***************************************************************************)
(* History of the requests: per thread, how often each item was given the  *)
(* event, with which source nodes, and the items that were registered when *)
(* the request began and are registered still.                             *)
(***************************************************************************)
VARIABLES copies, told, standing

itemVars == <<handlerMap, nodeId, lastId, alive>>
history == <<copies, told, standing>>
vars == <<parents, itemVars, eventBase, mutex, fire, fires, history>>

(***************************************************************************)
(* The locals of receiveFireEventRequest: nodeIdVec from the current node  *)
(* on, eventHandlerBaseVec, the position in it, and the number of handlers *)
(* that earlier nodes left in it; and the sourceNode field of the event.   *)
(***************************************************************************)
Idle == [pc |-> "idle", node |-> NoNode, nodeIdVec |-> <<>>, vec |-> <<>>,
         it |-> 0, stale |-> 0, source |-> NoNode]

FireRequest == [pc: {"idle", "lock", "call", "filter"}, node: Node \cup {NoNode},
                nodeIdVec: Seq(Node), vec: Seq(Item), it: Nat, stale: Nat,
                source: Node \cup {NoNode}]

TypeOK ==
    /\ parents \in [Node -> SUBSET Node]
    /\ handlerMap \in [Node -> Seq(Item)]
    /\ nodeId \in [Item -> Node \cup {NoNode}]
    /\ lastId \in 0 .. MaxItems
    /\ alive \subseteq Item
    /\ eventBase \in [Item -> Thread \cup {NoThread}]
    /\ mutex \in Thread \cup {NoThread}
    /\ fire \in [Thread -> FireRequest]
    /\ fires \in 0 .. MaxFires
    /\ copies \in [Thread -> [Item -> Nat]]
    /\ told \in [Thread -> SUBSET Node]
    /\ standing \in [Thread -> SUBSET Item]

Init ==
    /\ parents \in [Node -> SUBSET Node]
    /\ handlerMap = [n \in Node |-> <<>>]
    /\ nodeId = [i \in Item |-> NoNode]
    /\ lastId = 0
    /\ alive = {}
    /\ eventBase = [i \in Item |-> NoThread]
    /\ mutex = NoThread
    /\ fire = [t \in Thread |-> Idle]
    /\ fires = 0
    /\ copies = [t \in Thread |-> [i \in Item |-> 0]]
    /\ told = [t \in Thread |-> {}]
    /\ standing = [t \in Thread |-> {}]

-----------------------------------------------------------------------------
(***************************************************************************)
(* The event items.  An item whose filter is invalid is destroyed without  *)
(* having been registered, which leaves everything as it was.              *)
(***************************************************************************)

CreateEventItem(n) ==
    /\ mutex = NoThread
    /\ lastId < MaxItems
    /\ lastId' = lastId + 1
    /\ handlerMap' = [handlerMap EXCEPT ![n] = Append(@, lastId')]
    /\ nodeId' = [nodeId EXCEPT ![lastId'] = n]
    /\ alive' = alive \cup {lastId'}
    /\ UNCHANGED <<parents, eventBase, mutex, fire, fires, history>>

\* Deleting the item or its subscription runs the destructor, which takes
\* the handler out of the map under the mutex.  No handler is called back.
DestroyUnlockedEventItem(i) ==
    /\ i \in alive
    /\ handlerMap' = [handlerMap EXCEPT ![nodeId[i]] = RemoveFirst(@, i)]
    /\ alive' = alive \ {i}
    /\ standing' = [t \in Thread |-> standing[t] \ {i}]
    /\ UNCHANGED <<parents, nodeId, lastId, eventBase, mutex, fire, fires, copies, told>>

DestroyEventItem(i) ==
    /\ mutex = NoThread
    /\ DestroyUnlockedEventItem(i)

-----------------------------------------------------------------------------
(***************************************************************************)
(* receiveFireEventRequest.  The work list of the climb is filled from the *)
(* references of the node of the request at every turn of the loop, never  *)
(* from those of the node just taken: it ends with the node itself and its *)
(* direct parents, the smallest first: a set of one sequence.  A request   *)
(* for a node that the information model does not have is answered         *)
(* BadNodeIdUnknown and changes nothing.                                   *)
(***************************************************************************)
ParentsOnly(n) ==
    {s \in [1 .. Cardinality(parents[n] \ {n}) -> parents[n] \ {n}] :
        \A j, k \in DOMAIN s : j < k => s[j] < s[k]}

Climb(n) == {<<n>> \o s : s \in ParentsOnly(n)}

FireEventRequest(t, n) ==
    /\ fire[t].pc = "idle"
    /\ fires < MaxFires
    /\ fires' = fires + 1
    /\ \E climb \in Climb(n) :
         fire' = [fire EXCEPT ![t] =
                    [Idle EXCEPT !.pc = "lock", !.node = n, !.nodeIdVec = climb]]
    /\ standing' = [standing EXCEPT ![t] = alive]
    /\ UNCHANGED <<parents, itemVars, eventBase, mutex, copies, told>>

\* getEvent appends to the vector that still holds the earlier handlers.
GetEvents(t) ==
    /\ fire[t].pc = "lock"
    /\ fire[t].nodeIdVec # <<>>
    /\ mutex' = t
    /\ fire' = [fire EXCEPT ![t].pc = "call", ![t].it = 1,
                            ![t].stale = Len(fire[t].vec),
                            ![t].vec = @ \o handlerMap[Head(fire[t].nodeIdVec)]]
    /\ UNCHANGED <<parents, itemVars, eventBase, fires, history>>

LockNode(t) ==
    /\ mutex = NoThread
    /\ GetEvents(t)

KeepSource(source, i) == source

\* The event is shared by all its receivers: the first item that finds no
\* source node in it enters its own.
SetSource(source, i) == IF source = NoNode THEN nodeId[i] ELSE source

Called(t) == fire[t].vec[fire[t].it]

CallHandler(t) ==
    /\ fire[t].pc = "call"
    /\ fire[t].it <= Len(fire[t].vec)
    /\ LET i == Called(t) IN
         /\ i \in alive
         /\ eventBase' = [eventBase EXCEPT ![i] = t]
         /\ fire' = [fire EXCEPT ![t].pc = "filter", ![t].source = SetSource(@, i)]
         /\ copies' = [copies EXCEPT ![t][i] = @ + 1]
    /\ UNCHANGED <<parents, itemVars, mutex, fires, told, standing>>

\* The handler is bound to the item by address: the call of one that an
\* earlier node left in the vector may find the item destroyed.  Of what a
\* read of freed memory may yield this keeps the source node it may leave in
\* the event.
CallDestroyed(t) ==
    /\ fire[t].pc = "call"
    /\ fire[t].it <= Len(fire[t].vec)
    /\ Called(t) \notin alive
    /\ \E source \in Node \cup {NoNode} :
         fire' = [fire EXCEPT ![t].it = @ + 1,
                              ![t].source = IF @ = NoNode THEN source ELSE @]
    /\ UNCHANGED <<parents, itemVars, eventBase, mutex, fires, history>>

\* The where filter passes the event, which is queued, or drops it.
FilterEvent(t, pass) ==
    /\ fire[t].pc = "filter"
    /\ eventBase' = [eventBase EXCEPT ![Called(t)] = NoThread]
    /\ fire' = [fire EXCEPT ![t].pc = "call", ![t].it = @ + 1]
    /\ told' = [told EXCEPT ![t] = IF pass THEN @ \cup {fire[t].source} ELSE @]
    /\ UNCHANGED <<parents, itemVars, mutex, fires, copies, standing>>

GoOnLocked(t) ==
    /\ fire[t].pc = "call"
    /\ fire[t].it > Len(fire[t].vec)
    /\ fire' = [fire EXCEPT ![t].pc = "lock", ![t].nodeIdVec = Tail(@)]
    /\ UNCHANGED <<parents, itemVars, eventBase, mutex, fires, history>>

UnlockNode(t) ==
    /\ fire[t].pc = "call"
    /\ fire[t].it > Len(fire[t].vec)
    /\ mutex' = NoThread
    /\ fire' = [fire EXCEPT ![t].pc = "lock", ![t].nodeIdVec = Tail(@)]
    /\ UNCHANGED <<parents, itemVars, eventBase, fires, history>>

Dispatched(t) == fire[t].pc = "lock" /\ fire[t].nodeIdVec = <<>>

Respond(t) ==
    /\ Dispatched(t)
    /\ fire' = [fire EXCEPT ![t] = Idle]
    /\ copies' = [copies EXCEPT ![t] = [i \in Item |-> 0]]
    /\ told' = [told EXCEPT ![t] = {}]
    /\ standing' = [standing EXCEPT ![t] = {}]
    /\ UNCHANGED <<parents, itemVars, eventBase, mutex, fires>>

DispatchStep(t) ==
    \/ LockNode(t) \/ CallHandler(t) \/ CallDestroyed(t)
    \/ \E pass \in BOOLEAN : FilterEvent(t, pass)
    \/ UnlockNode(t) \/ Respond(t)

Next ==
    \/ \E n \in Node : CreateEventItem(n)
    \/ \E i \in Item : DestroyEventItem(i)
    \/ \E t \in Thread, n \in Node : FireEventRequest(t, n)
    \/ \E t \in Thread : DispatchStep(t)

Spec == Init /\ [][Next]_vars

(***************************************************************************)
(* An application thread that is in a request keeps running.  It may find  *)
(* the mutex taken again and again, by requests that are bounded in number.*)
(***************************************************************************)
FairSpec == Spec /\ \A t \in Thread : WF_vars(DispatchStep(t))

-----------------------------------------------------------------------------
(***************************************************************************)
(* A handler looked up for the node being served belongs to an item that   *)
(* cannot be destroyed before the handler is called: the destructor and    *)
(* the lookup exclude each other.  (The handlers left over from earlier    *)
(* nodes have no such protection.)                                         *)
(***************************************************************************)
FreshHandlersAlive ==
    \A t \in Thread : fire[t].pc \in {"call", "filter"} =>
        \A k \in fire[t].stale + 1 .. Len(fire[t].vec) : fire[t].vec[k] \in alive

(***************************************************************************)
(* While the where filter of an item reads the event, no other request     *)
(* replaces it: fireEvent itself takes no lock (its FIXME), the mutex of   *)
(* the map is what keeps two firing threads apart.  And all receivers of   *)
(* an event are told the same source node, although it is the items        *)
(* themselves that fill it in.                                             *)
(***************************************************************************)
FilterReadsOwnEvent ==
    \A t \in Thread : /\ fire[t].pc = "filter" => eventBase[Called(t)] = t
                      /\ Cardinality(told[t]) <= 1

(***************************************************************************)
(* The event hierarchy of a node, and what lies above it: whatever is in   *)
(* every set of nodes that has the node and all notifiers of its members.  *)
(***************************************************************************)
ClosedAbove(n) == {S \in SUBSET Node : n \in S /\ \A m \in S : parents[m] \subseteq S}

Above(n) == {m \in Node : \A S \in ClosedAbove(n) : m \in S}

(***************************************************************************)
(* When a request is answered, the items that existed all the time have    *)
(* been offered the event if they sit on the node of the request or on one *)
(* of its direct notifiers, and no item outside its hierarchy has.  That   *)
(* further notifiers are reached is more than the code does.               *)
(***************************************************************************)
NotifiersReached ==
    \A t \in Thread : Dispatched(t) =>
        LET n == fire[t].node IN
        /\ \A i \in standing[t] : nodeId[i] \in {n} \cup parents[n] => copies[t][i] > 0
        /\ \A i \in Item : nodeId[i] \notin Above(n) => copies[t][i] = 0

(***************************************************************************)
(* Every request for a known node is answered: the climb ends, and no      *)
(* thread waits for the mutex for ever.                                    *)
(***************************************************************************)
FireAnswered ==
    \A t \in Thread : (fire[t].pc = "lock") ~> (fire[t].pc = "idle")

-----------------------------------------------------------------------------
(***************************************************************************)
(* What the comments of receiveFireEventRequest promise.  "get nodes from  *)
(* event hierarchy": an item anywhere above the node gets the event.       *)
(* "check duplicate": no item gets it twice.                               *)
(***************************************************************************)
HierarchyReached ==
    \A t \in Thread : Dispatched(t) =>
        \A i \in standing[t] : nodeId[i] \in Above(fire[t].node) => copies[t][i] > 0

EventOnce == \A t \in Thread, i \in Item : copies[t][i] <= 1
=============================================================================
