---------------------------- MODULE ClientSession ----------------------------
(***************************************************************************)
(* The client's SessionService with the SecureChannelClient it connects    *)
(* through and the PendingQueue of its requests.  Everything runs on the   *)
(* client's I/O thread but the threads that call syncConnect and           *)
(* syncDisconnect, which post the operation and wait on the condition of   *)
(* its SessionTransaction.                                                 *)
(*                                                                         *)
(* A SecureChannel has one operation under way: the resolver, the connect, *)
(* the read, or its reconnect timer.  What the server does is open: it may *)
(* answer, in any order, or close the connection at any time.              *)
(***************************************************************************)
EXTENDS Integers, Sequences, FiniteSets

CONSTANTS
    Mode,            \* the modes: "SecureChannel", "SecureChannelAndSession"
    SessionTimeout,  \* whether the session configuration has a reconnect timeout
    ChannelTimeout,  \* whether the channel configuration has a reconnect timeout
    RequestTimeout,  \* whether the session configuration has a request timeout
    MaxChannels,     \* bound: secure channels made in a behaviour
    MaxCalls,        \* bound: calls of the connect and disconnect operations
    MaxRequests      \* bound: requests given to the session

ASSUME ClientSessionAssumption ==
    /\ Mode \subseteq {"SecureChannel", "SecureChannelAndSession"}
    /\ SessionTimeout \in BOOLEAN /\ ChannelTimeout \in BOOLEAN /\ RequestTimeout \in BOOLEAN
    /\ MaxChannels \in Nat /\ MaxCalls \in Nat /\ MaxRequests \in Nat

Channel == 1 .. MaxChannels
Call == 1 .. MaxCalls
Request == 1 .. MaxRequests
None == 0
Passed == -1    \* the value of a condition that went below the zero it waits for

VARIABLES
    mode,                \* mode_
    state,               \* secureChannelState_
    secureChannel,       \* secureChannel_, or None
    channel,             \* per channel: the SecureChannel
    timer,               \* whether the session's reconnect timer runs
    renew,               \* the channel whose renew timer runs, or None
    sessionConnect,      \* sessionConnect_
    call,                \* per call: the SessionTransaction and its thread
    posted,              \* the calls posted to the I/O thread
    sessionTransaction,  \* sessionTransaction_, or None
    requestId,           \* requestId_ as far as requests of services take it
    pendingQueue,        \* the keys of pendingQueueMap_
    wire,                \* requests the server has to answer, with their channel
    answers,             \* history: how often each request has been answered
    wanted               \* history: the last operation to take effect is a connect

channelVars == <<mode, state, secureChannel, channel, timer, renew, sessionConnect>>
callVars == <<call, posted, sessionTransaction, wanted>>
requestVars == <<requestId, pendingQueue, wire, answers>>
vars == <<channelVars, callVars, requestVars>>

SecureChannel ==
    [op: {"none", "resolve", "connect", "read", "timer", "deleted"}, aborted: BOOLEAN,
     state: {"Init", "Connecting", "Hello", "OpenSecureChannel", "Established",
             "CloseSecureChannel", "Reconnecting"},
     await: {"nothing", "ack", "open"}, session: {"none", "creating", "activating"},
     closing: BOOLEAN]
SessionTransaction ==
    [op: {"none", "connect", "disconnect"}, sync: BOOLEAN, value: {Passed, 0, 1},
     status: {"Success", "Bad"}, done: BOOLEAN]

TypeOK ==
    /\ mode \in Mode
    /\ state \in {"Disconnected", "DisconnectedWait", "Connecting", "Connected", "Disconnecting"}
    /\ secureChannel \in Channel \cup {None}
    /\ channel \in [Channel -> SecureChannel]
    /\ timer \in BOOLEAN
    /\ renew \in Channel \cup {None}
    /\ sessionConnect \in BOOLEAN
    /\ call \in [Call -> SessionTransaction]
    /\ posted \in Seq(Call)
    /\ sessionTransaction \in Call \cup {None}
    /\ requestId \in 0 .. MaxRequests
    /\ pendingQueue \subseteq Request
    /\ wire \subseteq Channel \X Request
    /\ answers \in [Request -> 0 .. 1]
    /\ wanted \in BOOLEAN

NewChannel == [op |-> "none", aborted |-> FALSE, state |-> "Init", await |-> "nothing",
               session |-> "none", closing |-> FALSE]

Init ==
    /\ mode \in Mode
    /\ state = "Disconnected"
    /\ secureChannel = None
    /\ channel = [c \in Channel |-> NewChannel]
    /\ timer = FALSE
    /\ renew = None
    /\ sessionConnect = FALSE
    /\ call = [k \in Call |-> [op |-> "none", sync |-> FALSE, value |-> 1,
                               status |-> "Success", done |-> FALSE]]
    /\ posted = <<>>
    /\ sessionTransaction = None
    /\ requestId = 0
    /\ pendingQueue = {}
    /\ wire = {}
    /\ answers = [r \in Request |-> 0]
    /\ wanted = FALSE

\* setConfiguration: what is left of the channel's reconnect timeout.
ReconnectTimeout == ChannelTimeout /\ ~(mode = "SecureChannelAndSession" /\ RequestTimeout)

Alive(c) == channel[c].op \notin {"none", "deleted"}

-----------------------------------------------------------------------------
(***************************************************************************)
(* The calls.  An asynchronous call has no SessionTransaction.  Dec wakes  *)
(* the thread, which looks again whether the value is zero.                *)
(***************************************************************************)
Post(k, op, sync) ==
    /\ call[k].op = "none"
    /\ \A j \in Call : j < k => call[j].op # "none"
    /\ call' = [call EXCEPT ![k].op = op, ![k].sync = sync, ![k].done = ~sync]
    /\ posted' = Append(posted, k)
    /\ UNCHANGED <<channelVars, sessionTransaction, wanted, requestVars>>

Return(k) ==
    /\ call[k].sync /\ ~call[k].done
    /\ call[k].value = 0
    /\ call' = [call EXCEPT ![k].done = TRUE]
    /\ UNCHANGED <<channelVars, posted, sessionTransaction, wanted, requestVars>>

Transaction(k) == IF k # None /\ call[k].sync THEN k ELSE None

\* The calls after the condition of k was decremented.  It is not reset, and its
\* thread waits for zero: once below, only 2^32 more decrements would wake it.
Dec(calls, k, status) ==
    IF k = None THEN calls
    ELSE [calls EXCEPT ![k].value = IF @ = 1 THEN 0 ELSE Passed, ![k].status = status]

-----------------------------------------------------------------------------
(***************************************************************************)
(* The handlers of the SessionService.                                     *)
(***************************************************************************)
SessionReconnect == mode = "SecureChannelAndSession" /\ SessionTimeout

\* handleDisconnect: the reconnect timer is started whoever closed the channel.
HandleDisconnect ==
    /\ state' = IF SessionReconnect THEN "DisconnectedWait" ELSE "Disconnected"
    /\ timer' = (timer \/ SessionReconnect)
    /\ sessionConnect' = FALSE
    /\ call' = Dec(call, sessionTransaction,
                   IF sessionTransaction # None /\ call[sessionTransaction].op = "connect"
                   THEN "Bad" ELSE "Success")

\* asyncConnectInternal for call k, or for the reconnect timer when k is None.
\* from: the state it finds, once it has stopped the reconnect timer.  Channels
\* that reconnect share the one timer: the model ends with a second one.
NewSecureChannel(k) ==
    \E c \in Channel :
        /\ channel[c].op = "none"
        /\ ReconnectTimeout => c = 1
        /\ \A d \in Channel : d < c => channel[d].op # "none"
        /\ state' = "Connecting"
        /\ timer' = FALSE
        /\ sessionTransaction' = Transaction(k)
        /\ secureChannel' = c
        /\ channel' = [channel EXCEPT ![c].op = "resolve"]
        /\ wanted' = (k # None \/ wanted)
        /\ UNCHANGED call

ConnectInternal(k, from) ==
    \/ /\ from # "Disconnected"
       /\ call' = Dec(call, Transaction(k), "Bad")
       /\ UNCHANGED <<state, secureChannel, channel, timer, sessionTransaction, wanted>>
    \/ /\ from = "Disconnected"    \* the endpoint url is wrong
       /\ state' = IF SessionReconnect THEN "DisconnectedWait" ELSE "Disconnected"
       /\ timer' = SessionReconnect
       /\ call' = Dec(call, Transaction(k), "Bad")
       /\ wanted' = (k # None \/ wanted)
       /\ UNCHANGED <<secureChannel, channel, sessionTransaction>>
    \/ /\ from = "Disconnected"
       /\ NewSecureChannel(k)

\* SecureChannelClient::disconnect.  Before the channel is established the socket
\* is cancelled, which ends what waits, not a handler that is queued already;
\* afterwards the cancel follows the write of the close request.  While the host
\* is resolved the socket is not open and the cancel throws: the client ends there.
Disconnect(c) ==
    LET closed == [channel[c] EXCEPT !.state = "CloseSecureChannel"]
    IN  \/ /\ channel[c].state = "Established"
           /\ channel' = [channel EXCEPT ![c] = [closed EXCEPT !.closing = TRUE]]
        \/ /\ channel[c].state # "Established"
           /\ channel[c].op # "resolve"
           /\ \E aborted \in BOOLEAN :
                channel' = [channel EXCEPT ![c] = [closed EXCEPT !.aborted = @ \/ aborted]]

DisconnectInternal(k) ==
    \/ /\ state \in {"Disconnecting", "Disconnected"}
       /\ call' = Dec(call, Transaction(k), "Bad")
       /\ UNCHANGED <<state, channel, timer, sessionTransaction, wanted>>
    \/ /\ state = "DisconnectedWait"
       /\ state' = "Disconnected"
       /\ timer' = FALSE
       /\ call' = Dec(call, Transaction(k), "Success")
       /\ wanted' = FALSE
       /\ UNCHANGED <<channel, sessionTransaction>>
    \/ /\ state \in {"Connecting", "Connected"}
       /\ call' = IF state = "Connecting" THEN Dec(call, sessionTransaction, "Bad") ELSE call
       /\ sessionTransaction' = Transaction(k)
       /\ state' = "Disconnecting"
       /\ wanted' = FALSE
       /\ Disconnect(secureChannel)
       /\ UNCHANGED timer

RunPosted ==
    /\ posted # <<>>
    /\ posted' = Tail(posted)
    /\ \/ /\ call[Head(posted)].op = "connect"
          /\ ConnectInternal(Head(posted),
                             IF state = "DisconnectedWait" THEN "Disconnected" ELSE state)
       \/ /\ call[Head(posted)].op = "disconnect"
          /\ DisconnectInternal(Head(posted))
          /\ UNCHANGED secureChannel
    /\ UNCHANGED <<mode, renew, sessionConnect, requestVars>>

\* reconnectTimeout connects from whatever state it finds.
TimerFires ==
    /\ timer
    /\ ConnectInternal(None, "Disconnected")
    /\ UNCHANGED <<mode, renew, posted, sessionConnect, requestVars>>

-----------------------------------------------------------------------------
(***************************************************************************)
(* The SecureChannelClient.  Every handler writes the state of the channel *)
(* without a look at what it was, handleDisconnect excepted.               *)
(***************************************************************************)
Delete(c) == channel' = [channel EXCEPT ![c] = [NewChannel EXCEPT !.op = "deleted"]]

Reconnect(c) ==
    /\ HandleDisconnect
    /\ \/ /\ ReconnectTimeout
          /\ channel' = [channel EXCEPT ![c] =
                           [NewChannel EXCEPT !.op = "timer", !.state = "Reconnecting"]]
       \/ ~ReconnectTimeout /\ Delete(c)

ResolveComplete(c, ok) ==
    /\ channel[c].op = "resolve"
    /\ \/ /\ ok
          /\ channel' = [channel EXCEPT ![c].op = "connect", ![c].state = "Connecting"]
          /\ UNCHANGED <<state, timer, sessionConnect, call>>
       \/ ~ok /\ Reconnect(c)
    /\ UNCHANGED <<mode, secureChannel, renew, posted, sessionTransaction, wanted, requestVars>>

ConnectComplete(c, ok) ==
    /\ channel[c].op = "connect"
    /\ \/ /\ ok /\ ~channel[c].aborted
          /\ channel' = [channel EXCEPT ![c].op = "read", ![c].state = "Hello",
                                        ![c].await = "ack"]
          /\ UNCHANGED <<state, timer, sessionConnect, call>>
       \/ ~ok /\ Reconnect(c)
    /\ UNCHANGED <<mode, secureChannel, renew, posted, sessionTransaction, wanted, requestVars>>

Reads(c) == channel[c].op = "read" /\ ~channel[c].aborted

RecvAcknowledge(c) ==
    /\ Reads(c) /\ channel[c].await = "ack"
    /\ channel' = [channel EXCEPT ![c].state = "OpenSecureChannel", ![c].await = "open"]
    /\ UNCHANGED <<mode, state, secureChannel, timer, renew, sessionConnect, callVars, requestVars>>

\* With SessionService::handleConnect for the first response of the channel.
RecvOpenSecureChannelResponse(c) ==
    /\ Reads(c) /\ channel[c].await = "open"
    /\ renew' = c
    /\ \/ /\ channel[c].state = "OpenSecureChannel"
          /\ state' = "Connected"
          /\ channel' = [channel EXCEPT ![c].state = "Established", ![c].await = "nothing",
                 ![c].session = IF mode = "SecureChannel" THEN "none" ELSE "creating"]
          /\ call' = IF mode = "SecureChannel" THEN Dec(call, sessionTransaction, "Success")
                     ELSE call
       \/ /\ channel[c].state # "OpenSecureChannel"
          /\ channel' = [channel EXCEPT ![c].await = "nothing"]
          /\ UNCHANGED <<state, call>>
    /\ UNCHANGED <<mode, secureChannel, timer, sessionConnect, posted, sessionTransaction, wanted,
                   requestVars>>

RenewSecurityToken ==
    /\ renew # None
    /\ renew' = None
    /\ channel' = [channel EXCEPT ![renew].await = "open"]
    /\ UNCHANGED <<mode, state, secureChannel, timer, sessionConnect, callVars, requestVars>>

CloseRequestWritten(c) ==
    /\ Alive(c) /\ channel[c].closing
    /\ \E aborted \in BOOLEAN :
         channel' = [channel EXCEPT ![c].closing = FALSE, ![c].aborted = @ \/ aborted]
    /\ UNCHANGED <<mode, state, secureChannel, timer, renew, sessionConnect, callVars, requestVars>>

\* The read ends with an error: the server has closed, or the socket was cancelled.
DisconnectKeepsRenew(c) ==
    /\ channel[c].op = "read"
    /\ \/ /\ channel[c].state = "CloseSecureChannel"
          /\ HandleDisconnect /\ Delete(c)
       \/ /\ channel[c].state # "CloseSecureChannel"
          /\ Reconnect(c)
    /\ wire' = {w \in wire : w[1] # c}
    /\ UNCHANGED <<mode, renew, secureChannel, posted, sessionTransaction, wanted, requestId,
                   pendingQueue, answers>>

ChannelDisconnect(c) ==
    /\ channel[c].op = "read"
    /\ renew' = None
    /\ \/ /\ channel[c].state = "CloseSecureChannel"
          /\ HandleDisconnect /\ Delete(c)
       \/ /\ channel[c].state # "CloseSecureChannel"
          /\ Reconnect(c)
    /\ wire' = {w \in wire : w[1] # c}
    /\ UNCHANGED <<mode, secureChannel, posted, sessionTransaction, wanted, requestId,
                   pendingQueue, answers>>

HandleReconnect(c) ==
    /\ channel[c].op = "timer"
    /\ channel' = [channel EXCEPT ![c].op = "resolve"]
    /\ UNCHANGED <<mode, state, secureChannel, timer, renew, sessionConnect, callVars, requestVars>>

-----------------------------------------------------------------------------
(***************************************************************************)
(* The session of the channel, and the requests of the other services.     *)
(* The requests for discovery need no session.                             *)
(***************************************************************************)
RecvCreateSessionResponse(c) ==
    /\ Reads(c) /\ channel[c].session = "creating"
    /\ channel' = [channel EXCEPT ![c].session = "activating"]
    /\ UNCHANGED <<mode, state, secureChannel, timer, renew, sessionConnect, callVars, requestVars>>

RecvActivateSessionResponse(c) ==
    /\ Reads(c) /\ channel[c].session = "activating"
    /\ channel' = [channel EXCEPT ![c].session = "none"]
    /\ sessionConnect' = TRUE
    /\ call' = Dec(call, sessionTransaction, "Success")
    /\ UNCHANGED <<mode, state, secureChannel, timer, renew, posted, sessionTransaction, wanted,
                   requestVars>>

Answer(r) == answers' = [answers EXCEPT ![r] = @ + 1]

Receive(r, discovery) ==
    /\ r = requestId + 1
    /\ requestId' = r
    /\ \/ /\ (~sessionConnect /\ ~discovery) \/ state # "Connected"
          /\ Answer(r)
          /\ UNCHANGED <<pendingQueue, wire>>
       \/ /\ (sessionConnect \/ discovery) /\ state = "Connected"
          /\ pendingQueue' = pendingQueue \cup {r}
          /\ wire' = wire \cup {<<secureChannel, r>>}
          /\ UNCHANGED answers
    /\ UNCHANGED <<channelVars, callVars>>

ReceiveKeepsPending(c, r) ==
    /\ Reads(c) /\ <<c, r>> \in wire
    /\ wire' = wire \ {<<c, r>>}
    /\ Answer(r)
    /\ UNCHANGED <<channelVars, callVars, requestId, pendingQueue>>

ReceiveUnchecked(c, r) ==
    /\ Reads(c) /\ <<c, r>> \in wire
    /\ wire' = wire \ {<<c, r>>}
    /\ pendingQueue' = pendingQueue \ {r}
    /\ Answer(r)
    /\ UNCHANGED <<channelVars, callVars, requestId>>

ReceiveMessage(c, r) ==
    /\ Reads(c) /\ <<c, r>> \in wire
    /\ wire' = wire \ {<<c, r>>}
    /\ \/ r \in pendingQueue /\ Answer(r)
       \/ r \notin pendingQueue /\ UNCHANGED answers
    /\ pendingQueue' = pendingQueue \ {r}
    /\ UNCHANGED <<channelVars, callVars, requestId>>

TimeoutInSession(r) ==
    /\ r \in pendingQueue
    /\ sessionConnect
    /\ pendingQueue' = pendingQueue \ {r}
    /\ Answer(r)
    /\ UNCHANGED <<channelVars, callVars, requestId, wire>>

PendingQueueTimeout(r) ==
    /\ r \in pendingQueue
    /\ pendingQueue' = pendingQueue \ {r}
    /\ Answer(r)
    /\ UNCHANGED <<channelVars, callVars, requestId, wire>>

-----------------------------------------------------------------------------
(***************************************************************************)
(* The I/O thread runs what is posted and what has ended; timers expire.   *)
(* The server answers, which is a fairness of its own.                     *)
(***************************************************************************)
ChannelStep(c) ==
    \/ \E ok \in BOOLEAN : ResolveComplete(c, ok) \/ ConnectComplete(c, ok)
    \/ CloseRequestWritten(c)
    \/ HandleReconnect(c)

ServerAnswers(c) ==
    \/ RecvAcknowledge(c) \/ RecvOpenSecureChannelResponse(c)
    \/ RecvCreateSessionResponse(c) \/ RecvActivateSessionResponse(c)

Next ==
    \/ \E k \in Call, op \in {"connect", "disconnect"}, sync \in BOOLEAN : Post(k, op, sync)
    \/ \E k \in Call : Return(k)
    \/ RunPosted \/ TimerFires \/ RenewSecurityToken
    \/ \E c \in Channel : ChannelStep(c) \/ ServerAnswers(c) \/ ChannelDisconnect(c)
    \/ \E r \in Request, discovery \in BOOLEAN : Receive(r, discovery)
    \/ \E c \in Channel, r \in Request : ReceiveMessage(c, r)
    \/ \E r \in Request : PendingQueueTimeout(r)

Spec == Init /\ [][Next]_vars

FairSpec ==
    /\ Spec
    /\ WF_vars(RunPosted) /\ WF_vars(TimerFires)
    /\ \A k \in Call : WF_vars(Return(k))
    /\ \A r \in Request : WF_vars(PendingQueueTimeout(r))
    /\ \A c \in Channel : WF_vars(ChannelStep(c)) /\ WF_vars(ServerAnswers(c))
    /\ \A c \in Channel : WF_vars(channel[c].aborted /\ ChannelDisconnect(c))

-----------------------------------------------------------------------------
(***************************************************************************)
(* One channel at a time: the one the session writes its requests on       *)
(* exists exactly in the states in which it may, the timer of the session  *)
(* runs exactly while there is none, and the renew timer and the session   *)
(* end with the channel.  Only a channel that reconnects by itself exists  *)
(* while the session is disconnected.                                      *)
(***************************************************************************)
ChannelMatchesState ==
    LET alive == {c \in Channel : Alive(c)}
    IN  /\ alive \subseteq {secureChannel}
        /\ state \in {"Connecting", "Connected", "Disconnecting"} => alive # {}
        /\ state \in {"Disconnected", "DisconnectedWait"} => alive = {} \/ ReconnectTimeout
        /\ timer <=> state = "DisconnectedWait"
        /\ renew # None => Alive(renew)
        /\ sessionConnect => state \in {"Connected", "Disconnecting"}

(***************************************************************************)
(* A request is in the pending queue or has its one answer, whichever of   *)
(* the response, the timeout and the end of the session comes first, and   *)
(* however late the others are.                                            *)
(***************************************************************************)
AnsweredOnce ==
    \A r \in 1 .. requestId : answers[r] = IF r \in pendingQueue THEN 0 ELSE 1

(***************************************************************************)
(* Every request is answered in the end, also when its connection is     *)
(* gone and another one has been made.                                     *)
(***************************************************************************)
RequestsAnswered == \A r \in Request : requestId >= r ~> answers[r] = 1

-----------------------------------------------------------------------------
(***************************************************************************)
(* What the comments say.  "Either the session timer or the open secure    *)
(* channel timer is used. Never both."                                     *)
(***************************************************************************)
NeverBothTimers == ~(timer /\ \E c \in Channel : channel[c].op = "timer")

(***************************************************************************)
(* "the user has closed the connection": the channel is deleted, and only  *)
(* one the communication partner has closed is connected again.            *)
(***************************************************************************)
StaysDisconnected == timer => wanted

(***************************************************************************)
(* "check if a connect operation is running - stop the connect operation": *)
(* after a disconnect the session does not become connected, and the       *)
(* cancel finds a socket it can cancel.                                    *)
(***************************************************************************)
DisconnectStopsConnect == state = "Connected" => wanted

CancelFindsSocket ==
    ~ /\ posted # <<>> /\ call[Head(posted)].op = "disconnect"
      /\ state = "Connecting" /\ channel[secureChannel].op = "resolve"

(***************************************************************************)
(* "send close secure channel request, confirm through handleDisconnect":  *)
(* a disconnect that has returned Success leaves no channel of its own.    *)
(***************************************************************************)
DisconnectConfirmed ==
    \A k \in Call : /\ call[k].sync /\ call[k].done /\ call[k].op = "disconnect"
                    /\ call[k].status = "Success" /\ sessionTransaction = k
                    => ~Alive(secureChannel)

(***************************************************************************)
(* The tests wait for syncConnect and syncDisconnect: the thread that      *)
(* calls one gets its answer, whatever happens to the connection.          *)
(***************************************************************************)
SyncReturns == \A k \in Call : call[k].op = "disconnect" ~> call[k].done
=============================================================================
