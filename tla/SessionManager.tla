--------------------------- MODULE SessionManager ---------------------------
(***************************************************************************)
(* The SessionManager with its endpoints, secure channels and sessions.    *)
(* A ChannelSessionHandle ties a channel to the session created on it; the *)
(* requests that wait in the services keep the handle, and the address of  *)
(* the Session.  Everything runs on the server's I/O thread but shutdown,  *)
(* which runs on the thread that stops the server and waits for the        *)
(* endpoints to close.                                                     *)
(*                                                                         *)
(* How a channel reads, writes and closes is in SecureChannelServer; here  *)
(* a connected channel may be disconnected at any time.  Cancel requests   *)
(* and those of the discovery service change nothing here.                 *)
(***************************************************************************)
EXTENDS Integers, Sequences, FiniteSets

CONSTANTS
    EndpointCount,  \* number of endpoints, which shutdown takes in order
    MaxChannels,    \* bound: channels accepted in a behaviour
    MaxSessions,    \* bound: sessions created in a behaviour
    MaxRequests,    \* bound: requests in the services at a time
    Reissue         \* whether a client may ask to issue a channel twice

ASSUME SessionAssumption ==
    /\ EndpointCount \in Nat \ {0}
    /\ MaxChannels \in Nat /\ MaxSessions \in Nat /\ MaxRequests \in Nat
    /\ Reissue \in BOOLEAN

Endpoint == 1 .. EndpointCount
Channel == 1 .. MaxChannels
ChannelId == 1 .. 2 * MaxChannels   \* a channel takes an id at most twice
SessionId == 1 .. MaxSessions
None == 0

VARIABLES
    acceptor,      \* per endpoint: the accept loop of its SecureChannelServer
    channel,       \* per channel: the SecureChannel
    gChannelId,    \* the static counter of channel ids
    handle,        \* per channel id: the ChannelSessionHandle made for it
    channelIdMap,  \* the ids in channelIdMap_
    session,       \* per session: its state
    sessionMap,    \* the authentication tokens in sessionMap_
    lastSession,   \* the static counter of session ids
    requests,      \* the requests in the services
    shutdown,      \* the thread in shutdown: how far it is, and its condition
    astray,        \* history: responses given to another or to a deleted channel
    ended          \* history: sessions the client has replaced or lost

channelVars == <<acceptor, channel, gChannelId, channelIdMap>>
sessionVars == <<session, sessionMap, lastSession>>
vars == <<channelVars, handle, sessionVars, requests, shutdown, astray, ended>>

Request == [session: SessionId, handle: ChannelId, channel: Channel]
Acceptor == [op: {"resolving", "accepting", "accepted", "aborted", "closed"},
             open: BOOLEAN, asked: BOOLEAN]
SecureChannel == [state: {"none", "connected", "deleted"}, endpoint: Endpoint,
                  id: ChannelId \cup {None}, handle: ChannelId \cup {None},
                  issues: 0 .. 2, cancelled: BOOLEAN]
ChannelSessionHandle == [channel: Channel \cup {None}, session: SessionId \cup {None}]

TypeOK ==
    /\ acceptor \in [Endpoint -> Acceptor]
    /\ channel \in [Channel -> SecureChannel]
    /\ gChannelId \in ChannelId \cup {None}
    /\ handle \in [ChannelId -> ChannelSessionHandle]
    /\ channelIdMap \subseteq ChannelId
    /\ session \in [SessionId -> {"none", "created", "ready"}]
    /\ sessionMap \subseteq SessionId
    /\ lastSession \in SessionId \cup {None}
    /\ requests \subseteq Request
    /\ shutdown \in [at: 0 .. EndpointCount + 1, ready: BOOLEAN]
    /\ astray \subseteq Channel \X Channel
    /\ ended \subseteq SessionId

Init ==
    /\ acceptor = [e \in Endpoint |-> [op |-> "resolving", open |-> FALSE, asked |-> FALSE]]
    /\ channel = [c \in Channel |-> [state |-> "none", endpoint |-> 1, id |-> None,
                                     handle |-> None, issues |-> 0, cancelled |-> FALSE]]
    /\ gChannelId = None
    /\ handle = [h \in ChannelId |-> [channel |-> None, session |-> None]]
    /\ channelIdMap = {}
    /\ session = [s \in SessionId |-> "none"]
    /\ sessionMap = {}
    /\ lastSession = None
    /\ requests = {}
    /\ shutdown = [at |-> 0, ready |-> FALSE]
    /\ astray = {}
    /\ ended = {}

-----------------------------------------------------------------------------
(***************************************************************************)
(* The accept loop of an endpoint.  Between two accepts it resolves the    *)
(* address of the endpoint again.                                          *)
(***************************************************************************)
ResolveComplete(e) ==
    /\ acceptor[e].op = "resolving"
    /\ acceptor' = [acceptor EXCEPT ![e].op = "accepting", ![e].open = TRUE]
    /\ UNCHANGED <<channel, gChannelId, channelIdMap, handle, sessionVars,
                   requests, shutdown, astray, ended>>

ClientConnects(e) ==
    /\ acceptor[e].op = "accepting"
    /\ acceptor' = [acceptor EXCEPT ![e].op = "accepted"]
    /\ UNCHANGED <<channel, gChannelId, channelIdMap, handle, sessionVars,
                   requests, shutdown, astray, ended>>

AcceptComplete(e) ==
    /\ acceptor[e].op = "accepted"
    /\ acceptor' = [acceptor EXCEPT ![e].op = "resolving"]
    /\ \E c \in Channel :
         /\ channel[c].state = "none"
         /\ \A d \in Channel : channel[d].state = "none" => c <= d
         /\ channel' = [channel EXCEPT ![c].state = "connected", ![c].endpoint = e]
    /\ UNCHANGED <<gChannelId, channelIdMap, handle, sessionVars,
                   requests, shutdown, astray, ended>>

(***************************************************************************)
(* handleEndpointClose cancels the channels of the endpoint that have a    *)
(* handle, and reports ready when no channel of any endpoint has one.  It  *)
(* finds no SecureChannelServer once shutdown has cleared their map.       *)
(***************************************************************************)
RegisteredChannels == {handle[h].channel : h \in channelIdMap}

HandleEndpointClose(e) ==
    /\ channel' = [c \in Channel |->
         IF /\ shutdown.at <= EndpointCount
            /\ c \in RegisteredChannels /\ channel[c].endpoint = e
         THEN [channel[c] EXCEPT !.cancelled = TRUE] ELSE channel[c]]
    /\ shutdown' = [shutdown EXCEPT !.ready = @ \/ channelIdMap = {}]

AcceptError(e) ==
    /\ acceptor[e].op = "aborted"
    /\ acceptor' = [acceptor EXCEPT ![e].op = "closed", ![e].open = FALSE]
    /\ HandleEndpointClose(e)
    /\ UNCHANGED <<gChannelId, channelIdMap, handle, sessionVars, requests, astray, ended>>

ResolveError(e) ==
    /\ acceptor[e].op = "resolving"
    /\ acceptor' = [acceptor EXCEPT ![e].op = "closed", ![e].open = FALSE]
    /\ HandleEndpointClose(e)
    /\ UNCHANGED <<gChannelId, channelIdMap, handle, sessionVars, requests, astray, ended>>

-----------------------------------------------------------------------------
(***************************************************************************)
(* Channels come with an OpenSecureChannel request and go when the         *)
(* connection ends.  After shutdown no SecureChannelServer is found.       *)
(***************************************************************************)
OpenWithOldId(c) ==
    /\ channel[c].state = "connected" /\ channel[c].id = None
    /\ gChannelId' = gChannelId + 1
    /\ channel' = [channel EXCEPT ![c].id = gChannelId, ![c].issues = 1,
                                  ![c].handle = gChannelId]
    /\ channelIdMap' = channelIdMap \cup {gChannelId}
    /\ UNCHANGED <<acceptor, handle, sessionVars, requests, shutdown, astray, ended>>

OpenSecureChannel(c) ==
    /\ channel[c].state = "connected" /\ channel[c].id = None
    /\ gChannelId' = gChannelId + 1
    /\ IF shutdown.at <= EndpointCount
       THEN /\ channel' = [channel EXCEPT ![c].id = gChannelId', ![c].issues = 1,
                                          ![c].handle = gChannelId']
            /\ handle' = [handle EXCEPT ![gChannelId'] = [channel |-> c, session |-> None]]
            /\ channelIdMap' = channelIdMap \cup {gChannelId'}
       ELSE /\ channel' = [channel EXCEPT ![c].id = gChannelId', ![c].issues = 1]
            /\ UNCHANGED <<handle, channelIdMap>>
    /\ UNCHANGED <<acceptor, sessionVars, requests, shutdown, astray, ended>>

\* A second request to issue fails, after the channel has taken a new id.
ReissueSecureChannel(c) ==
    /\ Reissue
    /\ channel[c].state = "connected" /\ channel[c].issues = 1
    /\ gChannelId' = gChannelId + 1
    /\ channel' = [channel EXCEPT ![c].id = gChannelId', ![c].issues = 2,
                                  ![c].cancelled = TRUE]
    /\ UNCHANGED <<acceptor, channelIdMap, handle, sessionVars, requests, shutdown,
                   astray, ended>>

DeleteFromMap(h) ==
    /\ handle' = handle
    /\ channelIdMap' = channelIdMap \ {h}

DeleteSecureChannel(h) ==
    /\ handle' = IF h \in channelIdMap THEN [handle EXCEPT ![h].channel = None] ELSE handle
    /\ channelIdMap' = channelIdMap \ {h}

DisconnectOnly(c) ==
    /\ channel[c].state = "connected"
    /\ channel' = [channel EXCEPT ![c].state = "deleted", ![c].handle = None]
    /\ shutdown' = [shutdown EXCEPT !.ready = @ \/ channelIdMap = {}]
    /\ UNCHANGED <<acceptor, gChannelId, channelIdMap, handle, sessionVars, requests,
                   astray, ended>>

DisconnectUnsignalled(c) ==
    /\ channel[c].state = "connected"
    /\ channel' = [channel EXCEPT ![c].state = "deleted", ![c].handle = None]
    /\ DeleteSecureChannel(channel[c].id)
    /\ UNCHANGED <<acceptor, gChannelId, sessionVars, requests, shutdown, astray, ended>>

HandleDisconnect(c) ==
    /\ channel[c].state = "connected"
    /\ channel' = [channel EXCEPT ![c].state = "deleted", ![c].handle = None]
    /\ DeleteSecureChannel(channel[c].id)
    /\ shutdown' = [shutdown EXCEPT !.ready = @ \/ channelIdMap' = {}]
    /\ UNCHANGED <<acceptor, gChannelId, sessionVars, requests, astray, ended>>

-----------------------------------------------------------------------------
(***************************************************************************)
(* Requests to the session services.  They come on a channel that is open: *)
(* the code takes the handle of the channel without looking whether it has *)
(* one.  responseMessage drops the answer when the channel has gone.       *)
(***************************************************************************)
RequestOn(c) == channel[c].state = "connected" /\ channel[c].handle # None /\ channel[c].issues < 2

ResponseMessage(h, c) ==
    LET on == handle[h].channel
    IN  astray' = IF on # None /\ (on # c \/ channel[on].state # "connected")
                  THEN astray \cup {<<c, on>>} ELSE astray

\* The session the handle had, if any, goes: only the handle held it.
CreateSessionRequest(c) ==
    LET h == channel[c].handle
        s == lastSession + 1
    IN  /\ RequestOn(c) /\ s \in SessionId
        /\ lastSession' = s
        /\ handle' = [handle EXCEPT ![h].session = s]
        /\ session' = [session EXCEPT ![s] = "created"]
        /\ sessionMap' = sessionMap \cup {s}
        /\ ended' = ended \cup ({handle[h].session} \ {None})
        /\ ResponseMessage(h, c)
        /\ UNCHANGED <<channelVars, requests, shutdown>>

DeleteSession(s) ==
    /\ handle' = [h \in ChannelId |-> IF handle[h].session = s
                                     THEN [handle[h] EXCEPT !.session = None] ELSE handle[h]]
    /\ sessionMap' = sessionMap \ {s}

\* A bad signature ends the session; whether the user is accepted only shows
\* in the status of the answer.
ActivateSessionRequest(c, signatureOk) ==
    LET h == channel[c].handle
        s == handle[h].session
    IN  /\ RequestOn(c)
        /\ ResponseMessage(h, c)
        /\ \/ /\ s = None
              /\ UNCHANGED <<handle, session, sessionMap, ended>>
           \/ /\ s # None /\ signatureOk
              /\ session' = [session EXCEPT ![s] = "ready"]
              /\ UNCHANGED <<handle, sessionMap, ended>>
           \/ /\ s # None /\ ~signatureOk
              /\ DeleteSession(s)
              /\ ended' = ended \cup {s}
              /\ UNCHANGED session
        /\ UNCHANGED <<channelVars, lastSession, requests, shutdown>>

CloseAndDelete(c) ==
    LET h == channel[c].handle
    IN  /\ RequestOn(c)
        /\ ResponseMessage(h, c)
        /\ IF handle[h].session # None THEN DeleteSession(handle[h].session)
                                       ELSE UNCHANGED <<handle, sessionMap>>
        /\ UNCHANGED <<channelVars, session, lastSession, requests, shutdown, ended>>

\* The answer is all: the session stays, and stays activated.
CloseSessionRequest(c) ==
    /\ RequestOn(c)
    /\ ResponseMessage(channel[c].handle, c)
    /\ UNCHANGED <<channelVars, handle, sessionVars, requests, shutdown, ended>>

\* A request without an activated session is dropped without an answer.
MessageRequest(c) ==
    LET h == channel[c].handle
        s == handle[h].session
    IN  /\ RequestOn(c)
        /\ s # None /\ session[s] = "ready"
        /\ Cardinality(requests) < MaxRequests
        /\ requests' = requests \cup {[session |-> s, handle |-> h, channel |-> c]}
        /\ UNCHANGED <<channelVars, handle, sessionVars, shutdown, astray, ended>>

Alive(r) == handle[r.handle].session = r.session

\* Receive: a service answers through the Session the request came from.
Receive(r) ==
    /\ Alive(r)
    /\ ResponseMessage(r.handle, r.channel)
    /\ requests' = requests \ {r}
    /\ UNCHANGED <<channelVars, handle, sessionVars, shutdown, ended>>

\* The Session is gone: the memory may still do for the answer, or may not.
ReceiveDestroyed(r) ==
    /\ ~Alive(r)
    /\ ResponseMessage(r.handle, r.channel) \/ UNCHANGED astray
    /\ requests' = requests \ {r}
    /\ UNCHANGED <<channelVars, handle, sessionVars, shutdown, ended>>

-----------------------------------------------------------------------------
(***************************************************************************)
(* The thread that stops the server takes one endpoint after the other,    *)
(* waiting for ready in between.  A cancel ends the accept that waits, and *)
(* nothing else: it is lost on an endpoint that resolves its address or    *)
(* whose accept is done.                                                   *)
(***************************************************************************)
Disconnect(e) ==
    IF acceptor[e].open
    THEN /\ acceptor' = [acceptor EXCEPT ![e].asked = TRUE,
              ![e].op = IF @ = "accepting" THEN "aborted" ELSE @]
         /\ shutdown' = [at |-> e, ready |-> FALSE]
         /\ UNCHANGED channel
    ELSE /\ channel' = [c \in Channel |->
              IF c \in RegisteredChannels /\ channel[c].endpoint = e
              THEN [channel[c] EXCEPT !.cancelled = TRUE] ELSE channel[c]]
         /\ shutdown' = [at |-> e, ready |-> channelIdMap = {}]
         /\ UNCHANGED acceptor

Shutdown ==
    /\ shutdown.at = 0 \/ shutdown.ready
    /\ \/ /\ shutdown.at < EndpointCount
          /\ Disconnect(shutdown.at + 1)
       \/ /\ shutdown.at = EndpointCount
          /\ shutdown' = [shutdown EXCEPT !.at = @ + 1]
          /\ UNCHANGED <<acceptor, channel>>
    /\ UNCHANGED <<gChannelId, channelIdMap, handle, sessionVars, requests, astray, ended>>

-----------------------------------------------------------------------------
Next ==
    \/ \E e \in Endpoint : \/ ResolveComplete(e) \/ ClientConnects(e) \/ AcceptComplete(e)
                           \/ AcceptError(e) \/ ResolveError(e)
    \/ \E c \in Channel : \/ OpenSecureChannel(c) \/ ReissueSecureChannel(c)
                          \/ HandleDisconnect(c) \/ CreateSessionRequest(c)
                          \/ \E ok \in BOOLEAN : ActivateSessionRequest(c, ok)
                          \/ CloseSessionRequest(c) \/ MessageRequest(c)
    \/ \E r \in requests : Receive(r) \/ ReceiveDestroyed(r)
    \/ Shutdown

Spec == Init /\ [][Next]_vars

\* The I/O thread runs its handlers, the thread in shutdown goes on when it is
\* woken, and no client keeps its connection for ever.
FairSpec ==
    /\ Spec
    /\ \A e \in Endpoint : WF_vars(ResolveComplete(e)) /\ WF_vars(AcceptComplete(e))
                            /\ WF_vars(AcceptError(e))
    /\ \A c \in Channel : WF_vars(HandleDisconnect(c))
    /\ WF_vars(Shutdown)

-----------------------------------------------------------------------------
(***************************************************************************)
(* Properties                                                              *)
(***************************************************************************)
\* channelIdMap_ holds the handles of exactly the channels that were opened
\* before shutdown ended and are still connected, each under the id its
\* channel has: handleEndpointClose calls into every channel it lists, and
\* ready is reported when the map is empty.  A channel for which a client asked
\* twice to issue a token is the one exception.
IssuedTwice(c) == channel[c].issues = 2

HandlesMatchChannels ==
    LET listed == {h \in channelIdMap : ~IssuedTwice(handle[h].channel)}
    IN  /\ listed = {channel[c].id : c \in {d \in Channel : /\ channel[d].state = "connected"
                                                            /\ channel[d].handle # None
                                                            /\ ~IssuedTwice(d)}}
        /\ \A h \in listed : channel[handle[h].channel].id = h

\* A response goes to the channel its request came on, and to no channel whose
\* SecureChannel has been deleted: responseMessage finds the channel through
\* the handle the request kept, which may be older than the disconnect.  Only
\* a channel that was issued twice leaves its handle behind.
AnswersReachTheirChannel ==
    \A gone \in astray : gone[1] = gone[2] /\ IssuedTwice(gone[2])

\* The Session a waiting request points to lives, unless the client has made
\* another session on the channel or has failed to activate this one again;
\* closing the session and losing the channel do not end it.
SessionOutlivesRequests == \A r \in requests : Alive(r) \/ r.session \in ended

\* Closing an endpoint whose accept was waiting lets shutdown go on, when the
\* clients leave: ready comes from the endpoint or from the last channel, and is
\* not lost whichever comes first.  The handle that a channel issued twice
\* leaves behind keeps shutdown waiting.
ShutdownEnds ==
    \A e \in Endpoint :
        (shutdown.at = e /\ acceptor[e].op = "aborted")
            ~> (shutdown.at > e \/ \E c \in Channel : IssuedTwice(c))

\* What the commented-out call in closeSessionRequest is commented out for: no
\* request waits in the services for a session that is gone.
RequestsHaveSessions == \A r \in requests : Alive(r)

\* What the comment in handleDisconnect says: the handle of a channel that is
\* deleted is deleted too.
HandleDeleted ==
    \A h \in channelIdMap : channel[handle[h].channel].state = "connected"

\* What the comment in handleEndpointClose says: an endpoint that is closed has
\* told all of its channels to close.
AllChannelsCancelled ==
    \A e \in Endpoint, c \in Channel :
        acceptor[e].op = "closed" /\ channel[c].state = "connected" /\ channel[c].endpoint = e
            => channel[c].cancelled

\* What the comments in shutdown say: the acceptor sockets are closed before
\* the secure channel servers, which their handlers point to, are deleted.
EndpointsClosedFirst ==
    shutdown.at = EndpointCount + 1 => \A e \in Endpoint : acceptor[e].op = "closed"

\* What the comment in disconnect says: the accept ends with an error.
AcceptCompleteCalled ==
    \A e \in Endpoint : acceptor[e].asked ~> acceptor[e].op = "closed"

=============================================================================
