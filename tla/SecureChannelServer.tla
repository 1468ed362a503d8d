------------------------- MODULE SecureChannelServer -------------------------
(***************************************************************************)
(* One secure channel of the server: the loop that reads the messages of   *)
(* the client, the loop that writes the responses, and the three flags by  *)
(* which the two agree on who closes and deletes the channel.  The         *)
(* handlers run on the server's one I/O thread; an operation on the socket *)
(* completes some time before its handler runs, and cancelling the socket  *)
(* reaches only the operations that are not yet complete.                  *)
(*                                                                         *)
(* The acknowledge message is written without any bookkeeping and is not   *)
(* modelled; the client is one that sends the next OpenSecureChannel       *)
(* request only after the response to the last.                            *)
(***************************************************************************)
EXTENDS Integers, Sequences, FiniteSets

CONSTANTS
    MaxRequestId,  \* bound: messages with a request id the client sends
    MaxChunks,     \* bound: chunks of a message
    SecureFails    \* whether signing or encrypting a response may fail

ASSUME ChannelAssumption ==
    MaxRequestId \in Nat \ {0} /\ MaxChunks \in Nat /\ SecureFails \in BOOLEAN

RequestId == 1 .. MaxRequestId
NoRequest == 0
Tracked == {"header", "message"}   \* the reads asyncRecv_ is set for
Untracked == {"hello", "open", "close", "error"}

VARIABLES
    client,    \* the client's side of the connection
    incoming,  \* the message whose header or body was read last
    ch,        \* the SecureChannel
    services,  \* requests handed to the session and not answered
    disconnect,  \* history: the session manager has disconnected the channel
    truncated    \* history: a request was taken for complete too early

vars == <<client, incoming, ch, services, disconnect, truncated>>

Client == [state: {"connected", "hello", "ready"}, open: BOOLEAN,
           lastId: 0 .. MaxRequestId, partial: BOOLEAN]

Message == [kind: {"HEL", "OPN", "MSG", "CLO", "ERR", "unknown"},
            flag: {"C", "F"}, id: RequestId \cup {NoRequest}]

(***************************************************************************)
(* A chunk on the wire: the request id it carries, the request it answers, *)
(* whether it is the last of its message, and its sequence number.         *)
(***************************************************************************)
Chunk == [kind: {"OPN", "MSG"}, id: RequestId \cup {NoRequest},
          answers: RequestId \cup {NoRequest}, final: BOOLEAN, number: Nat]

SecureChannelTransaction == [id: RequestId, chunks: 1 .. MaxChunks]

Channel ==
    [read: Tracked \cup Untracked \cup {"none"},
     readDone: {"pending", "ok", "error", "empty"},
     write: {"none", "open", "message"}, writeDone: {"pending", "ok", "error"},
     asyncRecv: BOOLEAN, asyncSend: BOOLEAN, asyncSendStop: BOOLEAN,
     socketOpen: BOOLEAN, deleted: BOOLEAN,
     segmentFlag: {"C", "F"},      \* of messageHeader_, which readers and writers share
     actSegmentFlag: {"C", "F"},   \* of the message response last written
     recvRequestId: RequestId \cup {NoRequest}, sendSequenceNumber: Nat,
     transactionList: Seq(SecureChannelTransaction),
     openList: Seq(RequestId),
     chunk: Chunk,                 \* history: the last chunk written
     sent: Seq(RequestId)]         \* history: the message responses sent completely

NewChannel ==
    [read |-> "header", readDone |-> "pending", write |-> "none", writeDone |-> "ok",
     asyncRecv |-> TRUE, asyncSend |-> FALSE, asyncSendStop |-> FALSE,
     socketOpen |-> TRUE, deleted |-> FALSE,
     segmentFlag |-> "F", actSegmentFlag |-> "F",
     recvRequestId |-> NoRequest, sendSequenceNumber |-> 0,
     transactionList |-> <<>>, openList |-> <<>>,
     chunk |-> [kind |-> "OPN", id |-> NoRequest, answers |-> NoRequest,
                final |-> TRUE, number |-> 0],
     sent |-> <<>>]

TypeOK ==
    /\ client \in Client
    /\ incoming \in Message
    /\ ch \in Channel
    /\ services \subseteq RequestId
    /\ disconnect \in BOOLEAN
    /\ truncated \in BOOLEAN

Init ==
    /\ client = [state |-> "connected", open |-> TRUE, lastId |-> 0, partial |-> FALSE]
    /\ incoming = [kind |-> "unknown", flag |-> "F", id |-> NoRequest]
    /\ ch = NewChannel
    /\ services = {}
    /\ disconnect = FALSE
    /\ truncated = FALSE

-----------------------------------------------------------------------------
(***************************************************************************)
(* The socket.  Closing it, or cancelling, ends what is pending with an    *)
(* error; what is started on a closed socket fails at once.                *)
(***************************************************************************)
Cancel(c) ==
    [c EXCEPT !.readDone = IF c.read # "none" /\ @ = "pending" THEN "error" ELSE @,
              !.writeDone = IF c.write # "none" /\ @ = "pending" THEN "error" ELSE @]

CloseSocket(c) == [Cancel(c) EXCEPT !.socketOpen = FALSE]

Started(c) == IF c.socketOpen THEN "pending" ELSE "error"

AsyncRead(c) == [c EXCEPT !.read = "header", !.readDone = Started(c), !.asyncRecv = TRUE]

ReadBody(c, op) ==
    [c EXCEPT !.read = op, !.readDone = Started(c), !.asyncRecv = (op \in Tracked)]

ReadEnded(c) ==
    [c EXCEPT !.read = "none", !.asyncRecv = IF c.read \in Tracked THEN FALSE ELSE @]

(***************************************************************************)
(* The close waits for the write in flight; without one the send queue is  *)
(* cleared, the session manager told and the channel deleted.              *)
(***************************************************************************)
CloseChannel(c, close) ==
    LET d == IF close THEN CloseSocket(c) ELSE c IN
    IF d.asyncSend THEN [d EXCEPT !.asyncSendStop = TRUE]
    ELSE [d EXCEPT !.asyncSendStop = FALSE, !.transactionList = <<>>, !.deleted = TRUE]

(***************************************************************************)
(* The writers.  secured is the result of signing and encrypting.  When it *)
(* fails, the open response is lost, while a message response leaves       *)
(* asyncSend_ set although nothing is written.                             *)
(***************************************************************************)
AsyncWriteOpen(c, secured) ==
    IF c.openList = <<>> \/ c.asyncSend THEN c
    ELSE LET number == c.sendSequenceNumber + 1
             d == [c EXCEPT !.openList = Tail(@), !.segmentFlag = "F",
                            !.sendSequenceNumber = number]
         IN  IF ~secured THEN d
             ELSE [d EXCEPT !.asyncSend = TRUE, !.write = "open", !.writeDone = Started(c),
                            !.chunk = [kind |-> "OPN", id |-> c.recvRequestId,
                                       answers |-> Head(c.openList), final |-> TRUE,
                                       number |-> number]]

WriteOneMore(c, secured) ==
    [c EXCEPT !.asyncSend = TRUE, !.write = "message", !.writeDone = Started(c),
              !.transactionList = IF Head(@).chunks = 0 THEN Tail(@)
                                  ELSE [@ EXCEPT ![1].chunks = @ - 1]]

WriteLastFirst(c, secured) ==
    LET n == Len(c.transactionList) IN
    [c EXCEPT !.asyncSend = TRUE, !.write = "message", !.writeDone = Started(c),
              !.transactionList = SubSeq(@, 1, n - 1),
              !.sent = Append(@, c.transactionList[n].id)]

\* The list when the next chunk of its first response is taken.
Remaining(list) ==
    IF Head(list).chunks = 1 THEN Tail(list) ELSE [list EXCEPT ![1].chunks = @ - 1]

WriteMessage(c, secured) ==
    LET response == Head(c.transactionList)
        final == response.chunks = 1
        number == c.sendSequenceNumber + 1
        d == [c EXCEPT !.asyncSend = TRUE, !.sendSequenceNumber = number,
                       !.actSegmentFlag = IF final THEN "F" ELSE "C",
                       !.transactionList = Remaining(@)]
    IN  IF ~secured THEN d
        ELSE [d EXCEPT !.write = "message", !.writeDone = Started(c),
                       !.chunk = [kind |-> "MSG", id |-> response.id,
                                  answers |-> response.id, final |-> final,
                                  number |-> number],
                       !.sent = IF final THEN Append(@, response.id) ELSE @]

AsyncWriteMessage(c, secured) ==
    IF c.transactionList = <<>> \/ c.asyncSend THEN c ELSE WriteMessage(c, secured)

WriteNext(c, securedOpen, secured) ==
    LET d == AsyncWriteOpen(c, securedOpen) IN
    IF d.asyncSend THEN d ELSE AsyncWriteMessage(d, secured)

WriteNoMore(c, securedOpen, secured) ==
    IF c.actSegmentFlag = "F" THEN c ELSE AsyncWriteMessage(c, secured)

\* An open response may go between two messages, not between two chunks.
HandleWriteComplete(c, securedOpen, secured) ==
    IF c.actSegmentFlag = "F" THEN WriteNext(c, securedOpen, secured)
    ELSE AsyncWriteMessage(c, secured)

Secured == IF SecureFails THEN BOOLEAN ELSE {TRUE}

-----------------------------------------------------------------------------
(***************************************************************************)
(* The client and the network.                                             *)
(***************************************************************************)
FirstMessages == {[kind |-> "HEL", flag |-> "F", id |-> NoRequest]}

NextId == client.lastId + 1

\* A request has one chunk or two.
Messages ==
    CASE client.state = "connected" -> FirstMessages
      [] client.state = "hello" -> {[kind |-> "OPN", flag |-> "F", id |-> NextId]}
      [] client.state = "ready" ->
           {[kind |-> k, flag |-> "F", id |-> NoRequest] : k \in {"CLO", "ERR", "unknown"}}
           \cup (IF ch.openList = <<>> /\ NextId \in RequestId
                 THEN {[kind |-> "OPN", flag |-> "F", id |-> NextId]} ELSE {})
           \cup (IF client.partial
                 THEN {[kind |-> "MSG", flag |-> "F", id |-> client.lastId]} ELSE {})
           \cup (IF ~client.partial /\ NextId \in RequestId
                 THEN {[kind |-> "MSG", flag |-> f, id |-> NextId] : f \in {"C", "F"}}
                 ELSE {})

HeaderArrives ==
    /\ client.open /\ ch.socketOpen /\ ~ch.deleted
    /\ ch.read = "header" /\ ch.readDone = "pending"
    /\ \E m \in Messages :
         /\ incoming' = m
         /\ client' = [client EXCEPT
              !.state = IF m.kind = "HEL" THEN "hello"
                        ELSE IF m.kind = "OPN" THEN "ready" ELSE @,
              !.lastId = IF m.id = NoRequest THEN @ ELSE m.id,
              !.partial = IF m.kind = "MSG" THEN m.flag = "C" ELSE @]
    /\ ch' = [ch EXCEPT !.readDone = "ok"]
    /\ UNCHANGED <<services, disconnect, truncated>>

\* A message may end with its header.
BodyArrives(result) ==
    /\ client.open /\ ch.socketOpen /\ ~ch.deleted
    /\ ch.read \in Untracked \cup {"message"} /\ ch.readDone = "pending"
    /\ ch' = [ch EXCEPT !.readDone = result]
    /\ UNCHANGED <<client, incoming, services, disconnect, truncated>>

ClientCloses ==
    /\ client.open /\ ~ch.deleted
    /\ client' = [client EXCEPT !.open = FALSE]
    /\ UNCHANGED <<incoming, ch, services, disconnect, truncated>>

ReadFails ==
    /\ ~client.open /\ ~ch.deleted
    /\ ch.read # "none" /\ ch.readDone = "pending"
    /\ ch' = [ch EXCEPT !.readDone = "error"]
    /\ UNCHANGED <<client, incoming, services, disconnect, truncated>>

\* What is written after the client has gone may still end up in a buffer.
WriteEnds(result) ==
    /\ ~ch.deleted
    /\ ch.write # "none" /\ ch.writeDone = "pending"
    /\ result = "error" => ~client.open
    /\ ch' = [ch EXCEPT !.writeDone = result]
    /\ UNCHANGED <<client, incoming, services, disconnect, truncated>>

-----------------------------------------------------------------------------
(***************************************************************************)
(* The handlers of the reading loop.                                       *)
(***************************************************************************)
ReadReady(op) == ~ch.deleted /\ ch.read = op /\ ch.readDone # "pending"

HandleReadHeader ==
    /\ ReadReady("header")
    /\ LET c == ReadEnded(ch)
           d == [c EXCEPT !.segmentFlag = incoming.flag]
       IN  ch' = IF ch.readDone = "error"
                 THEN IF c.asyncSend THEN c ELSE CloseChannel(c, FALSE)
                 ELSE CASE incoming.kind = "unknown" -> CloseChannel(d, TRUE)
                        [] incoming.kind = "HEL" -> ReadBody(d, "hello")
                        [] incoming.kind = "OPN" -> ReadBody(d, "open")
                        [] incoming.kind = "CLO" -> ReadBody(d, "close")
                        [] incoming.kind = "ERR" -> ReadBody(d, "error")
                        [] incoming.kind = "MSG" -> ReadBody(d, "message")
    /\ UNCHANGED <<client, incoming, services, disconnect, truncated>>

\* Of the bodies that are read without asyncRecv_.
BodyFails(c) == CloseChannel(c, ch.readDone = "empty")

\* An unsupported protocol version cancels the socket, on which nothing is
\* pending, and the reading goes on.
HandleReadHello ==
    /\ ReadReady("hello")
    /\ LET c == ReadEnded(ch) IN
       ch' = IF ch.readDone = "ok" THEN AsyncRead(c) ELSE BodyFails(c)
    /\ UNCHANGED <<client, incoming, services, disconnect, truncated>>

\* valid: the request is one the server answers.  Otherwise its socket is
\* closed and the next read fails.
HandleReadOpen(valid, secured) ==
    /\ ReadReady("open")
    /\ LET c == ReadEnded(ch)
           d == [c EXCEPT !.recvRequestId = incoming.id]
       IN  ch' = IF ch.readDone # "ok" THEN BodyFails(c)
                 ELSE IF ~valid THEN AsyncRead(CloseSocket(d))
                 ELSE AsyncRead(AsyncWriteOpen([d EXCEPT !.openList = Append(@, incoming.id)],
                                               secured))
    /\ UNCHANGED <<client, incoming, services, disconnect, truncated>>

HandleReadClose ==
    /\ ReadReady("close")
    /\ LET c == ReadEnded(ch) IN
       ch' = IF ch.readDone = "ok" THEN AsyncRead(Cancel(c)) ELSE BodyFails(c)
    /\ UNCHANGED <<client, incoming, services, disconnect, truncated>>

HandleReadError ==
    /\ ReadReady("error")
    /\ LET c == ReadEnded(ch) IN
       ch' = IF ch.readDone = "ok" THEN CloseChannel(c, TRUE) ELSE BodyFails(c)
    /\ UNCHANGED <<client, incoming, services, disconnect, truncated>>

MessageFails ==
    /\ ReadReady("message") /\ ch.readDone # "ok"
    /\ LET c == ReadEnded(ch) IN
       ch' = IF c.asyncSend THEN c ELSE CloseChannel(c, ch.readDone = "empty")
    /\ UNCHANGED <<client, incoming, services, disconnect, truncated>>

\* The message or the header of the open request cannot be decrypted.
MessageRejected ==
    /\ ReadReady("message") \/ ReadReady("open")
    /\ ch.readDone = "ok"
    /\ ch' = CloseChannel(ReadEnded(ch), TRUE)
    /\ UNCHANGED <<client, incoming, services, disconnect, truncated>>

ReadMessageRequestId ==
    /\ ReadReady("message") /\ ch.readDone = "ok"
    /\ ch' = AsyncRead([ReadEnded(ch) EXCEPT !.recvRequestId = incoming.id])
    /\ services' = services \cup {incoming.id}
    /\ UNCHANGED <<client, incoming, disconnect, truncated>>

\* The last chunk is recognised by the shared header.
HandleReadMessage ==
    /\ ReadReady("message") /\ ch.readDone = "ok"
    /\ ch' = AsyncRead(ReadEnded(ch))
    /\ services' = IF ch.segmentFlag = "F" THEN services \cup {incoming.id} ELSE services
    /\ truncated' = (truncated \/ (ch.segmentFlag = "F" /\ incoming.flag = "C"))
    /\ UNCHANGED <<client, incoming, disconnect>>

-----------------------------------------------------------------------------
(***************************************************************************)
(* The handlers of the writing loop, and the callers of the channel.       *)
(***************************************************************************)
WriteReady(op) == ~ch.deleted /\ ch.write = op /\ ch.writeDone # "pending"
WriteEnded(c) == [c EXCEPT !.write = "none", !.asyncSend = FALSE]

HandleWriteOpen(securedOpen, secured) ==
    /\ WriteReady("open")
    /\ LET c == WriteEnded(ch) IN
       ch' = IF c.asyncSendStop THEN CloseChannel(c, FALSE)
             ELSE IF ch.writeDone = "error"
                  THEN IF c.asyncRecv THEN c ELSE CloseChannel(c, FALSE)
             ELSE HandleWriteComplete(c, securedOpen, secured)
    /\ UNCHANGED <<client, incoming, services, disconnect, truncated>>

CloseOnWriteError(securedOpen, secured) ==
    /\ WriteReady("message")
    /\ LET c == WriteEnded(ch) IN
       ch' = IF c.asyncSendStop \/ ch.writeDone = "error" THEN CloseChannel(c, FALSE)
             ELSE HandleWriteComplete(c, securedOpen, secured)
    /\ UNCHANGED <<client, incoming, services, disconnect, truncated>>

HandleWriteMessage(securedOpen, secured) ==
    /\ WriteReady("message")
    /\ LET c == WriteEnded(ch) IN
       ch' = IF c.asyncSendStop \/ ch.writeDone = "error"
             THEN IF c.asyncRecv THEN c ELSE CloseChannel(c, FALSE)
             ELSE HandleWriteComplete(c, securedOpen, secured)
    /\ UNCHANGED <<client, incoming, services, disconnect, truncated>>

\* A service answers a request, at any time after it was handed over.
SendResponse(id, chunks, secured) ==
    /\ id \in services /\ ~ch.deleted
    /\ services' = services \ {id}
    /\ ch' = AsyncWriteMessage(
               [ch EXCEPT !.transactionList = Append(@, [id |-> id, chunks |-> chunks])],
               secured)
    /\ UNCHANGED <<client, incoming, disconnect, truncated>>

\* The cancel of a socket that is closed already throws, and nothing catches it:
\* the server ends there, and with it the behaviour.
Disconnect ==
    /\ ~ch.deleted /\ ~disconnect
    /\ ch.socketOpen
    /\ disconnect' = TRUE
    /\ ch' = Cancel(ch)
    /\ UNCHANGED <<client, incoming, services, truncated>>

ReadHandler ==
    \/ HandleReadHeader \/ HandleReadHello
    \/ \E valid \in BOOLEAN, s \in Secured : HandleReadOpen(valid, s)
    \/ HandleReadClose \/ HandleReadError
    \/ MessageFails \/ MessageRejected \/ HandleReadMessage

WriteHandler ==
    \E o, s \in Secured : HandleWriteOpen(o, s) \/ HandleWriteMessage(o, s)

Next ==
    \/ HeaderArrives
    \/ \E result \in {"ok", "empty"} : BodyArrives(result)
    \/ ClientCloses \/ ReadFails
    \/ \E result \in {"ok", "error"} : WriteEnds(result)
    \/ ReadHandler \/ WriteHandler
    \/ \E id \in RequestId, n \in 1 .. MaxChunks, s \in Secured : SendResponse(id, n, s)
    \/ Disconnect

Spec == Init /\ [][Next]_vars

(***************************************************************************)
(* The I/O thread runs the handlers of completed operations; a write       *)
(* completes some time, and so does a read once the client has gone.       *)
(***************************************************************************)
FairSpec ==
    /\ Spec
    /\ WF_vars(ReadHandler) /\ WF_vars(WriteHandler) /\ WF_vars(ReadFails)
    /\ WF_vars(\E result \in {"ok", "error"} : WriteEnds(result))

-----------------------------------------------------------------------------
(***************************************************************************)
(* When the channel is deleted no write is in flight and no read the flag  *)
(* asyncRecv_ is set for: neither handler will find it gone.  The bodies   *)
(* that are read without the flag have no such protection.                 *)
(***************************************************************************)
DeletedWhenQuiet ==
    ch.deleted => ch.write = "none" /\ ch.read \notin Tracked

(***************************************************************************)
(* On the wire the chunks of a message follow one another as long as they  *)
(* can be written: the response to a renewal does not come between them,   *)
(* no chunk has the sequence number of an earlier one, and the socket is   *)
(* never given a chunk to write while it still writes the one before.      *)
(***************************************************************************)
ChunkFollows ==
    ch'.chunk # ch.chunk =>
        /\ ch'.chunk.number > ch.chunk.number
        /\ ~ch.chunk.final /\ ch.writeDone = "ok" =>
             ch'.chunk.kind = "MSG" /\ ch'.chunk.id = ch.chunk.id

WriteStartsAlone ==
    ch'.chunk # ch.chunk => ch.write = "none" \/ ch.writeDone # "pending"

ChunksContiguous == [][ChunkFollows /\ WriteStartsAlone]_vars

(***************************************************************************)
(* Each OpenSecureChannel response carries the id of the request it        *)
(* answers, although the id is read when the response is written and other *)
(* requests may have come since.                                           *)
(***************************************************************************)
OpenAnswersItsRequest == ch.chunk.id = ch.chunk.answers

(***************************************************************************)
(* The channel implements the queue of responses: the two lists, the       *)
(* chunks and the flags do not show.  A response that cannot be secured is *)
(* lost to the client with all that come after it.                         *)
(***************************************************************************)
SendStuck == ch.asyncSend /\ ch.write = "none"

Queue == INSTANCE ResponseQueue WITH
    Response <- RequestId,
    queued <- [k \in DOMAIN ch.transactionList |-> ch.transactionList[k].id],
    sent <- ch.sent,
    stuck <- SendStuck
QueueRefined == Queue!Spec

(***************************************************************************)
(* No response stays in the send queue: all are written, or the channel    *)
(* goes, or a write fails.  The one exception is a chunk that could not be *)
(* secured, which leaves asyncSend_ set and nothing in flight.             *)
(***************************************************************************)
ResponsesLeave ==
    (ch.transactionList # <<>>) ~>
        (ch.transactionList = <<>> \/ ch.writeDone = "error" \/ SendStuck)

-----------------------------------------------------------------------------
(***************************************************************************)
(* What the comments say.  "message is completed": a request is handed to  *)
(* the session with all its chunks.  "close secure channel socket. The     *)
(* handleDisconnect function will be called with an error": disconnecting  *)
(* a channel ends in its deletion.                                         *)
(***************************************************************************)
MessageIsCompleted == ~truncated

DisconnectCloses == disconnect ~> ch.deleted
=============================================================================
