---------------------- MODULE SecureChannelServerProofs ----------------------
(***************************************************************************)
(* Proofs about the secure channel of the server: it is deleted only when  *)
(* nothing is in flight, the chunks of a message follow one another, each  *)
(* open response carries the id of its request, and the channel implements *)
(* the queue of responses.                                                 *)
(***************************************************************************)
EXTENDS SecureChannelServer, TLAPS

(***************************************************************************)
(* The inductive invariant.  Most of it is about the record of the channel *)
(* and is stated for any such record, since a handler passes it through    *)
(* several operators.                                                      *)
(***************************************************************************)

\* What is known of the last chunk whatever becomes of the channel.
ChunkSound(c) ==
    /\ c.chunk.number <= c.sendSequenceNumber
    /\ c.chunk.id = c.chunk.answers
    /\ c.chunk.final \/ c.chunk.kind = "MSG"

\* The message whose chunk is in flight goes on with the head of the list,
\* unless its next chunk could not be secured.
Continues(c) ==
    /\ c.asyncSend
    /\ \/ c.write = "none"
       \/ /\ c.write = "message" /\ c.actSegmentFlag = "C"
          /\ c.transactionList # <<>> /\ c.transactionList[1].id = c.chunk.id

WriteSound(c) ==
    /\ ChunkSound(c)
    /\ c.write # "none" => c.asyncSend
    /\ c.chunk.final \/ c.deleted \/ c.writeDone = "error" \/ Continues(c)

\* asyncRecv_ is set exactly for the reads it is meant for, a channel that
\* waits to be closed reads no more, and a deleted one is quiet.
ReadSound(c) ==
    /\ c.asyncRecv <=> c.read \in Tracked
    /\ c.asyncSendStop => c.read = "none"
    /\ c.deleted => ~c.asyncSend /\ c.read \notin Tracked

\* At most one open response waits, for the request that was read last.
OneOpen(c) == c.openList = <<>> \/ c.openList = <<c.recvRequestId>>

\* What the client has sent agrees with what the channel reads.
OpenComes ==
    ch.openList = <<>> /\ incoming.id \in RequestId /\ client.state = "ready"

HeaderRead(c) == c.read = "header" /\ c.readDone \notin {"pending", "error"}

ClientSound ==
    /\ client.state # "ready" =>
         ch.openList = <<>> /\ client.lastId = 0 /\ ~client.partial
    /\ client.partial => client.lastId \in RequestId
    /\ ch.read = "open" => OpenComes
    /\ ch.read = "message" => incoming.id \in RequestId
    /\ HeaderRead(ch) =>
         /\ incoming.kind = "OPN" => OpenComes
         /\ incoming.kind = "MSG" => incoming.id \in RequestId

IndInv ==
    /\ TypeOK
    /\ WriteSound(ch)
    /\ ReadSound(ch)
    /\ OneOpen(ch)
    /\ ClientSound
-----------------------------------------------------------------------------
(***************************************************************************)
(* What the operators on the channel change and what they leave alone.     *)
(***************************************************************************)
SameRead(c, d) == d.read = c.read /\ d.readDone = c.readDone /\ d.asyncRecv = c.asyncRecv

SameList(c, d) == d.transactionList = c.transactionList /\ d.sent = c.sent

SameOpen(c, d) == d.openList = c.openList /\ d.recvRequestId = c.recvRequestId

\* All that the writing loop keeps but the result of the last write.
SameSend(c, d) ==
    /\ SameList(c, d)
    /\ d.write = c.write /\ d.asyncSend = c.asyncSend
    /\ d.actSegmentFlag = c.actSegmentFlag
    /\ d.sendSequenceNumber = c.sendSequenceNumber
    /\ d.chunk = c.chunk

SameEnd(c, d) == d.asyncSendStop = c.asyncSendStop /\ d.deleted = c.deleted

LEMMA CancelFacts ==
    ASSUME NEW c \in Channel
    PROVE  /\ Cancel(c) \in Channel
           /\ SameSend(c, Cancel(c)) /\ SameOpen(c, Cancel(c)) /\ SameEnd(c, Cancel(c))
           /\ Cancel(c).read = c.read /\ Cancel(c).asyncRecv = c.asyncRecv
           /\ Cancel(c).readDone \in {c.readDone, "error"}
           /\ Cancel(c).writeDone \in {c.writeDone, "error"}
<1>1. Cancel(c) \in Channel
    BY ZenonT(60) DEF Cancel, Channel
<1>2. QED
    BY <1>1 DEF Cancel, Channel, SameSend, SameList, SameOpen, SameEnd

LEMMA CloseSocketFacts ==
    ASSUME NEW c \in Channel
    PROVE  /\ CloseSocket(c) \in Channel
           /\ SameSend(c, CloseSocket(c)) /\ SameOpen(c, CloseSocket(c))
           /\ SameEnd(c, CloseSocket(c))
           /\ CloseSocket(c).read = c.read /\ CloseSocket(c).asyncRecv = c.asyncRecv
           /\ CloseSocket(c).readDone \in {c.readDone, "error"}
           /\ CloseSocket(c).writeDone \in {c.writeDone, "error"}
<1> DEFINE d == Cancel(c)
<1>1. /\ d \in Channel
      /\ SameSend(c, d) /\ SameOpen(c, d) /\ SameEnd(c, d)
      /\ d.read = c.read /\ d.asyncRecv = c.asyncRecv
      /\ d.readDone \in {c.readDone, "error"} /\ d.writeDone \in {c.writeDone, "error"}
    BY CancelFacts
<1>2. CloseSocket(c) = [d EXCEPT !.socketOpen = FALSE]
    BY DEF CloseSocket
<1> HIDE DEF d
<1>3. CloseSocket(c) \in Channel
    BY <1>1, <1>2 DEF Channel
<1>4. /\ SameSend(d, CloseSocket(c)) /\ SameOpen(d, CloseSocket(c)) /\ SameEnd(d, CloseSocket(c))
      /\ SameRead(d, CloseSocket(c)) /\ CloseSocket(c).writeDone = d.writeDone
    BY <1>1, <1>2 DEF Channel, SameSend, SameList, SameOpen, SameEnd, SameRead
<1>5. QED
    BY <1>1, <1>3, <1>4 DEF SameSend, SameList, SameOpen, SameEnd, SameRead

LEMMA ReadBodyFacts ==
    ASSUME NEW c \in Channel, NEW op \in Tracked \cup Untracked
    PROVE  /\ ReadBody(c, op) \in Channel
           /\ SameSend(c, ReadBody(c, op)) /\ SameOpen(c, ReadBody(c, op))
           /\ SameEnd(c, ReadBody(c, op)) /\ ReadBody(c, op).writeDone = c.writeDone
           /\ ReadBody(c, op).read = op
           /\ ReadBody(c, op).asyncRecv = (op \in Tracked)
           /\ ReadBody(c, op).readDone \in {"pending", "error"}
<1>1. ReadBody(c, op) \in Channel
  <2> DEFINE b == (op \in Tracked)
  <2>1. b \in BOOLEAN /\ op \in Tracked \cup Untracked \cup {"none"}
      OBVIOUS
  <2>2. Started(c) \in {"pending", "ok", "error", "empty"}
      BY DEF Started
  <2>3. ReadBody(c, op) = [c EXCEPT !.read = op, !.readDone = Started(c), !.asyncRecv = b]
      BY DEF ReadBody
  <2> DEFINE done == Started(c)
  <2>4. ReadBody(c, op) = [c EXCEPT !.read = op, !.readDone = done, !.asyncRecv = b]
        /\ done \in {"pending", "ok", "error", "empty"}
      BY <2>2, <2>3
  <2> HIDE DEF b, done
  <2>5. [c EXCEPT !.read = op, !.readDone = done, !.asyncRecv = b] \in Channel
      BY <2>1, <2>4, ZenonT(60) DEF Channel
  <2>6. QED
      BY <2>4, <2>5
<1>2. QED
    BY <1>1 DEF ReadBody, Channel, Started, SameSend, SameList, SameOpen, SameEnd

LEMMA AsyncReadFacts ==
    ASSUME NEW c \in Channel
    PROVE  /\ AsyncRead(c) \in Channel
           /\ SameSend(c, AsyncRead(c)) /\ SameOpen(c, AsyncRead(c))
           /\ SameEnd(c, AsyncRead(c)) /\ AsyncRead(c).writeDone = c.writeDone
           /\ AsyncRead(c).read = "header" /\ AsyncRead(c).asyncRecv
           /\ AsyncRead(c).readDone \in {"pending", "error"}
<1>1. AsyncRead(c) = ReadBody(c, "header")
    BY DEF AsyncRead, ReadBody, Tracked
<1>2. "header" \in Tracked
    BY DEF Tracked
<1>3. /\ ReadBody(c, "header") \in Channel
      /\ SameSend(c, ReadBody(c, "header")) /\ SameOpen(c, ReadBody(c, "header"))
      /\ SameEnd(c, ReadBody(c, "header")) /\ ReadBody(c, "header").writeDone = c.writeDone
      /\ ReadBody(c, "header").read = "header"
      /\ ReadBody(c, "header").readDone \in {"pending", "error"}
      /\ ReadBody(c, "header").asyncRecv = ("header" \in Tracked)
    BY <1>2, ReadBodyFacts
<1>4. QED
    BY <1>1, <1>2, <1>3

LEMMA ReadEndedFacts ==
    ASSUME NEW c \in Channel
    PROVE  /\ ReadEnded(c) \in Channel
           /\ SameSend(c, ReadEnded(c)) /\ SameOpen(c, ReadEnded(c))
           /\ SameEnd(c, ReadEnded(c)) /\ ReadEnded(c).writeDone = c.writeDone
           /\ ReadEnded(c).read = "none" /\ ReadEnded(c).readDone = c.readDone
           /\ ReadEnded(c).asyncRecv = (c.asyncRecv /\ c.read \notin Tracked)
<1>1. ReadEnded(c) \in Channel
    BY DEF ReadEnded, Channel
<1>2. /\ SameSend(c, ReadEnded(c)) /\ SameOpen(c, ReadEnded(c))
      /\ SameEnd(c, ReadEnded(c)) /\ ReadEnded(c).writeDone = c.writeDone
      /\ ReadEnded(c).read = "none" /\ ReadEnded(c).readDone = c.readDone
    BY <1>1 DEF ReadEnded, Channel, SameSend, SameList, SameOpen, SameEnd
<1>3. ReadEnded(c).asyncRecv = IF c.read \in Tracked THEN FALSE ELSE c.asyncRecv
    BY DEF ReadEnded, Channel
<1>4. c.asyncRecv \in BOOLEAN
    BY DEF Channel
<1>5. QED
    BY <1>1, <1>2, <1>3, <1>4

\* A close that waits for the write in flight, and one that deletes.
LEMMA CloseChannelFacts ==
    ASSUME NEW c \in Channel, NEW close \in BOOLEAN
    PROVE  LET e == CloseChannel(c, close) IN
           /\ e \in Channel
           /\ SameOpen(c, e)
           /\ e.read = c.read /\ e.asyncRecv = c.asyncRecv
           /\ e.readDone \in {c.readDone, "error"}
           /\ e.writeDone \in {c.writeDone, "error"}
           /\ e.chunk = c.chunk /\ e.sent = c.sent /\ e.write = c.write
           /\ e.sendSequenceNumber = c.sendSequenceNumber
           /\ e.asyncSend = c.asyncSend
           /\ c.asyncSend => SameSend(c, e) /\ e.asyncSendStop /\ e.deleted = c.deleted
           /\ ~c.asyncSend => e.deleted /\ ~e.asyncSendStop /\ e.transactionList = <<>>
<1> DEFINE d == IF close THEN CloseSocket(c) ELSE c
           e == CloseChannel(c, close)
<1>1. /\ d \in Channel
      /\ SameSend(c, d) /\ SameOpen(c, d) /\ SameEnd(c, d)
      /\ d.read = c.read /\ d.asyncRecv = c.asyncRecv
      /\ d.readDone \in {c.readDone, "error"} /\ d.writeDone \in {c.writeDone, "error"}
    BY CloseSocketFacts DEF SameSend, SameList, SameOpen, SameEnd
<1>2. e = IF d.asyncSend THEN [d EXCEPT !.asyncSendStop = TRUE]
          ELSE [d EXCEPT !.asyncSendStop = FALSE, !.transactionList = <<>>, !.deleted = TRUE]
    BY DEF CloseChannel
<1> HIDE DEF d, e
<1>3. d.asyncSend \in BOOLEAN /\ c.asyncSend = d.asyncSend
    BY <1>1 DEF Channel, SameSend
<1>4. CASE d.asyncSend
  <2>1. e = [d EXCEPT !.asyncSendStop = TRUE]
      BY <1>2, <1>4
  <2>2. e \in Channel
      BY <2>1, <1>1 DEF Channel
  <2>3. SameSend(d, e) /\ SameOpen(d, e) /\ SameRead(d, e) /\ e.writeDone = d.writeDone
        /\ e.asyncSendStop /\ e.deleted = d.deleted
      BY <2>1, <1>1 DEF Channel, SameSend, SameList, SameOpen, SameRead
  <2>4. QED
      BY <2>2, <2>3, <1>1, <1>3, <1>4 DEF e, SameSend, SameList, SameOpen, SameRead, SameEnd
<1>5. CASE ~d.asyncSend
  <2>1. e = [d EXCEPT !.asyncSendStop = FALSE, !.transactionList = <<>>, !.deleted = TRUE]
      BY <1>2, <1>5
  <2>2. <<>> \in Seq(SecureChannelTransaction)
      OBVIOUS
  <2>3. e \in Channel
      BY <2>1, <2>2, <1>1 DEF Channel
  <2>4. SameOpen(d, e) /\ SameRead(d, e) /\ e.writeDone = d.writeDone
      BY <2>1, <1>1 DEF Channel, SameOpen, SameRead
  <2>5. /\ e.chunk = d.chunk /\ e.sent = d.sent /\ e.write = d.write
        /\ e.sendSequenceNumber = d.sendSequenceNumber /\ e.asyncSend = d.asyncSend
        /\ e.transactionList = <<>> /\ e.deleted /\ ~e.asyncSendStop
      BY <2>1, <1>1 DEF Channel
  <2>6. QED
      BY <2>3, <2>4, <2>5, <1>1, <1>3, <1>5 DEF e, SameSend, SameList, SameOpen, SameRead
<1>6. QED
    BY <1>3, <1>4, <1>5

LEMMA WriteEndedFacts ==
    ASSUME NEW c \in Channel
    PROVE  /\ WriteEnded(c) \in Channel
           /\ SameRead(c, WriteEnded(c)) /\ SameOpen(c, WriteEnded(c))
           /\ SameEnd(c, WriteEnded(c)) /\ SameList(c, WriteEnded(c))
           /\ WriteEnded(c).write = "none" /\ ~WriteEnded(c).asyncSend
           /\ WriteEnded(c).chunk = c.chunk
           /\ WriteEnded(c).actSegmentFlag = c.actSegmentFlag
           /\ WriteEnded(c).sendSequenceNumber = c.sendSequenceNumber
           /\ WriteEnded(c).writeDone = c.writeDone
<1>1. WriteEnded(c) \in Channel
    BY DEF WriteEnded, Channel
<1>2. QED
    BY <1>1 DEF WriteEnded, Channel, SameRead, SameOpen, SameEnd, SameList
-----------------------------------------------------------------------------
(***************************************************************************)
(* The queue of responses behind the transaction list.                     *)
(***************************************************************************)
Ids(q) == [k \in DOMAIN q |-> q[k].id]

LEMMA IdsOf ==
    ASSUME NEW q \in Seq(SecureChannelTransaction)
    PROVE  /\ Ids(q) \in Seq(RequestId) /\ Len(Ids(q)) = Len(q)
           /\ \A k \in 1 .. Len(q) : Ids(q)[k] = q[k].id
<1>1. \A k \in 1 .. Len(q) : q[k].id \in RequestId
  <2>1. TAKE k \in 1 .. Len(q)
  <2>2. q[k] \in SecureChannelTransaction
      OBVIOUS
  <2>3. QED
      BY <2>2 DEF SecureChannelTransaction
<1>2. DOMAIN q = 1 .. Len(q) /\ Len(q) \in Nat
    OBVIOUS
<1>3. QED
    BY <1>1, <1>2 DEF Ids

LEMMA IdsTail ==
    ASSUME NEW q \in Seq(SecureChannelTransaction), q # <<>>
    PROVE  /\ Tail(q) \in Seq(SecureChannelTransaction)
           /\ Ids(q) # <<>> /\ Head(Ids(q)) = Head(q).id
           /\ Ids(Tail(q)) = Tail(Ids(q))
<1>1. Tail(q) \in Seq(SecureChannelTransaction) /\ Len(Tail(q)) = Len(q) - 1
      /\ \A k \in 1 .. Len(q) - 1 : Tail(q)[k] = q[k + 1]
    OBVIOUS
<1>2. /\ Ids(q) \in Seq(RequestId) /\ Len(Ids(q)) = Len(q)
      /\ \A k \in 1 .. Len(q) : Ids(q)[k] = q[k].id
    BY IdsOf
<1>3. /\ Ids(Tail(q)) \in Seq(RequestId) /\ Len(Ids(Tail(q))) = Len(q) - 1
      /\ \A k \in 1 .. Len(q) - 1 : Ids(Tail(q))[k] = Tail(q)[k].id
    BY <1>1, IdsOf
<1>4. Len(q) \in Nat \ {0}
    OBVIOUS
<1>5. Ids(q) # <<>> /\ Head(Ids(q)) = Head(q).id
    BY <1>2, <1>4
<1>6. /\ Tail(Ids(q)) \in Seq(RequestId) /\ Len(Tail(Ids(q))) = Len(q) - 1
      /\ \A k \in 1 .. Len(q) - 1 : Tail(Ids(q))[k] = Ids(q)[k + 1]
    BY <1>2, <1>4, <1>5
<1>7. \A k \in 1 .. Len(q) - 1 : Ids(Tail(q))[k] = Tail(Ids(q))[k]
  <2>1. TAKE k \in 1 .. Len(q) - 1
  <2>2. k + 1 \in 1 .. Len(q)
      BY <1>4
  <2>3. Ids(Tail(q))[k] = Tail(q)[k].id /\ Tail(q)[k] = q[k + 1]
      BY <1>1, <1>3
  <2>4. Tail(Ids(q))[k] = Ids(q)[k + 1] /\ Ids(q)[k + 1] = q[k + 1].id
      BY <2>2, <1>2, <1>6
  <2>5. QED
      BY <2>3, <2>4
<1>8. Ids(Tail(q)) = Tail(Ids(q))
    BY <1>3, <1>6, <1>7
<1>9. QED
    BY <1>1, <1>5, <1>8

LEMMA IdsAppend ==
    ASSUME NEW q \in Seq(SecureChannelTransaction), NEW r \in SecureChannelTransaction
    PROVE  /\ Append(q, r) \in Seq(SecureChannelTransaction)
           /\ Append(q, r) # <<>>
           /\ q # <<>> => Append(q, r)[1] = q[1]
           /\ Ids(Append(q, r)) = Append(Ids(q), r.id)
<1> DEFINE p == Append(q, r)
<1>1. /\ p \in Seq(SecureChannelTransaction) /\ Len(p) = Len(q) + 1
      /\ \A k \in 1 .. Len(q) : p[k] = q[k]
      /\ p[Len(q) + 1] = r /\ Len(q) \in Nat
    OBVIOUS
<1> HIDE DEF p
<1>2. /\ Ids(q) \in Seq(RequestId) /\ Len(Ids(q)) = Len(q)
      /\ \A k \in 1 .. Len(q) : Ids(q)[k] = q[k].id
    BY IdsOf
<1>3. /\ Ids(p) \in Seq(RequestId) /\ Len(Ids(p)) = Len(q) + 1
      /\ \A k \in 1 .. Len(q) + 1 : Ids(p)[k] = p[k].id
    BY <1>1, IdsOf
<1>4. r.id \in RequestId
    BY DEF SecureChannelTransaction
<1> DEFINE a == Append(Ids(q), r.id)
<1>5. /\ a \in Seq(RequestId) /\ Len(a) = Len(q) + 1
      /\ \A k \in 1 .. Len(q) : a[k] = Ids(q)[k]
      /\ a[Len(q) + 1] = r.id
    BY <1>2, <1>4
<1> HIDE DEF a
<1>6. \A k \in 1 .. Len(q) + 1 : Ids(p)[k] = a[k]
  <2>1. TAKE k \in 1 .. Len(q) + 1
  <2>2. CASE k \in 1 .. Len(q)
      BY <2>2, <1>1, <1>2, <1>3, <1>5
  <2>3. CASE k = Len(q) + 1
    <3>1. p[k] = r /\ a[k] = r.id
        BY <2>3, <1>1, <1>5
    <3>2. QED
        BY <2>1, <3>1, <1>3
  <2>4. QED
      BY <2>2, <2>3, <1>1
<1>7. Ids(p) = a
    BY <1>3, <1>5, <1>6
<1>8. p # <<>> /\ (q # <<>> => p[1] = q[1])
    BY <1>1
<1>9. QED
    BY <1>1, <1>7, <1>8 DEF p, a

LEMMA IdsLess ==
    ASSUME NEW q \in Seq(SecureChannelTransaction), q # <<>>, q[1].chunks # 1
    PROVE  LET p == [q EXCEPT ![1].chunks = @ - 1] IN
           /\ p \in Seq(SecureChannelTransaction) /\ p # <<>>
           /\ p[1].id = q[1].id
           /\ Ids(p) = Ids(q)
<1> DEFINE p == [q EXCEPT ![1].chunks = @ - 1]
           r == [q[1] EXCEPT !.chunks = @ - 1]
<1>1. Len(q) \in Nat \ {0} /\ 1 \in DOMAIN q /\ DOMAIN q = 1 .. Len(q)
      /\ q[1] \in SecureChannelTransaction
    OBVIOUS
<1>2. r \in SecureChannelTransaction /\ r.id = q[1].id
  <2>1. q[1].chunks \in 1 .. MaxChunks /\ q[1].chunks - 1 \in 1 .. MaxChunks
      BY <1>1, ChannelAssumption DEF SecureChannelTransaction
  <2>2. QED
      BY <1>1, <2>1 DEF SecureChannelTransaction
<1>3. p = [q EXCEPT ![1] = r]
    OBVIOUS
<1> HIDE DEF p, r
<1>4. /\ p \in Seq(SecureChannelTransaction) /\ Len(p) = Len(q) /\ DOMAIN p = DOMAIN q
      /\ p[1] = r /\ \A k \in 2 .. Len(q) : p[k] = q[k]
    BY <1>1, <1>2, <1>3
<1>5. \A k \in DOMAIN q : p[k].id = q[k].id
    BY <1>1, <1>2, <1>4
<1>6. Ids(p) = Ids(q)
    BY <1>4, <1>5 DEF Ids
<1>7. p # <<>> /\ p[1].id = q[1].id
    BY <1>1, <1>2, <1>4
<1>8. QED
    BY <1>4, <1>6, <1>7 DEF p
-----------------------------------------------------------------------------
(***************************************************************************)
(* The writers.  Either nothing is written, or a chunk with a new number.  *)
(***************************************************************************)
NothingWritten(c, e) ==
    /\ e.chunk = c.chunk /\ e.writeDone = c.writeDone
    /\ e.write = c.write /\ e.asyncSend = c.asyncSend
    /\ e.actSegmentFlag = c.actSegmentFlag /\ SameList(c, e)

OpenWritten(c, e) ==
    /\ ~c.asyncSend /\ e.asyncSend /\ e.write = "open"
    /\ e.chunk.final /\ e.chunk.number > c.chunk.number /\ SameList(c, e)

LEMMA AsyncWriteOpenFacts ==
    ASSUME NEW c \in Channel, NEW secured \in BOOLEAN, ChunkSound(c), OneOpen(c)
    PROVE  LET e == AsyncWriteOpen(c, secured) IN
           /\ e \in Channel /\ SameRead(c, e) /\ SameEnd(c, e)
           /\ ChunkSound(e) /\ OneOpen(e)
           /\ c.openList = <<>> => e.openList = <<>>
           /\ NothingWritten(c, e) \/ OpenWritten(c, e)
<1> DEFINE e == AsyncWriteOpen(c, secured)
<1>1. CASE c.openList = <<>> \/ c.asyncSend
  <2>1. e = c
      BY <1>1 DEF AsyncWriteOpen
  <2>2. QED
      BY <2>1 DEF SameRead, SameEnd, SameList, NothingWritten
<1>2. CASE ~(c.openList = <<>> \/ c.asyncSend)
  <2> DEFINE number == c.sendSequenceNumber + 1
             open == [kind |-> "OPN", id |-> c.recvRequestId,
                      answers |-> Head(c.openList), final |-> TRUE, number |-> number]
             done == Started(c)
             d == [c EXCEPT !.openList = Tail(@), !.segmentFlag = "F",
                            !.sendSequenceNumber = number]
  <2>1. c.openList = <<c.recvRequestId>> /\ ~c.asyncSend /\ c.recvRequestId \in RequestId
    <3>1. c.openList = <<c.recvRequestId>> /\ c.openList \in Seq(RequestId)
        BY <1>2 DEF OneOpen, Channel
    <3>2. c.openList[1] \in RequestId
        BY <3>1
    <3>3. QED
        BY <1>2, <3>1, <3>2
  <2>2. /\ Tail(c.openList) = <<>> /\ Head(c.openList) = c.recvRequestId
      BY <2>1
  <2>3. number \in Nat /\ c.chunk.number < number
    <3>1. c.sendSequenceNumber \in Nat /\ c.chunk \in Chunk
        BY DEF Channel
    <3>2. c.chunk.number \in Nat
        BY <3>1 DEF Chunk
    <3>3. QED
        BY <3>1, <3>2 DEF ChunkSound
  <2>4. /\ open \in Chunk /\ open.id = open.answers /\ open.final /\ open.number = number
      BY <2>1, <2>2, <2>3 DEF Chunk
  <2>5. done \in {"pending", "ok", "error"}
      BY DEF Started
  <2>6. e = IF ~secured THEN d
            ELSE [d EXCEPT !.asyncSend = TRUE, !.write = "open", !.writeDone = done,
                           !.chunk = open]
      BY <1>2 DEF AsyncWriteOpen
  <2> HIDE DEF number, open, done, e
  <2>7. /\ d \in Channel /\ d.openList = <<>> /\ d.sendSequenceNumber = number
        /\ SameRead(c, d) /\ SameEnd(c, d) /\ NothingWritten(c, d)
    <3>1. <<>> \in Seq(RequestId)
        OBVIOUS
    <3>2. d \in Channel
        BY <2>2, <2>3, <3>1, ZenonT(60) DEF Channel
    <3>3. QED
        BY <2>2, <3>2 DEF Channel, SameRead, SameEnd, NothingWritten, SameList
  <2> HIDE DEF d
  <2>8. CASE ~secured
    <3>1. e = d
        BY <2>6, <2>8
    <3>2. ChunkSound(e)
      <4>1. c.chunk \in Chunk /\ c.sendSequenceNumber \in Nat
          BY DEF Channel
      <4>2. QED
          BY <3>1, <2>3, <2>7, <4>1 DEF ChunkSound, NothingWritten, Chunk, number
    <3>3. QED
        BY <3>1, <3>2, <2>7 DEF OneOpen, e
  <2>9. CASE secured
    <3>1. e = [d EXCEPT !.asyncSend = TRUE, !.write = "open", !.writeDone = done,
                        !.chunk = open]
        BY <2>6, <2>9
    <3>2. e \in Channel
        BY <3>1, <2>4, <2>5, <2>7, ZenonT(60) DEF Channel
    <3>3. /\ e.asyncSend /\ e.write = "open" /\ e.chunk = open
          /\ e.openList = d.openList /\ e.sendSequenceNumber = d.sendSequenceNumber
          /\ SameRead(d, e) /\ SameEnd(d, e) /\ SameList(d, e)
        BY <3>1, <2>7 DEF Channel, SameRead, SameEnd, SameList
    <3>4. ChunkSound(e)
        BY <3>3, <2>3, <2>4, <2>7 DEF ChunkSound
    <3>5. OpenWritten(c, e)
        BY <3>3, <2>1, <2>3, <2>4, <2>7 DEF OpenWritten, NothingWritten, SameList
    <3>6. QED
        BY <3>2, <3>3, <3>4, <3>5, <2>7 DEF OneOpen, SameRead, SameEnd, e
  <2>10. QED
      BY <2>8, <2>9
<1>3. QED
    BY <1>1, <1>2

MessageWritten(c, e) ==
    /\ e.asyncSend /\ e.write = "message"
    /\ e.chunk.kind = "MSG" /\ e.chunk.id = c.transactionList[1].id
    /\ e.chunk.number > c.chunk.number
    /\ e.chunk.final \/ Continues(e)
    /\ \/ Ids(e.transactionList) = Ids(c.transactionList) /\ e.sent = c.sent
       \/ /\ Ids(e.transactionList) = Tail(Ids(c.transactionList))
          /\ e.sent = Append(c.sent, Head(Ids(c.transactionList)))

MessageLost(c, e) ==
    /\ e.asyncSend /\ e.write = c.write
    /\ e.chunk = c.chunk /\ e.writeDone = c.writeDone /\ e.sent = c.sent
    /\ Ids(e.transactionList) \in {Ids(c.transactionList), Tail(Ids(c.transactionList))}

\* The last update of WriteMessage.
Passed(d, done, chunk, sent) ==
    [d EXCEPT !.write = "message", !.writeDone = done, !.chunk = chunk, !.sent = sent]

LEMMA PassedFacts ==
    ASSUME NEW d \in Channel, NEW done \in {"pending", "ok", "error"},
           NEW chunk \in Chunk, NEW sent \in Seq(RequestId)
    PROVE  LET e == Passed(d, done, chunk, sent) IN
           /\ e \in Channel
           /\ SameRead(d, e) /\ SameEnd(d, e) /\ SameOpen(d, e)
           /\ e.asyncSend = d.asyncSend /\ e.write = "message" /\ e.chunk = chunk
           /\ e.sent = sent /\ e.transactionList = d.transactionList
           /\ e.sendSequenceNumber = d.sendSequenceNumber
           /\ e.actSegmentFlag = d.actSegmentFlag
<1>1. Passed(d, done, chunk, sent) \in Channel
    BY DEF Channel, Passed
<1>2. QED
    BY <1>1 DEF Channel, SameRead, SameEnd, SameOpen, Passed

LEMMA WriteMessageFacts ==
    ASSUME NEW c \in Channel, NEW secured \in BOOLEAN, ChunkSound(c),
           c.transactionList # <<>>
    PROVE  LET e == WriteMessage(c, secured) IN
           /\ e \in Channel /\ SameRead(c, e) /\ SameEnd(c, e) /\ SameOpen(c, e)
           /\ ChunkSound(e)
           /\ IF secured THEN MessageWritten(c, e) ELSE MessageLost(c, e)
<1> DEFINE e == WriteMessage(c, secured)
           q == c.transactionList
           r == Head(q)
           final == r.chunks = 1
           number == c.sendSequenceNumber + 1
           flag == IF final THEN "F" ELSE "C"
           rest == Remaining(q)
           done == Started(c)
           chunk == [kind |-> "MSG", id |-> r.id, answers |-> r.id,
                     final |-> final, number |-> number]
           sent == IF final THEN Append(c.sent, r.id) ELSE c.sent
           d == [c EXCEPT !.asyncSend = TRUE, !.sendSequenceNumber = number,
                          !.actSegmentFlag = flag, !.transactionList = rest]
<1>1. q \in Seq(SecureChannelTransaction) /\ c.sent \in Seq(RequestId)
      /\ c.sendSequenceNumber \in Nat /\ c.chunk \in Chunk
    BY DEF Channel
<1>2. q[1] \in SecureChannelTransaction /\ r = q[1]
    BY <1>1
<1>3. q[1].id \in RequestId
    BY <1>2 DEF SecureChannelTransaction
<1>4. number \in Nat /\ c.chunk.number < number
  <2>1. c.chunk.number \in Nat
      BY <1>1 DEF Chunk
  <2>2. QED
      BY <1>1, <2>1 DEF ChunkSound
<1>5. e = IF ~secured THEN d ELSE Passed(d, done, chunk, sent)
  <2>1. WriteMessage(c, secured) =
          IF ~secured THEN d
          ELSE Passed(d, done, chunk, IF final THEN Append(d.sent, r.id) ELSE d.sent)
      BY Zenon DEF WriteMessage, Passed
  <2>2. d.sent = c.sent
      BY DEF Channel
  <2>3. QED
      BY <2>1, <2>2
<1>6. final \in BOOLEAN /\ flag \in {"C", "F"} /\ done \in {"pending", "ok", "error"}
    BY DEF Started
<1>7. chunk \in Chunk /\ chunk.kind = "MSG" /\ chunk.id = q[1].id /\ chunk.answers = q[1].id
      /\ chunk.final = final /\ chunk.number = number
    BY <1>2, <1>3, <1>4, <1>6 DEF Chunk
<1>8. sent \in Seq(RequestId)
    BY <1>1, <1>2, <1>3
<1>9. /\ rest \in Seq(SecureChannelTransaction)
      /\ Ids(rest) = IF final THEN Tail(Ids(q)) ELSE Ids(q)
      /\ ~final => rest # <<>> /\ rest[1].id = q[1].id
      /\ Head(Ids(q)) = q[1].id
  <2>1. CASE final
      BY <2>1, <1>1, <1>2, IdsTail DEF Remaining
  <2>2. CASE ~final
      BY <2>2, <1>1, <1>2, IdsLess, IdsTail DEF Remaining
  <2>3. QED
      BY <2>1, <2>2
<1>10. final => sent = Append(c.sent, r.id) /\ flag = "F"
    OBVIOUS
<1>11. ~final => sent = c.sent /\ flag = "C"
    OBVIOUS
<1> HIDE DEF e, q, r, final, number, flag, rest, done, chunk, sent
<1>12. /\ d \in Channel
       /\ SameRead(c, d) /\ SameEnd(c, d) /\ SameOpen(c, d)
       /\ d.asyncSend /\ d.write = c.write /\ d.chunk = c.chunk /\ d.writeDone = c.writeDone
       /\ d.sent = c.sent /\ d.transactionList = rest /\ d.sendSequenceNumber = number
       /\ d.actSegmentFlag = flag
  <2>1. d \in Channel
      BY <1>4, <1>6, <1>9 DEF Channel
  <2>2. QED
      BY <2>1 DEF Channel, SameRead, SameEnd, SameOpen
<1> HIDE DEF d
<1>13. CASE ~secured
  <2>1. e = d
      BY <1>5, <1>13
  <2>2. ChunkSound(e)
    <3>1. c.chunk.number \in Nat
        BY <1>1 DEF Chunk
    <3>2. QED
        BY <2>1, <3>1, <1>4, <1>12 DEF ChunkSound
  <2>3. MessageLost(c, e)
      BY <2>1, <1>9, <1>12 DEF MessageLost, q
  <2>4. QED
      BY <2>1, <2>2, <2>3, <1>12, <1>13 DEF e
<1>14. CASE secured
  <2>1. e = Passed(d, done, chunk, sent)
      BY <1>5, <1>14
  <2>2. chunk \in Chunk /\ done \in {"pending", "ok", "error"}
      BY <1>6, <1>7
  <2>3. /\ e \in Channel
        /\ SameRead(d, e) /\ SameEnd(d, e) /\ SameOpen(d, e)
        /\ e.asyncSend /\ e.write = "message" /\ e.chunk = chunk
        /\ e.sent = sent /\ e.transactionList = rest /\ e.sendSequenceNumber = number
        /\ e.actSegmentFlag = flag
      BY <2>1, <2>2, <1>8, <1>12, PassedFacts
  <2>4. ChunkSound(e)
      BY <2>3, <1>4, <1>7 DEF ChunkSound
  <2>5. e.chunk.final \/ Continues(e)
      BY <2>3, <1>6, <1>7, <1>9, <1>11 DEF Continues
  <2>6. \/ Ids(e.transactionList) = Ids(q) /\ e.sent = c.sent
        \/ /\ Ids(e.transactionList) = Tail(Ids(q))
           /\ e.sent = Append(c.sent, Head(Ids(q)))
      BY <2>3, <1>2, <1>6, <1>9, <1>10, <1>11
  <2>7. MessageWritten(c, e)
      BY <2>3, <2>5, <2>6, <1>4, <1>7 DEF MessageWritten, q
  <2>8. QED
      BY <2>3, <2>4, <2>7, <1>12, <1>14 DEF SameRead, SameEnd, SameOpen, e
<1>15. QED
    BY <1>13, <1>14

\* What a writer may do to a channel on which nothing is being written.
Writes(c, e) ==
    \/ NothingWritten(c, e)
    \/ OpenWritten(c, e)
    \/ /\ ~c.asyncSend /\ c.transactionList # <<>>
       /\ MessageWritten(c, e) \/ MessageLost(c, e)

LEMMA AsyncWriteMessageFacts ==
    ASSUME NEW c \in Channel, NEW secured \in BOOLEAN, ChunkSound(c)
    PROVE  LET e == AsyncWriteMessage(c, secured) IN
           /\ e \in Channel /\ SameRead(c, e) /\ SameEnd(c, e) /\ SameOpen(c, e)
           /\ ChunkSound(e)
           /\ \/ NothingWritten(c, e) /\ (c.transactionList = <<>> \/ c.asyncSend)
              \/ /\ ~c.asyncSend /\ c.transactionList # <<>>
                 /\ MessageWritten(c, e) \/ MessageLost(c, e)
<1> DEFINE e == AsyncWriteMessage(c, secured)
<1>1. CASE c.transactionList = <<>> \/ c.asyncSend
  <2>1. e = c
      BY <1>1 DEF AsyncWriteMessage
  <2>2. QED
      BY <2>1, <1>1 DEF NothingWritten, SameRead, SameEnd, SameOpen, SameList
<1>2. CASE ~(c.transactionList = <<>> \/ c.asyncSend)
  <2>1. e = WriteMessage(c, secured)
      BY <1>2 DEF AsyncWriteMessage
  <2>2. /\ e \in Channel /\ SameRead(c, e) /\ SameEnd(c, e) /\ SameOpen(c, e)
        /\ ChunkSound(e)
        /\ IF secured THEN MessageWritten(c, e) ELSE MessageLost(c, e)
      BY <2>1, <1>2, WriteMessageFacts
  <2>3. QED
      BY <2>2, <1>2
<1>3. QED
    BY <1>1, <1>2

LEMMA WriteNextFacts ==
    ASSUME NEW c \in Channel, NEW o \in BOOLEAN, NEW s \in BOOLEAN,
           ChunkSound(c), OneOpen(c)
    PROVE  LET e == WriteNext(c, o, s) IN
           /\ e \in Channel /\ SameRead(c, e) /\ SameEnd(c, e)
           /\ ChunkSound(e) /\ OneOpen(e)
           /\ c.openList = <<>> => e.openList = <<>>
           /\ Writes(c, e)
<1> DEFINE d == AsyncWriteOpen(c, o)
           e == WriteNext(c, o, s)
<1>1. /\ d \in Channel /\ SameRead(c, d) /\ SameEnd(c, d)
      /\ ChunkSound(d) /\ OneOpen(d)
      /\ c.openList = <<>> => d.openList = <<>>
      /\ NothingWritten(c, d) \/ OpenWritten(c, d)
    BY AsyncWriteOpenFacts
<1>2. e = IF d.asyncSend THEN d ELSE AsyncWriteMessage(d, s)
    BY DEF WriteNext
<1> HIDE DEF d
<1>3. CASE d.asyncSend
    BY <1>1, <1>2, <1>3 DEF Writes
<1>4. CASE ~d.asyncSend
  <2> DEFINE f == AsyncWriteMessage(d, s)
  <2>1. e = f
      BY <1>2, <1>4
  <2>2. /\ f \in Channel /\ SameRead(d, f) /\ SameEnd(d, f) /\ SameOpen(d, f)
        /\ ChunkSound(f)
        /\ \/ NothingWritten(d, f)
           \/ /\ ~d.asyncSend /\ d.transactionList # <<>>
              /\ MessageWritten(d, f) \/ MessageLost(d, f)
      BY <1>1, AsyncWriteMessageFacts
  <2> HIDE DEF f
  <2>3. NothingWritten(c, d)
      BY <1>1, <1>4 DEF OpenWritten
  <2>4. Writes(c, f)
      BY <2>2, <2>3 DEF Writes, NothingWritten, SameList, MessageWritten, MessageLost
  <2>5. OneOpen(f) /\ (d.openList = <<>> => f.openList = <<>>)
      BY <2>2, <1>1 DEF OneOpen, SameOpen
  <2>6. SameRead(c, f) /\ SameEnd(c, f)
      BY <2>2, <1>1 DEF SameRead, SameEnd
  <2>7. QED
      BY <2>1, <2>2, <2>4, <2>5, <2>6, <1>1
<1>5. QED
    BY <1>3, <1>4

LEMMA HandleWriteCompleteFacts ==
    ASSUME NEW c \in Channel, NEW o \in BOOLEAN, NEW s \in BOOLEAN,
           ChunkSound(c), OneOpen(c)
    PROVE  LET e == HandleWriteComplete(c, o, s) IN
           /\ e \in Channel /\ SameRead(c, e) /\ SameEnd(c, e)
           /\ ChunkSound(e) /\ OneOpen(e)
           /\ c.openList = <<>> => e.openList = <<>>
           /\ Writes(c, e)
           /\ c.actSegmentFlag = "C" /\ c.transactionList # <<>> /\ ~c.asyncSend =>
                MessageWritten(c, e) \/ MessageLost(c, e)
<1> DEFINE e == HandleWriteComplete(c, o, s)
<1>1. CASE c.actSegmentFlag = "F"
  <2>1. e = WriteNext(c, o, s)
      BY <1>1 DEF HandleWriteComplete
  <2>2. QED
      BY <2>1, <1>1, WriteNextFacts
<1>2. CASE c.actSegmentFlag # "F"
  <2>1. e = AsyncWriteMessage(c, s)
      BY <1>2 DEF HandleWriteComplete
  <2>2. /\ e \in Channel /\ SameRead(c, e) /\ SameEnd(c, e) /\ SameOpen(c, e)
        /\ ChunkSound(e)
        /\ \/ NothingWritten(c, e) /\ (c.transactionList = <<>> \/ c.asyncSend)
           \/ /\ ~c.asyncSend /\ c.transactionList # <<>>
              /\ MessageWritten(c, e) \/ MessageLost(c, e)
      BY <2>1, AsyncWriteMessageFacts
  <2> HIDE DEF e
  <2>3. OneOpen(e) /\ (c.openList = <<>> => e.openList = <<>>)
      BY <2>2 DEF OneOpen, SameOpen
  <2>4. Writes(c, e)
      BY <2>2 DEF Writes
  <2>5. QED
      BY <2>2, <2>3, <2>4 DEF e
<1>3. QED
    BY <1>1, <1>2
-----------------------------------------------------------------------------
(***************************************************************************)
(* What a step does to the chunks on the wire and to the queue.            *)
(***************************************************************************)
Follows(c, e) ==
    e.chunk # c.chunk =>
        /\ e.chunk.number > c.chunk.number
        /\ ~c.chunk.final /\ c.writeDone = "ok" =>
             e.chunk.kind = "MSG" /\ e.chunk.id = c.chunk.id
        /\ c.write = "none" \/ c.writeDone # "pending"

Stuck(c) == c.asyncSend /\ c.write = "none"

QueueKept(c, e) ==
    /\ Ids(e.transactionList) = Ids(c.transactionList) /\ e.sent = c.sent
    /\ (Stuck(e) <=> Stuck(c))

QueueDropped(c, e) ==
    ~Stuck(c) /\ ~Stuck(e) /\ e.transactionList = <<>> /\ e.sent = c.sent

QueueGrown(r, c, e) ==
    /\ Ids(e.transactionList) = Append(Ids(c.transactionList), r) /\ e.sent = c.sent
    /\ (Stuck(e) <=> Stuck(c))

QueueSent(q, c, e) ==
    /\ ~Stuck(c)
    /\ \/ /\ q # <<>> /\ Ids(e.transactionList) = Tail(q)
          /\ \/ ~Stuck(e) /\ e.sent = Append(c.sent, Head(q))
             \/ Stuck(e) /\ e.sent = c.sent
       \/ Stuck(e) /\ Ids(e.transactionList) = q /\ e.sent = c.sent

QueueStep(c, e) ==
    \/ QueueKept(c, e) \/ QueueDropped(c, e)
    \/ QueueSent(Ids(c.transactionList), c, e)
    \/ \E r \in RequestId :
         QueueGrown(r, c, e) \/ QueueSent(Append(Ids(c.transactionList), r), c, e)

\* Of the steps of the reading loop and of the network.
SendKept(c, e) ==
    \/ /\ SameSend(c, e) /\ e.deleted = c.deleted
       /\ c.writeDone = "error" => e.writeDone = "error"
    \/ /\ ~c.asyncSend /\ ~e.asyncSend /\ e.deleted
       /\ e.write = c.write /\ e.chunk = c.chunk /\ e.sent = c.sent
       /\ e.sendSequenceNumber = c.sendSequenceNumber
       /\ e.transactionList = <<>>

LEMMA SendKeptFacts ==
    ASSUME NEW c \in Channel, NEW e \in Channel, WriteSound(c), SendKept(c, e)
    PROVE  WriteSound(e) /\ Follows(c, e) /\ QueueStep(c, e)
<1>1. CASE /\ SameSend(c, e) /\ e.deleted = c.deleted
           /\ c.writeDone = "error" => e.writeDone = "error"
  <2>1. WriteSound(e)
      BY <1>1 DEF WriteSound, ChunkSound, Continues, SameSend, SameList
  <2>2. QueueKept(c, e)
      BY <1>1 DEF QueueKept, Stuck, SameSend, SameList
  <2>3. QED
      BY <2>1, <2>2, <1>1 DEF Follows, QueueStep, SameSend
<1>2. CASE /\ ~c.asyncSend /\ ~e.asyncSend /\ e.deleted
           /\ e.write = c.write /\ e.chunk = c.chunk /\ e.sent = c.sent
           /\ e.sendSequenceNumber = c.sendSequenceNumber
           /\ e.transactionList = <<>>
  <2>1. WriteSound(e)
      BY <1>2 DEF WriteSound, ChunkSound
  <2>2. QueueDropped(c, e)
      BY <1>2 DEF QueueDropped, Stuck
  <2>3. QED
      BY <2>1, <2>2, <1>2 DEF Follows, QueueStep
<1>3. QED
    BY <1>1, <1>2 DEF SendKept

LEMMA StuckFacts ==
    ASSUME NEW c \in Channel, NEW e \in Channel, ~c.asyncSend, c.transactionList # <<>>,
           MessageWritten(c, e) \/ (MessageLost(c, e) /\ e.write = "none")
    PROVE  QueueKept(c, e) \/ QueueSent(Ids(c.transactionList), c, e)
<1>1. c.transactionList \in Seq(SecureChannelTransaction)
    BY DEF Channel
<1>2. Ids(c.transactionList) # <<>>
    BY <1>1, IdsTail
<1>3. ~Stuck(c)
    BY DEF Stuck
<1>4. CASE MessageWritten(c, e)
  <2>1. ~Stuck(e)
      BY <1>4 DEF MessageWritten, Stuck
  <2>2. QED
      BY <2>1, <1>2, <1>3, <1>4 DEF MessageWritten, QueueKept, QueueSent
<1>5. CASE MessageLost(c, e) /\ e.write = "none"
  <2>1. Stuck(e)
      BY <1>5 DEF MessageLost, Stuck
  <2>2. QED
      BY <2>1, <1>2, <1>3, <1>5 DEF MessageLost, QueueSent
<1>6. QED
    BY <1>4, <1>5

\* A caller of the channel writes, or leaves it to the writing loop.
LEMMA CallerWrites ==
    ASSUME NEW c \in Channel, NEW e \in Channel, WriteSound(c), ~c.deleted,
           ChunkSound(e), Writes(c, e)
    PROVE  /\ WriteSound(e) /\ Follows(c, e)
           /\ QueueKept(c, e) \/ QueueSent(Ids(c.transactionList), c, e)
<1>1. CASE NothingWritten(c, e)
  <2>1. WriteSound(e)
      BY <1>1 DEF WriteSound, ChunkSound, NothingWritten, SameList, Continues
  <2>2. QED
      BY <2>1, <1>1 DEF NothingWritten, SameList, Follows, QueueKept, Stuck
<1>2. ASSUME ~c.asyncSend
      PROVE  c.write = "none" /\ (c.chunk.final \/ c.writeDone = "error")
    BY <1>2 DEF WriteSound, Continues
<1>3. CASE OpenWritten(c, e)
  <2>1. ~c.asyncSend
      BY <1>3 DEF OpenWritten
  <2>2. WriteSound(e)
      BY <1>3 DEF WriteSound, OpenWritten
  <2>3. Follows(c, e)
      BY <2>1, <1>2, <1>3 DEF Follows, OpenWritten
  <2>4. QueueKept(c, e)
      BY <2>1, <1>3 DEF QueueKept, OpenWritten, SameList, Stuck
  <2>5. QED
      BY <2>2, <2>3, <2>4
<1>4. CASE ~c.asyncSend /\ c.transactionList # <<>> /\ MessageWritten(c, e)
  <2>1. WriteSound(e)
      BY <1>4 DEF WriteSound, MessageWritten
  <2>2. Follows(c, e)
      BY <1>2, <1>4 DEF Follows, MessageWritten
  <2>3. QED
      BY <2>1, <2>2, <1>4, StuckFacts
<1>5. CASE ~c.asyncSend /\ c.transactionList # <<>> /\ MessageLost(c, e)
  <2>1. e.write = "none" /\ e.asyncSend /\ e.chunk = c.chunk
      BY <1>2, <1>5 DEF MessageLost
  <2>2. WriteSound(e)
      BY <2>1 DEF WriteSound, Continues
  <2>3. Follows(c, e)
      BY <2>1 DEF Follows
  <2>4. QED
      BY <2>1, <2>2, <2>3, <1>5, StuckFacts
<1>6. QED
    BY <1>1, <1>3, <1>4, <1>5 DEF Writes

\* The writing loop goes on after a chunk that was written.
LEMMA LoopWrites ==
    ASSUME NEW b \in Channel, NEW o \in BOOLEAN, NEW s \in BOOLEAN,
           WriteSound(b), OneOpen(b), ~b.deleted, b.write # "none", b.writeDone = "ok"
    PROVE  LET e == HandleWriteComplete(WriteEnded(b), o, s) IN
           /\ e \in Channel /\ SameRead(b, e) /\ SameEnd(b, e) /\ OneOpen(e)
           /\ b.openList = <<>> => e.openList = <<>>
           /\ WriteSound(e) /\ Follows(b, e) /\ QueueStep(b, e)
<1> DEFINE c == WriteEnded(b)
           e == HandleWriteComplete(c, o, s)
<1>1. /\ c \in Channel
      /\ SameRead(b, c) /\ SameOpen(b, c) /\ SameEnd(b, c) /\ SameList(b, c)
      /\ c.write = "none" /\ ~c.asyncSend
      /\ c.chunk = b.chunk /\ c.actSegmentFlag = b.actSegmentFlag
      /\ c.sendSequenceNumber = b.sendSequenceNumber /\ c.writeDone = b.writeDone
    BY WriteEndedFacts
<1> HIDE DEF c
<1>2. ChunkSound(c) /\ OneOpen(c)
    BY <1>1 DEF ChunkSound, OneOpen, WriteSound, SameOpen
<1>3. /\ e \in Channel /\ SameRead(c, e) /\ SameEnd(c, e)
      /\ ChunkSound(e) /\ OneOpen(e)
      /\ c.openList = <<>> => e.openList = <<>>
      /\ Writes(c, e)
      /\ c.actSegmentFlag = "C" /\ c.transactionList # <<>> /\ ~c.asyncSend =>
           MessageWritten(c, e) \/ MessageLost(c, e)
    BY <1>1, <1>2, HandleWriteCompleteFacts
<1> HIDE DEF e
<1>4. \/ c.chunk.final
      \/ /\ MessageWritten(c, e) \/ MessageLost(c, e)
         /\ c.transactionList[1].id = c.chunk.id
  <2>1. b.chunk.final \/ Continues(b)
      BY DEF WriteSound
  <2>2. QED
      BY <2>1, <1>1, <1>3 DEF Continues, SameList
<1>5. ~Stuck(b) /\ ~Stuck(c)
    BY <1>1 DEF Stuck
<1>6. CASE NothingWritten(c, e)
  <2>1. c.chunk.final
      BY <1>1, <1>4, <1>6 DEF NothingWritten, MessageWritten, MessageLost
  <2>2. WriteSound(e)
      BY <2>1, <1>1, <1>3, <1>6 DEF WriteSound, NothingWritten
  <2>3. Follows(b, e)
      BY <1>1, <1>6 DEF Follows, NothingWritten
  <2>4. QueueKept(b, e)
      BY <1>1, <1>5, <1>6 DEF QueueKept, NothingWritten, SameList, Stuck
  <2>5. QED
      BY <2>2, <2>3, <2>4, <1>1, <1>3 DEF QueueStep, SameRead, SameEnd, SameOpen, e, c
<1>7. CASE OpenWritten(c, e)
  <2>1. c.chunk.final
      BY <1>1, <1>4, <1>7 DEF OpenWritten, MessageWritten, MessageLost
  <2>2. WriteSound(e)
      BY <1>3, <1>7 DEF WriteSound, OpenWritten
  <2>3. Follows(b, e)
      BY <2>1, <1>1, <1>7 DEF Follows, OpenWritten
  <2>4. QueueKept(b, e)
      BY <1>1, <1>5, <1>7 DEF QueueKept, OpenWritten, SameList, Stuck
  <2>5. QED
      BY <2>2, <2>3, <2>4, <1>1, <1>3 DEF QueueStep, SameRead, SameEnd, SameOpen, e, c
<1>8. CASE /\ c.transactionList # <<>>
           /\ MessageWritten(c, e) \/ MessageLost(c, e)
  <2>1. MessageLost(c, e) => e.write = "none" /\ e.asyncSend /\ e.chunk = c.chunk
      BY <1>1 DEF MessageLost
  <2>2. WriteSound(e)
      BY <2>1, <1>3, <1>8 DEF WriteSound, MessageWritten, Continues
  <2>3. Follows(b, e)
      BY <2>1, <1>1, <1>4, <1>8 DEF Follows, MessageWritten
  <2>4. QueueKept(c, e) \/ QueueSent(Ids(c.transactionList), c, e)
      BY <2>1, <1>1, <1>3, <1>8, StuckFacts
  <2>5. QueueStep(b, e)
      BY <2>4, <1>1, <1>5 DEF QueueStep, QueueKept, QueueSent, SameList
  <2>6. QED
      BY <2>2, <2>3, <2>5, <1>1, <1>3 DEF SameRead, SameEnd, SameOpen, e, c
<1>9. QED
    BY <1>3, <1>6, <1>7, <1>8 DEF Writes

-----------------------------------------------------------------------------
(***************************************************************************)
(* The channel when its read has ended, and what the reading loop does     *)
(* with it.                                                                *)
(***************************************************************************)
Ended(b, c) ==
    /\ c \in Channel
    /\ SameSend(b, c) /\ SameOpen(b, c) /\ SameEnd(b, c)
    /\ c.writeDone \in {b.writeDone, "error"}
    /\ c.read = "none" /\ ~c.asyncRecv

ReadKept(b, e) ==
    e \in Channel /\ SendKept(b, e) /\ ReadSound(e) /\ SameOpen(b, e)

LEMMA EndedFacts ==
    ASSUME NEW b \in Channel, ReadSound(b)
    PROVE  Ended(b, ReadEnded(b))
<1> DEFINE c == ReadEnded(b)
<1>1. /\ c \in Channel
      /\ SameSend(b, c) /\ SameOpen(b, c) /\ SameEnd(b, c) /\ c.writeDone = b.writeDone
      /\ c.read = "none" /\ c.asyncRecv = (b.asyncRecv /\ b.read \notin Tracked)
    BY ReadEndedFacts
<1> HIDE DEF c
<1>2. ~c.asyncRecv
    BY <1>1 DEF ReadSound
<1>3. QED
    BY <1>1, <1>2 DEF Ended, c

LEMMA EndedFlag ==
    ASSUME NEW b \in Channel, NEW c, Ended(b, c), NEW f \in {"C", "F"}
    PROVE  Ended(b, [c EXCEPT !.segmentFlag = f])
<1> DEFINE d == [c EXCEPT !.segmentFlag = f]
<1>1. c \in Channel
    BY DEF Ended
<1>2. d \in Channel
    BY <1>1, ZenonT(60) DEF Channel
<1>3. /\ SameSend(c, d) /\ SameOpen(c, d) /\ SameEnd(c, d)
      /\ d.writeDone = c.writeDone /\ d.read = c.read /\ d.asyncRecv = c.asyncRecv
    BY <1>1 DEF Channel, SameSend, SameList, SameOpen, SameEnd
<1> HIDE DEF d
<1>4. Ended(b, d)
    BY <1>2, <1>3 DEF Ended, SameSend, SameList, SameOpen, SameEnd
<1>5. QED
    BY <1>4 DEF d

LEMMA EndedCancel ==
    ASSUME NEW b \in Channel, NEW c, Ended(b, c)
    PROVE  Ended(b, Cancel(c))
<1>1. c \in Channel
    BY DEF Ended
<1>2. /\ Cancel(c) \in Channel
      /\ SameSend(c, Cancel(c)) /\ SameOpen(c, Cancel(c)) /\ SameEnd(c, Cancel(c))
      /\ Cancel(c).read = c.read /\ Cancel(c).asyncRecv = c.asyncRecv
      /\ Cancel(c).writeDone \in {c.writeDone, "error"}
    BY <1>1, CancelFacts
<1>3. QED
    BY <1>2 DEF Ended, SameSend, SameList, SameOpen, SameEnd

LEMMA QuietRead ==
    ASSUME NEW c \in Channel, c.read = "none", ~c.asyncRecv, c.deleted => ~c.asyncSend
    PROVE  ReadSound(c)
<1>1. c.asyncRecv = FALSE
    BY DEF Channel
<1>2. c.read \notin Tracked
    BY DEF Tracked
<1>3. QED
    BY <1>1, <1>2 DEF ReadSound

LEMMA EndedKept ==
    ASSUME NEW b \in Channel, NEW c, Ended(b, c), ~b.deleted, ~b.asyncSendStop
    PROVE  ReadKept(b, c)
<1>1. c \in Channel /\ c.read = "none" /\ ~c.asyncRecv /\ ~c.deleted
    BY DEF Ended, SameEnd
<1>2. ReadSound(c)
    BY <1>1, QuietRead
<1>3. QED
    BY <1>2 DEF Ended, ReadKept, SendKept, SameEnd

LEMMA EndedCloses ==
    ASSUME NEW b \in Channel, NEW c, Ended(b, c), ~b.deleted, ~b.asyncSendStop,
           NEW close \in BOOLEAN
    PROVE  ReadKept(b, CloseChannel(c, close)) /\ CloseChannel(c, close).read = "none"
<1> DEFINE e == CloseChannel(c, close)
<1>1. c \in Channel
    BY DEF Ended
<1>2. /\ e \in Channel
      /\ SameOpen(c, e)
      /\ e.read = c.read /\ e.asyncRecv = c.asyncRecv
      /\ e.writeDone \in {c.writeDone, "error"}
      /\ e.chunk = c.chunk /\ e.sent = c.sent /\ e.write = c.write
      /\ e.sendSequenceNumber = c.sendSequenceNumber
      /\ e.asyncSend = c.asyncSend
      /\ c.asyncSend => SameSend(c, e) /\ e.asyncSendStop /\ e.deleted = c.deleted
      /\ ~c.asyncSend => e.deleted /\ ~e.asyncSendStop /\ e.transactionList = <<>>
    BY <1>1, CloseChannelFacts
<1> HIDE DEF e
<1>3. e.read = "none" /\ ~e.asyncRecv /\ (e.deleted => ~e.asyncSend)
    BY <1>2 DEF Ended, SameEnd
<1>4. ReadSound(e)
    BY <1>2, <1>3, QuietRead
<1>5. SendKept(b, e)
    BY <1>2 DEF SendKept, Ended, SameSend, SameList, SameEnd
<1>6. SameOpen(b, e)
    BY <1>2 DEF Ended, SameOpen
<1>7. QED
    BY <1>2, <1>4, <1>5, <1>6 DEF ReadKept, Ended, e

LEMMA EndedReads ==
    ASSUME NEW b \in Channel, NEW c, Ended(b, c), ~b.deleted, ~b.asyncSendStop,
           NEW op \in Tracked \cup Untracked
    PROVE  /\ ReadKept(b, ReadBody(c, op))
           /\ ReadBody(c, op).read = op
           /\ ReadBody(c, op).readDone \in {"pending", "error"}
<1> DEFINE e == ReadBody(c, op)
<1>1. c \in Channel
    BY DEF Ended
<1>2. /\ e \in Channel
      /\ SameSend(c, e) /\ SameOpen(c, e) /\ SameEnd(c, e) /\ e.writeDone = c.writeDone
      /\ e.read = op /\ e.asyncRecv = (op \in Tracked)
      /\ e.readDone \in {"pending", "error"}
    BY <1>1, ReadBodyFacts
<1> HIDE DEF e
<1>3. ReadSound(e)
    BY <1>2 DEF ReadSound, Ended, SameEnd
<1>4. SendKept(b, e) /\ SameOpen(b, e)
    BY <1>2 DEF SendKept, Ended, SameSend, SameList, SameEnd, SameOpen
<1>5. QED
    BY <1>2, <1>3, <1>4 DEF ReadKept, e

LEMMA EndedReadsOn ==
    ASSUME NEW b \in Channel, NEW c, Ended(b, c), ~b.deleted, ~b.asyncSendStop
    PROVE  /\ ReadKept(b, AsyncRead(c))
           /\ AsyncRead(c).read = "header"
           /\ AsyncRead(c).readDone \in {"pending", "error"}
<1>1. AsyncRead(c) = ReadBody(c, "header") /\ "header" \in Tracked
    BY DEF AsyncRead, ReadBody, Tracked
<1>2. QED
    BY <1>1, EndedReads
-----------------------------------------------------------------------------
(***************************************************************************)
(* The steps.  Each keeps the inductive invariant, lets the chunks follow  *)
(* one another and is a step of the queue.                                 *)
(***************************************************************************)
StepSound == IndInv' /\ Follows(ch, ch') /\ QueueStep(ch, ch')

LEMMA ClientKept ==
    ASSUME ClientSound, UNCHANGED <<client, incoming>>,
           ch.openList = <<>> => ch'.openList = <<>>,
           ch'.read \in {"open", "message"} => ch'.read = ch.read,
           HeaderRead(ch') => HeaderRead(ch)
    PROVE  ClientSound'
BY DEF ClientSound, OpenComes

LEMMA ReadKeptStep ==
    ASSUME IndInv, TypeOK', ClientSound', ReadKept(ch, ch')
    PROVE  StepSound
<1>1. ch \in Channel /\ ch' \in Channel
    BY DEF IndInv, TypeOK
<1>2. WriteSound(ch') /\ Follows(ch, ch') /\ QueueStep(ch, ch')
    BY <1>1, SendKeptFacts DEF IndInv, ReadKept
<1>3. OneOpen(ch')
    BY DEF IndInv, OneOpen, ReadKept, SameOpen
<1>4. QED
    BY <1>2, <1>3 DEF StepSound, IndInv, ReadKept

LEMMA ReadLoopStep ==
    ASSUME IndInv, ReadKept(ch, ch'), UNCHANGED <<client, incoming, disconnect>>,
           services' \subseteq RequestId, truncated' \in BOOLEAN,
           ch'.read \in {"open", "message"} => ch'.read = ch.read,
           HeaderRead(ch') => HeaderRead(ch)
    PROVE  StepSound
<1>1. TypeOK'
    BY DEF IndInv, TypeOK, ReadKept
<1>2. ch.openList = <<>> => ch'.openList = <<>>
    BY DEF ReadKept, SameOpen
<1>3. ClientSound'
    BY <1>2, ClientKept DEF IndInv
<1>4. QED
    BY <1>1, <1>3, ReadKeptStep

LEMMA ReadReadyFacts ==
    ASSUME IndInv, ~ch.deleted, ch.read # "none"
    PROVE  ch \in Channel /\ ~ch.asyncSendStop /\ Ended(ch, ReadEnded(ch))
<1>1. ch \in Channel /\ ReadSound(ch)
    BY DEF IndInv, TypeOK
<1>2. QED
    BY <1>1, EndedFacts DEF ReadSound

LEMMA ReadDoneFacts ==
    ASSUME NEW b \in Channel, ReadSound(b), NEW x \in {"ok", "error", "empty"}
    PROVE  LET e == [b EXCEPT !.readDone = x] IN
           ReadKept(b, e) /\ e.read = b.read /\ e.readDone = x
<1> DEFINE e == [b EXCEPT !.readDone = x]
<1>1. e \in Channel
    BY DEF Channel
<1>2. /\ SameSend(b, e) /\ SameOpen(b, e) /\ SameEnd(b, e) /\ e.writeDone = b.writeDone
      /\ e.read = b.read /\ e.asyncRecv = b.asyncRecv /\ e.readDone = x
    BY DEF Channel, SameSend, SameList, SameOpen, SameEnd
<1> HIDE DEF e
<1>3. SendKept(b, e) /\ ReadSound(e)
    BY <1>2 DEF SendKept, ReadSound, SameSend, SameEnd
<1>4. QED
    BY <1>1, <1>2, <1>3 DEF ReadKept, e

LEMMA BodyArrivesStep ==
    ASSUME IndInv, NEW result \in {"ok", "empty"}, BodyArrives(result)
    PROVE  StepSound
<1>1. ch \in Channel /\ ReadSound(ch)
    BY DEF IndInv, TypeOK
<1>2. ch' = [ch EXCEPT !.readDone = result]
    BY DEF BodyArrives
<1>3. ReadKept(ch, ch') /\ ch'.read = ch.read
    BY <1>1, <1>2, ReadDoneFacts
<1>4. ch.read # "header"
    BY DEF BodyArrives, Untracked
<1>5. QED
    BY <1>3, <1>4, ReadLoopStep DEF BodyArrives, IndInv, TypeOK, HeaderRead

LEMMA ReadFailsStep ==
    ASSUME IndInv, ReadFails
    PROVE  StepSound
<1>1. ch \in Channel /\ ReadSound(ch)
    BY DEF IndInv, TypeOK
<1>2. ch' = [ch EXCEPT !.readDone = "error"]
    BY DEF ReadFails
<1>3. ReadKept(ch, ch') /\ ch'.read = ch.read /\ ch'.readDone = "error"
    BY <1>1, <1>2, ReadDoneFacts
<1>4. QED
    BY <1>3, ReadLoopStep DEF ReadFails, IndInv, TypeOK, HeaderRead

LEMMA ClientClosesStep ==
    ASSUME IndInv, ClientCloses
    PROVE  StepSound
<1>1. client \in Client /\ ch \in Channel /\ ReadSound(ch)
    BY DEF IndInv, TypeOK
<1>2. client' \in Client /\ client'.state = client.state /\ client'.lastId = client.lastId
      /\ client'.partial = client.partial
    BY <1>1 DEF ClientCloses, Client
<1>3. UNCHANGED <<incoming, ch, services, disconnect, truncated>>
    BY DEF ClientCloses
<1>4. TypeOK'
    BY <1>2, <1>3 DEF IndInv, TypeOK
<1>5. ClientSound'
    BY <1>2, <1>3 DEF IndInv, ClientSound, OpenComes
<1>6. ReadKept(ch, ch')
    BY <1>1, <1>3 DEF ReadKept, SendKept, SameSend, SameList, SameOpen
<1>7. QED
    BY <1>4, <1>5, <1>6, ReadKeptStep

LEMMA WriteEndsStep ==
    ASSUME IndInv, NEW result \in {"ok", "error"}, WriteEnds(result)
    PROVE  StepSound
<1>1. ch \in Channel /\ ReadSound(ch)
    BY DEF IndInv, TypeOK
<1>2. ch' = [ch EXCEPT !.writeDone = result] /\ ch.writeDone = "pending"
    BY DEF WriteEnds
<1>3. ch' \in Channel
    BY <1>1, <1>2 DEF Channel
<1>4. SameSend(ch, ch') /\ SameOpen(ch, ch') /\ SameEnd(ch, ch') /\ SameRead(ch, ch')
    BY <1>1, <1>2 DEF Channel, SameSend, SameList, SameOpen, SameEnd, SameRead
<1>5. ReadKept(ch, ch')
    BY <1>1, <1>2, <1>3, <1>4 DEF ReadKept, SendKept, SameEnd, SameRead, SameSend, ReadSound
<1>6. QED
    BY <1>4, <1>5, ReadLoopStep DEF WriteEnds, IndInv, TypeOK, HeaderRead, SameRead

LEMMA DisconnectStep ==
    ASSUME IndInv, Disconnect
    PROVE  StepSound
<1>1. ch \in Channel /\ ReadSound(ch)
    BY DEF IndInv, TypeOK
<1>2. /\ ch' \in Channel
      /\ SameSend(ch, ch') /\ SameOpen(ch, ch') /\ SameEnd(ch, ch')
      /\ ch'.read = ch.read /\ ch'.asyncRecv = ch.asyncRecv
      /\ ch'.readDone \in {ch.readDone, "error"}
      /\ ch'.writeDone \in {ch.writeDone, "error"}
    BY <1>1, CancelFacts DEF Disconnect
<1>3. ReadKept(ch, ch')
    BY <1>1, <1>2 DEF ReadKept, SendKept, SameEnd, SameSend, ReadSound
<1>4. ch.openList = <<>> => ch'.openList = <<>>
    BY <1>2 DEF SameOpen
<1>5. ClientSound'
    BY <1>2, <1>4, ClientKept DEF IndInv, Disconnect, HeaderRead
<1>6. TypeOK'
    BY <1>2 DEF IndInv, TypeOK, Disconnect
<1>7. QED
    BY <1>3, <1>5, <1>6, ReadKeptStep

LEMMA HeaderArrivesStep ==
    ASSUME IndInv, HeaderArrives
    PROVE  StepSound
<1>1. client \in Client /\ ch \in Channel /\ ReadSound(ch) /\ incoming \in Message
    BY DEF IndInv, TypeOK
<1>2. PICK m \in Messages :
         /\ incoming' = m
         /\ client' = [client EXCEPT
              !.state = IF m.kind = "HEL" THEN "hello"
                        ELSE IF m.kind = "OPN" THEN "ready" ELSE @,
              !.lastId = IF m.id = NoRequest THEN @ ELSE m.id,
              !.partial = IF m.kind = "MSG" THEN m.flag = "C" ELSE @]
    BY DEF HeaderArrives
<1>3. ch' = [ch EXCEPT !.readDone = "ok"] /\ ch.read = "header"
      /\ UNCHANGED <<services, disconnect, truncated>>
    BY DEF HeaderArrives
<1>4. ReadKept(ch, ch') /\ ch'.read = "header"
    BY <1>1, <1>3, ReadDoneFacts
<1>5. client.lastId \in 0 .. MaxRequestId /\ client.partial \in BOOLEAN
      /\ client.state \in {"connected", "hello", "ready"}
    BY <1>1 DEF Client
<1>6. ch'.openList = ch.openList
    BY <1>4 DEF ReadKept, SameOpen
<1>7. ClientSound
    BY DEF IndInv
<1>8. /\ m \in Message
      /\ m.kind = "MSG" => m.id \in RequestId /\ client.state = "ready"
      /\ m.kind = "HEL" => client.state = "connected" /\ m.id = NoRequest
      /\ m.kind = "OPN" => m.id \in RequestId /\ ch.openList = <<>>
      /\ m.kind \notin {"MSG", "OPN", "HEL"} => client.state = "ready" /\ m.id = NoRequest
  <2>1. NoRequest \in RequestId \cup {NoRequest} /\ 1 \in RequestId
      BY ChannelAssumption DEF RequestId
  <2>2. CASE client.state = "connected"
      BY <2>1, <2>2 DEF Messages, FirstMessages, Message
  <2>3. CASE client.state = "hello"
    <3>1. NextId = 1 /\ ch.openList = <<>>
        BY <2>3, <1>7 DEF ClientSound, NextId
    <3>2. m = [kind |-> "OPN", flag |-> "F", id |-> NextId]
        BY <2>3, <1>2 DEF Messages
    <3>3. QED
        BY <2>1, <3>1, <3>2 DEF Message
  <2>4. CASE client.state = "ready"
    <3> DEFINE Other == {[kind |-> k, flag |-> "F", id |-> NoRequest] : k \in {"CLO", "ERR", "unknown"}}
               Open == IF ch.openList = <<>> /\ NextId \in RequestId
                       THEN {[kind |-> "OPN", flag |-> "F", id |-> NextId]} ELSE {}
               Rest == IF client.partial
                       THEN {[kind |-> "MSG", flag |-> "F", id |-> client.lastId]} ELSE {}
               New == IF ~client.partial /\ NextId \in RequestId
                      THEN {[kind |-> "MSG", flag |-> f, id |-> NextId] : f \in {"C", "F"}}
                      ELSE {}
    <3>1. m \in Other \cup Open \cup Rest \cup New
        BY <2>4, <1>2 DEF Messages
    <3>2. CASE m \in Other
        BY <3>2, <2>1, <2>4 DEF Message
    <3>3. CASE m \in Open
        BY <3>3, <2>1, <2>4 DEF Message
    <3>4. CASE m \in Rest
        BY <3>4, <2>1, <2>4, <1>7 DEF Message, ClientSound
    <3>5. CASE m \in New
        BY <3>5, <2>1, <2>4 DEF Message
    <3>6. QED
        BY <3>1, <3>2, <3>3, <3>4, <3>5
  <2>5. QED
      BY <2>2, <2>3, <2>4, <1>5
<1>9. /\ client'.state = IF m.kind = "HEL" THEN "hello"
                         ELSE IF m.kind = "OPN" THEN "ready" ELSE client.state
      /\ client'.lastId = IF m.id = NoRequest THEN client.lastId ELSE m.id
      /\ client'.partial = IF m.kind = "MSG" THEN m.flag = "C" ELSE client.partial
    BY <1>1, <1>2 DEF Client
<1>10. client' \in Client
  <2>1. (IF m.id = NoRequest THEN client.lastId ELSE m.id) \in 0 .. MaxRequestId
      BY <1>5, <1>8 DEF Message, RequestId
  <2>2. (IF m.kind = "HEL" THEN "hello" ELSE IF m.kind = "OPN" THEN "ready" ELSE client.state)
          \in {"connected", "hello", "ready"}
      BY <1>5
  <2>3. (IF m.kind = "MSG" THEN m.flag = "C" ELSE client.partial) \in BOOLEAN
      BY <1>5
  <2>4. QED
      BY <2>1, <2>2, <2>3, <1>1, <1>2 DEF Client
<1>11. m.id \in RequestId => m.id # NoRequest
    BY DEF RequestId, NoRequest
<1>12. client'.state # "ready" =>
           ch'.openList = <<>> /\ client'.lastId = 0 /\ ~client'.partial
    BY <1>5, <1>6, <1>7, <1>8, <1>9 DEF ClientSound
<1>13. client'.partial => client'.lastId \in RequestId
    BY <1>7, <1>8, <1>9, <1>11 DEF ClientSound
<1>14. /\ m.kind = "OPN" => OpenComes'
       /\ m.kind = "MSG" => incoming'.id \in RequestId
    BY <1>2, <1>6, <1>8, <1>9 DEF OpenComes
<1>15. ClientSound'
    BY <1>2, <1>4, <1>12, <1>13, <1>14 DEF ClientSound
<1>16. TypeOK'
    BY <1>2, <1>3, <1>4, <1>8, <1>10 DEF IndInv, TypeOK, ReadKept
<1>17. QED
    BY <1>4, <1>15, <1>16, ReadKeptStep

LEMMA HandleReadHeaderStep ==
    ASSUME IndInv, HandleReadHeader
    PROVE  StepSound
<1> DEFINE c == ReadEnded(ch)
           d == [c EXCEPT !.segmentFlag = incoming.flag]
<1>1. ~ch.deleted /\ ch.read = "header" /\ ch.readDone # "pending"
      /\ UNCHANGED <<client, incoming, services, disconnect, truncated>>
    BY DEF HandleReadHeader, ReadReady
<1>2. ch \in Channel /\ ~ch.asyncSendStop /\ Ended(ch, c)
    BY <1>1, ReadReadyFacts
<1>3. incoming.flag \in {"C", "F"}
      /\ incoming.kind \in {"HEL", "OPN", "MSG", "CLO", "ERR", "unknown"}
    BY DEF IndInv, TypeOK, Message
<1>4. Ended(ch, d)
    BY <1>2, <1>3, EndedFlag
<1>5. ch' = IF ch.readDone = "error"
            THEN IF c.asyncSend THEN c ELSE CloseChannel(c, FALSE)
            ELSE CASE incoming.kind = "unknown" -> CloseChannel(d, TRUE)
                   [] incoming.kind = "HEL" -> ReadBody(d, "hello")
                   [] incoming.kind = "OPN" -> ReadBody(d, "open")
                   [] incoming.kind = "CLO" -> ReadBody(d, "close")
                   [] incoming.kind = "ERR" -> ReadBody(d, "error")
                   [] incoming.kind = "MSG" -> ReadBody(d, "message")
    BY DEF HandleReadHeader
<1>6. TypeOK /\ ClientSound
    BY DEF IndInv
<1> HIDE DEF c, d
<1>7. CASE ch.readDone = "error" \/ incoming.kind = "unknown"
  <2>1. ch' \in {c, CloseChannel(c, FALSE), CloseChannel(d, TRUE)}
    <3>1. CASE ch.readDone = "error"
        BY <3>1, <1>5
    <3>2. CASE ch.readDone # "error"
        BY <3>2, <1>5, <1>7
    <3>3. QED
        BY <3>1, <3>2
  <2>2. ReadKept(ch, ch') /\ ch'.read = "none"
    <3>1. ReadKept(ch, c) /\ c.read = "none"
        BY <1>1, <1>2, EndedKept DEF Ended
    <3>2. ReadKept(ch, CloseChannel(c, FALSE)) /\ CloseChannel(c, FALSE).read = "none"
        BY <1>1, <1>2, EndedCloses
    <3>3. ReadKept(ch, CloseChannel(d, TRUE)) /\ CloseChannel(d, TRUE).read = "none"
        BY <1>1, <1>2, <1>4, EndedCloses
    <3>4. QED
        BY <2>1, <3>1, <3>2, <3>3
  <2>3. QED
      BY <2>2, <1>1, <1>6, ReadLoopStep DEF TypeOK, HeaderRead
<1>8. ASSUME ch.readDone # "error", incoming.kind # "unknown"
      PROVE  StepSound
  <2>1. PICK op \in {"hello", "open", "close", "error", "message"} :
           /\ ch' = ReadBody(d, op)
           /\ op = "open" => incoming.kind = "OPN"
           /\ op = "message" => incoming.kind = "MSG"
      BY <1>3, <1>5, <1>8
  <2>2. op \in Tracked \cup Untracked
      BY DEF Tracked, Untracked
  <2>3. ReadKept(ch, ch') /\ ch'.read = op
      BY <2>1, <2>2, <1>1, <1>2, <1>4, EndedReads
  <2>4. TypeOK'
      BY <2>3, <1>1, <1>6 DEF TypeOK, ReadKept
  <2>5. HeaderRead(ch) /\ ch'.openList = ch.openList
      BY <2>3, <1>1, <1>8 DEF HeaderRead, ReadKept, SameOpen
  <2>6. ClientSound'
      BY <2>1, <2>3, <2>5, <1>1, <1>6 DEF ClientSound, OpenComes, HeaderRead
  <2>7. QED
      BY <2>3, <2>4, <2>6, ReadKeptStep
<1>9. QED
    BY <1>7, <1>8

LEMMA HandleReadHelloStep ==
    ASSUME IndInv, HandleReadHello
    PROVE  StepSound
<1> DEFINE c == ReadEnded(ch)
<1>1. ~ch.deleted /\ ch.read = "hello"
      /\ UNCHANGED <<client, incoming, services, disconnect, truncated>>
      /\ ch' = IF ch.readDone = "ok" THEN AsyncRead(c)
               ELSE CloseChannel(c, ch.readDone = "empty")
    BY DEF HandleReadHello, ReadReady, BodyFails
<1>2. ch \in Channel /\ ~ch.asyncSendStop /\ Ended(ch, c)
    BY <1>1, ReadReadyFacts
<1> HIDE DEF c
<1>3. /\ ReadKept(ch, AsyncRead(c)) /\ AsyncRead(c).read = "header"
      /\ AsyncRead(c).readDone \in {"pending", "error"}
    BY <1>1, <1>2, EndedReadsOn
<1>4. ReadKept(ch, CloseChannel(c, ch.readDone = "empty"))
      /\ CloseChannel(c, ch.readDone = "empty").read = "none"
    BY <1>1, <1>2, EndedCloses
<1>5. ReadKept(ch, ch') /\ ch'.read \in {"header", "none"} /\ ~HeaderRead(ch')
    BY <1>1, <1>3, <1>4 DEF HeaderRead
<1>6. QED
    BY <1>1, <1>5, ReadLoopStep DEF IndInv, TypeOK

LEMMA HandleReadCloseStep ==
    ASSUME IndInv, HandleReadClose
    PROVE  StepSound
<1> DEFINE c == ReadEnded(ch)
<1>1. ~ch.deleted /\ ch.read = "close"
      /\ UNCHANGED <<client, incoming, services, disconnect, truncated>>
      /\ ch' = IF ch.readDone = "ok" THEN AsyncRead(Cancel(c))
               ELSE CloseChannel(c, ch.readDone = "empty")
    BY DEF HandleReadClose, ReadReady, BodyFails
<1>2. ch \in Channel /\ ~ch.asyncSendStop /\ Ended(ch, c)
    BY <1>1, ReadReadyFacts
<1> HIDE DEF c
<1>3. Ended(ch, Cancel(c))
    BY <1>2, EndedCancel
<1>4. /\ ReadKept(ch, AsyncRead(Cancel(c))) /\ AsyncRead(Cancel(c)).read = "header"
      /\ AsyncRead(Cancel(c)).readDone \in {"pending", "error"}
    BY <1>1, <1>2, <1>3, EndedReadsOn
<1>5. ReadKept(ch, CloseChannel(c, ch.readDone = "empty"))
      /\ CloseChannel(c, ch.readDone = "empty").read = "none"
    BY <1>1, <1>2, EndedCloses
<1>6. ReadKept(ch, ch') /\ ch'.read \in {"header", "none"} /\ ~HeaderRead(ch')
    BY <1>1, <1>4, <1>5 DEF HeaderRead
<1>7. QED
    BY <1>1, <1>6, ReadLoopStep DEF IndInv, TypeOK

\* The three handlers that end the reading whatever they find.
LEMMA ReadEndsStep ==
    ASSUME IndInv, HandleReadError \/ MessageFails \/ MessageRejected
    PROVE  StepSound
<1> DEFINE c == ReadEnded(ch)
<1>1. ~ch.deleted /\ ch.read \in {"error", "message", "open"}
      /\ UNCHANGED <<client, incoming, services, disconnect, truncated>>
    BY DEF HandleReadError, MessageFails, MessageRejected, ReadReady
<1>2. ch' = c \/ \E close \in BOOLEAN : ch' = CloseChannel(c, close)
  <2>1. CASE HandleReadError
      BY <2>1 DEF HandleReadError, BodyFails
  <2>2. CASE MessageFails
      BY <2>2 DEF MessageFails
  <2>3. CASE MessageRejected
      BY <2>3 DEF MessageRejected
  <2>4. QED
      BY <2>1, <2>2, <2>3
<1>3. ch \in Channel /\ ~ch.asyncSendStop /\ Ended(ch, c)
    BY <1>1, ReadReadyFacts
<1> HIDE DEF c
<1>4. ReadKept(ch, c) /\ c.read = "none"
    BY <1>1, <1>3, EndedKept DEF Ended
<1>5. \A close \in BOOLEAN :
         ReadKept(ch, CloseChannel(c, close)) /\ CloseChannel(c, close).read = "none"
    BY <1>1, <1>3, EndedCloses
<1>6. ReadKept(ch, ch') /\ ch'.read = "none"
    BY <1>2, <1>4, <1>5
<1>7. QED
    BY <1>1, <1>6, ReadLoopStep DEF IndInv, TypeOK, HeaderRead

LEMMA HandleReadMessageStep ==
    ASSUME IndInv, HandleReadMessage
    PROVE  StepSound
<1> DEFINE c == ReadEnded(ch)
<1>1. ~ch.deleted /\ ch.read = "message" /\ ch' = AsyncRead(c)
      /\ UNCHANGED <<client, incoming, disconnect>>
    BY DEF HandleReadMessage, ReadReady
<1>2. ch \in Channel /\ ~ch.asyncSendStop /\ Ended(ch, c)
    BY <1>1, ReadReadyFacts
<1> HIDE DEF c
<1>3. /\ ReadKept(ch, ch') /\ ch'.read = "header"
      /\ ch'.readDone \in {"pending", "error"}
    BY <1>1, <1>2, EndedReadsOn
<1>4. services \subseteq RequestId /\ incoming.id \in RequestId
    BY <1>1 DEF IndInv, TypeOK, ClientSound
<1>5. services' \subseteq RequestId
    BY <1>4 DEF HandleReadMessage
<1>6. truncated' \in BOOLEAN
    BY DEF HandleReadMessage
<1>7. ~HeaderRead(ch')
    BY <1>3 DEF HeaderRead
<1>8. QED
    BY <1>1, <1>3, <1>5, <1>6, <1>7, ReadLoopStep

\* The steps before and after the writer do not touch what is sent.
LEMMA Between ==
    ASSUME NEW b, NEW c, NEW d, NEW e,
           SameSend(b, c), c.writeDone = b.writeDone, SameSend(d, e), Follows(c, d),
           QueueKept(c, d) \/ QueueSent(Ids(c.transactionList), c, d)
    PROVE  Follows(b, e) /\ QueueStep(b, e)
<1>1. Follows(b, e)
    BY DEF Follows, SameSend
<1>2. (Stuck(b) <=> Stuck(c)) /\ (Stuck(d) <=> Stuck(e))
    BY DEF Stuck, SameSend
<1>3. QueueKept(b, e) \/ QueueSent(Ids(b.transactionList), b, e)
    BY <1>2 DEF QueueKept, QueueSent, SameSend, SameList
<1>4. QED
    BY <1>1, <1>3 DEF QueueStep

LEMMA OpenReadStep ==
    ASSUME IndInv, UNCHANGED <<client, incoming, services, disconnect, truncated>>,
           ch.read = "open", ~ch.deleted, ~ch.asyncSendStop,
           ch' \in Channel, SameEnd(ch, ch'), ch'.read = "header", ch'.asyncRecv,
           ch'.readDone \in {"pending", "error"},
           WriteSound(ch'), OneOpen(ch'), Follows(ch, ch'), QueueStep(ch, ch')
    PROVE  StepSound
<1>1. TypeOK'
    BY DEF IndInv, TypeOK
<1>2. ReadSound(ch')
    BY DEF ReadSound, SameEnd, Tracked
<1>3. ClientSound'
  <2>1. ~HeaderRead(ch') /\ ClientSound
      BY DEF HeaderRead, IndInv
  <2>2. client.state = "ready"
      BY <2>1 DEF ClientSound, OpenComes
  <2>3. QED
      BY <2>1, <2>2 DEF ClientSound
<1>4. QED
    BY <1>1, <1>2, <1>3 DEF StepSound, IndInv

LEMMA HandleReadOpenStep ==
    ASSUME IndInv, NEW valid \in BOOLEAN, NEW s \in BOOLEAN, HandleReadOpen(valid, s)
    PROVE  StepSound
<1> DEFINE c == ReadEnded(ch)
           d == [c EXCEPT !.recvRequestId = incoming.id]
           f == [d EXCEPT !.openList = Append(@, incoming.id)]
<1>1. ~ch.deleted /\ ch.read = "open"
      /\ UNCHANGED <<client, incoming, services, disconnect, truncated>>
    BY DEF HandleReadOpen, ReadReady
<1>2. ch' = IF ch.readDone # "ok" THEN CloseChannel(c, ch.readDone = "empty")
            ELSE IF ~valid THEN AsyncRead(CloseSocket(d))
            ELSE AsyncRead(AsyncWriteOpen(f, s))
    BY DEF HandleReadOpen, BodyFails
<1>3. ch \in Channel /\ ~ch.asyncSendStop /\ Ended(ch, c) /\ WriteSound(ch)
    BY <1>1, ReadReadyFacts DEF IndInv
<1>4. ch.openList = <<>> /\ incoming.id \in RequestId
    BY <1>1 DEF IndInv, ClientSound, OpenComes
<1> HIDE DEF c
<1>5. c \in Channel /\ c.openList = <<>> /\ c.writeDone = ch.writeDone
      /\ SameSend(ch, c) /\ SameEnd(ch, c) /\ c.read = "none" /\ ~c.asyncRecv
  <2>1. c.writeDone = ch.writeDone
      BY <1>3, ReadEndedFacts DEF c
  <2>2. QED
      BY <2>1, <1>3, <1>4 DEF Ended, SameOpen
<1>6. CASE ch.readDone # "ok"
  <2>1. ch' = CloseChannel(c, ch.readDone = "empty")
      BY <1>2, <1>6
  <2>2. ReadKept(ch, CloseChannel(c, ch.readDone = "empty"))
        /\ CloseChannel(c, ch.readDone = "empty").read = "none"
      BY <1>1, <1>3, EndedCloses
  <2>3. QED
      BY <2>1, <2>2, <1>1, ReadLoopStep DEF IndInv, TypeOK, HeaderRead
<1>7. /\ d \in Channel /\ d.openList = <<>> /\ d.writeDone = ch.writeDone
      /\ SameSend(ch, d) /\ SameEnd(ch, d)
  <2>1. d \in Channel
      BY <1>4, <1>5 DEF Channel
  <2>2. d.openList = c.openList /\ d.writeDone = c.writeDone
        /\ SameSend(c, d) /\ SameEnd(c, d)
      BY <1>5 DEF Channel, SameSend, SameList, SameEnd
  <2> HIDE DEF d
  <2>3. QED
      BY <2>1, <2>2, <1>5 DEF SameSend, SameList, SameEnd
<1>8. CASE ch.readDone = "ok" /\ ~valid
  <2> DEFINE g == CloseSocket(d)
  <2>1. ch' = AsyncRead(g)
      BY <1>2, <1>8
  <2>2. /\ g \in Channel /\ SameSend(d, g) /\ SameOpen(d, g) /\ SameEnd(d, g)
        /\ g.writeDone \in {d.writeDone, "error"}
      BY <1>7, CloseSocketFacts
  <2> HIDE DEF g, d
  <2>3. /\ ch' \in Channel /\ SameSend(g, ch') /\ SameOpen(g, ch') /\ SameEnd(g, ch')
        /\ ch'.writeDone = g.writeDone /\ ch'.read = "header" /\ ch'.asyncRecv
        /\ ch'.readDone \in {"pending", "error"}
      BY <2>1, <2>2, AsyncReadFacts
  <2>4. SendKept(ch, ch') /\ SameEnd(ch, ch')
      BY <2>2, <2>3, <1>7 DEF SendKept, SameSend, SameList, SameEnd
  <2>5. WriteSound(ch') /\ Follows(ch, ch') /\ QueueStep(ch, ch')
      BY <2>3, <2>4, <1>3, SendKeptFacts
  <2>6. OneOpen(ch')
      BY <2>2, <2>3, <1>7 DEF OneOpen, SameOpen
  <2>7. QED
      BY <2>3, <2>4, <2>5, <2>6, <1>1, <1>3, OpenReadStep
<1>9. CASE ch.readDone = "ok" /\ valid
  <2> DEFINE g == AsyncWriteOpen(f, s)
  <2>1. ch' = AsyncRead(g)
      BY <1>2, <1>9
  <2>2. /\ f \in Channel /\ f.openList = <<incoming.id>> /\ f.writeDone = ch.writeDone
        /\ f.recvRequestId = incoming.id /\ SameSend(ch, f) /\ SameEnd(ch, f)
    <3>1. d.recvRequestId = incoming.id
        BY <1>5 DEF Channel
    <3> HIDE DEF d
    <3>2. Append(d.openList, incoming.id) = <<incoming.id>>
          /\ <<incoming.id>> \in Seq(RequestId)
        BY <1>4, <1>7
    <3>3. f \in Channel
        BY <3>2, <1>7 DEF Channel
    <3>4. /\ f.openList = <<incoming.id>> /\ f.writeDone = d.writeDone
          /\ f.recvRequestId = d.recvRequestId /\ SameSend(d, f) /\ SameEnd(d, f)
        BY <3>2, <1>7 DEF Channel, SameSend, SameList, SameEnd
    <3> HIDE DEF f
    <3>5. QED
        BY <3>1, <3>3, <3>4, <1>7 DEF SameSend, SameList, SameEnd
  <2> HIDE DEF f
  <2>3. SendKept(ch, f)
      BY <2>2 DEF SendKept, SameEnd
  <2>4. WriteSound(f) /\ OneOpen(f) /\ ~f.deleted
      BY <2>2, <2>3, <1>1, <1>3, SendKeptFacts DEF OneOpen, SameEnd
  <2>5. ChunkSound(f)
      BY <2>4 DEF WriteSound
  <2>6. /\ g \in Channel /\ SameEnd(f, g) /\ ChunkSound(g) /\ OneOpen(g)
        /\ NothingWritten(f, g) \/ OpenWritten(f, g)
      BY <2>2, <2>4, <2>5, AsyncWriteOpenFacts
  <2> HIDE DEF g
  <2>7. Writes(f, g)
      BY <2>6 DEF Writes
  <2>8. /\ WriteSound(g) /\ Follows(f, g)
        /\ QueueKept(f, g) \/ QueueSent(Ids(f.transactionList), f, g)
      BY <2>2, <2>4, <2>6, <2>7, CallerWrites
  <2>9. /\ ch' \in Channel /\ SameSend(g, ch') /\ SameOpen(g, ch') /\ SameEnd(g, ch')
        /\ ch'.writeDone = g.writeDone /\ ch'.read = "header" /\ ch'.asyncRecv
        /\ ch'.readDone \in {"pending", "error"}
      BY <2>1, <2>6, AsyncReadFacts
  <2>10. Follows(ch, ch') /\ QueueStep(ch, ch')
      BY <2>2, <2>8, <2>9, Between
  <2>11. WriteSound(ch')
    <3>1. SendKept(g, ch')
        BY <2>9 DEF SendKept, SameEnd
    <3>2. QED
        BY <3>1, <2>6, <2>8, <2>9, SendKeptFacts
  <2>12. OneOpen(ch') /\ SameEnd(ch, ch')
      BY <2>2, <2>6, <2>9 DEF OneOpen, SameOpen, SameEnd
  <2>13. QED
      BY <2>9, <2>10, <2>11, <2>12, <1>1, <1>3, OpenReadStep
<1>10. QED
    BY <1>6, <1>8, <1>9

\* What a handler of the writing loop leaves when it does not write.
LEMMA WriteHandlerStep ==
    ASSUME IndInv, NEW o \in BOOLEAN, NEW s \in BOOLEAN,
           HandleWriteOpen(o, s) \/ HandleWriteMessage(o, s)
    PROVE  StepSound
<1> DEFINE c == WriteEnded(ch)
<1>1. ~ch.deleted /\ ch.write # "none" /\ ch.writeDone # "pending"
      /\ UNCHANGED <<client, incoming, services, disconnect, truncated>>
    BY DEF HandleWriteOpen, HandleWriteMessage, WriteReady
<1>2. ch \in Channel /\ WriteSound(ch) /\ ReadSound(ch) /\ OneOpen(ch) /\ ClientSound
    BY DEF IndInv, TypeOK
<1>3. ch.writeDone \in {"ok", "error"}
    BY <1>1, <1>2 DEF Channel
<1>4. /\ c \in Channel
      /\ SameRead(ch, c) /\ SameOpen(ch, c) /\ SameEnd(ch, c) /\ SameList(ch, c)
      /\ c.write = "none" /\ ~c.asyncSend
      /\ c.chunk = ch.chunk /\ c.actSegmentFlag = ch.actSegmentFlag
      /\ c.sendSequenceNumber = ch.sendSequenceNumber /\ c.writeDone = ch.writeDone
    BY <1>2, WriteEndedFacts
<1>5. \/ ~ch.asyncRecv /\ ch' = CloseChannel(c, FALSE)
      \/ ch.writeDone = "error" /\ ch' = c
      \/ ch.writeDone = "ok" /\ ch' = HandleWriteComplete(c, o, s)
  <2>1. ch.asyncSendStop => ~ch.asyncRecv
      BY <1>2 DEF ReadSound, Tracked
  <2>2. c.asyncSendStop = ch.asyncSendStop /\ c.asyncRecv = ch.asyncRecv
      BY <1>4 DEF SameEnd, SameRead
  <2>3. CASE HandleWriteOpen(o, s)
    <3>1. ch' = IF c.asyncSendStop THEN CloseChannel(c, FALSE)
                ELSE IF ch.writeDone = "error"
                     THEN IF c.asyncRecv THEN c ELSE CloseChannel(c, FALSE)
                ELSE HandleWriteComplete(c, o, s)
        BY <2>3 DEF HandleWriteOpen
    <3> HIDE DEF c
    <3>2. QED
        BY <3>1, <2>1, <2>2, <1>3
  <2>4. CASE HandleWriteMessage(o, s)
    <3>1. ch' = IF c.asyncSendStop \/ ch.writeDone = "error"
                THEN IF c.asyncRecv THEN c ELSE CloseChannel(c, FALSE)
                ELSE HandleWriteComplete(c, o, s)
        BY <2>4 DEF HandleWriteMessage
    <3> HIDE DEF c
    <3>2. QED
        BY <3>1, <2>1, <2>2, <1>3
  <2>5. QED
      BY <2>3, <2>4
<1>6. ~Stuck(ch)
    BY <1>1 DEF Stuck
<1>7. ASSUME ch' \in Channel, ch'.read = ch.read, ch'.readDone \in {ch.readDone, "error"},
             ch.openList = <<>> => ch'.openList = <<>>,
             WriteSound(ch'), ReadSound(ch'), OneOpen(ch'),
             Follows(ch, ch'), QueueStep(ch, ch')
      PROVE  StepSound
  <2>1. TypeOK'
      BY <1>1, <1>7 DEF IndInv, TypeOK
  <2>2. ClientSound'
      BY <1>1, <1>2, <1>7, ClientKept DEF HeaderRead
  <2>3. QED
      BY <2>1, <2>2, <1>7 DEF StepSound, IndInv
<1>8. CASE ~ch.asyncRecv /\ ch' = CloseChannel(c, FALSE)
  <2>1. /\ ch' \in Channel /\ SameOpen(c, ch')
        /\ ch'.read = c.read /\ ch'.asyncRecv = c.asyncRecv
        /\ ch'.readDone \in {c.readDone, "error"}
        /\ ch'.chunk = c.chunk /\ ch'.sent = c.sent /\ ch'.write = c.write
        /\ ch'.sendSequenceNumber = c.sendSequenceNumber
        /\ ch'.asyncSend = c.asyncSend
        /\ ~c.asyncSend => ch'.deleted /\ ~ch'.asyncSendStop /\ ch'.transactionList = <<>>
      BY <1>4, <1>8, CloseChannelFacts
  <2> HIDE DEF c
  <2>2. WriteSound(ch')
      BY <2>1, <1>2, <1>4 DEF WriteSound, ChunkSound
  <2>3. ReadSound(ch')
      BY <2>1, <1>2, <1>4, <1>8 DEF ReadSound, SameRead
  <2>4. OneOpen(ch') /\ (ch.openList = <<>> => ch'.openList = <<>>)
      BY <2>1, <1>2, <1>4 DEF OneOpen, SameOpen
  <2>5. Follows(ch, ch')
      BY <2>1, <1>4 DEF Follows
  <2>6. QueueDropped(ch, ch')
      BY <2>1, <1>4, <1>6 DEF QueueDropped, Stuck, SameList
  <2>7. QED
      BY <2>1, <2>2, <2>3, <2>4, <2>5, <2>6, <1>4, <1>7 DEF QueueStep, SameRead
<1>9. CASE ch.writeDone = "error" /\ ch' = c
  <2> HIDE DEF c
  <2>1. WriteSound(ch')
      BY <1>2, <1>4, <1>9 DEF WriteSound, ChunkSound
  <2>2. ReadSound(ch')
      BY <1>1, <1>2, <1>4, <1>9 DEF ReadSound, SameRead, SameEnd
  <2>3. OneOpen(ch') /\ (ch.openList = <<>> => ch'.openList = <<>>)
      BY <1>2, <1>4, <1>9 DEF OneOpen, SameOpen
  <2>4. Follows(ch, ch')
      BY <1>4, <1>9 DEF Follows
  <2>5. QueueKept(ch, ch')
      BY <1>4, <1>6, <1>9 DEF QueueKept, Stuck, SameList
  <2>6. QED
      BY <2>1, <2>2, <2>3, <2>4, <2>5, <1>4, <1>7, <1>9 DEF QueueStep, SameRead
<1>10. CASE ch.writeDone = "ok" /\ ch' = HandleWriteComplete(c, o, s)
  <2>1. /\ ch' \in Channel /\ SameRead(ch, ch') /\ SameEnd(ch, ch') /\ OneOpen(ch')
        /\ ch.openList = <<>> => ch'.openList = <<>>
        /\ WriteSound(ch') /\ Follows(ch, ch') /\ QueueStep(ch, ch')
      BY <1>1, <1>2, <1>10, LoopWrites
  <2>2. ReadSound(ch')
      BY <2>1, <1>1, <1>2 DEF ReadSound, SameRead, SameEnd
  <2>3. QED
      BY <2>1, <2>2, <1>7 DEF SameRead
<1>11. QED
    BY <1>5, <1>8, <1>9, <1>10

LEMMA SendResponseStep ==
    ASSUME IndInv, NEW id \in RequestId, NEW n \in 1 .. MaxChunks, NEW s \in BOOLEAN,
           SendResponse(id, n, s)
    PROVE  StepSound
<1> DEFINE r == [id |-> id, chunks |-> n]
           b == [ch EXCEPT !.transactionList = Append(@, r)]
<1>1. ~ch.deleted /\ ch' = AsyncWriteMessage(b, s) /\ services' = services \ {id}
      /\ UNCHANGED <<client, incoming, disconnect, truncated>>
    BY DEF SendResponse
<1>2. ch \in Channel /\ WriteSound(ch) /\ ReadSound(ch) /\ OneOpen(ch) /\ ClientSound
    BY DEF IndInv, TypeOK
<1>3. r \in SecureChannelTransaction /\ r.id = id
    BY DEF SecureChannelTransaction
<1>4. ch.transactionList \in Seq(SecureChannelTransaction)
    BY <1>2 DEF Channel
<1> HIDE DEF r
<1>5. /\ Append(ch.transactionList, r) \in Seq(SecureChannelTransaction)
      /\ Append(ch.transactionList, r) # <<>>
      /\ ch.transactionList # <<>> =>
           Append(ch.transactionList, r)[1] = ch.transactionList[1]
      /\ Ids(Append(ch.transactionList, r)) = Append(Ids(ch.transactionList), id)
    BY <1>3, <1>4, IdsAppend
<1>6. b \in Channel /\ b.transactionList = Append(ch.transactionList, r)
    BY <1>2, <1>5 DEF Channel
<1>7. /\ SameRead(ch, b) /\ SameOpen(ch, b) /\ SameEnd(ch, b) /\ b.sent = ch.sent
      /\ b.write = ch.write /\ b.writeDone = ch.writeDone /\ b.asyncSend = ch.asyncSend
      /\ b.actSegmentFlag = ch.actSegmentFlag /\ b.chunk = ch.chunk
      /\ b.sendSequenceNumber = ch.sendSequenceNumber
    BY <1>2 DEF Channel, SameRead, SameOpen, SameEnd
<1> HIDE DEF b
<1>8. WriteSound(b) /\ ~b.deleted
  <2>1. ChunkSound(b) /\ (Continues(ch) => Continues(b))
      BY <1>2, <1>5, <1>6, <1>7 DEF WriteSound, ChunkSound, Continues
  <2>2. QED
      BY <2>1, <1>1, <1>2, <1>7 DEF WriteSound, SameEnd
<1>9. /\ ch' \in Channel /\ SameRead(b, ch') /\ SameEnd(b, ch') /\ SameOpen(b, ch')
      /\ ChunkSound(ch') /\ Writes(b, ch')
  <2>1. ChunkSound(b)
      BY <1>8 DEF WriteSound
  <2>2. /\ ch' \in Channel /\ SameRead(b, ch') /\ SameEnd(b, ch') /\ SameOpen(b, ch')
        /\ ChunkSound(ch')
        /\ \/ NothingWritten(b, ch')
           \/ /\ ~b.asyncSend /\ b.transactionList # <<>>
              /\ MessageWritten(b, ch') \/ MessageLost(b, ch')
      BY <2>1, <1>1, <1>6, AsyncWriteMessageFacts
  <2>3. QED
      BY <2>2 DEF Writes
<1>10. /\ WriteSound(ch') /\ Follows(b, ch')
       /\ QueueKept(b, ch') \/ QueueSent(Ids(b.transactionList), b, ch')
    BY <1>6, <1>8, <1>9, CallerWrites
<1>11. Follows(ch, ch')
    BY <1>7, <1>10 DEF Follows
<1>12. QueueStep(ch, ch')
  <2>1. Stuck(b) <=> Stuck(ch)
      BY <1>7 DEF Stuck
  <2>2. \/ QueueGrown(id, ch, ch')
        \/ QueueSent(Append(Ids(ch.transactionList), id), ch, ch')
      BY <2>1, <1>5, <1>6, <1>7, <1>10 DEF QueueGrown, QueueKept, QueueSent
  <2>3. QED
      BY <2>2 DEF QueueStep
<1>13. ReadSound(ch')
    BY <1>1, <1>2, <1>7, <1>9 DEF ReadSound, SameRead, SameEnd
<1>14. OneOpen(ch') /\ ch'.openList = ch.openList
    BY <1>2, <1>7, <1>9 DEF OneOpen, SameOpen
<1>15. TypeOK'
    BY <1>1, <1>9 DEF IndInv, TypeOK
<1>16. ClientSound'
  <2>1. ch'.read = ch.read /\ ch'.readDone = ch.readDone
      BY <1>7, <1>9 DEF SameRead
  <2>2. QED
      BY <2>1, <1>1, <1>2, <1>14, ClientKept DEF HeaderRead
<1>17. QED
    BY <1>10, <1>11, <1>12, <1>13, <1>14, <1>15, <1>16 DEF StepSound, IndInv

-----------------------------------------------------------------------------
LEMMA InitInv == Init => IndInv
<1>1. SUFFICES ASSUME Init PROVE IndInv
    OBVIOUS
<1> DEFINE first == [kind |-> "OPN", id |-> NoRequest, answers |-> NoRequest,
                     final |-> TRUE, number |-> 0]
<1>2. first \in Chunk
    BY DEF Chunk
<1>3. ch = NewChannel
    BY <1>1 DEF Init
<1>4. ch \in Channel
  <2>1. <<>> \in Seq(SecureChannelTransaction) /\ <<>> \in Seq(RequestId)
      OBVIOUS
  <2>2. "header" \in Tracked /\ NoRequest \in RequestId \cup {NoRequest}
      BY DEF Tracked
  <2>3. NewChannel \in Channel
      BY <1>2, <2>1, <2>2 DEF NewChannel, Channel
  <2>4. QED
      BY <1>3, <2>3
<1>5. client \in Client /\ incoming \in Message
    BY <1>1, ChannelAssumption DEF Init, Client, Message
<1>6. TypeOK
    BY <1>1, <1>4, <1>5 DEF TypeOK, Init
<1>7. WriteSound(ch)
    BY <1>3 DEF NewChannel, WriteSound, ChunkSound
<1>8. ReadSound(ch) /\ OneOpen(ch)
    BY <1>3 DEF NewChannel, ReadSound, OneOpen, Tracked
<1>9. ClientSound
    BY <1>1, <1>3 DEF Init, NewChannel, ClientSound, HeaderRead
<1>10. QED
    BY <1>6, <1>7, <1>8, <1>9 DEF IndInv

LEMMA NextSound ==
    ASSUME IndInv, Next
    PROVE  StepSound
<1>1. Secured \subseteq BOOLEAN
    BY DEF Secured
<1>2. CASE HeaderArrives
    BY <1>2, HeaderArrivesStep
<1>3. CASE \E result \in {"ok", "empty"} : BodyArrives(result)
    BY <1>3, BodyArrivesStep
<1>4. CASE ClientCloses \/ ReadFails
    BY <1>4, ClientClosesStep, ReadFailsStep
<1>5. CASE \E result \in {"ok", "error"} : WriteEnds(result)
    BY <1>5, WriteEndsStep
<1>6. CASE ReadHandler
  <2>1. CASE HandleReadHeader \/ HandleReadHello
      BY <2>1, HandleReadHeaderStep, HandleReadHelloStep
  <2>2. CASE \E valid \in BOOLEAN, s \in Secured : HandleReadOpen(valid, s)
      BY <2>2, <1>1, HandleReadOpenStep
  <2>3. CASE HandleReadClose
      BY <2>3, HandleReadCloseStep
  <2>4. CASE HandleReadError \/ MessageFails \/ MessageRejected
      BY <2>4, ReadEndsStep
  <2>5. CASE HandleReadMessage
      BY <2>5, HandleReadMessageStep
  <2>6. QED
      BY <1>6, <2>1, <2>2, <2>3, <2>4, <2>5 DEF ReadHandler
<1>7. CASE WriteHandler
    BY <1>1, <1>7, WriteHandlerStep DEF WriteHandler
<1>8. CASE \E id \in RequestId, n \in 1 .. MaxChunks, s \in Secured : SendResponse(id, n, s)
    BY <1>1, <1>8, SendResponseStep
<1>9. CASE Disconnect
    BY <1>9, DisconnectStep
<1>10. QED
    BY <1>2, <1>3, <1>4, <1>5, <1>6, <1>7, <1>8, <1>9 DEF Next

LEMMA StutterInv ==
    ASSUME IndInv, UNCHANGED vars
    PROVE  IndInv'
<1>1. UNCHANGED <<client, incoming, ch, services, disconnect, truncated>>
    BY DEF vars
<1>2. TypeOK' /\ ClientSound'
    BY <1>1 DEF IndInv, TypeOK, ClientSound, OpenComes
<1>3. WriteSound(ch)' /\ ReadSound(ch)' /\ OneOpen(ch)'
    BY <1>1 DEF IndInv
<1>4. QED
    BY <1>2, <1>3 DEF IndInv

LEMMA Invariant == Spec => []IndInv
<1>1. ASSUME IndInv, [Next]_vars
      PROVE  IndInv'
    BY <1>1, NextSound, StutterInv DEF StepSound
<1>2. QED
    BY <1>1, InitInv, PTL DEF Spec

(***************************************************************************)
(* Every variable of the channel, of its client and of the network keeps   *)
(* its type, whatever the order in which operations on the socket          *)
(* complete and their handlers run.                                        *)
(***************************************************************************)
THEOREM TypeCorrect == Spec => []TypeOK
<1>1. IndInv => TypeOK
    BY DEF IndInv
<1>2. QED
    BY <1>1, Invariant, PTL

(***************************************************************************)
(* closeChannel deletes the channel only when no write is in flight and no *)
(* read that asyncRecv_ guards: the handler of neither finds it gone.      *)
(***************************************************************************)
THEOREM DeletedQuiet == Spec => []DeletedWhenQuiet
<1>1. IndInv => DeletedWhenQuiet
    BY DEF IndInv, WriteSound, ReadSound, DeletedWhenQuiet
<1>2. QED
    BY <1>1, Invariant, PTL

(***************************************************************************)
(* An OpenSecureChannel response carries the id of the request it answers, *)
(* although asyncWriteOpenSecureChannelResponse takes the id the channel   *)
(* received last.                                                          *)
(***************************************************************************)
THEOREM OpenAnswers == Spec => []OpenAnswersItsRequest
<1>1. IndInv => OpenAnswersItsRequest
    BY DEF IndInv, WriteSound, ChunkSound, OpenAnswersItsRequest
<1>2. QED
    BY <1>1, Invariant, PTL

(***************************************************************************)
(* The chunks of a message follow one another with growing sequence        *)
(* numbers, no open response comes between them, and a write starts only   *)
(* when the one before has completed.                                      *)
(***************************************************************************)
THEOREM ChunksFollow == Spec => ChunksContiguous
<1>1. ASSUME IndInv, [Next]_vars
      PROVE  [ChunkFollows /\ WriteStartsAlone]_vars
  <2>1. CASE Next
      BY <1>1, <2>1, NextSound DEF StepSound, Follows, ChunkFollows, WriteStartsAlone
  <2>2. CASE UNCHANGED vars
      BY <2>2
  <2>3. QED
      BY <1>1, <2>1, <2>2
<1>2. QED
    BY <1>1, Invariant, PTL DEF Spec, ChunksContiguous

(***************************************************************************)
(* The refinement.                                                         *)
(***************************************************************************)
LEMMA QueueSteps ==
    ASSUME QueueStep(ch, ch')
    PROVE  [Queue!Next]_Queue!vars
<1> DEFINE q == [k \in DOMAIN ch.transactionList |-> ch.transactionList[k].id]
           sent == ch.sent
<1>1. Ids(ch.transactionList) = q /\ Ids(ch'.transactionList) = q'
    BY DEF Ids
<1>2. (SendStuck <=> Stuck(ch)) /\ (SendStuck' <=> Stuck(ch'))
    BY DEF SendStuck, Stuck
<1>3. SendStuck \in BOOLEAN /\ SendStuck' \in BOOLEAN
    BY DEF SendStuck
<1>4. CASE QueueKept(ch, ch')
  <2>1. q' = q /\ sent' = sent /\ SendStuck' = SendStuck
      BY <1>1, <1>2, <1>3, <1>4 DEF QueueKept
  <2>2. QED
      BY <2>1 DEF Queue!vars
<1>5. CASE QueueDropped(ch, ch')
  <2>1. Ids(<<>>) = <<>>
      BY DEF Ids
  <2>2. ~SendStuck /\ q' = <<>> /\ sent' = sent /\ SendStuck' = SendStuck
      BY <2>1, <1>1, <1>2, <1>3, <1>5 DEF QueueDropped
  <2>3. Queue!Drop
      BY <2>2 DEF Queue!Drop
  <2>4. QED
      BY <2>3 DEF Queue!Next
<1>6. \A p : QueueSent(p, ch, ch') =>
             /\ ~SendStuck
             /\ \/ /\ p # <<>> /\ q' = Tail(p)
                   /\ \/ sent' = Append(sent, Head(p)) /\ SendStuck' = SendStuck
                      \/ SendStuck' = TRUE /\ sent' = sent
                \/ SendStuck' = TRUE /\ q' = p /\ sent' = sent
    BY <1>1, <1>2, <1>3 DEF QueueSent
<1>7. CASE QueueSent(Ids(ch.transactionList), ch, ch')
  <2>1. QueueSent(q, ch, ch')
      BY <1>1, <1>7
  <2>2. Queue!SendFrom(q) \/ Queue!Stick(q)
      BY <2>1, <1>6 DEF Queue!SendFrom, Queue!Stick
  <2>3. QED
      BY <2>2 DEF Queue!Next, Queue!Send
<1>8. ASSUME NEW r \in RequestId, QueueGrown(r, ch, ch')
      PROVE  Queue!Next
  <2>1. q' = Append(q, r) /\ sent' = sent /\ SendStuck' = SendStuck
      BY <1>1, <1>2, <1>3, <1>8 DEF QueueGrown
  <2>2. Queue!Accept(r)
      BY <2>1 DEF Queue!Accept
  <2>3. QED
      BY <2>2 DEF Queue!Next
<1>9. ASSUME NEW r \in RequestId,
             QueueSent(Append(Ids(ch.transactionList), r), ch, ch')
      PROVE  Queue!Next
  <2>1. QueueSent(Append(q, r), ch, ch')
      BY <1>1, <1>9
  <2>2. Queue!SendFrom(Append(q, r)) \/ Queue!Stick(Append(q, r))
      BY <2>1, <1>6 DEF Queue!SendFrom, Queue!Stick
  <2>3. Queue!AcceptAndSend(r)
      BY <2>2 DEF Queue!AcceptAndSend
  <2>4. QED
      BY <2>3 DEF Queue!Next
<1>10. QED
    BY <1>4, <1>5, <1>7, <1>8, <1>9 DEF QueueStep

(***************************************************************************)
(* The channel implements the queue of responses: they are sent in the     *)
(* order in which the services hand them over and each of them once,       *)
(* until the channel is closed or a chunk cannot be secured.               *)
(***************************************************************************)
THEOREM QueueImplemented == Spec => QueueRefined
<1>1. Init => Queue!Init
  <2>1. SUFFICES ASSUME Init PROVE Queue!Init
      OBVIOUS
  <2>2. ch.transactionList = <<>> /\ ch.sent = <<>> /\ ch.asyncSend = FALSE
      BY <2>1 DEF Init, NewChannel
  <2>3. [k \in DOMAIN ch.transactionList |-> ch.transactionList[k].id] = <<>>
      BY <2>2
  <2>4. SendStuck = FALSE
      BY <2>2 DEF SendStuck
  <2>5. QED
      BY <2>2, <2>3, <2>4 DEF Queue!Init
<1>2. ASSUME IndInv, [Next]_vars
      PROVE  [Queue!Next]_Queue!vars
  <2>1. CASE Next
      BY <1>2, <2>1, NextSound, QueueSteps DEF StepSound
  <2>2. CASE UNCHANGED vars
    <3>1. ch' = ch
        BY <2>2 DEF vars
    <3>2. QED
        BY <3>1 DEF Queue!vars, SendStuck
  <2>3. QED
      BY <1>2, <2>1, <2>2
<1>3. QED
    BY <1>1, <1>2, Invariant, PTL DEF Spec, QueueRefined, Queue!Spec
=============================================================================
