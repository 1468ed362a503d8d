------------------------ MODULE ClientSessionProofs -------------------------
(***************************************************************************)
(* Proofs about ClientSession, for every number of channels, calls and     *)
(* requests and every configuration of the timeouts.                       *)
(*                                                                         *)
(* That a request is answered once needs only that the session knows a     *)
(* channel whenever it may write on one (IndInv).  That there is one       *)
(* channel at a time, as the state of the session says, needs more         *)
(* (ChannelInv), and a configuration in which the session and the channel  *)
(* do not both reconnect.                                                  *)
(***************************************************************************)
EXTENDS ClientSession, TLAPS

(***************************************************************************)
(* secureChannel_ is set before there is a channel, and before the state   *)
(* says that there is one.                                                 *)
(***************************************************************************)
ChannelKnown ==
    /\ state \in {"Connecting", "Connected", "Disconnecting"} => secureChannel # None
    /\ \A c \in Channel : channel[c].op # "none" => secureChannel # None

(***************************************************************************)
(* Only requests that were given to the session wait or are answered.      *)
(***************************************************************************)
RequestsGiven ==
    /\ \A r \in pendingQueue : r <= requestId
    /\ \A r \in Request : r > requestId => answers[r] = 0

IndInv == TypeOK /\ ChannelKnown /\ RequestsGiven /\ AnsweredOnce

-----------------------------------------------------------------------------
(***************************************************************************)
(* The session does not reconnect when the channel does.  In the other     *)
(* configuration both timers run, and either connects.                     *)
(***************************************************************************)
OneTimer ==
    "SecureChannelAndSession" \in Mode /\ ChannelTimeout /\ SessionTimeout => RequestTimeout

(***************************************************************************)
(* The renew timer and the session belong to a channel that reads, the     *)
(* session to a state in which it may exist; the session's timer runs only *)
(* when it is configured, and a channel that reconnects is the only one.   *)
(***************************************************************************)
ChannelParts ==
    /\ timer => SessionReconnect
    /\ renew # None => channel[renew].op = "read"
    /\ \A c \in Channel : channel[c].session # "none" =>
         channel[c].op = "read" /\ state \in {"Connected", "Disconnecting"}
    /\ ReconnectTimeout => \A c \in Channel : c # 1 => channel[c].op = "none"

ChannelInv == IndInv /\ ChannelMatchesState /\ ChannelParts

-----------------------------------------------------------------------------
(***************************************************************************)
(* Types.  The handlers of a channel write a few fields of it; a decrement *)
(* leaves a transaction a transaction.                                     *)
(***************************************************************************)
LEMMA ConstantTypes ==
    /\ None \notin Channel /\ None \notin Call /\ None \notin Request
    /\ Channel \subseteq Nat /\ Call \subseteq Nat /\ Request \subseteq Nat
    /\ MaxRequests \in Nat
BY ClientSessionAssumption DEF Channel, Call, Request, None

LEMMA DecType ==
    ASSUME NEW calls \in [Call -> SessionTransaction], NEW k \in Call \cup {None},
           NEW status \in {"Success", "Bad"}
    PROVE  Dec(calls, k, status) \in [Call -> SessionTransaction]
<1>1. CASE k = None
  BY <1>1 DEF Dec
<1>2. CASE k # None
  <2>1. k \in Call /\ calls[k] \in SessionTransaction
    BY <1>2
  <2>2. [calls[k] EXCEPT !.value = IF @ = 1 THEN 0 ELSE Passed, !.status = status]
          \in SessionTransaction
    BY <2>1 DEF SessionTransaction
  <2>3. QED
    BY <1>2, <2>1, <2>2 DEF Dec
<1>3. QED
  BY <1>1, <1>2

LEMMA TransactionType ==
    ASSUME NEW k \in Call \cup {None}
    PROVE  Transaction(k) \in Call \cup {None}
BY DEF Transaction

LEMMA NewChannelType ==
    /\ NewChannel \in SecureChannel
    /\ [NewChannel EXCEPT !.op = "deleted"] \in SecureChannel
    /\ [NewChannel EXCEPT !.op = "timer", !.state = "Reconnecting"] \in SecureChannel
BY DEF NewChannel, SecureChannel

(***************************************************************************)
(* What a step needs to show that is not about requests.                   *)
(***************************************************************************)
LEMMA RequestsKept ==
    ASSUME IndInv, TypeOK', ChannelKnown', UNCHANGED <<requestId, pendingQueue, answers>>
    PROVE  IndInv'
BY DEF IndInv, RequestsGiven, AnsweredOnce

LEMMA StaysKnown ==
    ASSUME IndInv, NEW c \in Channel, channel[c].op # "none", UNCHANGED secureChannel
    PROVE  ChannelKnown'
BY DEF IndInv, ChannelKnown

-----------------------------------------------------------------------------
(***************************************************************************)
(* The handlers of a session: handleDisconnect, and the ends of a channel. *)
(***************************************************************************)
LEMMA HandleDisconnectTypes ==
    ASSUME TypeOK, HandleDisconnect
    PROVE  /\ state' \in {"DisconnectedWait", "Disconnected"}
           /\ timer' \in BOOLEAN /\ sessionConnect' \in BOOLEAN
           /\ call' \in [Call -> SessionTransaction]
<1>1. call' \in [Call -> SessionTransaction]
  BY DecType DEF TypeOK, HandleDisconnect
<1>2. timer' \in BOOLEAN
  BY DEF TypeOK, HandleDisconnect
<1>3. QED
  BY <1>1, <1>2 DEF HandleDisconnect

LEMMA ReconnectTypes ==
    ASSUME TypeOK, NEW c \in Channel, Reconnect(c) \/ (HandleDisconnect /\ Delete(c))
    PROVE  /\ HandleDisconnect
           /\ channel' \in [Channel -> SecureChannel]
           /\ \A d \in Channel \ {c} : channel'[d] = channel[d]
           /\ channel'[c] = [NewChannel EXCEPT !.op = "deleted"]
              \/ (ReconnectTimeout /\ channel'[c] =
                    [NewChannel EXCEPT !.op = "timer", !.state = "Reconnecting"])
<1>1. channel \in [Channel -> SecureChannel]
  BY DEF TypeOK
<1>2. CASE Delete(c)
  BY <1>1, <1>2, NewChannelType DEF Delete, Reconnect
<1>3. CASE ~Delete(c)
  BY <1>1, <1>3, NewChannelType DEF Reconnect
<1>4. QED
  BY <1>2, <1>3

LEMMA ChannelEnds ==
    ASSUME IndInv, NEW c \in Channel, channel[c].op # "none",
           Reconnect(c) \/ (HandleDisconnect /\ Delete(c)),
           renew' \in {renew, None}, wire' \subseteq wire,
           UNCHANGED <<mode, secureChannel, posted, sessionTransaction, wanted, requestId,
                       pendingQueue, answers>>
    PROVE  IndInv'
<1>1. TypeOK
  BY DEF IndInv
<1>2. HandleDisconnect /\ channel' \in [Channel -> SecureChannel]
  BY <1>1, ReconnectTypes
<1>3. TypeOK'
  BY <1>1, <1>2, HandleDisconnectTypes DEF TypeOK
<1>4. ChannelKnown'
  BY StaysKnown
<1>5. QED
  BY <1>3, <1>4, RequestsKept

(***************************************************************************)
(* The handlers of a channel that goes on.  Each changes fields of the one *)
(* channel, whose record stays one.                                        *)
(***************************************************************************)
LEMMA ChannelGoesOn ==
    ASSUME IndInv, NEW c \in Channel, channel[c].op # "none",
           NEW new \in SecureChannel, channel' = [channel EXCEPT ![c] = new],
           state' \in {state, "Connected"}, renew' \in Channel \cup {None},
           sessionConnect' \in BOOLEAN, call' \in [Call -> SessionTransaction],
           UNCHANGED <<mode, secureChannel, timer, posted, sessionTransaction, wanted, requestVars>>
    PROVE  IndInv'
<1>1. TypeOK'
  BY DEF IndInv, TypeOK, requestVars
<1>2. ChannelKnown'
  BY StaysKnown
<1>3. QED
  BY <1>1, <1>2, RequestsKept DEF requestVars

LEMMA FieldTypes ==
    ASSUME TypeOK
    PROVE  /\ \A c \in Channel : channel[c] \in SecureChannel
           /\ call \in [Call -> SessionTransaction]
           /\ renew \in Channel \cup {None}
           /\ sessionConnect \in BOOLEAN /\ timer \in BOOLEAN
           /\ Dec(call, sessionTransaction, "Success") \in [Call -> SessionTransaction]
           /\ Dec(call, sessionTransaction, "Bad") \in [Call -> SessionTransaction]
BY DecType DEF TypeOK

LEMMA StepOfChannel ==
    ASSUME IndInv, NEW c \in Channel, ChannelStep(c)
    PROVE  IndInv'
<1>0. TypeOK /\ channel \in [Channel -> SecureChannel] /\ channel[c] \in SecureChannel
  BY FieldTypes DEF IndInv, TypeOK
<1> DEFINE sameRest == UNCHANGED <<mode, secureChannel, renew, posted, sessionTransaction, wanted,
                                   requestVars>>
<1>1. ASSUME NEW ok \in BOOLEAN, ResolveComplete(c, ok)
      PROVE  IndInv'
  <2>1. channel[c].op = "resolve" /\ sameRest
    BY <1>1 DEF ResolveComplete
  <2>2. CASE Reconnect(c)
    BY <2>1, <2>2, ChannelEnds DEF requestVars
  <2>3. CASE /\ channel' = [channel EXCEPT ![c].op = "connect", ![c].state = "Connecting"]
             /\ UNCHANGED <<state, timer, sessionConnect, call>>
    <3> DEFINE new == [channel[c] EXCEPT !.op = "connect", !.state = "Connecting"]
    <3>1. new \in SecureChannel /\ channel' = [channel EXCEPT ![c] = new]
      BY <1>0, <2>3 DEF SecureChannel
    <3> HIDE DEF new
    <3>2. QED
      BY <1>0, <2>1, <2>3, <3>1, FieldTypes, ChannelGoesOn
  <2>4. QED
    BY <1>1, <2>2, <2>3 DEF ResolveComplete
<1>2. ASSUME NEW ok \in BOOLEAN, ConnectComplete(c, ok)
      PROVE  IndInv'
  <2>1. channel[c].op = "connect" /\ sameRest
    BY <1>2 DEF ConnectComplete
  <2>2. CASE Reconnect(c)
    BY <2>1, <2>2, ChannelEnds DEF requestVars
  <2>3. CASE /\ channel' = [channel EXCEPT ![c].op = "read", ![c].state = "Hello",
                                           ![c].await = "ack"]
             /\ UNCHANGED <<state, timer, sessionConnect, call>>
    <3> DEFINE new == [channel[c] EXCEPT !.op = "read", !.state = "Hello", !.await = "ack"]
    <3>1. new \in SecureChannel /\ channel' = [channel EXCEPT ![c] = new]
      BY <1>0, <2>3 DEF SecureChannel
    <3> HIDE DEF new
    <3>2. QED
      BY <1>0, <2>1, <2>3, <3>1, FieldTypes, ChannelGoesOn
  <2>4. QED
    BY <1>2, <2>2, <2>3 DEF ConnectComplete
<1>3. CASE CloseRequestWritten(c)
  <2>1. PICK aborted \in BOOLEAN :
          channel' = [channel EXCEPT ![c].closing = FALSE, ![c].aborted = @ \/ aborted]
    BY <1>3 DEF CloseRequestWritten
  <2> DEFINE new == [channel[c] EXCEPT !.closing = FALSE, !.aborted = @ \/ aborted]
  <2>2. new \in SecureChannel /\ channel' = [channel EXCEPT ![c] = new]
    BY <1>0, <2>1 DEF SecureChannel
  <2> HIDE DEF new
  <2>3. QED
    BY <1>0, <1>3, <2>2, FieldTypes, ChannelGoesOn DEF CloseRequestWritten, Alive, callVars
<1>4. CASE HandleReconnect(c)
  <2> DEFINE new == [channel[c] EXCEPT !.op = "resolve"]
  <2>2. new \in SecureChannel /\ channel' = [channel EXCEPT ![c] = new]
    BY <1>0, <1>4 DEF SecureChannel, HandleReconnect
  <2> HIDE DEF new
  <2>3. QED
    BY <1>0, <1>4, <2>2, FieldTypes, ChannelGoesOn DEF HandleReconnect, callVars
<1>5. QED
  BY <1>1, <1>2, <1>3, <1>4 DEF ChannelStep

LEMMA ServerAnswered ==
    ASSUME IndInv, NEW c \in Channel, ServerAnswers(c)
    PROVE  IndInv'
<1>0. TypeOK /\ channel \in [Channel -> SecureChannel] /\ channel[c] \in SecureChannel
  BY FieldTypes DEF IndInv, TypeOK
<1>1. CASE RecvAcknowledge(c)
  <2> DEFINE new == [channel[c] EXCEPT !.state = "OpenSecureChannel", !.await = "open"]
  <2>1. new \in SecureChannel /\ channel' = [channel EXCEPT ![c] = new]
    BY <1>0, <1>1 DEF SecureChannel, RecvAcknowledge
  <2> HIDE DEF new
  <2>2. QED
    BY <1>0, <1>1, <2>1, FieldTypes, ChannelGoesOn DEF RecvAcknowledge, Reads, callVars
<1>2. CASE RecvOpenSecureChannelResponse(c)
  <2>1. PICK new \in SecureChannel : channel' = [channel EXCEPT ![c] = new]
    <3>1. CASE channel[c].state = "OpenSecureChannel"
      <4> DEFINE new == [channel[c] EXCEPT !.state = "Established", !.await = "nothing",
                            !.session = IF mode = "SecureChannel" THEN "none" ELSE "creating"]
      <4>1. new \in SecureChannel
        BY <1>0 DEF SecureChannel
      <4>2. channel' = [channel EXCEPT ![c] = new]
        BY <1>0, <1>2, <3>1 DEF RecvOpenSecureChannelResponse
      <4>3. QED
        BY <4>1, <4>2
    <3>2. CASE channel[c].state # "OpenSecureChannel"
      <4> DEFINE new == [channel[c] EXCEPT !.await = "nothing"]
      <4>1. new \in SecureChannel /\ channel' = [channel EXCEPT ![c] = new]
        BY <1>0, <1>2, <3>2 DEF RecvOpenSecureChannelResponse, SecureChannel
      <4>2. QED
        BY <4>1
    <3>3. QED
      BY <3>1, <3>2
  <2>2. /\ state' \in {state, "Connected"} /\ renew' = c /\ channel[c].op = "read"
        /\ call' \in {call, Dec(call, sessionTransaction, "Success")}
        /\ UNCHANGED <<mode, secureChannel, timer, sessionConnect, posted, sessionTransaction,
                       wanted, requestVars>>
    BY <1>2 DEF RecvOpenSecureChannelResponse, Reads
  <2>3. QED
    BY <1>0, <2>1, <2>2, FieldTypes, ChannelGoesOn
<1>3. CASE RecvCreateSessionResponse(c)
  <2> DEFINE new == [channel[c] EXCEPT !.session = "activating"]
  <2>1. new \in SecureChannel /\ channel' = [channel EXCEPT ![c] = new]
    BY <1>0, <1>3 DEF SecureChannel, RecvCreateSessionResponse
  <2> HIDE DEF new
  <2>2. QED
    BY <1>0, <1>3, <2>1, FieldTypes, ChannelGoesOn DEF RecvCreateSessionResponse, Reads, callVars
<1>4. CASE RecvActivateSessionResponse(c)
  <2> DEFINE new == [channel[c] EXCEPT !.session = "none"]
  <2>1. new \in SecureChannel /\ channel' = [channel EXCEPT ![c] = new]
    BY <1>0, <1>4 DEF SecureChannel, RecvActivateSessionResponse
  <2> HIDE DEF new
  <2>2. QED
    BY <1>0, <1>4, <2>1, FieldTypes, ChannelGoesOn DEF RecvActivateSessionResponse, Reads
<1>5. QED
  BY <1>1, <1>2, <1>3, <1>4 DEF ServerAnswers

LEMMA Renewed ==
    ASSUME IndInv, RenewSecurityToken
    PROVE  IndInv'
<1>0. TypeOK /\ renew \in Channel /\ channel \in [Channel -> SecureChannel]
  BY DEF IndInv, TypeOK, RenewSecurityToken
<1>1. channel' \in [Channel -> SecureChannel]
  BY <1>0 DEF SecureChannel, RenewSecurityToken
<1>2. \A c \in Channel : channel'[c].op = channel[c].op
  BY <1>0 DEF SecureChannel, RenewSecurityToken
<1>3. TypeOK'
  BY <1>0, <1>1 DEF TypeOK, RenewSecurityToken, callVars, requestVars
<1>4. ChannelKnown'
  BY <1>2 DEF IndInv, ChannelKnown, RenewSecurityToken
<1>5. QED
  BY <1>3, <1>4, RequestsKept DEF RenewSecurityToken, requestVars

-----------------------------------------------------------------------------
(***************************************************************************)
(* The calls, and what the I/O thread does with them.                      *)
(***************************************************************************)
LEMMA Called ==
    ASSUME IndInv, NEW k \in Call,
           \/ \E op \in {"connect", "disconnect"}, sync \in BOOLEAN : Post(k, op, sync)
           \/ Return(k)
    PROVE  IndInv'
<1>0. TypeOK /\ call \in [Call -> SessionTransaction] /\ call[k] \in SessionTransaction
  BY DEF IndInv, TypeOK
<1>1. ASSUME NEW op \in {"connect", "disconnect"}, NEW sync \in BOOLEAN, Post(k, op, sync)
      PROVE  call' \in [Call -> SessionTransaction] /\ posted' \in Seq(Call)
  <2>1. [call[k] EXCEPT !.op = op, !.sync = sync, !.done = ~sync] \in SessionTransaction
    BY <1>0 DEF SessionTransaction
  <2>2. call' = [call EXCEPT ![k] = [call[k] EXCEPT !.op = op, !.sync = sync, !.done = ~sync]]
    BY <1>0, <1>1 DEF Post
  <2>3. posted' \in Seq(Call)
    <3>1. posted \in Seq(Call) /\ posted' = Append(posted, k)
      BY <1>1 DEF IndInv, TypeOK, Post
    <3>2. QED
      BY <3>1
  <2>4. QED
    BY <1>0, <2>1, <2>2, <2>3
<1>2. ASSUME Return(k)
      PROVE  call' \in [Call -> SessionTransaction] /\ posted' = posted
  BY <1>0, <1>2 DEF Return, SessionTransaction
<1>3. /\ call' \in [Call -> SessionTransaction] /\ posted' \in Seq(Call)
      /\ UNCHANGED <<channelVars, sessionTransaction, wanted, requestVars>>
  BY <1>1, <1>2 DEF Post, Return, IndInv, TypeOK
<1>4. TypeOK'
  BY <1>0, <1>3 DEF TypeOK, channelVars, requestVars
<1>5. ChannelKnown'
  BY <1>3 DEF IndInv, ChannelKnown, channelVars
<1>6. QED
  BY <1>3, <1>4, <1>5, RequestsKept DEF requestVars

LEMMA ConnectTypes ==
    ASSUME IndInv, NEW k \in Call \cup {None},
           NEW from \in {"Disconnected", "DisconnectedWait", "Connecting", "Connected",
                         "Disconnecting"},
           ConnectInternal(k, from)
    PROVE  /\ state' \in {state, "DisconnectedWait", "Disconnected", "Connecting"}
           /\ secureChannel' \in Channel \cup {None}
           /\ channel' \in [Channel -> SecureChannel]
           /\ timer' \in BOOLEAN /\ wanted' \in BOOLEAN
           /\ call' \in [Call -> SessionTransaction]
           /\ sessionTransaction' \in Call \cup {None}
           /\ ChannelKnown'
<1>0. TypeOK /\ channel \in [Channel -> SecureChannel] /\ ChannelKnown
  BY DEF IndInv, TypeOK
<1>1. /\ Dec(call, Transaction(k), "Bad") \in [Call -> SessionTransaction]
      /\ Transaction(k) \in Call \cup {None}
  BY <1>0, DecType, TransactionType DEF TypeOK
<1>2. SessionReconnect \in BOOLEAN
  BY ClientSessionAssumption DEF SessionReconnect
<1>3. CASE /\ call' = Dec(call, Transaction(k), "Bad")
           /\ UNCHANGED <<state, secureChannel, channel, timer, sessionTransaction, wanted>>
  BY <1>0, <1>1, <1>3 DEF TypeOK, ChannelKnown
<1>4. CASE /\ state' = IF SessionReconnect THEN "DisconnectedWait" ELSE "Disconnected"
           /\ timer' = SessionReconnect
           /\ call' = Dec(call, Transaction(k), "Bad")
           /\ wanted' = (k # None \/ wanted)
           /\ UNCHANGED <<secureChannel, channel, sessionTransaction>>
  <2>1. wanted' \in BOOLEAN
    BY <1>0, <1>4 DEF TypeOK
  <2>2. ChannelKnown'
    BY <1>0, <1>4 DEF ChannelKnown
  <2>3. QED
    BY <1>0, <1>1, <1>2, <1>4, <2>1, <2>2 DEF TypeOK
<1>5. CASE NewSecureChannel(k)
  <2>1. PICK c \in Channel :
          /\ state' = "Connecting" /\ timer' = FALSE
          /\ sessionTransaction' = Transaction(k)
          /\ secureChannel' = c
          /\ channel' = [channel EXCEPT ![c].op = "resolve"]
          /\ wanted' = (k # None \/ wanted)
          /\ UNCHANGED call
    BY <1>5 DEF NewSecureChannel
  <2>2. channel' \in [Channel -> SecureChannel]
    BY <1>0, <2>1 DEF SecureChannel
  <2>3. ChannelKnown'
    BY <2>1, ConstantTypes DEF ChannelKnown
  <2>4. wanted' \in BOOLEAN
    BY <1>0, <2>1 DEF TypeOK
  <2>5. QED
    BY <1>0, <1>1, <2>1, <2>2, <2>3, <2>4 DEF TypeOK
<1>6. QED
  BY <1>3, <1>4, <1>5 DEF ConnectInternal

LEMMA DisconnectTypes ==
    ASSUME IndInv, NEW k \in Call, DisconnectInternal(k)
    PROVE  /\ state' \in {state, "Disconnected", "Disconnecting"}
           /\ channel' \in [Channel -> SecureChannel]
           /\ timer' \in BOOLEAN /\ wanted' \in BOOLEAN
           /\ call' \in [Call -> SessionTransaction]
           /\ sessionTransaction' \in Call \cup {None}
           /\ UNCHANGED secureChannel => ChannelKnown'
<1>0. TypeOK /\ channel \in [Channel -> SecureChannel] /\ ChannelKnown
  BY DEF IndInv, TypeOK
<1>1. /\ Dec(call, Transaction(k), "Bad") \in [Call -> SessionTransaction]
      /\ Dec(call, Transaction(k), "Success") \in [Call -> SessionTransaction]
      /\ Dec(call, sessionTransaction, "Bad") \in [Call -> SessionTransaction]
      /\ Transaction(k) \in Call \cup {None}
  BY <1>0, DecType, TransactionType DEF TypeOK
<1>2. CASE /\ call' = Dec(call, Transaction(k), "Bad")
           /\ UNCHANGED <<state, channel, timer, sessionTransaction, wanted>>
  BY <1>0, <1>1, <1>2 DEF TypeOK, ChannelKnown
<1>3. CASE /\ state' = "Disconnected" /\ timer' = FALSE /\ wanted' = FALSE
           /\ call' = Dec(call, Transaction(k), "Success")
           /\ UNCHANGED <<channel, sessionTransaction>>
  BY <1>0, <1>1, <1>3 DEF TypeOK, ChannelKnown
<1>4. CASE /\ state \in {"Connecting", "Connected"}
           /\ call' = IF state = "Connecting" THEN Dec(call, sessionTransaction, "Bad") ELSE call
           /\ sessionTransaction' = Transaction(k)
           /\ state' = "Disconnecting" /\ wanted' = FALSE
           /\ Disconnect(secureChannel)
           /\ UNCHANGED timer
  <2>1. secureChannel \in Channel /\ secureChannel # None
    BY <1>0, <1>4 DEF TypeOK, ChannelKnown
  <2> DEFINE sc == channel[secureChannel]
  <2>2. sc \in SecureChannel
    BY <1>0, <2>1
  <2>3. PICK new \in SecureChannel : channel' = [channel EXCEPT ![secureChannel] = new]
    <3>1. /\ [[sc EXCEPT !.state = "CloseSecureChannel"] EXCEPT !.closing = TRUE] \in SecureChannel
          /\ \A aborted \in BOOLEAN :
               [[sc EXCEPT !.state = "CloseSecureChannel"] EXCEPT !.aborted = @ \/ aborted]
                 \in SecureChannel
      <4> HIDE DEF sc
      <4> QED
        BY <2>2 DEF SecureChannel
    <3>2. QED
      BY <1>4, <3>1 DEF Disconnect
  <2>4. channel' \in [Channel -> SecureChannel]
    BY <1>0, <2>1, <2>3
  <2>5. UNCHANGED secureChannel => ChannelKnown'
    BY <2>1 DEF ChannelKnown
  <2>6. QED
    BY <1>0, <1>1, <1>4, <2>4, <2>5 DEF TypeOK
<1>5. QED
  BY <1>2, <1>3, <1>4 DEF DisconnectInternal

LEMMA PostedRun ==
    ASSUME IndInv, RunPosted \/ TimerFires
    PROVE  IndInv'
<1>0. TypeOK /\ state \in {"Disconnected", "DisconnectedWait", "Connecting", "Connected",
                           "Disconnecting"}
  BY DEF IndInv, TypeOK
<1>1. CASE RunPosted
  <2>1. posted # <<>> /\ posted \in Seq(Call)
    BY <1>0, <1>1 DEF RunPosted, TypeOK
  <2>2. Head(posted) \in Call /\ Tail(posted) \in Seq(Call)
    BY <2>1
  <2>3. posted' = Tail(posted) /\ UNCHANGED <<mode, renew, sessionConnect, requestVars>>
    BY <1>1 DEF RunPosted
  <2> DEFINE from == IF state = "DisconnectedWait" THEN "Disconnected" ELSE state
  <2>4. CASE ConnectInternal(Head(posted), from)
    <3>1. from \in {"Disconnected", "DisconnectedWait", "Connecting", "Connected",
                    "Disconnecting"}
      BY <1>0
    <3> HIDE DEF from
    <3>2. /\ state' \in {state, "DisconnectedWait", "Disconnected", "Connecting"}
          /\ secureChannel' \in Channel \cup {None}
          /\ channel' \in [Channel -> SecureChannel]
          /\ timer' \in BOOLEAN /\ wanted' \in BOOLEAN
          /\ call' \in [Call -> SessionTransaction]
          /\ sessionTransaction' \in Call \cup {None}
          /\ ChannelKnown'
      BY <2>2, <2>4, <3>1, ConnectTypes
    <3>3. TypeOK'
      BY <1>0, <2>2, <2>3, <3>2 DEF TypeOK, requestVars
    <3>4. QED
      BY <2>3, <3>2, <3>3, RequestsKept DEF requestVars
  <2>5. CASE DisconnectInternal(Head(posted)) /\ UNCHANGED secureChannel
    <3>1. TypeOK'
      BY <1>0, <2>2, <2>3, <2>5, DisconnectTypes DEF TypeOK, requestVars
    <3>2. QED
      BY <2>2, <2>3, <2>5, <3>1, DisconnectTypes, RequestsKept DEF requestVars
  <2>6. QED
    BY <1>1, <2>4, <2>5 DEF RunPosted
<1>2. CASE TimerFires
  <2>1. ConnectInternal(None, "Disconnected")
    BY <1>2 DEF TimerFires
  <2>2. UNCHANGED <<mode, renew, posted, sessionConnect, requestVars>>
    BY <1>2 DEF TimerFires
  <2>3. TypeOK' /\ ChannelKnown'
    BY <1>0, <2>1, <2>2, ConnectTypes DEF TypeOK, requestVars
  <2>4. QED
    BY <2>2, <2>3, RequestsKept DEF requestVars
<1>3. QED
  BY <1>1, <1>2

-----------------------------------------------------------------------------
(***************************************************************************)
(* The requests: each is answered when it leaves the pending queue, or at  *)
(* once when it does not get there.                                        *)
(***************************************************************************)
LEMMA Given ==
    ASSUME IndInv, NEW r \in Request, NEW discovery \in BOOLEAN, Receive(r, discovery)
    PROVE  IndInv'
<1> USE DEF IndInv
<1>1. /\ r = requestId + 1 /\ requestId' = r /\ requestId \in Nat
      /\ requestId' \in 0 .. MaxRequests
      /\ UNCHANGED <<channelVars, callVars>>
  BY ClientSessionAssumption DEF Receive, TypeOK, Request
<1>2. answers[r] = 0 /\ r \notin pendingQueue /\ answers \in [Request -> 0 .. 1]
  BY <1>1 DEF RequestsGiven, TypeOK
<1>3. ChannelKnown'
  BY <1>1 DEF ChannelKnown, channelVars
<1>4. CASE Answer(r) /\ UNCHANGED <<pendingQueue, wire>>
  <2>1. answers' = [answers EXCEPT ![r] = 1]
    BY <1>2, <1>4 DEF Answer
  <2>2. TypeOK'
    BY <1>1, <1>2, <1>4, <2>1 DEF TypeOK, channelVars, callVars
  <2>3. RequestsGiven'
    BY <1>1, <1>2, <1>4, <2>1, ConstantTypes DEF RequestsGiven, TypeOK, Request
  <2>4. AnsweredOnce'
    BY <1>1, <1>2, <1>4, <2>1 DEF AnsweredOnce, Request
  <2>5. QED
    BY <1>3, <2>2, <2>3, <2>4
<1>5. CASE /\ state = "Connected"
           /\ pendingQueue' = pendingQueue \cup {r}
           /\ wire' = wire \cup {<<secureChannel, r>>}
           /\ UNCHANGED answers
  <2>1. secureChannel \in Channel
    BY <1>5 DEF TypeOK, ChannelKnown
  <2>2. TypeOK'
    BY <1>1, <1>5, <2>1 DEF TypeOK, channelVars, callVars
  <2>3. RequestsGiven'
    BY <1>1, <1>5, ConstantTypes DEF RequestsGiven, TypeOK, Request
  <2>4. AnsweredOnce'
    BY <1>1, <1>2, <1>5 DEF AnsweredOnce, Request
  <2>5. QED
    BY <1>3, <2>2, <2>3, <2>4
<1>6. QED
  BY <1>4, <1>5 DEF Receive

LEMMA Answered ==
    ASSUME IndInv, NEW r \in Request,
           PendingQueueTimeout(r) \/ \E c \in Channel : ReceiveMessage(c, r)
    PROVE  IndInv'
<1> USE DEF IndInv
<1>1. /\ \/ r \in pendingQueue /\ Answer(r)
         \/ r \notin pendingQueue /\ UNCHANGED answers
      /\ pendingQueue' = pendingQueue \ {r} /\ wire' \subseteq wire
      /\ UNCHANGED <<channelVars, callVars, requestId>>
  BY DEF PendingQueueTimeout, ReceiveMessage
<1>2. ChannelKnown'
  BY <1>1 DEF ChannelKnown, channelVars
<1>3. /\ answers \in [Request -> 0 .. 1] /\ requestId \in Nat /\ pendingQueue \subseteq Request
      /\ \A q \in pendingQueue : q \in Nat /\ q >= 1 /\ q <= requestId
  BY ClientSessionAssumption DEF TypeOK, RequestsGiven, Request
<1>4. CASE r \in pendingQueue
  <2>1. answers[r] = 0 /\ r \in 1 .. requestId
    BY <1>3, <1>4 DEF AnsweredOnce
  <2>2. answers' = [answers EXCEPT ![r] = 1]
    BY <1>1, <1>4, <2>1 DEF Answer
  <2>3. TypeOK'
    BY <1>1, <1>3, <2>2 DEF TypeOK, channelVars, callVars
  <2>4. RequestsGiven'
    BY <1>1, <1>3, <2>1, <2>2 DEF RequestsGiven
  <2>5. AnsweredOnce'
    <3>1. 1 .. requestId \subseteq Request
      BY ClientSessionAssumption DEF TypeOK, Request
    <3>2. QED
      BY <1>1, <1>3, <2>1, <2>2, <3>1 DEF AnsweredOnce
  <2>6. QED
    BY <1>2, <2>3, <2>4, <2>5
<1>5. CASE r \notin pendingQueue
  <2>1. pendingQueue' = pendingQueue /\ answers' = answers
    BY <1>1, <1>5
  <2>2. TypeOK'
    BY <1>1, <2>1 DEF TypeOK, channelVars, callVars
  <2>3. QED
    BY <1>1, <1>2, <2>1, <2>2, RequestsKept
<1>6. QED
  BY <1>4, <1>5

-----------------------------------------------------------------------------
LEMMA InitIndInv ==
    Init => IndInv
<1> SUFFICES ASSUME Init PROVE IndInv
  OBVIOUS
<1>1. channel \in [Channel -> SecureChannel] /\ call \in [Call -> SessionTransaction]
  BY NewChannelType DEF Init, SessionTransaction
<1>2. requestId \in 0 .. MaxRequests /\ answers \in [Request -> 0 .. 1] /\ posted \in Seq(Call)
  BY ClientSessionAssumption DEF Init
<1>3. TypeOK
  BY <1>1, <1>2 DEF Init, TypeOK
<1>4. ChannelKnown
  BY DEF Init, ChannelKnown, NewChannel
<1>5. RequestsGiven /\ AnsweredOnce
  BY DEF Init, RequestsGiven, AnsweredOnce
<1>6. QED
  BY <1>3, <1>4, <1>5 DEF IndInv

LEMMA NextIndInv ==
    IndInv /\ [Next]_vars => IndInv'
<1> SUFFICES ASSUME IndInv, [Next]_vars PROVE IndInv'
  OBVIOUS
<1>1. ASSUME NEW k \in Call,
             \/ \E op \in {"connect", "disconnect"}, sync \in BOOLEAN : Post(k, op, sync)
             \/ Return(k)
      PROVE  IndInv'
  BY <1>1, Called
<1>2. CASE RunPosted \/ TimerFires \/ RenewSecurityToken
  BY <1>2, PostedRun, Renewed
<1>3. ASSUME NEW c \in Channel, ChannelStep(c) \/ ServerAnswers(c)
      PROVE  IndInv'
  BY <1>3, StepOfChannel, ServerAnswered
<1>4. ASSUME NEW c \in Channel, ChannelDisconnect(c)
      PROVE  IndInv'
  BY <1>4, ChannelEnds DEF ChannelDisconnect
<1>5. ASSUME NEW r \in Request, NEW discovery \in BOOLEAN, Receive(r, discovery)
      PROVE  IndInv'
  BY <1>5, Given
<1>6. ASSUME NEW r \in Request,
             PendingQueueTimeout(r) \/ \E c \in Channel : ReceiveMessage(c, r)
      PROVE  IndInv'
  BY <1>6, Answered
<1>7. CASE UNCHANGED vars
  <2>1. UNCHANGED <<channelVars, callVars, requestVars>>
    BY <1>7 DEF vars
  <2>2. TypeOK' /\ ChannelKnown'
    BY <2>1 DEF IndInv, TypeOK, ChannelKnown, channelVars, callVars, requestVars
  <2>3. QED
    BY <2>1, <2>2, RequestsKept DEF requestVars
<1>8. QED
  BY <1>1, <1>2, <1>3, <1>4, <1>5, <1>6, <1>7 DEF Next

LEMMA Invariance ==
    Spec => []IndInv
BY InitIndInv, NextIndInv, PTL DEF Spec

(***************************************************************************)
(* The type invariant: among it, that no request is answered twice, and    *)
(* that a request is written on a channel that there is.                   *)
(***************************************************************************)
THEOREM TypeCorrect ==
    Spec => []TypeOK
<1>1. IndInv => TypeOK
  BY DEF IndInv
<1>2. QED
  BY <1>1, Invariance, PTL

(***************************************************************************)
(* A request waits in the pending queue or has its one answer, whichever   *)
(* of the response, the timeout and the end of the connection is first.    *)
(***************************************************************************)
THEOREM RequestsAnsweredOnce ==
    Spec => []AnsweredOnce
<1>1. IndInv => AnsweredOnce
  BY DEF IndInv
<1>2. QED
  BY <1>1, Invariance, PTL

-----------------------------------------------------------------------------
(***************************************************************************)
(* One channel at a time.  ChannelInv said of two sets: the channels that  *)
(* are alive, and the states.                                              *)
(***************************************************************************)
LEMMA TimersExclusive ==
    ASSUME OneTimer, IndInv
    PROVE  ~(SessionReconnect /\ ReconnectTimeout)
BY DEF OneTimer, IndInv, TypeOK, SessionReconnect, ReconnectTimeout

LEMMA OnlyOne ==
    ASSUME ChannelInv
    PROVE  /\ \A c \in Channel : Alive(c) => c = secureChannel
           /\ \A c \in Channel : Alive(c) => channel[c].op \in {"resolve", "connect", "read", "timer"}
           /\ \A c \in Channel : ~Alive(c) => channel[c].session = "none"
           /\ state \in {"Connecting", "Connected", "Disconnecting"} =>
                secureChannel \in Channel /\ Alive(secureChannel)
           /\ state \in {"Disconnected", "DisconnectedWait"} =>
                (\A c \in Channel : ~Alive(c)) \/ ReconnectTimeout
<1>1. \A c \in Channel : channel[c].op \in
          {"none", "resolve", "connect", "read", "timer", "deleted"}
  <2>1. \A c \in Channel : channel[c] \in SecureChannel
    BY DEF ChannelInv, IndInv, TypeOK
  <2>2. QED
    BY <2>1 DEF SecureChannel
<1>2. QED
  BY <1>1 DEF ChannelInv, ChannelMatchesState, ChannelParts, Alive

(***************************************************************************)
(* A channel that ends leaves no other: the session disconnects with it.   *)
(***************************************************************************)
LEMMA ChannelEndsAlone ==
    ASSUME ChannelInv, OneTimer, IndInv', NEW c \in Channel, Alive(c),
           Reconnect(c) \/ (HandleDisconnect /\ Delete(c)),
           renew' = None \/ (channel[c].op # "read" /\ UNCHANGED renew),
           UNCHANGED <<mode, secureChannel>>
    PROVE  ChannelInv'
<1>1. TypeOK
  BY DEF ChannelInv, IndInv
<1>2. /\ HandleDisconnect
      /\ \A d \in Channel \ {c} : channel'[d] = channel[d]
      /\ channel'[c] = [NewChannel EXCEPT !.op = "deleted"]
         \/ (ReconnectTimeout /\ channel'[c] =
               [NewChannel EXCEPT !.op = "timer", !.state = "Reconnecting"])
  BY <1>1, ReconnectTypes
<1>3. /\ channel'[c].op = "deleted" \/ (ReconnectTimeout /\ channel'[c].op = "timer")
      /\ channel'[c].session = "none"
  BY <1>2 DEF NewChannel
<1>4. /\ c = secureChannel
      /\ \A d \in Channel \ {c} : ~Alive(d) /\ ~Alive(d)' /\ channel'[d].session = "none"
  BY <1>2, OnlyOne DEF Alive
<1>5. (SessionReconnect' <=> SessionReconnect) /\ (ReconnectTimeout' <=> ReconnectTimeout)
  BY DEF SessionReconnect, ReconnectTimeout
<1>6. /\ state' = IF SessionReconnect THEN "DisconnectedWait" ELSE "Disconnected"
      /\ timer' <=> SessionReconnect
      /\ sessionConnect' = FALSE
  BY <1>2 DEF HandleDisconnect, ChannelInv, ChannelParts
<1>7. renew' # None => renew' \in Channel \ {c} /\ renew' = renew /\ channel[renew].op = "read"
  BY <1>1 DEF ChannelInv, ChannelParts, TypeOK
<1>8. renew' = None
  BY <1>4, <1>7 DEF Alive
<1>9. ChannelMatchesState'
  BY <1>3, <1>4, <1>5, <1>6, <1>8 DEF ChannelMatchesState, Alive
<1>10. ChannelParts'
  <2>1. ReconnectTimeout => c = 1 /\ \A d \in Channel : d # 1 => channel'[d].op = "none"
    BY <1>2 DEF ChannelInv, ChannelParts, Alive
  <2>2. \A d \in Channel : channel'[d].session = "none"
    BY <1>3, <1>4
  <2>3. QED
    BY <2>1, <2>2, <1>5, <1>6, <1>8 DEF ChannelParts
<1>11. QED
  BY <1>9, <1>10 DEF ChannelInv

(***************************************************************************)
(* A channel that goes on is the one there is; when it makes the session   *)
(* connected, the timer of the session does not run.                       *)
(***************************************************************************)
LEMMA GoesOnAlone ==
    ASSUME ChannelInv, OneTimer, IndInv', NEW c \in Channel, Alive(c),
           \A d \in Channel \ {c} : channel'[d] = channel[d],
           channel'[c].op \in {"resolve", "connect", "read", "timer"},
           channel[c].op = "read" => channel'[c].op = "read",
           channel'[c].session # "none" =>
             channel'[c].op = "read" /\ (channel[c].session # "none" \/ state' = "Connected"),
           state' \in {state, "Connected"},
           renew' \in {renew, None} \/ (renew' = c /\ channel'[c].op = "read"),
           sessionConnect' = sessionConnect \/ channel[c].session # "none",
           UNCHANGED <<mode, secureChannel, timer>>
    PROVE  ChannelInv'
<1>1. TypeOK /\ IndInv
  BY DEF ChannelInv, IndInv
<1>2. /\ c = secureChannel /\ Alive(c)'
      /\ \A d \in Channel \ {c} : ~Alive(d) /\ ~Alive(d)' /\ channel'[d].session = "none"
  BY OnlyOne DEF Alive
<1>3. (SessionReconnect' <=> SessionReconnect) /\ (ReconnectTimeout' <=> ReconnectTimeout)
  BY DEF SessionReconnect, ReconnectTimeout
<1>4. timer' <=> state' = "DisconnectedWait"
  <2>1. state = "DisconnectedWait" => ReconnectTimeout
    BY OnlyOne
  <2>2. state # "DisconnectedWait"
    BY <2>1, <1>1, TimersExclusive DEF ChannelInv, ChannelMatchesState, ChannelParts
  <2>3. QED
    BY <2>2 DEF ChannelInv, ChannelMatchesState
<1>5. state' \in {"Disconnected", "DisconnectedWait"} => ReconnectTimeout
  BY OnlyOne
<1>6. renew' # None => renew' = c /\ channel'[c].op = "read"
  <2>1. renew # None => renew = c /\ channel[c].op = "read"
    BY <1>1, <1>2 DEF ChannelInv, ChannelParts, ChannelMatchesState, TypeOK, Alive
  <2>2. QED
    BY <2>1
<1>7. sessionConnect' => state' \in {"Connected", "Disconnecting"}
  BY DEF ChannelInv, ChannelMatchesState, ChannelParts
<1>8. ChannelMatchesState'
  BY <1>2, <1>3, <1>4, <1>5, <1>6, <1>7 DEF ChannelMatchesState, Alive
<1>9. ChannelParts'
  <2>1. timer' => SessionReconnect'
    BY <1>3 DEF ChannelInv, ChannelParts
  <2>2. \A d \in Channel : channel'[d].session # "none" =>
          channel'[d].op = "read" /\ state' \in {"Connected", "Disconnecting"}
    BY <1>2 DEF ChannelInv, ChannelParts
  <2>3. ReconnectTimeout => \A d \in Channel : d # 1 => channel'[d].op = "none"
    BY DEF ChannelInv, ChannelParts, Alive
  <2>4. QED
    BY <1>3, <1>6, <2>1, <2>2, <2>3 DEF ChannelParts
<1>10. QED
  BY <1>8, <1>9 DEF ChannelInv

LEMMA StepAlone ==
    ASSUME ChannelInv, OneTimer, IndInv', NEW c \in Channel,
           ChannelStep(c) \/ ServerAnswers(c) \/ ChannelDisconnect(c)
    PROVE  ChannelInv'
<1>0. TypeOK /\ channel \in [Channel -> SecureChannel] /\ channel[c] \in SecureChannel
  BY FieldTypes DEF ChannelInv, IndInv, TypeOK
<1>a. channel[c].session # "none" => channel[c].op = "read"
  BY DEF ChannelInv, ChannelParts
<1>1. ASSUME NEW ok \in BOOLEAN, ResolveComplete(c, ok)
      PROVE  ChannelInv'
  <2>1. channel[c].op = "resolve" /\ Alive(c) /\ UNCHANGED <<mode, secureChannel, renew>>
    BY <1>1 DEF ResolveComplete, Alive
  <2>2. CASE Reconnect(c)
    BY <2>1, <2>2, ChannelEndsAlone
  <2>3. CASE /\ channel' = [channel EXCEPT ![c].op = "connect", ![c].state = "Connecting"]
             /\ UNCHANGED <<state, timer, sessionConnect, call>>
    <3>1. /\ \A d \in Channel \ {c} : channel'[d] = channel[d]
          /\ channel'[c].op = "connect" /\ channel'[c].session = channel[c].session
      BY <1>0, <2>3 DEF SecureChannel
    <3>2. QED
      BY <1>a, <2>1, <2>3, <3>1, GoesOnAlone
  <2>4. QED
    BY <1>1, <2>2, <2>3 DEF ResolveComplete
<1>2. ASSUME NEW ok \in BOOLEAN, ConnectComplete(c, ok)
      PROVE  ChannelInv'
  <2>1. channel[c].op = "connect" /\ Alive(c) /\ UNCHANGED <<mode, secureChannel, renew>>
    BY <1>2 DEF ConnectComplete, Alive
  <2>2. CASE Reconnect(c)
    BY <2>1, <2>2, ChannelEndsAlone
  <2>3. CASE /\ channel' = [channel EXCEPT ![c].op = "read", ![c].state = "Hello",
                                           ![c].await = "ack"]
             /\ UNCHANGED <<state, timer, sessionConnect, call>>
    <3>1. /\ \A d \in Channel \ {c} : channel'[d] = channel[d]
          /\ channel'[c].op = "read" /\ channel'[c].session = channel[c].session
      BY <1>0, <2>3 DEF SecureChannel
    <3>2. QED
      BY <1>a, <2>1, <2>3, <3>1, GoesOnAlone
  <2>4. QED
    BY <1>2, <2>2, <2>3 DEF ConnectComplete
<1>3. CASE CloseRequestWritten(c)
  <2>1. /\ \A d \in Channel \ {c} : channel'[d] = channel[d]
        /\ channel'[c].op = channel[c].op /\ channel'[c].session = channel[c].session
    BY <1>0, <1>3 DEF SecureChannel, CloseRequestWritten
  <2>2. channel[c].op \in {"resolve", "connect", "read", "timer"} /\ Alive(c)
    BY <1>3, OnlyOne DEF CloseRequestWritten
  <2>3. QED
    BY <1>3, <1>a, <2>1, <2>2, GoesOnAlone DEF CloseRequestWritten
<1>4. CASE HandleReconnect(c)
  <2>1. /\ \A d \in Channel \ {c} : channel'[d] = channel[d]
        /\ channel'[c].op = "resolve" /\ channel'[c].session = channel[c].session
        /\ channel[c].op = "timer" /\ Alive(c)
    BY <1>0, <1>4 DEF SecureChannel, HandleReconnect, Alive
  <2>2. QED
    BY <1>4, <1>a, <2>1, GoesOnAlone DEF HandleReconnect
<1>5. CASE RecvAcknowledge(c)
  <2>1. /\ \A d \in Channel \ {c} : channel'[d] = channel[d]
        /\ channel'[c].op = "read" /\ channel'[c].session = channel[c].session /\ Alive(c)
    BY <1>0, <1>5 DEF SecureChannel, RecvAcknowledge, Reads, Alive
  <2>2. QED
    BY <1>5, <2>1, GoesOnAlone DEF RecvAcknowledge
<1>6. CASE RecvOpenSecureChannelResponse(c)
  <2>1. Alive(c) /\ renew' = c /\ UNCHANGED <<mode, secureChannel, timer, sessionConnect>>
    BY <1>6 DEF RecvOpenSecureChannelResponse, Reads, Alive
  <2>2. /\ \A d \in Channel \ {c} : channel'[d] = channel[d]
        /\ channel'[c].op = "read"
    BY <1>0, <1>6 DEF SecureChannel, RecvOpenSecureChannelResponse, Reads
  <2>3. \/ state' = "Connected"
        \/ state' = state /\ channel'[c].session = channel[c].session
    BY <1>0, <1>6 DEF SecureChannel, RecvOpenSecureChannelResponse
  <2>4. QED
    BY <2>1, <2>2, <2>3, GoesOnAlone
<1>7. CASE RecvCreateSessionResponse(c)
  <2>1. /\ \A d \in Channel \ {c} : channel'[d] = channel[d]
        /\ channel'[c].op = "read" /\ channel[c].session # "none" /\ Alive(c)
    BY <1>0, <1>7 DEF SecureChannel, RecvCreateSessionResponse, Reads, Alive
  <2>2. QED
    BY <1>7, <2>1, GoesOnAlone DEF RecvCreateSessionResponse
<1>8. CASE RecvActivateSessionResponse(c)
  <2>1. /\ \A d \in Channel \ {c} : channel'[d] = channel[d]
        /\ channel'[c].op = "read" /\ channel[c].session # "none" /\ Alive(c)
    BY <1>0, <1>8 DEF SecureChannel, RecvActivateSessionResponse, Reads, Alive
  <2>2. QED
    BY <1>8, <2>1, GoesOnAlone DEF RecvActivateSessionResponse
<1>9. CASE ChannelDisconnect(c)
  BY <1>9, ChannelEndsAlone DEF ChannelDisconnect, Alive
<1>10. QED
  BY <1>1, <1>2, <1>3, <1>4, <1>5, <1>6, <1>7, <1>8, <1>9 DEF ChannelStep, ServerAnswers

LEMMA RenewAlone ==
    ASSUME ChannelInv, OneTimer, IndInv', RenewSecurityToken
    PROVE  ChannelInv'
<1>1. /\ renew \in Channel /\ Alive(renew) /\ channel[renew].op = "read"
      /\ channel \in [Channel -> SecureChannel]
  BY DEF ChannelInv, IndInv, TypeOK, ChannelParts, RenewSecurityToken, Alive
<1>2. /\ \A d \in Channel \ {renew} : channel'[d] = channel[d]
      /\ channel'[renew].op = "read" /\ channel'[renew].session = channel[renew].session
  BY <1>1 DEF SecureChannel, RenewSecurityToken
<1>3. QED
  BY <1>1, <1>2, GoesOnAlone DEF RenewSecurityToken

(***************************************************************************)
(* A channel is made when there is none: from a state without a channel,   *)
(* or, while a channel reconnects, not at all.                             *)
(***************************************************************************)
LEMMA ConnectAlone ==
    ASSUME ChannelInv, OneTimer, IndInv', NEW k,
           NEW from, from = "Disconnected" => state \in {"Disconnected", "DisconnectedWait"},
           ConnectInternal(k, from), UNCHANGED <<mode, renew, sessionConnect>>
    PROVE  ChannelInv'
<1>0. TypeOK /\ channel \in [Channel -> SecureChannel]
  BY DEF ChannelInv, IndInv, TypeOK
<1>1. (SessionReconnect' <=> SessionReconnect) /\ (ReconnectTimeout' <=> ReconnectTimeout)
  BY DEF SessionReconnect, ReconnectTimeout
<1>2. CASE UNCHANGED <<state, secureChannel, channel, timer>>
  <2>1. ChannelMatchesState'
    BY <1>1, <1>2 DEF ChannelInv, ChannelMatchesState, Alive
  <2>2. ChannelParts'
    BY <1>1, <1>2 DEF ChannelInv, ChannelParts
  <2>3. QED
    BY <2>1, <2>2 DEF ChannelInv
<1>3. CASE /\ from = "Disconnected"
           /\ state' = IF SessionReconnect THEN "DisconnectedWait" ELSE "Disconnected"
           /\ timer' = SessionReconnect
           /\ UNCHANGED <<secureChannel, channel>>
  <2>1. /\ state \in {"Disconnected", "DisconnectedWait"} /\ ~sessionConnect
        /\ \A c \in Channel : channel[c].session = "none"
    BY <1>3 DEF ChannelInv, ChannelMatchesState, ChannelParts
  <2>2. ChannelMatchesState'
    BY <1>1, <1>3, <2>1 DEF ChannelInv, ChannelMatchesState, Alive
  <2>3. ChannelParts'
    BY <1>1, <1>3, <2>1 DEF ChannelInv, ChannelParts
  <2>4. QED
    BY <2>2, <2>3 DEF ChannelInv
<1>4. CASE from = "Disconnected" /\ NewSecureChannel(k)
  <2>1. PICK c \in Channel :
          /\ channel[c].op = "none"
          /\ ReconnectTimeout => c = 1
          /\ state' = "Connecting" /\ timer' = FALSE
          /\ secureChannel' = c
          /\ channel' = [channel EXCEPT ![c].op = "resolve"]
    BY <1>4 DEF NewSecureChannel
  <2>2. /\ state \in {"Disconnected", "DisconnectedWait"} /\ ~sessionConnect
        /\ \A d \in Channel : channel[d].session = "none"
    BY <1>4 DEF ChannelInv, ChannelMatchesState, ChannelParts
  <2>3. \A d \in Channel : ~Alive(d)
    <3>1. CASE ReconnectTimeout
      BY <2>1, <3>1 DEF ChannelInv, ChannelParts, Alive
    <3>2. CASE ~ReconnectTimeout
      BY <2>2, <3>2, OnlyOne
    <3>3. QED
      BY <3>1, <3>2
  <2>4. renew = None
    BY <1>0, <2>3 DEF ChannelInv, ChannelMatchesState, TypeOK
  <2>5. /\ \A d \in Channel \ {c} : channel'[d] = channel[d]
        /\ channel'[c].op = "resolve" /\ channel'[c].session = "none"
    BY <1>0, <2>1, <2>2 DEF SecureChannel
  <2>6. ChannelMatchesState'
    BY <1>1, <2>1, <2>2, <2>3, <2>4, <2>5 DEF ChannelMatchesState, Alive
  <2>7. ChannelParts'
    BY <1>1, <2>1, <2>2, <2>4, <2>5 DEF ChannelInv, ChannelParts
  <2>8. QED
    BY <2>6, <2>7 DEF ChannelInv
<1>5. QED
  BY <1>2, <1>3, <1>4 DEF ConnectInternal

LEMMA DisconnectAlone ==
    ASSUME ChannelInv, OneTimer, IndInv', NEW k, DisconnectInternal(k),
           UNCHANGED <<mode, renew, sessionConnect, secureChannel>>
    PROVE  ChannelInv'
<1>0. TypeOK /\ channel \in [Channel -> SecureChannel]
  BY DEF ChannelInv, IndInv, TypeOK
<1>1. (SessionReconnect' <=> SessionReconnect) /\ (ReconnectTimeout' <=> ReconnectTimeout)
  BY DEF SessionReconnect, ReconnectTimeout
<1>2. CASE UNCHANGED <<state, channel, timer>>
  <2>1. ChannelMatchesState'
    BY <1>1, <1>2 DEF ChannelInv, ChannelMatchesState, Alive
  <2>2. ChannelParts'
    BY <1>1, <1>2 DEF ChannelInv, ChannelParts
  <2>3. QED
    BY <2>1, <2>2 DEF ChannelInv
<1>3. CASE /\ state = "DisconnectedWait" /\ state' = "Disconnected" /\ timer' = FALSE
           /\ UNCHANGED channel
  <2>1. ChannelMatchesState'
    BY <1>1, <1>3 DEF ChannelInv, ChannelMatchesState, Alive
  <2>2. ChannelParts'
    BY <1>1, <1>3 DEF ChannelInv, ChannelParts
  <2>3. QED
    BY <2>1, <2>2 DEF ChannelInv
<1>4. CASE /\ state \in {"Connecting", "Connected"} /\ state' = "Disconnecting"
           /\ Disconnect(secureChannel) /\ UNCHANGED timer
  <2>1. secureChannel \in Channel
    BY <1>4, OnlyOne
  <2>2. \A d \in Channel : /\ channel'[d].op = channel[d].op
                           /\ channel'[d].session = channel[d].session
    <3> DEFINE sc == channel[secureChannel]
               closed == [sc EXCEPT !.state = "CloseSecureChannel"]
    <3>1. sc \in SecureChannel
      BY <1>0, <2>1
    <3>2. PICK new :
            /\ channel' = [channel EXCEPT ![secureChannel] = new]
            /\ \/ new = [closed EXCEPT !.closing = TRUE]
               \/ \E aborted \in BOOLEAN : new = [closed EXCEPT !.aborted = @ \/ aborted]
      BY <1>4 DEF Disconnect
    <3>3. new.op = sc.op /\ new.session = sc.session
      <4> HIDE DEF sc
      <4> QED
        BY <3>1, <3>2 DEF SecureChannel
    <3>4. QED
      BY <1>0, <2>1, <3>2, <3>3
  <2>3. \A d \in Channel : Alive(d)' <=> Alive(d)
    BY <2>2 DEF Alive
  <2>4. {d \in Channel : Alive(d)}' = {d \in Channel : Alive(d)}
    BY <2>3
  <2>5. renew # None => renew \in Channel
    BY <1>0 DEF TypeOK
  <2>6. ChannelMatchesState'
    BY <1>1, <1>4, <2>3, <2>4, <2>5 DEF ChannelInv, ChannelMatchesState
  <2>7. ChannelParts'
    BY <1>1, <1>4, <2>2, <2>5 DEF ChannelInv, ChannelParts
  <2>8. QED
    BY <2>6, <2>7 DEF ChannelInv
<1>5. QED
  BY <1>2, <1>3, <1>4 DEF DisconnectInternal

LEMMA InitChannelInv ==
    Init => ChannelInv
<1> SUFFICES ASSUME Init PROVE ChannelInv
  OBVIOUS
<1>1. \A c \in Channel : channel[c].op = "none" /\ channel[c].session = "none"
  BY DEF Init, NewChannel
<1>2. ChannelMatchesState
  BY <1>1 DEF Init, ChannelMatchesState, Alive
<1>3. ChannelParts
  BY <1>1 DEF Init, ChannelParts
<1>4. QED
  BY <1>2, <1>3, InitIndInv DEF ChannelInv

LEMMA NextChannelInv ==
    ASSUME OneTimer
    PROVE  ChannelInv /\ [Next]_vars => ChannelInv'
<1> SUFFICES ASSUME ChannelInv, [Next]_vars PROVE ChannelInv'
  OBVIOUS
<1>0. IndInv /\ IndInv'
  BY NextIndInv DEF ChannelInv
<1>1. ASSUME UNCHANGED channelVars
      PROVE  ChannelInv'
  <2>1. UNCHANGED <<mode, state, secureChannel, channel, timer, renew, sessionConnect>>
    BY <1>1 DEF channelVars
  <2>2. ChannelMatchesState' /\ ChannelParts'
    BY <2>1 DEF ChannelInv, ChannelMatchesState, ChannelParts, Alive, SessionReconnect,
                ReconnectTimeout
  <2>3. QED
    BY <1>0, <2>2 DEF ChannelInv
<1>2. ASSUME NEW k \in Call,
             \/ \E op \in {"connect", "disconnect"}, sync \in BOOLEAN : Post(k, op, sync)
             \/ Return(k)
      PROVE  ChannelInv'
  BY <1>1, <1>2 DEF Post, Return
<1>3. CASE RunPosted
  <2>1. UNCHANGED <<mode, renew, sessionConnect>>
    BY <1>3 DEF RunPosted
  <2>2. CASE ConnectInternal(Head(posted),
                             IF state = "DisconnectedWait" THEN "Disconnected" ELSE state)
    BY <1>0, <2>1, <2>2, ConnectAlone
  <2>3. CASE DisconnectInternal(Head(posted)) /\ UNCHANGED secureChannel
    BY <1>0, <2>1, <2>3, DisconnectAlone
  <2>4. QED
    BY <1>3, <2>2, <2>3 DEF RunPosted
<1>4. CASE TimerFires
  <2>1. ConnectInternal(None, "Disconnected") /\ UNCHANGED <<mode, renew, sessionConnect>>
    BY <1>4 DEF TimerFires
  <2>2. state = "DisconnectedWait"
    BY <1>4 DEF TimerFires, ChannelInv, ChannelMatchesState
  <2>3. QED
    BY <1>0, <2>1, <2>2, ConnectAlone
<1>5. CASE RenewSecurityToken
  BY <1>0, <1>5, RenewAlone
<1>6. ASSUME NEW c \in Channel, ChannelStep(c) \/ ServerAnswers(c) \/ ChannelDisconnect(c)
      PROVE  ChannelInv'
  BY <1>0, <1>6, StepAlone
<1>7. ASSUME NEW r \in Request,
             \/ \E discovery \in BOOLEAN : Receive(r, discovery)
             \/ \E c \in Channel : ReceiveMessage(c, r)
             \/ PendingQueueTimeout(r)
      PROVE  ChannelInv'
  BY <1>1, <1>7 DEF Receive, ReceiveMessage, PendingQueueTimeout
<1>8. CASE UNCHANGED vars
  BY <1>1, <1>8 DEF vars
<1>9. QED
  BY <1>2, <1>3, <1>4, <1>5, <1>6, <1>7, <1>8 DEF Next

(***************************************************************************)
(* Where the session and its channel do not both reconnect, there is one   *)
(* channel at a time, in exactly the states that say so, the session's     *)
(* timer runs exactly while it waits to connect again, and the renew timer *)
(* and the session end with the channel.                                   *)
(***************************************************************************)
THEOREM OneChannelAtATime ==
    ASSUME OneTimer
    PROVE  Spec => []ChannelMatchesState
<1>1. ChannelInv => ChannelMatchesState
  BY DEF ChannelInv
<1>2. ChannelInv /\ [Next]_vars => ChannelInv'
  BY NextChannelInv
<1>3. QED
  BY <1>1, <1>2, InitChannelInv, PTL DEF Spec
=============================================================================
