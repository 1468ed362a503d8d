------------------------ MODULE SessionManagerProofs ------------------------
(***************************************************************************)
(* Proofs about SessionManager, for every number of endpoints, channels,   *)
(* sessions and requests, with and without clients that ask to issue a     *)
(* channel twice.                                                          *)
(*                                                                         *)
(* IndInv adds to the properties how channel ids are handed out, and that  *)
(* a handle and its channel point to each other as long as the handle is   *)
(* in channelIdMap_.                                                       *)
(***************************************************************************)
EXTENDS SessionManager, FiniteSetTheorems, TLAPS

(***************************************************************************)
(* The ids handed out: the counter is their number, so that it stays in    *)
(* its bound, and every id in use is one of them.                          *)
(***************************************************************************)
Taken == {p \in Channel \X (1 .. 2) : p[2] <= channel[p[1]].issues}

IdsCounted ==
    /\ gChannelId = Cardinality(Taken)
    /\ \A c \in Channel : channel[c].id <= gChannelId
    /\ \A r \in requests : r.handle <= gChannelId

(***************************************************************************)
(* A channel has an id once it was issued, no two channels have the same,  *)
(* and only a connected channel has a handle.                              *)
(***************************************************************************)
ChannelsOK ==
    /\ \A c \in Channel : /\ channel[c].id = None <=> channel[c].issues = 0
                          /\ channel[c].state = "none" => channel[c].issues = 0
                          /\ channel[c].handle # None =>
                               channel[c].state = "connected" /\ channel[c].issues # 0
    /\ \A c, d \in Channel : channel[c].id = channel[d].id /\ channel[c].id # None => c = d

(***************************************************************************)
(* The handle of a channel is in the map and points back; the id of a      *)
(* channel is a key of the map only if it is the key of its own handle.    *)
(***************************************************************************)
ChannelsPointToHandles ==
    \A c \in Channel :
        /\ channel[c].handle # None =>
             /\ channel[c].handle \in channelIdMap
             /\ handle[channel[c].handle].channel = c
             /\ channel[c].issues = 1 => channel[c].handle = channel[c].id
        /\ channel[c].id \in channelIdMap =>
             /\ channel[c].issues = 1
             /\ channel[c].handle = channel[c].id

(***************************************************************************)
(* A handle outside the map has no channel; one in the map has a channel   *)
(* that has it too, unless the channel was issued twice.                   *)
(***************************************************************************)
HandlesPointToChannels ==
    \A h \in ChannelId :
        /\ h \notin channelIdMap => handle[h].channel = None
        /\ h \in channelIdMap =>
             /\ h <= gChannelId
             /\ handle[h].channel \in Channel
             /\ channel[handle[h].channel].issues # 0
             /\ ~IssuedTwice(handle[h].channel) => channel[handle[h].channel].handle = h

(***************************************************************************)
(* The handle a request keeps leads to the channel the request came on, or *)
(* to none.                                                                *)
(***************************************************************************)
RequestsPointBack ==
    \A r \in requests : handle[r.handle].channel \in {None, r.channel}

IndInv == /\ TypeOK /\ IdsCounted /\ ChannelsOK /\ ChannelsPointToHandles
          /\ HandlesPointToChannels /\ RequestsPointBack
          /\ AnswersReachTheirChannel /\ SessionOutlivesRequests

-----------------------------------------------------------------------------
(***************************************************************************)
(* Types: what TypeOK says of one channel, of one handle and of an id.     *)
(***************************************************************************)
LEMMA ConstantTypes ==
    /\ Endpoint \subseteq Nat /\ 1 \in Endpoint /\ EndpointCount \in Nat
    /\ ChannelId \subseteq Nat /\ None \notin ChannelId
    /\ Channel \subseteq Nat /\ None \notin Channel
    /\ SessionId \subseteq Nat /\ None \notin SessionId
BY SessionAssumption DEF Endpoint, ChannelId, Channel, SessionId, None

LEMMA FieldTypes ==
    ASSUME TypeOK
    PROVE  /\ \A c \in Channel :
                /\ channel[c].state \in {"none", "connected", "deleted"}
                /\ channel[c].endpoint \in Endpoint
                /\ channel[c].id \in ChannelId \cup {None}
                /\ channel[c].handle \in ChannelId \cup {None}
                /\ channel[c].issues \in 0 .. 2
                /\ channel[c].cancelled \in BOOLEAN
           /\ \A h \in ChannelId :
                /\ handle[h].channel \in Channel \cup {None}
                /\ handle[h].session \in SessionId \cup {None}
           /\ gChannelId \in Nat
           /\ \A r \in requests :
                r.session \in SessionId /\ r.handle \in ChannelId /\ r.channel \in Channel
<1>1. gChannelId \in Nat
  BY SessionAssumption DEF TypeOK, ChannelId, None
<1>2. QED
  BY <1>1 DEF TypeOK, Request, SecureChannel, ChannelSessionHandle

(***************************************************************************)
(* A channel that takes an id counts: the counter is again the number of   *)
(* ids taken, and at most two for each channel.                            *)
(***************************************************************************)
LEMMA TakenBound ==
    ASSUME NEW T, T \subseteq Channel \X (1 .. 2)
    PROVE  /\ IsFiniteSet(T)
           /\ Cardinality(T) \in 0 .. 2 * MaxChannels
<1>1. MaxChannels \in Nat
  BY SessionAssumption
<1>2. IsFiniteSet(Channel) /\ Cardinality(Channel) = MaxChannels
  BY <1>1, FS_Interval DEF Channel
<1>3. IsFiniteSet(1 .. 2) /\ Cardinality(1 .. 2) = 2
  <2>1. \A n \in Nat : IsFiniteSet(1 .. n) /\ Cardinality(1 .. n) = n
    BY FS_Interval
  <2>2. QED
    BY <2>1
<1>4. /\ IsFiniteSet(Channel \X (1 .. 2))
      /\ Cardinality(Channel \X (1 .. 2)) = MaxChannels * 2
  BY <1>2, <1>3, FS_Product
<1>5. IsFiniteSet(T) /\ Cardinality(T) <= MaxChannels * 2
  BY <1>4, FS_Subset
<1>6. Cardinality(T) \in Nat
  BY <1>5, FS_CardinalityType
<1>7. QED
  BY <1>1, <1>5, <1>6

LEMMA TakeId ==
    ASSUME TypeOK, gChannelId = Cardinality(Taken), NEW c \in Channel,
           channel[c].issues < 2,
           \A d \in Channel : channel'[d].issues =
               IF d = c THEN channel[c].issues + 1 ELSE channel[d].issues
    PROVE  gChannelId + 1 = Cardinality(Taken') /\ gChannelId + 1 \in ChannelId
<1> DEFINE p == <<c, channel[c].issues + 1>>
<1>1. channel[c].issues \in 0 .. 1 /\ p \in Channel \X (1 .. 2)
  BY FieldTypes
<1>2. p \notin Taken
  BY <1>1 DEF Taken
<1>3. ASSUME NEW q \in Channel \X (1 .. 2)
      PROVE  q \in Taken' <=> q \in Taken \cup {p}
  <2>1. PICK d \in Channel, n \in 1 .. 2 : q = <<d, n>>
    BY <1>3
  <2>2. CASE d = c
    BY <2>1, <2>2, <1>1 DEF Taken
  <2>3. CASE d # c
    BY <2>1, <2>3, <1>1 DEF Taken
  <2>4. QED
    BY <2>2, <2>3
<1>4. Taken' = Taken \cup {p}
  BY <1>1, <1>3 DEF Taken
<1>5. Taken \subseteq Channel \X (1 .. 2) /\ Taken' \subseteq Channel \X (1 .. 2)
  BY DEF Taken
<1>6. /\ IsFiniteSet(Taken) /\ Cardinality(Taken) \in 0 .. 2 * MaxChannels
      /\ Cardinality(Taken') \in 0 .. 2 * MaxChannels
  BY <1>5, TakenBound
<1>7. Cardinality(Taken') = Cardinality(Taken) + 1
  BY <1>2, <1>4, <1>6, FS_AddElement
<1>8. QED
  BY <1>6, <1>7, SessionAssumption DEF ChannelId

-----------------------------------------------------------------------------
(***************************************************************************)
(* The endpoints and the thread in shutdown tell channels to close; they   *)
(* leave ids, handles and requests alone.                                  *)
(***************************************************************************)
LEMMA LinksKept ==
    ASSUME IndInv, TypeOK',
           \A c \in Channel : /\ channel'[c].id = channel[c].id
                              /\ channel'[c].handle = channel[c].handle
                              /\ channel'[c].issues = channel[c].issues
                              /\ \/ channel'[c].state = channel[c].state
                                 \/ channel'[c].state = "connected" /\ channel[c].state = "none",
           UNCHANGED <<gChannelId, channelIdMap, handle, requests, astray, ended>>
    PROVE  IndInv'
<1>1. Taken' = Taken
  BY DEF Taken
<1>2. IdsCounted'
  BY <1>1 DEF IndInv, IdsCounted
<1>3. ChannelsOK'
  BY DEF IndInv, ChannelsOK
<1>4. ChannelsPointToHandles'
  BY DEF IndInv, ChannelsPointToHandles
<1>5. HandlesPointToChannels'
  BY DEF IndInv, HandlesPointToChannels, IssuedTwice
<1>6. AnswersReachTheirChannel'
  BY DEF IndInv, TypeOK, AnswersReachTheirChannel, IssuedTwice
<1>7. RequestsPointBack' /\ SessionOutlivesRequests'
  BY DEF IndInv, RequestsPointBack, SessionOutlivesRequests, Alive
<1>8. QED
  BY <1>2, <1>3, <1>4, <1>5, <1>6, <1>7 DEF IndInv

LEMMA CancelTypes ==
    ASSUME TypeOK, NEW S,
           channel' = [c \in Channel |-> IF c \in S THEN [channel[c] EXCEPT !.cancelled = TRUE]
                                        ELSE channel[c]]
    PROVE  /\ channel' \in [Channel -> SecureChannel]
           /\ \A c \in Channel : /\ channel'[c].id = channel[c].id
                                 /\ channel'[c].handle = channel[c].handle
                                 /\ channel'[c].issues = channel[c].issues
                                 /\ channel'[c].state = channel[c].state
<1>1. ASSUME NEW c \in Channel
      PROVE  /\ [channel[c] EXCEPT !.cancelled = TRUE] \in SecureChannel
             /\ channel'[c].id = channel[c].id
             /\ channel'[c].handle = channel[c].handle
             /\ channel'[c].issues = channel[c].issues
             /\ channel'[c].state = channel[c].state
  <2>1. channel[c] \in SecureChannel
    BY DEF TypeOK
  <2>2. QED
    BY <2>1 DEF SecureChannel
<1>2. QED
  BY <1>1 DEF TypeOK

LEMMA AcceptLoop ==
    ASSUME IndInv, NEW e \in Endpoint,
           ResolveComplete(e) \/ ClientConnects(e) \/ AcceptComplete(e)
             \/ AcceptError(e) \/ ResolveError(e)
    PROVE  IndInv'
<1> USE DEF IndInv
<1>1. ASSUME NEW op \in {"resolving", "accepting", "accepted", "aborted", "closed"},
             NEW b \in BOOLEAN
      PROVE  /\ [acceptor EXCEPT ![e].op = op, ![e].open = b] \in [Endpoint -> Acceptor]
             /\ [acceptor EXCEPT ![e].op = op] \in [Endpoint -> Acceptor]
  <2>1. acceptor \in [Endpoint -> Acceptor]
    BY DEF TypeOK
  <2>2. QED
    BY <2>1 DEF Acceptor
<1>2. CASE ResolveComplete(e)
  <2>1. TypeOK'
    BY <1>1, <1>2 DEF TypeOK, ResolveComplete, sessionVars
  <2>2. QED
    BY <1>2, <2>1, LinksKept DEF ResolveComplete, TypeOK
<1>3. CASE ClientConnects(e)
  <2>1. TypeOK'
    BY <1>1, <1>3 DEF TypeOK, ClientConnects, sessionVars
  <2>2. QED
    BY <1>3, <2>1, LinksKept DEF ClientConnects
<1>4. CASE AcceptComplete(e)
  <2>1. PICK c \in Channel :
          /\ channel[c].state = "none"
          /\ channel' = [channel EXCEPT ![c].state = "connected", ![c].endpoint = e]
    BY <1>4 DEF AcceptComplete
  <2>0. channel \in [Channel -> SecureChannel]
    BY DEF TypeOK
  <2>2. channel' \in [Channel -> SecureChannel]
    <3> DEFINE r == [channel[c] EXCEPT !.state = "connected", !.endpoint = e]
    <3>1. r \in SecureChannel
      BY <2>0 DEF SecureChannel
    <3>2. channel' = [channel EXCEPT ![c] = r]
      BY <2>0, <2>1
    <3> HIDE DEF r
    <3>3. QED
      BY <2>0, <3>1, <3>2
  <2>3. TypeOK'
    BY <1>1, <1>4, <2>2 DEF TypeOK, AcceptComplete, sessionVars
  <2>4. \A d \in Channel : /\ channel'[d].id = channel[d].id
                           /\ channel'[d].handle = channel[d].handle
                           /\ channel'[d].issues = channel[d].issues
                           /\ \/ channel'[d].state = channel[d].state
                              \/ channel'[d].state = "connected" /\ channel[d].state = "none"
    BY <2>0, <2>1 DEF SecureChannel
  <2>5. QED
    BY <1>4, <2>3, <2>4, LinksKept DEF AcceptComplete
<1>5. CASE AcceptError(e) \/ ResolveError(e)
  <2>1. /\ acceptor' = [acceptor EXCEPT ![e].op = "closed", ![e].open = FALSE]
        /\ HandleEndpointClose(e)
        /\ UNCHANGED <<gChannelId, channelIdMap, handle, sessionVars, requests, astray, ended>>
    BY <1>5 DEF AcceptError, ResolveError
  <2> DEFINE told == {c \in Channel : /\ shutdown.at <= EndpointCount
                                      /\ c \in RegisteredChannels /\ channel[c].endpoint = e}
  <2>2. channel' = [c \in Channel |-> IF c \in told THEN [channel[c] EXCEPT !.cancelled = TRUE]
                                     ELSE channel[c]]
    BY <2>1 DEF HandleEndpointClose
  <2>3. shutdown' \in [at: 0 .. EndpointCount + 1, ready: BOOLEAN]
    BY <2>1 DEF HandleEndpointClose, TypeOK
  <2>4. /\ channel' \in [Channel -> SecureChannel]
        /\ \A c \in Channel : /\ channel'[c].id = channel[c].id
                              /\ channel'[c].handle = channel[c].handle
                              /\ channel'[c].issues = channel[c].issues
                              /\ channel'[c].state = channel[c].state
    <3> HIDE DEF told
    <3> QED
      BY <2>2, CancelTypes
  <2>5. TypeOK'
    BY <1>1, <2>1, <2>3, <2>4 DEF TypeOK, sessionVars
  <2>6. QED
    BY <2>1, <2>4, <2>5, LinksKept
<1>6. QED
  BY <1>2, <1>3, <1>4, <1>5

(***************************************************************************)
(* The next id is nobody's: not a channel's, not a request's, not in the   *)
(* map.                                                                    *)
(***************************************************************************)
LEMMA FreshId ==
    ASSUME IndInv, NEW n, n = gChannelId + 1
    PROVE  /\ gChannelId \in Nat /\ n \in Nat /\ n > gChannelId /\ n # None
           /\ \A d \in Channel : channel[d].id \in Nat /\ channel[d].id <= n /\ channel[d].id # n
           /\ \A r \in requests : r.handle \in ChannelId /\ r.handle <= n /\ r.handle # n
           /\ \A h \in channelIdMap : h \in ChannelId /\ h <= n /\ h # n
<1> USE DEF IndInv
<1>1. gChannelId \in Nat /\ n \in Nat /\ n > gChannelId /\ n # None
  BY FieldTypes DEF None
<1>2. ASSUME NEW x \in ChannelId \cup {None}, x <= gChannelId
      PROVE  x \in Nat /\ x <= n /\ x # n
  <2>1. x \in Nat
    BY SessionAssumption DEF ChannelId, None
  <2>2. QED
    BY <1>1, <1>2, <2>1
<1>3. ASSUME NEW d \in Channel
      PROVE  channel[d].id \in Nat /\ channel[d].id <= n /\ channel[d].id # n
  BY <1>2, FieldTypes DEF IdsCounted
<1>4. ASSUME NEW r \in requests
      PROVE  r.handle \in ChannelId /\ r.handle <= n /\ r.handle # n
  BY <1>2, FieldTypes DEF IdsCounted
<1>5. ASSUME NEW h \in channelIdMap
      PROVE  h \in ChannelId /\ h <= n /\ h # n
  BY <1>2 DEF HandlesPointToChannels, TypeOK
<1>6. QED
  BY <1>1, <1>3, <1>4, <1>5

-----------------------------------------------------------------------------
(***************************************************************************)
(* A channel that is opened takes an id nobody has, so that the handle     *)
(* made for it is nobody else's.                                           *)
(***************************************************************************)
LEMMA Open ==
    ASSUME IndInv, NEW c \in Channel, OpenSecureChannel(c)
    PROVE  IndInv'
<1> USE DEF IndInv
<1> DEFINE n == gChannelId + 1
           registered == shutdown.at <= EndpointCount
<1>0. /\ channel \in [Channel -> SecureChannel]
      /\ handle \in [ChannelId -> ChannelSessionHandle]
  BY DEF TypeOK
<1>1. /\ gChannelId' = n /\ channel[c].state = "connected" /\ channel[c].id = None
      /\ channel[c].issues = 0 /\ channel[c].handle = None
      /\ UNCHANGED <<acceptor, sessionVars, requests, shutdown, astray, ended>>
  BY DEF OpenSecureChannel, ChannelsOK
<1>2. /\ registered => channel' = [channel EXCEPT ![c].id = n, ![c].issues = 1, ![c].handle = n]
      /\ ~registered => channel' = [channel EXCEPT ![c].id = n, ![c].issues = 1]
  BY <1>1 DEF OpenSecureChannel
<1>3. /\ registered => /\ handle' = [handle EXCEPT ![n] = [channel |-> c, session |-> None]]
                       /\ channelIdMap' = channelIdMap \cup {n}
      /\ ~registered => UNCHANGED <<handle, channelIdMap>>
  BY <1>1 DEF OpenSecureChannel
<1>4. /\ \A d \in Channel \ {c} : channel'[d] = channel[d]
      /\ channel'[c].id = n /\ channel'[c].issues = 1 /\ channel'[c].state = "connected"
      /\ channel'[c].handle = IF registered THEN n ELSE None
  <2> HIDE DEF n, registered
  <2>1. CASE registered
    BY <2>1, <1>0, <1>1, <1>2 DEF SecureChannel
  <2>2. CASE ~registered
    BY <2>2, <1>0, <1>1, <1>2 DEF SecureChannel
  <2>3. QED
    BY <2>1, <2>2
<1>5. n = Cardinality(Taken') /\ n \in ChannelId
  BY <1>1, <1>4, TakeId DEF IdsCounted
<1>6. TypeOK'
  <2> HIDE DEF n, registered
  <2>1. channel' \in [Channel -> SecureChannel]
    <3>1. CASE registered
      BY <3>1, <1>0, <1>2, <1>5 DEF SecureChannel
    <3>2. CASE ~registered
      BY <3>2, <1>0, <1>2, <1>5 DEF SecureChannel
    <3>3. QED
      BY <3>1, <3>2
  <2>2. handle' \in [ChannelId -> ChannelSessionHandle]
    BY <1>0, <1>3, <1>5 DEF ChannelSessionHandle
  <2>3. channelIdMap' \subseteq ChannelId
    BY <1>3, <1>5 DEF TypeOK
  <2>4. QED
    BY <2>1, <2>2, <2>3, <1>1, <1>5 DEF TypeOK, sessionVars
<1>7. /\ gChannelId \in Nat /\ n \in Nat /\ n > gChannelId /\ n # None
      /\ \A d \in Channel : channel[d].id \in Nat /\ channel[d].id <= n /\ channel[d].id # n
      /\ \A r \in requests : r.handle \in ChannelId /\ r.handle <= n /\ r.handle # n
      /\ \A h \in channelIdMap : h \in ChannelId /\ h <= n /\ h # n
  BY FreshId
<1> HIDE DEF n, registered
<1>8. /\ handle'[n].channel = IF registered THEN c ELSE handle[n].channel
      /\ \A h \in ChannelId \ {n} : handle'[h] = handle[h]
      /\ \A h \in ChannelId : h \in channelIdMap' <=> h \in channelIdMap \/ (registered /\ h = n)
  BY <1>0, <1>3, <1>5
<1>9. IdsCounted'
  <2>1. \A d \in Channel : channel'[d].id <= n
    BY <1>4, <1>7
  <2>2. \A r \in requests : r.handle <= n
    BY <1>7
  <2>3. QED
    BY <2>1, <2>2, <1>1, <1>5 DEF IdsCounted
<1>10. ChannelsOK'
  BY <1>4, <1>7 DEF ChannelsOK, None
<1>11. ChannelsPointToHandles'
  <2> SUFFICES ASSUME NEW d \in Channel
               PROVE  /\ channel'[d].handle # None =>
                           /\ channel'[d].handle \in channelIdMap'
                           /\ handle'[channel'[d].handle].channel = d
                           /\ channel'[d].issues = 1 => channel'[d].handle = channel'[d].id
                      /\ channel'[d].id \in channelIdMap' =>
                           /\ channel'[d].issues = 1
                           /\ channel'[d].handle = channel'[d].id
    BY DEF ChannelsPointToHandles
  <2>1. CASE d = c
    BY <2>1, <1>4, <1>5, <1>7, <1>8
  <2>2. CASE d # c
    <3>1. channel[d].handle # None => channel[d].handle \in ChannelId \ {n}
      BY <1>7 DEF ChannelsPointToHandles
    <3>2. channel[d].id \in ChannelId \cup {None} /\ None \notin channelIdMap'
      BY FieldTypes, <1>6, ConstantTypes DEF TypeOK
    <3>3. QED
      BY <2>2, <3>1, <3>2, <1>4, <1>7, <1>8 DEF ChannelsPointToHandles
  <2>3. QED
    BY <2>1, <2>2
<1>12. HandlesPointToChannels'
  <2> SUFFICES ASSUME NEW h \in ChannelId
               PROVE  /\ h \notin channelIdMap' => handle'[h].channel = None
                      /\ h \in channelIdMap' =>
                           /\ h <= n
                           /\ handle'[h].channel \in Channel
                           /\ channel'[handle'[h].channel].issues # 0
                           /\ channel'[handle'[h].channel].issues # 2 =>
                                channel'[handle'[h].channel].handle = h
    BY <1>1 DEF HandlesPointToChannels, IssuedTwice
  <2>1. CASE h = n
    <3>1. CASE registered
      BY <2>1, <3>1, <1>4, <1>7, <1>8
    <3>2. CASE ~registered
      BY <2>1, <3>2, <1>7, <1>8 DEF HandlesPointToChannels
    <3>3. QED
      BY <3>1, <3>2
  <2>2. CASE h # n
    <3>1. h \in channelIdMap => handle[h].channel \in Channel \ {c}
      BY <1>1 DEF HandlesPointToChannels
    <3>2. h \in channelIdMap => h <= n
      BY <1>7
    <3>3. handle'[h] = handle[h] /\ (h \in channelIdMap' <=> h \in channelIdMap)
      BY <2>2, <1>8
    <3>4. CASE h \in channelIdMap
      BY <3>1, <3>2, <3>3, <3>4, <1>4 DEF HandlesPointToChannels, IssuedTwice
    <3>5. CASE h \notin channelIdMap
      BY <3>3, <3>5 DEF HandlesPointToChannels
    <3>6. QED
      BY <3>4, <3>5
  <2>3. QED
    BY <2>1, <2>2
<1>13. RequestsPointBack' /\ SessionOutlivesRequests'
  BY <1>1, <1>7, <1>8 DEF RequestsPointBack, SessionOutlivesRequests, Alive
<1>14. AnswersReachTheirChannel'
  BY <1>1, <1>4 DEF AnswersReachTheirChannel, IssuedTwice, TypeOK
<1>15. QED
  BY <1>6, <1>9, <1>10, <1>11, <1>12, <1>13, <1>14

(***************************************************************************)
(* A channel issued twice has an id that is not the one of its handle.     *)
(***************************************************************************)
LEMMA Reopen ==
    ASSUME IndInv, NEW c \in Channel, ReissueSecureChannel(c)
    PROVE  IndInv'
<1> USE DEF IndInv
<1> DEFINE n == gChannelId + 1
<1>0. channel \in [Channel -> SecureChannel]
  BY DEF TypeOK
<1>1. /\ gChannelId' = n /\ channel[c].state = "connected" /\ channel[c].issues = 1
      /\ channel' = [channel EXCEPT ![c].id = n, ![c].issues = 2, ![c].cancelled = TRUE]
      /\ UNCHANGED <<acceptor, channelIdMap, handle, sessionVars, requests, shutdown,
                     astray, ended>>
  BY DEF ReissueSecureChannel
<1>2. /\ \A d \in Channel \ {c} : channel'[d] = channel[d]
      /\ channel'[c].id = n /\ channel'[c].issues = 2 /\ channel'[c].state = "connected"
      /\ channel'[c].handle = channel[c].handle
  <2> HIDE DEF n
  <2> QED
    BY <1>0, <1>1 DEF SecureChannel
<1>3. n = Cardinality(Taken') /\ n \in ChannelId
  <2>1. channel[c].issues = 1 /\ channel[c].issues < 2
    BY <1>1
  <2>2. \A d \in Channel : channel'[d].issues =
          IF d = c THEN channel[c].issues + 1 ELSE channel[d].issues
    BY <2>1, <1>2
  <2>3. QED
    BY <2>1, <2>2, TakeId DEF IdsCounted
<1>4. TypeOK'
  <2> HIDE DEF n
  <2>1. channel' \in [Channel -> SecureChannel]
    BY <1>0, <1>1, <1>3 DEF SecureChannel
  <2>2. QED
    BY <2>1, <1>1, <1>3 DEF TypeOK, sessionVars
<1>5. /\ gChannelId \in Nat /\ n \in Nat /\ n > gChannelId /\ n # None
      /\ \A d \in Channel : channel[d].id \in Nat /\ channel[d].id <= n /\ channel[d].id # n
      /\ \A r \in requests : r.handle \in ChannelId /\ r.handle <= n /\ r.handle # n
      /\ \A h \in channelIdMap : h \in ChannelId /\ h <= n /\ h # n
  BY FreshId
<1> HIDE DEF n
<1>6. IdsCounted'
  <2>1. \A d \in Channel : channel'[d].id <= n
    BY <1>2, <1>5
  <2>2. \A r \in requests : r.handle <= n
    BY <1>5
  <2>3. QED
    BY <2>1, <2>2, <1>1, <1>3 DEF IdsCounted
<1>7. ChannelsOK'
  <2>1. ASSUME NEW d \in Channel
        PROVE  /\ channel'[d].id = None <=> channel'[d].issues = 0
               /\ channel'[d].state = "none" => channel'[d].issues = 0
               /\ channel'[d].handle # None =>
                    channel'[d].state = "connected" /\ channel'[d].issues # 0
    BY <1>2, <1>5 DEF ChannelsOK
  <2>2. ASSUME NEW d \in Channel, NEW x \in Channel,
               channel'[d].id = channel'[x].id, channel'[d].id # None
        PROVE  d = x
    BY <2>2, <1>2, <1>5 DEF ChannelsOK
  <2>3. QED
    BY <2>1, <2>2 DEF ChannelsOK
<1>8. ChannelsPointToHandles'
  <2> SUFFICES ASSUME NEW d \in Channel
               PROVE  /\ channel'[d].handle # None =>
                           /\ channel'[d].handle \in channelIdMap
                           /\ handle[channel'[d].handle].channel = d
                           /\ channel'[d].issues = 1 => channel'[d].handle = channel'[d].id
                      /\ channel'[d].id \in channelIdMap =>
                           /\ channel'[d].issues = 1
                           /\ channel'[d].handle = channel'[d].id
    BY <1>1, ZenonT(60) DEF ChannelsPointToHandles
  <2>1. CASE d = c
    BY <2>1, <1>2, <1>5 DEF ChannelsPointToHandles
  <2>2. CASE d # c
    BY <2>2, <1>2 DEF ChannelsPointToHandles
  <2>3. QED
    BY <2>1, <2>2
<1>9. HandlesPointToChannels'
  <2> SUFFICES ASSUME NEW h \in ChannelId
               PROVE  /\ h \notin channelIdMap => handle[h].channel = None
                      /\ h \in channelIdMap =>
                           /\ h <= n
                           /\ handle[h].channel \in Channel
                           /\ channel'[handle[h].channel].issues # 0
                           /\ channel'[handle[h].channel].issues # 2 =>
                                channel'[handle[h].channel].handle = h
    BY <1>1 DEF HandlesPointToChannels, IssuedTwice
  <2>1. h \in channelIdMap => h <= n
    BY <1>5
  <2>2. h \in channelIdMap =>
          /\ handle[h].channel \in Channel
          /\ handle[h].channel # c => channel'[handle[h].channel] = channel[handle[h].channel]
    BY <1>2 DEF HandlesPointToChannels
  <2>3. QED
    BY <2>1, <2>2, <1>2 DEF HandlesPointToChannels, IssuedTwice
<1>10. RequestsPointBack' /\ SessionOutlivesRequests'
  BY <1>1 DEF RequestsPointBack, SessionOutlivesRequests, Alive
<1>11. AnswersReachTheirChannel'
  BY <1>1, <1>2 DEF AnswersReachTheirChannel, IssuedTwice, TypeOK
<1>12. QED
  BY <1>4, <1>6, <1>7, <1>8, <1>9, <1>10, <1>11

(***************************************************************************)
(* The end of a connection takes the handle out of the map, unless the     *)
(* channel has taken another id since.                                     *)
(***************************************************************************)
LEMMA Disconnected ==
    ASSUME IndInv, NEW c \in Channel, HandleDisconnect(c)
    PROVE  IndInv'
<1> USE DEF IndInv
<1> DEFINE i == channel[c].id
           listed == i \in channelIdMap
<1>0. /\ channel \in [Channel -> SecureChannel]
      /\ handle \in [ChannelId -> ChannelSessionHandle]
      /\ channelIdMap \subseteq ChannelId
  BY DEF TypeOK
<1>1. /\ channel[c].state = "connected"
      /\ channel' = [channel EXCEPT ![c].state = "deleted", ![c].handle = None]
      /\ handle' = IF listed THEN [handle EXCEPT ![i].channel = None] ELSE handle
      /\ channelIdMap' = channelIdMap \ {i}
      /\ UNCHANGED <<acceptor, gChannelId, sessionVars, requests, astray, ended>>
  BY DEF HandleDisconnect, DeleteSecureChannel
<1>2. /\ \A d \in Channel \ {c} : channel'[d] = channel[d]
      /\ channel'[c].id = i /\ channel'[c].issues = channel[c].issues
      /\ channel'[c].state = "deleted" /\ channel'[c].handle = None
  BY <1>0, <1>1 DEF SecureChannel
<1> HIDE DEF i, listed
<1>3. /\ \A h \in ChannelId \ {i} : handle'[h] = handle[h]
      /\ \A h \in ChannelId : handle'[h].session = handle[h].session
      /\ listed => handle'[i].channel = None
      /\ ~listed => handle' = handle /\ channelIdMap' = channelIdMap
  BY <1>0, <1>1 DEF ChannelSessionHandle, listed
<1>4. TypeOK'
  <2>1. channel' \in [Channel -> SecureChannel]
    <3>1. channel[c] \in SecureChannel
      BY <1>0
    <3>2. [channel[c] EXCEPT !.state = "deleted", !.handle = None] \in SecureChannel
      BY <3>1 DEF SecureChannel
    <3>3. QED
      BY <1>0, <1>1, <3>2
  <2>2. handle' \in [ChannelId -> ChannelSessionHandle]
    BY <1>0, <1>1 DEF ChannelSessionHandle
  <2>3. shutdown' \in [at: 0 .. EndpointCount + 1, ready: BOOLEAN]
    BY DEF HandleDisconnect, TypeOK
  <2>4. QED
    BY <2>1, <2>2, <2>3, <1>1 DEF TypeOK, sessionVars
<1>5. IdsCounted'
  <2>1. \A d \in Channel : channel'[d].issues = channel[d].issues
    BY <1>2
  <2>2. Taken' = Taken
    BY <2>1 DEF Taken
  <2>3. QED
    BY <2>2, <1>1, <1>2 DEF IdsCounted, i
<1>6. ChannelsOK'
  <2>1. \A d \in Channel : /\ channel'[d].id = channel[d].id
                           /\ channel'[d].issues = channel[d].issues
    BY <1>2 DEF i
  <2>2. QED
    BY <2>1, <1>2 DEF ChannelsOK
<1>7. ChannelsPointToHandles'
  <2> SUFFICES ASSUME NEW d \in Channel
               PROVE  /\ channel'[d].handle # None =>
                           /\ channel'[d].handle \in channelIdMap'
                           /\ handle'[channel'[d].handle].channel = d
                           /\ channel'[d].issues = 1 => channel'[d].handle = channel'[d].id
                      /\ channel'[d].id \in channelIdMap' =>
                           /\ channel'[d].issues = 1
                           /\ channel'[d].handle = channel'[d].id
    BY DEF ChannelsPointToHandles
  <2>1. CASE d = c
    BY <2>1, <1>1, <1>2
  <2>2. CASE d # c
    <3>1. channel[d].handle # None => channel[d].handle \in channelIdMap \ {i}
      <4>1. listed => handle[i].channel = c
        BY <1>0, ConstantTypes DEF ChannelsPointToHandles, listed, i
      <4>2. QED
        BY <4>1, <2>2 DEF ChannelsPointToHandles, listed
    <3>2. QED
      BY <2>2, <3>1, <1>0, <1>1, <1>2, <1>3 DEF ChannelsPointToHandles
  <2>3. QED
    BY <2>1, <2>2
<1>8. HandlesPointToChannels'
  <2> SUFFICES ASSUME NEW h \in ChannelId
               PROVE  /\ h \notin channelIdMap' => handle'[h].channel = None
                      /\ h \in channelIdMap' =>
                           /\ h <= gChannelId
                           /\ handle'[h].channel \in Channel
                           /\ channel'[handle'[h].channel].issues # 0
                           /\ channel'[handle'[h].channel].issues # 2 =>
                                channel'[handle'[h].channel].handle = h
    BY <1>1 DEF HandlesPointToChannels, IssuedTwice
  <2>1. CASE h \in channelIdMap'
    <3>1. h \in channelIdMap /\ h # i /\ handle'[h] = handle[h]
      BY <2>1, <1>1, <1>3
    <3>2. ASSUME handle[h].channel = c, channel[c].issues # 2
          PROVE  FALSE
      <4>1. channel[c].handle = h /\ channel[c].issues # 0 /\ channel[c].handle # None
        BY <3>1, <3>2, ConstantTypes DEF HandlesPointToChannels, IssuedTwice
      <4>2. channel[c].issues = 1
        BY <4>1, <3>2, FieldTypes
      <4>3. QED
        BY <3>1, <4>1, <4>2 DEF ChannelsPointToHandles, i
    <3>3. QED
      BY <2>1, <3>1, <3>2, <1>2 DEF HandlesPointToChannels, IssuedTwice
  <2>2. CASE h \notin channelIdMap'
    BY <2>2, <1>1, <1>3 DEF HandlesPointToChannels, listed
  <2>3. QED
    BY <2>1, <2>2
<1>9. RequestsPointBack' /\ SessionOutlivesRequests'
  <2>1. ASSUME NEW r \in requests
        PROVE  handle'[r.handle].channel \in {None, r.channel} /\ (Alive(r) => Alive(r)')
    <3>1. r.handle \in ChannelId
      BY FieldTypes
    <3>2. QED
      BY <3>1, <1>3 DEF RequestsPointBack, Alive, listed
  <2>2. QED
    BY <2>1, <1>1 DEF RequestsPointBack, SessionOutlivesRequests
<1>10. AnswersReachTheirChannel'
  BY <1>1, <1>2 DEF AnswersReachTheirChannel, IssuedTwice, TypeOK
<1>11. QED
  BY <1>4, <1>5, <1>6, <1>7, <1>8, <1>9, <1>10

-----------------------------------------------------------------------------
(***************************************************************************)
(* The channel a request comes on is the one its handle leads to, so that  *)
(* an answer given at once is not astray; an answer given later may find   *)
(* the channel deleted, but only one that was issued twice.                *)
(***************************************************************************)
LEMMA AnswerAtOnce ==
    ASSUME IndInv, NEW c \in Channel, RequestOn(c), ResponseMessage(channel[c].handle, c)
    PROVE  /\ channel[c].handle \in ChannelId
           /\ channel[c].handle <= gChannelId
           /\ handle[channel[c].handle].channel = c
           /\ astray' = astray
<1> USE DEF IndInv
<1>1. /\ channel[c].handle \in ChannelId /\ channel[c].handle <= gChannelId
      /\ handle[channel[c].handle].channel = c
  BY FieldTypes DEF RequestOn, ChannelsPointToHandles, HandlesPointToChannels
<1>2. QED
  BY <1>1 DEF ResponseMessage, RequestOn

LEMMA AnswerLater ==
    ASSUME IndInv, NEW r \in requests, ResponseMessage(r.handle, r.channel) \/ UNCHANGED astray,
           UNCHANGED channel
    PROVE  astray' \subseteq Channel \X Channel /\ AnswersReachTheirChannel'
<1> USE DEF IndInv
<1> DEFINE on == handle[r.handle].channel
<1>1. r.handle \in ChannelId /\ r.channel \in Channel /\ astray \subseteq Channel \X Channel
  BY FieldTypes DEF TypeOK
<1>2. CASE on # None /\ (on # r.channel \/ channel[on].state # "connected")
  <2>1. on = r.channel /\ on \in Channel /\ channel[on].state # "connected"
    BY <1>1, <1>2 DEF RequestsPointBack
  <2>2. r.handle \in channelIdMap
    BY <1>1, <1>2 DEF HandlesPointToChannels
  <2>3. IssuedTwice(on)
    BY <1>1, <2>1, <2>2, ConstantTypes DEF HandlesPointToChannels, ChannelsOK
  <2>4. astray' \subseteq astray \cup {<<on, on>>}
    BY <2>1 DEF ResponseMessage
  <2>5. QED
    BY <1>1, <2>1, <2>3, <2>4 DEF AnswersReachTheirChannel, IssuedTwice
<1>3. CASE ~(on # None /\ (on # r.channel \/ channel[on].state # "connected"))
  <2>1. astray' = astray
    BY <1>3 DEF ResponseMessage
  <2>2. QED
    BY <1>1, <2>1 DEF AnswersReachTheirChannel, IssuedTwice
<1>4. QED
  BY <1>2, <1>3

(***************************************************************************)
(* The session services change the sessions of handles, never their        *)
(* channels: what is left to show is that a session a request points to    *)
(* ends only when it is recorded as ended.                                 *)
(***************************************************************************)
LEMMA SessionsChange ==
    ASSUME IndInv, TypeOK', UNCHANGED <<channelVars, astray>>,
           \A h \in ChannelId : handle'[h].channel = handle[h].channel,
           \A r \in requests' : r.handle <= gChannelId,
           RequestsPointBack', SessionOutlivesRequests'
    PROVE  IndInv'
<1> USE DEF IndInv, channelVars
<1>1. Taken' = Taken
  BY DEF Taken
<1>2. IdsCounted'
  BY <1>1 DEF IdsCounted
<1>3. ChannelsOK'
  BY DEF ChannelsOK
<1>4. ChannelsPointToHandles'
  BY DEF ChannelsPointToHandles, TypeOK
<1>5. HandlesPointToChannels'
  BY DEF HandlesPointToChannels, IssuedTwice
<1>6. AnswersReachTheirChannel'
  BY DEF AnswersReachTheirChannel, IssuedTwice
<1>7. QED
  BY <1>2, <1>3, <1>4, <1>5, <1>6

LEMMA CreateSession ==
    ASSUME IndInv, NEW c \in Channel, CreateSessionRequest(c)
    PROVE  IndInv'
<1> USE DEF IndInv
<1> DEFINE h == channel[c].handle
           s == lastSession + 1
<1>1. /\ RequestOn(c) /\ s \in SessionId /\ ResponseMessage(h, c)
      /\ lastSession' = s
      /\ handle' = [handle EXCEPT ![h].session = s]
      /\ session' = [session EXCEPT ![s] = "created"]
      /\ sessionMap' = sessionMap \cup {s}
      /\ ended' = ended \cup ({handle[h].session} \ {None})
      /\ UNCHANGED <<channelVars, requests, shutdown>>
  BY DEF CreateSessionRequest
<1>2. h \in ChannelId /\ handle[h].channel = c /\ astray' = astray
  BY <1>1, AnswerAtOnce
<1>3. /\ handle \in [ChannelId -> ChannelSessionHandle]
      /\ handle[h].session \in SessionId \cup {None}
  BY <1>2, FieldTypes DEF TypeOK
<1> HIDE DEF h, s
<1>4. /\ handle' \in [ChannelId -> ChannelSessionHandle]
      /\ \A k \in ChannelId : /\ handle'[k].channel = handle[k].channel
                              /\ k # h => handle'[k] = handle[k]
  BY <1>1, <1>2, <1>3 DEF ChannelSessionHandle
<1>5. TypeOK'
  BY <1>1, <1>2, <1>3, <1>4 DEF TypeOK, channelVars
<1>6. RequestsPointBack'
  BY <1>1, <1>4, FieldTypes DEF RequestsPointBack
<1>7. SessionOutlivesRequests'
  <2>1. ASSUME NEW r \in requests
        PROVE  Alive(r)' \/ r.session \in ended'
    <3>1. r.handle \in ChannelId /\ r.session \in SessionId /\ None \notin SessionId
      BY FieldTypes, ConstantTypes
    <3>2. CASE r.handle = h
      BY <3>1, <3>2, <1>1 DEF SessionOutlivesRequests, Alive
    <3>3. CASE r.handle # h
      BY <3>1, <3>3, <1>1, <1>4 DEF SessionOutlivesRequests, Alive
    <3>4. QED
      BY <3>2, <3>3
  <2>2. QED
    BY <2>1, <1>1 DEF SessionOutlivesRequests
<1>8. QED
  BY <1>1, <1>2, <1>4, <1>5, <1>6, <1>7, SessionsChange DEF IdsCounted

LEMMA ActivateSession ==
    ASSUME IndInv, NEW c \in Channel, NEW ok \in BOOLEAN, ActivateSessionRequest(c, ok)
    PROVE  IndInv'
<1> USE DEF IndInv
<1> DEFINE h == channel[c].handle
           s == handle[h].session
<1>1. /\ RequestOn(c) /\ ResponseMessage(h, c)
      /\ UNCHANGED <<channelVars, lastSession, requests, shutdown>>
  BY DEF ActivateSessionRequest
<1>2. h \in ChannelId /\ astray' = astray
  BY <1>1, AnswerAtOnce
<1>3. /\ handle \in [ChannelId -> ChannelSessionHandle]
      /\ s \in SessionId \cup {None}
  BY <1>2, FieldTypes DEF TypeOK
<1> HIDE DEF h, s
<1>4. CASE s # None /\ DeleteSession(s) /\ ended' = ended \cup {s} /\ UNCHANGED session
  <2>1. /\ handle' \in [ChannelId -> ChannelSessionHandle]
        /\ \A k \in ChannelId : /\ handle'[k].channel = handle[k].channel
                                /\ handle[k].session # s => handle'[k] = handle[k]
    BY <1>3, <1>4 DEF DeleteSession, ChannelSessionHandle
  <2>2. TypeOK'
    BY <1>1, <1>2, <1>3, <1>4, <2>1 DEF TypeOK, channelVars, DeleteSession
  <2>3. RequestsPointBack'
    <3>1. \A r \in requests : handle'[r.handle].channel = handle[r.handle].channel
      BY <2>1, FieldTypes
    <3>2. QED
      BY <1>1, <3>1 DEF RequestsPointBack
  <2>4. SessionOutlivesRequests'
    <3>1. ASSUME NEW r \in requests
          PROVE  Alive(r)' \/ r.session \in ended'
      <4>1. r.handle \in ChannelId
        BY FieldTypes
      <4>2. handle[r.handle].session # s => handle'[r.handle] = handle[r.handle]
        BY <4>1, <2>1
      <4>3. QED
        BY <1>4, <4>2 DEF SessionOutlivesRequests, Alive
    <3>2. QED
      BY <3>1, <1>1 DEF SessionOutlivesRequests
  <2>5. QED
    BY <1>1, <1>2, <2>1, <2>2, <2>3, <2>4, SessionsChange DEF IdsCounted
<1>5. CASE UNCHANGED <<handle, sessionMap, ended>> /\ session' \in [SessionId -> {"none", "created", "ready"}]
  <2>1. TypeOK'
    BY <1>1, <1>2, <1>5 DEF TypeOK, channelVars
  <2>2. RequestsPointBack' /\ SessionOutlivesRequests'
    BY <1>1, <1>5 DEF RequestsPointBack, SessionOutlivesRequests, Alive
  <2>3. QED
    BY <1>1, <1>2, <1>5, <2>1, <2>2, SessionsChange DEF IdsCounted
<1>6. \/ UNCHANGED <<handle, session, sessionMap, ended>>
      \/ /\ s # None /\ session' = [session EXCEPT ![s] = "ready"]
         /\ UNCHANGED <<handle, sessionMap, ended>>
      \/ s # None /\ DeleteSession(s) /\ ended' = ended \cup {s} /\ UNCHANGED session
  BY DEF ActivateSessionRequest, h, s
<1>7. session \in [SessionId -> {"none", "created", "ready"}]
  BY DEF TypeOK
<1>8. QED
  BY <1>3, <1>4, <1>5, <1>6, <1>7

LEMMA CloseSession ==
    ASSUME IndInv, NEW c \in Channel, CloseSessionRequest(c)
    PROVE  IndInv'
<1> USE DEF IndInv
<1>1. astray' = astray
  BY AnswerAtOnce DEF CloseSessionRequest
<1>2. TypeOK'
  BY <1>1 DEF CloseSessionRequest, TypeOK, channelVars, sessionVars
<1>3. RequestsPointBack' /\ SessionOutlivesRequests'
  BY DEF CloseSessionRequest, RequestsPointBack, SessionOutlivesRequests, Alive
<1>4. QED
  BY <1>1, <1>2, <1>3, SessionsChange DEF CloseSessionRequest, IdsCounted

(***************************************************************************)
(* A message waits with the handle and the session of its channel.         *)
(***************************************************************************)
LEMMA Message ==
    ASSUME IndInv, NEW c \in Channel, MessageRequest(c)
    PROVE  IndInv'
<1> USE DEF IndInv
<1> DEFINE h == channel[c].handle
           q == [session |-> handle[h].session, handle |-> h, channel |-> c]
<1>1. /\ RequestOn(c) /\ handle[h].session # None
      /\ requests' = requests \cup {q}
      /\ UNCHANGED <<channelVars, handle, sessionVars, shutdown, astray, ended>>
  BY DEF MessageRequest
<1>2. /\ h \in ChannelId /\ h <= gChannelId /\ handle[h].channel = c
      /\ handle[h].session \in SessionId
  BY <1>1, FieldTypes DEF RequestOn, ChannelsPointToHandles, HandlesPointToChannels
<1> HIDE DEF h
<1>3. q \in Request /\ q.handle = h /\ q.session = handle[h].session /\ q.channel = c
  BY <1>2 DEF Request
<1> HIDE DEF q
<1>4. TypeOK'
  BY <1>1, <1>3 DEF TypeOK, channelVars, sessionVars
<1>5. RequestsPointBack'
  BY <1>1, <1>2, <1>3 DEF RequestsPointBack
<1>6. SessionOutlivesRequests'
  BY <1>1, <1>2, <1>3 DEF SessionOutlivesRequests, Alive
<1>7. \A r \in requests' : r.handle <= gChannelId
  BY <1>1, <1>2, <1>3 DEF IdsCounted
<1>8. QED
  BY <1>1, <1>4, <1>5, <1>6, <1>7, SessionsChange

LEMMA Answered ==
    ASSUME IndInv, NEW r \in requests, Receive(r) \/ ReceiveDestroyed(r)
    PROVE  IndInv'
<1> USE DEF IndInv
<1>1. /\ ResponseMessage(r.handle, r.channel) \/ UNCHANGED astray
      /\ requests' = requests \ {r}
      /\ UNCHANGED <<channelVars, handle, sessionVars, shutdown, ended>>
  BY DEF Receive, ReceiveDestroyed
<1>2. astray' \subseteq Channel \X Channel /\ AnswersReachTheirChannel'
  BY <1>1, AnswerLater DEF channelVars
<1>3. TypeOK'
  BY <1>1, <1>2 DEF TypeOK, channelVars, sessionVars
<1>4. RequestsPointBack' /\ SessionOutlivesRequests'
  BY <1>1 DEF RequestsPointBack, SessionOutlivesRequests, Alive
<1>5. Taken' = Taken
  BY <1>1 DEF Taken, channelVars
<1>6. IdsCounted'
  BY <1>1, <1>5 DEF IdsCounted, channelVars
<1>7. ChannelsOK' /\ ChannelsPointToHandles'
  BY <1>1 DEF ChannelsOK, ChannelsPointToHandles, channelVars
<1>8. HandlesPointToChannels'
  BY <1>1 DEF HandlesPointToChannels, IssuedTwice, channelVars
<1>9. QED
  BY <1>2, <1>3, <1>4, <1>6, <1>7, <1>8

LEMMA ShutdownStep ==
    ASSUME IndInv, Shutdown
    PROVE  IndInv'
<1> USE DEF IndInv
<1> DEFINE e == shutdown.at + 1
<1>0. /\ shutdown \in [at: 0 .. EndpointCount + 1, ready: BOOLEAN]
      /\ acceptor \in [Endpoint -> Acceptor]
      /\ EndpointCount \in Nat
  BY ConstantTypes DEF TypeOK
<1>1. UNCHANGED <<gChannelId, channelIdMap, handle, sessionVars, requests, astray, ended>>
  BY DEF Shutdown
<1>2. CASE shutdown.at < EndpointCount /\ Disconnect(e)
  <2>1. e \in Endpoint /\ e \in 0 .. EndpointCount + 1
    BY <1>0, <1>2 DEF Endpoint
  <2> HIDE DEF e
  <2>2. CASE acceptor[e].open
    <3>1. /\ acceptor' = [acceptor EXCEPT ![e].asked = TRUE,
                            ![e].op = IF @ = "accepting" THEN "aborted" ELSE @]
          /\ shutdown' = [at |-> e, ready |-> FALSE] /\ channel' = channel
      BY <1>2, <2>2 DEF Disconnect
    <3>2. acceptor' \in [Endpoint -> Acceptor]
      <4>1. acceptor[e] \in Acceptor
        BY <1>0, <2>1
      <4>2. [acceptor[e] EXCEPT !.asked = TRUE,
               !.op = IF @ = "accepting" THEN "aborted" ELSE @] \in Acceptor
        BY <4>1 DEF Acceptor
      <4>3. QED
        BY <1>0, <3>1, <4>2
    <3>3. shutdown' \in [at: 0 .. EndpointCount + 1, ready: BOOLEAN]
      BY <2>1, <3>1
    <3>4. TypeOK'
      BY <1>1, <3>1, <3>2, <3>3 DEF TypeOK, sessionVars
    <3>5. QED
      BY <1>1, <3>1, <3>4, LinksKept
  <2>3. CASE ~acceptor[e].open
    <3> DEFINE told == {c \in Channel : c \in RegisteredChannels /\ channel[c].endpoint = e}
    <3>1. /\ channel' = [c \in Channel |-> IF c \in told
                           THEN [channel[c] EXCEPT !.cancelled = TRUE] ELSE channel[c]]
          /\ shutdown' = [at |-> e, ready |-> channelIdMap = {}] /\ acceptor' = acceptor
      BY <1>2, <2>3 DEF Disconnect
    <3> HIDE DEF told
    <3>2. /\ channel' \in [Channel -> SecureChannel]
          /\ \A c \in Channel : /\ channel'[c].id = channel[c].id
                                /\ channel'[c].handle = channel[c].handle
                                /\ channel'[c].issues = channel[c].issues
                                /\ channel'[c].state = channel[c].state
      BY <3>1, CancelTypes
    <3>3. shutdown' \in [at: 0 .. EndpointCount + 1, ready: BOOLEAN]
      <4>1. (channelIdMap = {}) \in BOOLEAN
        OBVIOUS
      <4>2. QED
        BY <2>1, <3>1, <4>1
    <3>4. TypeOK'
      BY <1>1, <3>1, <3>2, <3>3 DEF TypeOK, sessionVars
    <3>5. QED
      BY <1>1, <3>2, <3>4, LinksKept
  <2>4. QED
    BY <2>2, <2>3
<1>3. CASE /\ shutdown.at = EndpointCount
           /\ shutdown' = [shutdown EXCEPT !.at = @ + 1]
           /\ UNCHANGED <<acceptor, channel>>
  <2>1. shutdown' \in [at: 0 .. EndpointCount + 1, ready: BOOLEAN]
    BY <1>0, <1>3
  <2>2. TypeOK'
    BY <1>1, <1>3, <2>1 DEF TypeOK, sessionVars
  <2>3. QED
    BY <1>1, <1>3, <2>2, LinksKept
<1>4. QED
  BY <1>2, <1>3 DEF Shutdown

-----------------------------------------------------------------------------
LEMMA InitIndInv ==
    Init => IndInv
<1> SUFFICES ASSUME Init PROVE IndInv
  OBVIOUS
<1>1. TypeOK
  <2>1. /\ acceptor \in [Endpoint -> Acceptor]
        /\ handle \in [ChannelId -> ChannelSessionHandle]
    BY DEF Init, Acceptor, ChannelSessionHandle
  <2>2. channel \in [Channel -> SecureChannel]
    BY ConstantTypes DEF Init, SecureChannel
  <2>3. shutdown \in [at: 0 .. EndpointCount + 1, ready: BOOLEAN]
    BY ConstantTypes DEF Init
  <2>4. QED
    BY <2>1, <2>2, <2>3 DEF Init, TypeOK
<1>2. IdsCounted
  <2>1. Taken = {}
    BY DEF Init, Taken
  <2>2. QED
    BY <2>1, FS_EmptySet DEF Init, IdsCounted, None
<1>3. ChannelsOK /\ ChannelsPointToHandles /\ HandlesPointToChannels
  BY DEF Init, ChannelsOK, ChannelsPointToHandles, HandlesPointToChannels
<1>4. RequestsPointBack /\ AnswersReachTheirChannel /\ SessionOutlivesRequests
  BY DEF Init, RequestsPointBack, AnswersReachTheirChannel, SessionOutlivesRequests
<1>5. QED
  BY <1>1, <1>2, <1>3, <1>4 DEF IndInv

LEMMA NextIndInv ==
    IndInv /\ [Next]_vars => IndInv'
<1> SUFFICES ASSUME IndInv, [Next]_vars PROVE IndInv'
  OBVIOUS
<1>1. ASSUME NEW e \in Endpoint,
             ResolveComplete(e) \/ ClientConnects(e) \/ AcceptComplete(e)
               \/ AcceptError(e) \/ ResolveError(e)
      PROVE  IndInv'
  BY <1>1, AcceptLoop
<1>2. ASSUME NEW c \in Channel,
             OpenSecureChannel(c) \/ ReissueSecureChannel(c) \/ HandleDisconnect(c)
      PROVE  IndInv'
  BY <1>2, Open, Reopen, Disconnected
<1>3. ASSUME NEW c \in Channel,
             \/ CreateSessionRequest(c) \/ CloseSessionRequest(c) \/ MessageRequest(c)
             \/ \E ok \in BOOLEAN : ActivateSessionRequest(c, ok)
      PROVE  IndInv'
  BY <1>3, CreateSession, CloseSession, Message, ActivateSession
<1>4. ASSUME NEW r \in requests, Receive(r) \/ ReceiveDestroyed(r)
      PROVE  IndInv'
  BY <1>4, Answered
<1>5. CASE Shutdown
  BY <1>5, ShutdownStep
<1>6. CASE UNCHANGED vars
  <2>1. UNCHANGED <<acceptor, channel, gChannelId, channelIdMap, handle, session, sessionMap,
                    lastSession, requests, shutdown, astray, ended>>
    BY <1>6 DEF vars, channelVars, sessionVars
  <2>2. TypeOK'
    BY <2>1 DEF IndInv, TypeOK
  <2>3. QED
    BY <2>1, <2>2, LinksKept
<1>7. QED
  BY <1>1, <1>2, <1>3, <1>4, <1>5, <1>6 DEF Next

LEMMA Invariance ==
    Spec => []IndInv
BY InitIndInv, NextIndInv, PTL DEF Spec

(***************************************************************************)
(* What the type invariant says, among it that the counter of channel ids  *)
(* stays within two ids for every channel that was accepted.               *)
(***************************************************************************)
THEOREM TypeCorrect ==
    Spec => []TypeOK
<1>1. IndInv => TypeOK
  BY DEF IndInv
<1>2. QED
  BY <1>1, Invariance, PTL

(***************************************************************************)
(* channelIdMap_ lists exactly the open, connected channels, each under    *)
(* its id, however connects, disconnects and shutdown interleave, but for  *)
(* a channel that was issued twice.                                        *)
(***************************************************************************)
THEOREM HandlesMatch ==
    Spec => []HandlesMatchChannels
<1>1. IndInv => HandlesMatchChannels
  <2> SUFFICES ASSUME IndInv PROVE HandlesMatchChannels
    OBVIOUS
  <2> USE DEF IndInv
  <2> DEFINE listed == {h \in channelIdMap : ~IssuedTwice(handle[h].channel)}
             open == {d \in Channel : /\ channel[d].state = "connected"
                                      /\ channel[d].handle # None
                                      /\ ~IssuedTwice(d)}
  <2>1. ASSUME NEW h \in listed
        PROVE  handle[h].channel \in open /\ channel[handle[h].channel].id = h
    <3>1. /\ h \in ChannelId /\ h # None
          /\ handle[h].channel \in Channel
          /\ channel[handle[h].channel].issues \notin {0, 2}
          /\ channel[handle[h].channel].handle = h
      BY ConstantTypes DEF TypeOK, HandlesPointToChannels, IssuedTwice
    <3>2. channel[handle[h].channel].issues = 1
      BY <3>1, FieldTypes
    <3>3. QED
      BY <3>1, <3>2 DEF ChannelsOK, ChannelsPointToHandles, IssuedTwice
  <2>2. ASSUME NEW c \in open
        PROVE  channel[c].id \in listed
    <3>1. channel[c].issues = 1
      BY FieldTypes DEF IssuedTwice, ChannelsOK
    <3>2. QED
      BY <3>1 DEF ChannelsPointToHandles, IssuedTwice
  <2>3. listed = {channel[c].id : c \in open}
    <3> HIDE DEF listed, open
    <3> QED
      BY <2>1, <2>2
  <2>4. \A h \in listed : channel[handle[h].channel].id = h
    BY <2>1
  <2>5. QED
    BY <2>3, <2>4 DEF HandlesMatchChannels
<1>2. QED
  BY <1>1, Invariance, PTL

(***************************************************************************)
(* No answer goes to a channel other than the one the request came on, nor *)
(* to one that is deleted, unless a client had it issued twice.            *)
(***************************************************************************)
THEOREM AnswersReach ==
    Spec => []AnswersReachTheirChannel
<1>1. IndInv => AnswersReachTheirChannel
  BY DEF IndInv
<1>2. QED
  BY <1>1, Invariance, PTL

(***************************************************************************)
(* The Session a request points to is there when the answer comes, unless  *)
(* the client has replaced or lost it.                                     *)
(***************************************************************************)
THEOREM SessionOutlives ==
    Spec => []SessionOutlivesRequests
<1>1. IndInv => SessionOutlivesRequests
  BY DEF IndInv
<1>2. QED
  BY <1>1, Invariance, PTL
=============================================================================
