-------------------------- MODULE PilotClientProofs --------------------------
(***************************************************************************)
(* Proofs about PilotClient: is_connected_ is never true without an open   *)
(* connection, an answer is told once and to the caller that asked, and    *)
(* the client with all its old connections implements CenterLink, for any  *)
(* number of clients, callers, requests and reconnections.                 *)
(***************************************************************************)
EXTENDS PilotClient, TLAPS

ClientStates == {"none", "connecting", "open", "refused", "closed"}

-----------------------------------------------------------------------------
(* The connection flag *)

\* What the flag's invariant needs of the types.
ClientType ==
    /\ client \in [Clients -> ClientStates]
    /\ current \in Nat

FlagInv == ClientType /\ ConnectedMeansOpen

\* An attempt to connect is made only while the flag is FALSE.
LEMMA AsyncConnectKeepsFlag ==
    ASSUME FlagInv, AsyncConnect, UNCHANGED is_connected_
    PROVE  FlagInv'
<1>1. CASE is_connected_ \/ recent
  BY <1>1 DEF AsyncConnect, FlagInv, ClientType, ConnectedMeansOpen
<1>2. CASE ~(is_connected_ \/ recent)
  <2>1. /\ current' = current + 1
        /\ client' = [client EXCEPT ![current + 1] = "connecting"]
    BY <1>2 DEF AsyncConnect
  <2>2. client' \in [Clients -> ClientStates]
    BY <2>1 DEF FlagInv, ClientType, ClientStates
  <2>3. current' \in Nat
    BY <2>1 DEF FlagInv, ClientType
  <2>4. ~is_connected_'
    BY <1>2
  <2> QED
    BY <2>2, <2>3, <2>4 DEF ClientType, FlagInv, ConnectedMeansOpen
<1> QED
  BY <1>1, <1>2

\* A step that leaves the clients and the flag alone.
LEMMA FlagUntouched ==
    ASSUME FlagInv, UNCHANGED <<client, current, is_connected_>>
    PROVE  FlagInv'
BY DEF FlagInv, ClientType, ConnectedMeansOpen

\* Every step of the client keeps the flag truthful: it is set by the client
\* that opens, cleared by any that closes, and no other step ends an open one.
LEMMA FlagStep ==
    ASSUME FlagInv, [Next]_vars
    PROVE  FlagInv'
<1>1. ASSUME NEW cb \in Callers, AsyncRequest(cb)
      PROVE  FlagInv'
  <2>1. CASE ~is_connected_ /\ AsyncConnect /\ UNCHANGED is_connected_
    BY <2>1, AsyncConnectKeepsFlag
  <2>2. CASE UNCHANGED <<linkState, current>>
    BY <2>2, FlagUntouched DEF linkState
  <2> QED
    BY <1>1, <2>1, <2>2 DEF AsyncRequest
<1>2. CASE AsyncNotification
  <2>1. CASE ~is_connected_ /\ AsyncConnect /\ UNCHANGED is_connected_
    BY <2>1, AsyncConnectKeepsFlag
  <2>2. CASE UNCHANGED <<linkState, current>>
    BY <2>2, FlagUntouched DEF linkState
  <2> QED
    BY <1>2, <2>1, <2>2 DEF AsyncNotification
<1>3. ASSUME NEW c \in Clients, OnConnected(c)
      PROVE  FlagInv'
  <2>1. ClientType'
    BY <1>3 DEF OnConnected, FlagInv, ClientType, ClientStates
  <2>2. client'[c] = "open"
    BY <1>3 DEF OnConnected, FlagInv, ClientType
  <2> QED
    BY <2>1, <2>2 DEF FlagInv, ConnectedMeansOpen
<1>4. ASSUME NEW c \in Clients, Refused(c) \/ OnClosed(c)
      PROVE  FlagInv'
  <2>1. ClientType'
    BY <1>4 DEF Refused, OnClosed, FlagInv, ClientType, ClientStates
  <2>2. ~is_connected_'
    BY <1>4 DEF Refused, OnClosed
  <2> QED
    BY <2>1, <2>2 DEF FlagInv, ConnectedMeansOpen
<1>5. ASSUME NEW c \in Clients, ConnectFails(c)
      PROVE  FlagInv'
  <2>1. ClientType'
    BY <1>5 DEF ConnectFails, FlagInv, ClientType, ClientStates
  <2>2. ASSUME NEW d \in Clients, client[d] = "open"
        PROVE  client'[d] = "open"
    BY <1>5, <2>2 DEF ConnectFails, FlagInv, ClientType
  <2> QED
    BY <1>5, <2>1, <2>2 DEF ConnectFails, FlagInv, ConnectedMeansOpen
<1>6. ASSUME NEW c \in Clients, OnResponse(c) \/ CenterReads(c) \/ WireLoses(c)
      PROVE  FlagInv'
  BY <1>6, FlagUntouched DEF OnResponse, CenterReads, WireLoses, linkState
<1>7. CASE TenSeconds \/ \E id \in Requests : EightSeconds(id)
  BY <1>7, FlagUntouched DEF TenSeconds, EightSeconds, linkState
<1>8. CASE UNCHANGED vars
  BY <1>8, FlagUntouched DEF vars, linkState
<1> QED
  BY <1>1, <1>2, <1>3, <1>4, <1>5, <1>6, <1>7, <1>8 DEF Next

\* PilotMessageClient never believes itself connected when none of its clients
\* is, whatever the order in which the late handshakes and closes of the old
\* clients arrive.
THEOREM ConnectedMeansOpenAlways == Spec => []ConnectedMeansOpen
<1>1. Init => FlagInv
  BY ClientAssumption DEF Init, FlagInv, ClientType, ClientStates, ConnectedMeansOpen
<1>2. FlagInv /\ [Next]_vars => FlagInv'
  BY FlagStep
<1>3. FlagInv => ConnectedMeansOpen
  BY DEF FlagInv
<1> QED
  BY <1>1, <1>2, <1>3, PTL DEF Spec

-----------------------------------------------------------------------------
(* Who is told what *)

Calls == [id : Requests, cb : Callers \cup {None}]

RequestType ==
    /\ request_id_ \in Nat \ {0}
    /\ asked \in [Requests -> Callers \cup {None}]
    /\ told \in Seq(Calls)

\* A request that waits has an id that was given out, and its own caller.
Waiting ==
    \A r \in DOMAIN async_request_cbs_ :
        r \in Requests /\ r < request_id_ /\ async_request_cbs_[r] = asked[r]

\* One that was answered has an id that was given out, and waits no more.
Answered ==
    \A i \in DOMAIN told :
        told[i].id < request_id_ /\ told[i].id \notin DOMAIN async_request_cbs_

RequestInv == RequestType /\ Waiting /\ Answered /\ AnswersReachTheirCaller

\* A step that makes no request and takes no answer.
LEMMA RequestsUntouched ==
    ASSUME RequestInv, UNCHANGED <<requestState, told>>
    PROVE  RequestInv'
BY DEF RequestInv, RequestType, Waiting, Answered, AnswersReachTheirCaller, requestState

\* A new request takes an id no earlier request had.
LEMMA AsyncRequestKeepsCallers ==
    ASSUME RequestInv, NEW cb \in Callers, AsyncRequest(cb)
    PROVE  RequestInv'
<1>1. CASE UNCHANGED <<requestState, told>>
  BY <1>1, RequestsUntouched
<1>2. CASE /\ request_id_ <= MaxRequests
           /\ request_id_' = request_id_ + 1
           /\ async_request_cbs_' = Insert(async_request_cbs_, request_id_, cb)
           /\ asked' = [asked EXCEPT ![request_id_] = cb]
           /\ told' = told
  <2>1. request_id_ \in Requests
    BY <1>2, ClientAssumption DEF RequestInv, RequestType, Requests
  <2>2. RequestType'
    <3>1. request_id_' \in Nat \ {0}
      BY <1>2 DEF RequestInv, RequestType
    <3>2. asked' \in [Requests -> Callers \cup {None}]
      BY <1>2 DEF RequestInv, RequestType
    <3> QED
      BY <1>2, <3>1, <3>2 DEF RequestInv, RequestType
  <2>3. /\ DOMAIN async_request_cbs_' = DOMAIN async_request_cbs_ \cup {request_id_}
        /\ \A r \in DOMAIN async_request_cbs_ :
               async_request_cbs_'[r] = async_request_cbs_[r]
        /\ request_id_ \notin DOMAIN async_request_cbs_ =>
               async_request_cbs_'[request_id_] = cb
    BY <1>2 DEF Insert
  <2>4. \A r \in Requests : r < request_id_ => asked'[r] = asked[r]
    BY <1>2 DEF RequestInv, RequestType, Requests
  <2>5. asked'[request_id_] = cb
    BY <1>2, <2>1 DEF RequestInv, RequestType
  <2>6. \A r \in Requests : r < request_id_ => r # request_id_ /\ r < request_id_'
    BY <1>2 DEF RequestInv, RequestType, Requests
  <2>7. Waiting'
    <3>1. request_id_ < request_id_'
      BY <1>2 DEF RequestInv, RequestType
    <3>2. request_id_ \notin DOMAIN async_request_cbs_
      BY <2>6 DEF RequestInv, Waiting
    <3>3. ASSUME NEW r \in DOMAIN async_request_cbs_
          PROVE  /\ r \in Requests /\ r < request_id_'
                 /\ async_request_cbs_'[r] = asked'[r]
      BY <2>3, <2>4, <2>6 DEF RequestInv, Waiting
    <3> QED
      BY <2>1, <2>3, <2>5, <3>1, <3>2, <3>3 DEF Waiting
  <2>8. \A i \in DOMAIN told : told[i].id \in Requests /\ told[i].id < request_id_
    <3>1. told \in Seq(Calls)
      BY DEF RequestInv, RequestType
    <3>2. \A i \in DOMAIN told : told[i] \in Calls
      BY <3>1
    <3> QED
      BY <3>2 DEF RequestInv, Answered, Calls
  <2>9. Answered'
    BY <1>2, <2>3, <2>6, <2>8 DEF RequestInv, Answered
  <2>10. AnswersReachTheirCaller'
    BY <1>2, <2>4, <2>8 DEF RequestInv, AnswersReachTheirCaller
  <2> QED
    BY <2>2, <2>7, <2>9, <2>10 DEF RequestInv
<1> QED
  BY <1>1, <1>2 DEF AsyncRequest, requestState

\* An answer ends the wait of its request, in time or not.
LEMMA OnResponseKeepsCallers ==
    ASSUME RequestInv, NEW c \in Clients, OnResponse(c)
    PROVE  RequestInv'
<1> DEFINE id == Head(answers[c])
           call == [id |-> id, cb |-> async_request_cbs_[id]]
<1>1. /\ UNCHANGED <<request_id_, asked>>
      /\ DOMAIN async_request_cbs_' = DOMAIN async_request_cbs_ \ {id}
      /\ \A r \in DOMAIN async_request_cbs_' :
             async_request_cbs_'[r] = async_request_cbs_[r]
  BY DEF OnResponse
<1>2. Waiting'
  BY <1>1 DEF RequestInv, Waiting
<1>3. CASE told' = told
  <2>1. RequestType'
    BY <1>1, <1>3 DEF RequestInv, RequestType
  <2>2. Answered'
    BY <1>1, <1>3 DEF RequestInv, Answered
  <2>3. AnswersReachTheirCaller'
    BY <1>1, <1>3 DEF RequestInv, AnswersReachTheirCaller
  <2> QED
    BY <1>2, <2>1, <2>2, <2>3 DEF RequestInv
<1>4. CASE id \in DOMAIN async_request_cbs_ /\ told' = Append(told, call)
  <2>1. /\ id \in Requests /\ id < request_id_
        /\ async_request_cbs_[id] = asked[id]
    BY <1>4 DEF RequestInv, Waiting
  <2>2. call \in Calls /\ call.id = id /\ call.cb = asked[id]
    BY <2>1 DEF RequestInv, RequestType, Calls
  <2> HIDE DEF call, id
  <2>3. told \in Seq(Calls)
    BY DEF RequestInv, RequestType
  <2>4. /\ told' \in Seq(Calls)
        /\ DOMAIN told' = DOMAIN told \cup {Len(told) + 1}
        /\ \A i \in DOMAIN told : told'[i] = told[i]
        /\ told'[Len(told) + 1] = call
        /\ Len(told) + 1 \notin DOMAIN told
    BY <1>4, <2>2, <2>3
  <2>5. RequestType'
    BY <1>1, <2>4 DEF RequestInv, RequestType
  <2>6. Answered'
    BY <1>1, <2>1, <2>2, <2>4 DEF RequestInv, Answered
  <2>7. \A i \in DOMAIN told : told[i].id # id
    BY <1>4 DEF RequestInv, Answered
  <2>8. AnswersReachTheirCaller'
    BY <1>1, <2>2, <2>4, <2>7 DEF RequestInv, AnswersReachTheirCaller
  <2> QED
    BY <1>2, <2>5, <2>6, <2>8 DEF RequestInv
<1> QED
  BY <1>3, <1>4 DEF OnResponse

\* Every step keeps the waiting and the answered requests apart.
LEMMA RequestStep ==
    ASSUME RequestInv, [Next]_vars
    PROVE  RequestInv'
<1>1. ASSUME NEW cb \in Callers, AsyncRequest(cb)
      PROVE  RequestInv'
  BY <1>1, AsyncRequestKeepsCallers
<1>2. ASSUME NEW c \in Clients, OnResponse(c)
      PROVE  RequestInv'
  BY <1>2, OnResponseKeepsCallers
<1>3. CASE AsyncNotification
  BY <1>3, RequestsUntouched DEF AsyncNotification
<1>4. ASSUME NEW c \in Clients,
             \/ OnConnected(c) \/ Refused(c) \/ OnClosed(c) \/ ConnectFails(c)
             \/ CenterReads(c) \/ WireLoses(c)
      PROVE  RequestInv'
  BY <1>4, RequestsUntouched
     DEF OnConnected, Refused, OnClosed, ConnectFails, CenterReads, WireLoses
<1>5. CASE TenSeconds \/ \E id \in Requests : EightSeconds(id)
  BY <1>5, RequestsUntouched DEF TenSeconds, EightSeconds
<1>6. CASE UNCHANGED vars
  BY <1>6, RequestsUntouched DEF vars
<1> QED
  BY <1>1, <1>2, <1>3, <1>4, <1>5, <1>6 DEF Next

\* OnAsyncRequestResponse is called on the caller that made the request, and
\* once, over however many connections requests and answers travel.
THEOREM AnswersReachTheirCallerAlways == Spec => []AnswersReachTheirCaller
<1>1. Init => RequestInv
  BY DEF Init, RequestInv, RequestType, Waiting, Answered, AnswersReachTheirCaller, Calls
<1>2. RequestInv /\ [Next]_vars => RequestInv'
  BY RequestStep
<1>3. RequestInv => AnswersReachTheirCaller
  BY DEF RequestInv
<1> QED
  BY <1>1, <1>2, <1>3, PTL DEF Spec

-----------------------------------------------------------------------------
(* Types *)

\* The clients, the flag and the periods.
LinkType ==
    /\ client \in [Clients -> ClientStates]
    /\ current \in 0 .. MaxClients
    /\ \A c \in Clients : client[c] = "none" <=> c > current
    /\ is_connected_ \in BOOLEAN /\ recent \in BOOLEAN
    /\ periods \in 0 .. MaxPeriods

\* The requests that wait.
CallbackType ==
    /\ request_id_ \in 1 .. MaxRequests + 1
    /\ DOMAIN async_request_cbs_ \subseteq 1 .. request_id_ - 1
    /\ Range(async_request_cbs_) \subseteq Callers
    /\ expired \subseteq DOMAIN async_request_cbs_
    /\ asked \in [Requests -> Callers \cup {None}]

\* What is on its way.
WireType ==
    /\ wire \in [Clients -> [Periods -> Seq(Messages)]]
    /\ lossy \in BOOLEAN
    /\ answers \in [Clients -> Seq(Requests)]

LEMMA TypeParts == TypeOK <=> LinkType /\ CallbackType /\ WireType
BY DEF TypeOK, LinkType, CallbackType, WireType, ClientStates

LEMMA AsyncConnectType ==
    ASSUME LinkType, AsyncConnect, UNCHANGED <<is_connected_, periods>>
    PROVE  LinkType'
<1>1. CASE is_connected_ \/ recent
  BY <1>1 DEF AsyncConnect, LinkType
<1>2. CASE ~(is_connected_ \/ recent)
  <2>1. /\ current < MaxClients /\ current' = current + 1 /\ recent' = TRUE
        /\ client' = [client EXCEPT ![current + 1] = "connecting"]
    BY <1>2 DEF AsyncConnect
  <2>2. current \in Nat /\ MaxClients \in Nat /\ current + 1 \in Clients
    BY <2>1, ClientAssumption DEF LinkType, Clients
  <2>3. client' \in [Clients -> ClientStates]
    BY <2>1 DEF LinkType, ClientStates
  <2>4. ASSUME NEW c \in Clients PROVE client'[c] = "none" <=> c > current'
    <3>1. c \in Nat
      BY DEF Clients
    <3>2. CASE c = current + 1
      BY <2>1, <2>2, <3>2 DEF LinkType
    <3>3. CASE c # current + 1
      <4>1. client'[c] = client[c]
        BY <2>1, <3>3 DEF LinkType
      <4>2. c > current <=> c > current + 1
        BY <2>2, <3>1, <3>3
      <4> QED
        BY <2>1, <4>1, <4>2 DEF LinkType
    <3> QED
      BY <3>2, <3>3
  <2>5. current' \in 0 .. MaxClients
    BY <2>1, <2>2
  <2> QED
    BY <2>1, <2>3, <2>4, <2>5 DEF LinkType
<1> QED
  BY <1>1, <1>2

\* One client that was made changes its state.
LEMMA ClientMovesType ==
    ASSUME LinkType, NEW c \in Clients, NEW state \in ClientStates \ {"none"},
           client[c] # "none", client' = [client EXCEPT ![c] = state],
           UNCHANGED <<current, recent>>,
           is_connected_' \in BOOLEAN, periods' \in 0 .. MaxPeriods
    PROVE  LinkType'
<1>1. client' \in [Clients -> ClientStates]
  BY DEF LinkType
<1>2. \A d \in Clients : client'[d] = "none" <=> client[d] = "none"
  BY DEF LinkType
<1> QED
  BY <1>1, <1>2 DEF LinkType

LEMMA LinkTypeStep ==
    ASSUME LinkType, [Next]_vars
    PROVE  LinkType'
<1>1. CASE UNCHANGED <<linkState, current, recent>>
  BY <1>1 DEF LinkType, linkState
<1>2. CASE AsyncConnect /\ UNCHANGED <<is_connected_, periods>>
  BY <1>2, AsyncConnectType
<1>3. ASSUME NEW c \in Clients, OnConnected(c) PROVE LinkType'
  <2>1. /\ client[c] # "none" /\ client' = [client EXCEPT ![c] = "open"]
        /\ UNCHANGED <<current, recent>> /\ is_connected_' \in BOOLEAN
    BY <1>3 DEF OnConnected
  <2>2. periods' \in 0 .. MaxPeriods
    BY <1>3, ClientAssumption DEF OnConnected, LinkType
  <2>3. "open" \in ClientStates \ {"none"}
    BY DEF ClientStates
  <2> QED
    BY <2>1, <2>2, <2>3, ClientMovesType
<1>4. ASSUME NEW c \in Clients, Refused(c) \/ OnClosed(c) \/ ConnectFails(c)
      PROVE  LinkType'
  <2>1. PICK state \in {"refused", "closed"} :
            /\ client[c] # "none" /\ client' = [client EXCEPT ![c] = state]
            /\ UNCHANGED <<current, recent, periods>>
            /\ is_connected_' \in {FALSE, is_connected_}
    BY <1>4 DEF Refused, OnClosed, ConnectFails
  <2>2. is_connected_' \in BOOLEAN /\ periods' \in 0 .. MaxPeriods
    BY <2>1 DEF LinkType
  <2>3. state \in ClientStates \ {"none"}
    BY <2>1 DEF ClientStates
  <2> QED
    BY <2>1, <2>2, <2>3, ClientMovesType
<1>5. ASSUME NEW c \in Clients, OnResponse(c) \/ CenterReads(c) \/ WireLoses(c)
      PROVE  UNCHANGED <<linkState, current, recent>>
  BY <1>5 DEF OnResponse, CenterReads, WireLoses
<1>6. CASE TenSeconds
  BY <1>6 DEF TenSeconds, LinkType, linkState
<1>7. ASSUME NEW id \in Requests, EightSeconds(id)
      PROVE  UNCHANGED <<linkState, current, recent>>
  BY <1>7 DEF EightSeconds
<1>8. ASSUME NEW cb \in Callers, AsyncRequest(cb) PROVE LinkType'
  BY <1>1, <1>2, <1>8 DEF AsyncRequest
<1>9. CASE AsyncNotification
  BY <1>1, <1>2, <1>9 DEF AsyncNotification
<1>10. UNCHANGED vars => UNCHANGED <<linkState, current, recent>>
  BY DEF vars
<1> QED
  BY <1>1, <1>3, <1>4, <1>5, <1>6, <1>7, <1>8, <1>9, <1>10 DEF Next

LEMMA CallbackTypeStep ==
    ASSUME CallbackType, [Next]_vars
    PROVE  CallbackType'
<1>1. CASE UNCHANGED <<requestState, expired>>
  BY <1>1 DEF CallbackType, requestState
<1>2. ASSUME NEW cb \in Callers, AsyncRequest(cb) PROVE CallbackType'
  <2>1. CASE UNCHANGED requestState
    BY <1>1, <1>2, <2>1 DEF AsyncRequest
  <2>2. CASE /\ request_id_ <= MaxRequests
             /\ request_id_' = request_id_ + 1
             /\ async_request_cbs_' = Insert(async_request_cbs_, request_id_, cb)
             /\ asked' = [asked EXCEPT ![request_id_] = cb]
             /\ expired' = expired
    <3>1. request_id_ \in Nat \ {0} /\ request_id_ <= MaxRequests /\ MaxRequests \in Nat
      BY <2>2, ClientAssumption DEF CallbackType
    <3>2. request_id_' \in 1 .. MaxRequests + 1
      BY <2>2, <3>1
    <3>3. /\ DOMAIN async_request_cbs_' = DOMAIN async_request_cbs_ \cup {request_id_}
          /\ \A r \in DOMAIN async_request_cbs_' :
                 async_request_cbs_'[r] \in Range(async_request_cbs_) \cup {cb}
      BY <2>2 DEF Insert, Range
    <3>4. DOMAIN async_request_cbs_' \subseteq 1 .. request_id_' - 1
      BY <2>2, <3>1, <3>3 DEF CallbackType
    <3>5. Range(async_request_cbs_') \subseteq Callers
      BY <3>3 DEF CallbackType, Range
    <3>6. asked' \in [Requests -> Callers \cup {None}]
      BY <2>2 DEF CallbackType
    <3> QED
      BY <2>2, <3>2, <3>3, <3>4, <3>5, <3>6 DEF CallbackType
  <2> QED
    BY <1>2, <2>1, <2>2 DEF AsyncRequest
<1>3. ASSUME NEW c \in Clients, OnResponse(c) PROVE CallbackType'
  <2>1. PICK id : /\ DOMAIN async_request_cbs_' = DOMAIN async_request_cbs_ \ {id}
                  /\ \A r \in DOMAIN async_request_cbs_' :
                         async_request_cbs_'[r] = async_request_cbs_[r]
                  /\ expired' = expired \ {id}
    BY <1>3 DEF OnResponse
  <2>2. Range(async_request_cbs_') \subseteq Range(async_request_cbs_)
    BY <2>1 DEF Range
  <2>3. UNCHANGED <<request_id_, asked>>
    BY <1>3 DEF OnResponse
  <2> QED
    BY <2>1, <2>2, <2>3 DEF CallbackType
<1>4. ASSUME NEW id \in Requests, EightSeconds(id) PROVE CallbackType'
  BY <1>4 DEF EightSeconds, CallbackType, requestState
<1>5. ASSUME \/ AsyncNotification \/ TenSeconds \/ UNCHANGED vars
             \/ \E c \in Clients : \/ OnConnected(c) \/ Refused(c) \/ OnClosed(c)
                                   \/ ConnectFails(c) \/ CenterReads(c) \/ WireLoses(c)
      PROVE  UNCHANGED <<requestState, expired>>
  BY <1>5 DEF AsyncNotification, TenSeconds, vars, OnConnected, Refused, OnClosed,
              ConnectFails, CenterReads, WireLoses
<1> QED
  BY <1>1, <1>2, <1>3, <1>4, <1>5 DEF Next

\* The ways in which what was written to the client c in the period n changes.
WireChange(c, n, ps) == wire' = [wire EXCEPT ![c][n] = ps]

LEMMA WireChangeDoes ==
    ASSUME wire \in [Clients -> [Periods -> Seq(Messages)]],
           NEW c \in Clients, NEW n \in Periods, NEW ps \in Seq(Messages), WireChange(c, n, ps)
    PROVE  /\ wire' \in [Clients -> [Periods -> Seq(Messages)]]
           /\ wire'[c][n] = ps
           /\ \A d \in Clients, m \in Periods :
                  d # c \/ m # n => wire'[d][m] = wire[d][m]
<1> DEFINE f == [wire[c] EXCEPT ![n] = ps]
<1>1. wire' = [wire EXCEPT ![c] = f]
  BY DEF WireChange
<1>2. /\ f \in [Periods -> Seq(Messages)] /\ f[n] = ps
      /\ \A m \in Periods : m # n => f[m] = wire[c][m]
  OBVIOUS
<1> HIDE DEF f
<1> QED
  BY <1>1, <1>2

-----------------------------------------------------------------------------
(* One connection carries each period *)

\* When is_connected_ is true the current client carries the period; nothing was
\* written in a period to come, and no period has messages on two clients.
Carried ==
    /\ is_connected_ => periods # 0 /\ current # 0 /\ Alone(current, periods)
    /\ \A c \in Clients, n \in Periods : n > periods => wire[c][n] = <<>>
    /\ \A n \in Periods : \E c \in Clients : Alone(c, n)

ClientInv == TypeOK /\ Carried

\* What a step does to the link.  Nothing, unless the current client changes
\* while there is no connection:
Stays ==
    /\ UNCHANGED <<wireState, is_connected_, periods>>
    /\ is_connected_ => current' = current

Connects ==
    /\ ~is_connected_ /\ is_connected_' = TRUE
    /\ periods < MaxPeriods /\ periods' = periods + 1
    /\ UNCHANGED <<wireState, current>> /\ current # 0

Closes == is_connected_ /\ is_connected_' = FALSE /\ UNCHANGED <<wireState, current, periods>>

Written(id) ==
    /\ is_connected_ /\ Len(wire[current][periods]) < MaxWire
    /\ WireChange(current, periods, Append(wire[current][periods], id))
    /\ UNCHANGED <<lossy, current, is_connected_, periods>>

\* A write to a current client that is not open is lost.
Loses ==
    /\ is_connected_ /\ Len(wire[current][periods]) < MaxWire
    /\ lossy' = TRUE
    /\ UNCHANGED <<wire, current, is_connected_, periods>>

\* The center reads a message of the period n, or the rest of them is lost.
Taken(c, n, rest) ==
    /\ wire[c][n] # <<>> /\ rest \in {Tail(wire[c][n]), <<>>}
    /\ WireChange(c, n, rest)
    /\ UNCHANGED <<lossy, current, is_connected_, periods>>

LinkMoves ==
    \/ Stays \/ Connects \/ Closes \/ Loses
    \/ \E id \in Messages : Written(id)
    \/ \E c \in Clients, n \in Periods, rest \in Seq(Messages) : Taken(c, n, rest)

\* AsyncRequest and AsyncNotification write to the current client, or lose the
\* message.
LEMMA WriteMoves ==
    ASSUME NEW id \in Messages, Write(id), is_connected_, Fits,
           UNCHANGED <<linkState, current>>
    PROVE  Loses \/ Written(id)
BY DEF Write, Fits, Loses, Written, WireChange, linkState

\* A client that was made is not after the current one.
LEMMA MadeClient ==
    ASSUME TypeOK, NEW c \in Clients, client[c] # "none"
    PROVE  current # 0
<1>1. c \in Nat /\ c > 0 /\ current \in Nat /\ ~(c > current)
  BY ClientAssumption DEF TypeOK, Clients
<1> QED
  BY <1>1

LEMMA LinkMovesOnly ==
    ASSUME TypeOK, [Next]_vars
    PROVE  LinkMoves
<1>1. ASSUME NEW cb \in Callers, AsyncRequest(cb) PROVE LinkMoves
  <2>1. CASE ~is_connected_ /\ AsyncConnect /\ UNCHANGED <<is_connected_, periods, wireState>>
    BY <2>1 DEF Stays, LinkMoves
  <2>2. CASE is_connected_ /\ Write(request_id_) /\ UNCHANGED <<linkState, current>> /\ Fits
    <3>1. request_id_ \in Messages
      BY <1>1, ClientAssumption DEF AsyncRequest, TypeOK, Messages, Requests
    <3> QED
      BY <2>2, <3>1, WriteMoves DEF LinkMoves
  <2> QED
    BY <1>1, <2>1, <2>2 DEF AsyncRequest
<1>2. CASE AsyncNotification
  <2>1. CASE ~is_connected_ /\ AsyncConnect /\ UNCHANGED <<is_connected_, periods, wireState>>
    BY <2>1 DEF Stays, LinkMoves
  <2>2. CASE is_connected_ /\ Write(Notification) /\ UNCHANGED <<linkState, current>> /\ Fits
    <3>1. Notification \in Messages
      BY DEF Messages
    <3> QED
      BY <2>2, <3>1, WriteMoves DEF LinkMoves
  <2> QED
    BY <1>2, <2>1, <2>2 DEF AsyncNotification
<1>3. ASSUME NEW c \in Clients, OnConnected(c) PROVE LinkMoves
  <2>1. current # 0
    BY <1>3, MadeClient DEF OnConnected
  <2> QED
    BY <1>3, <2>1 DEF OnConnected, Stays, Connects, LinkMoves, TypeOK
<1>4. ASSUME NEW c \in Clients, Refused(c) \/ OnClosed(c) PROVE LinkMoves
  BY <1>4 DEF Refused, OnClosed, Stays, Closes, LinkMoves, TypeOK
<1>5. ASSUME NEW c \in Clients, CenterReads(c) \/ WireLoses(c) PROVE LinkMoves
  <2>1. PICK n \in Periods :
            /\ wire[c][n] # <<>>
            /\ WireChange(c, n, Tail(wire[c][n])) \/ WireChange(c, n, <<>>)
    BY <1>5 DEF CenterReads, WireLoses, WireChange
  <2>2. UNCHANGED <<lossy, current, is_connected_, periods>>
    BY <1>5 DEF CenterReads, WireLoses, linkState
  <2>3. wire[c][n] \in Seq(Messages)
    BY DEF TypeOK
  <2>4. Tail(wire[c][n]) \in Seq(Messages) /\ <<>> \in Seq(Messages)
    BY <2>1, <2>3
  <2>5. Taken(c, n, Tail(wire[c][n])) \/ Taken(c, n, <<>>)
    BY <2>1, <2>2 DEF Taken
  <2> QED
    BY <2>4, <2>5 DEF LinkMoves
<1>6. ASSUME \/ TenSeconds \/ UNCHANGED vars
             \/ \E c \in Clients : ConnectFails(c) \/ OnResponse(c)
             \/ \E id \in Requests : EightSeconds(id)
      PROVE  Stays
  BY <1>6 DEF TenSeconds, vars, ConnectFails, OnResponse, EightSeconds, Stays, linkState, wireState
<1> QED
  BY <1>1, <1>2, <1>3, <1>4, <1>5, <1>6 DEF Next, LinkMoves

\* What was written in the period n to the client that carries it becomes ps.
CarrierChange(c, n, ps) ==
    /\ WireChange(c, n, ps) /\ Alone(c, n) /\ n <= periods
    /\ is_connected_ /\ n = periods => c = current

\* Only the carrier of a period has messages of it to be taken.
LEMMA TakenFromCarrier ==
    ASSUME TypeOK, Carried, NEW c \in Clients, NEW n \in Periods,
           NEW rest \in Seq(Messages), Taken(c, n, rest)
    PROVE  CarrierChange(c, n, rest)
<1>1. PICK d \in Clients : Alone(d, n)
  BY DEF Carried
<1>2. d = c
  BY <1>1 DEF Alone, Taken
<1>3. n \in Nat /\ periods \in Nat /\ ~(n > periods)
  BY ClientAssumption DEF Taken, Carried, TypeOK, Periods
<1>4. is_connected_ /\ n = periods => c = current
  BY DEF Carried, Alone, Taken
<1> QED
  BY <1>1, <1>2, <1>3, <1>4 DEF Taken, CarrierChange

\* A write or a read touches one sequence of messages.
LEMMA MoveChanges ==
    ASSUME TypeOK, Carried,
           \/ \E id \in Messages : Written(id)
           \/ \E c \in Clients, n \in Periods, rest \in Seq(Messages) : Taken(c, n, rest)
    PROVE  \E c \in Clients, n \in Periods, ps \in Seq(Messages) : CarrierChange(c, n, ps)
<1>1. ASSUME NEW id \in Messages, Written(id)
      PROVE  \E c \in Clients, n \in Periods, ps \in Seq(Messages) : CarrierChange(c, n, ps)
  <2>1. current \in Clients /\ periods \in Periods /\ Alone(current, periods)
    BY <1>1, ClientAssumption DEF Written, Carried, TypeOK, Clients, Periods
  <2>2. wire[current][periods] \in Seq(Messages)
    BY <2>1 DEF TypeOK
  <2>3. Append(wire[current][periods], id) \in Seq(Messages)
    BY <2>2
  <2>4. periods <= periods
    BY DEF TypeOK
  <2> QED
    BY <1>1, <2>1, <2>3, <2>4 DEF Written, CarrierChange
<1> QED
  BY <1>1, TakenFromCarrier

LEMMA WireTypeStep ==
    ASSUME TypeOK, Carried, [Next]_vars
    PROVE  WireType'
<1>1. wire' \in [Clients -> [Periods -> Seq(Messages)]]
  <2>1. CASE wire' = wire
    BY <2>1 DEF TypeOK
  <2>2. ASSUME NEW c \in Clients, NEW n \in Periods, NEW ps \in Seq(Messages),
               WireChange(c, n, ps)
        PROVE  wire' \in [Clients -> [Periods -> Seq(Messages)]]
    BY <2>2, WireChangeDoes DEF TypeOK
  <2> QED
    BY <2>1, <2>2, LinkMovesOnly, MoveChanges
       DEF LinkMoves, Stays, Connects, Closes, Loses, CarrierChange, wireState
<1>2. answers' \in [Clients -> Seq(Requests)]
  <2>1. CASE answers' = answers
    BY <2>1 DEF TypeOK
  <2>2. ASSUME NEW c \in Clients, NEW ps \in Seq(Requests),
               answers' = [answers EXCEPT ![c] = ps]
        PROVE  answers' \in [Clients -> Seq(Requests)]
    BY <2>2 DEF TypeOK
  <2>3. ASSUME NEW c \in Clients, OnResponse(c)
        PROVE  answers' \in [Clients -> Seq(Requests)]
    <3>1. answers[c] \in Seq(Requests) /\ answers[c] # <<>>
      BY <2>3 DEF OnResponse, TypeOK
    <3>2. Tail(answers[c]) \in Seq(Requests)
      BY <3>1
    <3> QED
      BY <2>2, <2>3, <3>2 DEF OnResponse
  <2>4. ASSUME NEW c \in Clients, CenterReads(c)
        PROVE  answers' \in [Clients -> Seq(Requests)]
    <3>1. PICK n \in Periods :
              /\ wire[c][n] # <<>>
              /\ answers' = IF \/ Head(wire[c][n]) = Notification
                               \/ client[c] \in {"refused", "closed"}
                            THEN answers
                            ELSE [answers EXCEPT ![c] = Append(@, Head(wire[c][n]))]
      BY <2>4 DEF CenterReads
    <3>2. wire[c][n] \in Seq(Messages) /\ answers[c] \in Seq(Requests)
      BY DEF TypeOK
    <3>3. Head(wire[c][n]) \in Messages
      BY <3>1, <3>2
    <3>4. CASE answers' = answers
      BY <2>1, <3>4
    <3>5. CASE /\ Head(wire[c][n]) # Notification
               /\ answers' = [answers EXCEPT ![c] = Append(answers[c], Head(wire[c][n]))]
      <4>1. Head(wire[c][n]) \in Requests
        BY <3>3, <3>5 DEF Messages
      <4>2. Append(answers[c], Head(wire[c][n])) \in Seq(Requests)
        BY <3>2, <4>1
      <4> QED
        BY <2>2, <3>5, <4>2
    <3> QED
      BY <3>1, <3>4, <3>5
  <2>5. ASSUME \/ AsyncNotification \/ TenSeconds \/ UNCHANGED vars
               \/ \E cb \in Callers : AsyncRequest(cb)
               \/ \E id \in Requests : EightSeconds(id)
               \/ \E c \in Clients : \/ OnConnected(c) \/ Refused(c) \/ OnClosed(c)
                                     \/ ConnectFails(c) \/ WireLoses(c)
        PROVE  answers' = answers
    BY <2>5 DEF AsyncNotification, TenSeconds, vars, AsyncRequest, EightSeconds,
                OnConnected, Refused, OnClosed, ConnectFails, WireLoses
  <2> QED
    BY <2>1, <2>3, <2>4, <2>5 DEF Next
<1>3. lossy' \in BOOLEAN
  BY LinkMovesOnly DEF LinkMoves, Stays, Connects, Closes, Loses, Written, Taken, wireState, TypeOK
<1> QED
  BY <1>1, <1>2, <1>3 DEF WireType

LEMMA CarriedStep ==
    ASSUME TypeOK, Carried, LinkMoves
    PROVE  Carried'
<1>0. periods \in Nat /\ MaxPeriods \in Nat
  BY ClientAssumption DEF TypeOK
<1>1. CASE Stays
  <2>1. \A c, n : Alone(c, n)' <=> Alone(c, n)
    BY <1>1 DEF Stays, Alone, wireState
  <2> QED
    BY <1>1, <2>1 DEF Stays, Carried, wireState
<1>2. CASE Closes
  <2>1. \A c, n : Alone(c, n)' <=> Alone(c, n)
    BY <1>2 DEF Closes, Alone, wireState
  <2> QED
    BY <1>2, <2>1 DEF Closes, Carried, wireState
<1>3. CASE Connects
  <2>1. \A c, n : Alone(c, n)' <=> Alone(c, n)
    BY <1>3 DEF Connects, Alone, wireState
  <2>2. periods' \in Periods /\ periods' > periods /\ periods' # 0 /\ current' # 0
    BY <1>0, <1>3 DEF Connects, Periods
  <2>3. Alone(current, periods')
    BY <2>2 DEF Carried, Alone
  <2>4. \A n \in Periods : n > periods' => n > periods
    BY <1>0, <1>3 DEF Connects, Periods
  <2>5. Alone(current, periods)'
    BY <1>3, <2>3 DEF Connects, Alone, wireState
  <2> QED
    BY <1>3, <2>1, <2>2, <2>4, <2>5 DEF Connects, Carried, wireState
<1>4. ASSUME NEW c \in Clients, NEW n \in Periods, NEW ps \in Seq(Messages),
             CarrierChange(c, n, ps),
             UNCHANGED <<current, is_connected_, periods>>
      PROVE  Carried'
  <2>1. \A d \in Clients, m \in Periods : d # c \/ m # n => wire'[d][m] = wire[d][m]
    BY <1>4, WireChangeDoes DEF TypeOK, CarrierChange
  <2>2. ASSUME NEW d \in Clients, NEW m \in Periods, Alone(d, m), m # n \/ d = c
        PROVE  Alone(d, m)'
    BY <2>1, <2>2 DEF Alone
  <2>3. Alone(c, n)'
    BY <1>4, <2>2 DEF CarrierChange
  <2>4. \A m \in Periods : \E d \in Clients : Alone(d, m)'
    <3>1. ASSUME NEW m \in Periods PROVE \E d \in Clients : Alone(d, m)'
      <4>1. CASE m = n
        BY <2>3, <4>1
      <4>2. CASE m # n
        <5>1. PICK d \in Clients : Alone(d, m)
          BY DEF Carried
        <5> QED
          BY <2>2, <4>2, <5>1
      <4> QED
        BY <4>1, <4>2
    <3> QED
      BY <3>1
  <2>5. ASSUME is_connected_ PROVE Alone(current, periods)'
    <3>1. Alone(current, periods) /\ current \in Clients /\ periods \in Periods
      BY <2>5, ClientAssumption DEF Carried, TypeOK, Clients, Periods
    <3>2. ASSUME NEW d \in Clients \ {current} PROVE wire'[d][periods] = <<>>
      <4>1. wire[d][periods] = <<>>
        BY <3>1 DEF Alone
      <4>2. d # c \/ periods # n
        BY <1>4, <2>5 DEF CarrierChange
      <4> QED
        BY <2>1, <3>1, <4>1, <4>2
    <3> QED
      BY <1>4, <3>2 DEF Alone
  <2>6. ASSUME NEW d \in Clients, NEW m \in Periods, m > periods PROVE wire'[d][m] = <<>>
    <3>1. m # n
      BY <1>0, <1>4, <2>6 DEF Periods, CarrierChange
    <3> QED
      BY <2>1, <2>6, <3>1 DEF Carried
  <2> QED
    BY <1>4, <2>4, <2>5, <2>6 DEF Carried
<1>5. CASE Loses
  <2>1. \A c, n : Alone(c, n)' <=> Alone(c, n)
    BY <1>5 DEF Loses, Alone
  <2> QED
    BY <1>5, <2>1 DEF Loses, Carried
<1> QED
  BY <1>1, <1>2, <1>3, <1>4, <1>5, MoveChanges DEF LinkMoves, Written, Taken

\* Every step keeps the types, and each period on one connection.
LEMMA ClientStep == ClientInv /\ [Next]_vars => ClientInv'
<1> SUFFICES ASSUME ClientInv, [Next]_vars PROVE ClientInv'
  OBVIOUS
<1>1. TypeOK /\ Carried /\ LinkType /\ CallbackType
  BY TypeParts DEF ClientInv
<1>2. Carried'
  BY <1>1, LinkMovesOnly, CarriedStep
<1>3. LinkType' /\ CallbackType' /\ WireType'
  BY <1>1, LinkTypeStep, CallbackTypeStep, WireTypeStep
<1>4. TypeOK'
  BY <1>3, TypeParts, PTL
<1> QED
  BY <1>2, <1>4 DEF ClientInv

LEMMA ClientInit == Init => ClientInv
<1> SUFFICES ASSUME Init PROVE ClientInv
  OBVIOUS
<1>1. /\ MaxClients \in Nat /\ MaxPeriods \in Nat /\ MaxRequests \in Nat
      /\ 1 \in Clients
  BY ClientAssumption DEF Clients
<1>2. LinkType
  <2>1. client \in [Clients -> ClientStates] /\ \A c \in Clients : client[c] = "none"
    BY DEF Init, ClientStates
  <2>2. \A c \in Clients : c > 0
    BY <1>1 DEF Clients
  <2>3. 0 \in 0 .. MaxClients /\ 0 \in 0 .. MaxPeriods
    BY <1>1
  <2> QED
    BY <2>1, <2>2, <2>3 DEF Init, LinkType
<1>3. CallbackType
  <2>1. DOMAIN async_request_cbs_ = {} /\ Range(async_request_cbs_) = {}
    BY DEF Init, Range
  <2> QED
    BY <1>1, <2>1 DEF Init, CallbackType
<1>4. WireType
  <2>1. /\ wire \in [Clients -> [Periods -> Seq(Messages)]]
        /\ answers \in [Clients -> Seq(Requests)]
    BY DEF Init
  <2>2. lossy \in BOOLEAN
    BY DEF Init
  <2> QED
    BY <2>1, <2>2 DEF WireType
<1>5. \A c \in Clients, n \in Periods : wire[c][n] = <<>>
  BY DEF Init
<1>6. Carried
  BY <1>1, <1>5 DEF Init, Carried, Alone
<1> QED
  BY <1>2, <1>3, <1>4, <1>6, TypeParts DEF ClientInv

LEMMA ClientAlways == Spec => []ClientInv
BY ClientInit, ClientStep, PTL DEF Spec

\* Every variable of PilotMessageClient and its clients keeps its type: only
\* clients that were made have a state, only requests that wait expire, and no
\* id is given out twice.
THEOREM TypeCorrect == Spec => []TypeOK
<1>1. ClientInv => TypeOK
  BY DEF ClientInv
<1> QED
  BY <1>1, ClientAlways, PTL

-----------------------------------------------------------------------------
(* PilotClient implements CenterLink *)

UnreadOnCarrier ==
    \A c \in Clients, n \in Periods : Alone(c, n) => Unread(n) = wire[c][n]

LEMMA UnreadIs == UnreadOnCarrier
<1> SUFFICES ASSUME NEW c \in Clients, NEW n \in Periods, Alone(c, n)
             PROVE  Unread(n) = wire[c][n]
  BY DEF UnreadOnCarrier
<1> DEFINE e == CHOOSE d \in Clients : Alone(d, n)
<1>1. e \in Clients /\ Alone(e, n) /\ Unread(n) = wire[e][n]
  BY DEF Unread
<1> HIDE DEF e
<1>2. e # c => wire[e][n] = <<>> /\ wire[c][n] = <<>>
  BY <1>1 DEF Alone
<1> QED
  BY <1>1, <1>2

\* A step that leaves the wires alone leaves unread what was.
LEMMA UnreadStays ==
    ASSUME wire' = wire
    PROVE  \A n : Unread(n)' = Unread(n)
BY DEF Unread, Alone

\* The unread messages of a period change as those of its carrier, and the other
\* periods' not at all.
LEMMA UnreadChanges ==
    ASSUME TypeOK, Carried, Carried', NEW c \in Clients, NEW n \in Periods,
           NEW ps \in Seq(Messages), CarrierChange(c, n, ps)
    PROVE  /\ Unread(n) = wire[c][n] /\ Unread(n)' = ps
           /\ \A m \in Periods : m # n => Unread(m)' = Unread(m)
<1>1. /\ wire'[c][n] = ps
      /\ \A d \in Clients, m \in Periods : d # c \/ m # n => wire'[d][m] = wire[d][m]
  BY WireChangeDoes DEF TypeOK, CarrierChange
<1>2. UnreadOnCarrier /\ UnreadOnCarrier'
  BY UnreadIs, PTL
<1>3. Alone(c, n) /\ Alone(c, n)'
  BY <1>1 DEF CarrierChange, Alone
<1>4. Unread(n) = wire[c][n] /\ Unread(n)' = ps
  BY <1>1, <1>2, <1>3 DEF UnreadOnCarrier
<1>5. ASSUME NEW m \in Periods, m # n PROVE Unread(m)' = Unread(m)
  <2>1. PICK d \in Clients : Alone(d, m)
    BY DEF Carried
  <2>2. Alone(d, m)' /\ wire'[d][m] = wire[d][m]
    BY <1>1, <1>5, <2>1 DEF Alone
  <2> QED
    BY <1>2, <2>1, <2>2 DEF UnreadOnCarrier
<1> QED
  BY <1>4, <1>5

\* The sequences of CenterLink, with what of each period is unread.
Up == [x \in {Sfu} \X Periods |-> Unread(x[2])]

LEMMA UpStays ==
    ASSUME wire' = wire
    PROVE  Up' = Up
BY UnreadStays DEF Up

LEMMA UpChanges ==
    ASSUME TypeOK, Carried, Carried', NEW c \in Clients, NEW n \in Periods,
           NEW ps \in Seq(Messages), CarrierChange(c, n, ps)
    PROVE  /\ <<Sfu, n>> \in DOMAIN Up /\ Up[<<Sfu, n>>] = wire[c][n]
           /\ Up' = [Up EXCEPT ![<<Sfu, n>>] = ps]
<1>1. /\ Unread(n) = wire[c][n] /\ Unread(n)' = ps
      /\ \A m \in Periods : m # n => Unread(m)' = Unread(m)
  BY UnreadChanges
<1>2. <<Sfu, n>> \in {Sfu} \X Periods /\ <<Sfu, n>>[2] = n
  OBVIOUS
<1>3. \A x \in {Sfu} \X Periods : x # <<Sfu, n>> => x[2] \in Periods /\ x[2] # n
  OBVIOUS
<1>4. Up' = [x \in {Sfu} \X Periods |-> Unread(x[2])']
  BY DEF Up
<1>5. \A x \in {Sfu} \X Periods :
          Unread(x[2])' = IF x = <<Sfu, n>> THEN ps ELSE Unread(x[2])
  BY <1>1, <1>2, <1>3
<1> QED
  BY <1>1, <1>2, <1>4, <1>5 DEF Up

\* The other variables of CenterLink.
Conn == [s \in {Sfu} |-> is_connected_]

Epoch == [s \in {Sfu} |-> periods]

Lossy == [s \in {Sfu} |-> lossy]

LEMMA MapIs ==
    /\ Conn[Sfu] = is_connected_ /\ Epoch[Sfu] = periods
    /\ Link!linkVars = <<Conn, Epoch, Up, Lossy>>
    /\ Link!Sid(Sfu) = <<Sfu, periods>>
    /\ \A msgs : Link!Writes(Sfu, msgs) =
           IF is_connected_ THEN [Up EXCEPT ![<<Sfu, periods>>] = @ \o msgs] ELSE Up
BY DEF Conn, Epoch, Up, Lossy, Link!linkVars, Link!Sid, Link!Writes

\* A step of the link is one of CenterLink, or changes nothing there.
LEMMA LinkSimulates ==
    ASSUME TypeOK, Carried, Carried', LinkMoves
    PROVE  [LinkStep]_(Link!linkVars)
<1>1. CASE Stays
  BY <1>1, UpStays DEF Stays, wireState, Link!linkVars, Up
<1>2. CASE Connects
  <2>1. /\ ~is_connected_ /\ is_connected_' = TRUE /\ UNCHANGED <<wire, lossy>>
        /\ periods < MaxPeriods /\ periods' = periods + 1
    BY <1>2 DEF Connects, wireState
  <2>2. Up' = Up
    BY <2>1, UpStays
  <2>3. Link!Connect(Sfu)
    BY <2>1, <2>2 DEF Link!Connect, Up
  <2> QED
    BY <2>3 DEF LinkStep
<1>3. CASE Closes
  <2>1. Up' = Up
    BY <1>3, UpStays DEF Closes, wireState
  <2>2. Link!OnClosed(Sfu)
    BY <1>3, <2>1 DEF Closes, wireState, Link!OnClosed, Up
  <2> QED
    BY <2>2 DEF LinkStep
<1>4. ASSUME NEW id \in Messages, Written(id) PROVE LinkStep
  <2> DEFINE q == wire[current][periods]
             x == <<Sfu, periods>>
  <2>1. current \in Clients /\ periods \in Periods /\ Alone(current, periods)
    BY <1>4, ClientAssumption DEF Written, Carried, TypeOK, Clients, Periods
  <2>2. q \in Seq(Messages) /\ Append(q, id) \in Seq(Messages) /\ Append(q, id) = q \o <<id>>
    <3>1. q \in Seq(Messages)
      BY <2>1 DEF TypeOK
    <3> QED
      BY <3>1
  <2>3. CarrierChange(current, periods, Append(q, id))
    BY <1>4, <2>1, ClientAssumption DEF Written, CarrierChange, Periods
  <2>4. Up[x] = q /\ x \in DOMAIN Up /\ Up' = [Up EXCEPT ![x] = Append(q, id)]
    BY <2>1, <2>2, <2>3, UpChanges
  <2>5. Up' = [Up EXCEPT ![x] = @ \o <<id>>]
    BY <2>2, <2>4
  <2>6. Len(Up[x]) + 1 <= MaxWire
    BY <1>4, <2>2, <2>4, ClientAssumption DEF Written
  <2>7. is_connected_ /\ UNCHANGED <<lossy, is_connected_, periods>>
    BY <1>4 DEF Written
  <2> HIDE DEF q
  <2>8. Link!Fits(Sfu, Len(<<id>>))
    <3>1. Len(<<id>>) = 1
      OBVIOUS
    <3> QED
      BY <2>6, <3>1 DEF Link!Fits, Link!Sid, Up
  <2>9. Up' = Link!Writes(Sfu, <<id>>)
    BY <2>5, <2>7, MapIs
  <2>10. Link!Send(Sfu, <<id>>)
    BY <2>7, <2>8, <2>9 DEF Link!Send, Up
  <2> QED
    BY <2>10 DEF LinkStep
<1>5. ASSUME NEW c \in Clients, NEW n \in Periods, NEW rest \in Seq(Messages),
             Taken(c, n, rest)
      PROVE  LinkStep
  <2> DEFINE x == <<Sfu, n>>
  <2>1. CarrierChange(c, n, rest)
    BY <1>5, TakenFromCarrier
  <2>2. Up[x] = wire[c][n] /\ Up' = [Up EXCEPT ![x] = rest]
    BY <2>1, UpChanges
  <2>3. Up[x] # <<>> /\ rest \in {Tail(Up[x]), <<>>}
    BY <1>5, <2>2 DEF Taken
  <2>4. UNCHANGED <<lossy, is_connected_, periods>>
    BY <1>5 DEF Taken
  <2>5. Link!CenterTakes(x)
    BY <2>2, <2>3, <2>4 DEF Link!CenterTakes, Up
  <2>6. x \in Link!Sids
    BY DEF Link!Sids, Periods
  <2> QED
    BY <2>5, <2>6 DEF LinkStep
<1>6. CASE Loses
  <2> DEFINE x == <<Sfu, periods>>
  <2>1. /\ is_connected_ /\ lossy' = TRUE /\ UNCHANGED <<wire, is_connected_, periods>>
        /\ Len(wire[current][periods]) < MaxWire
    BY <1>6 DEF Loses
  <2>2. current \in Clients /\ periods \in Periods /\ Alone(current, periods)
    BY <2>1, ClientAssumption DEF Carried, TypeOK, Clients, Periods
  <2>3. Up[x] = wire[current][periods] /\ Up' = Up
    BY <2>1, <2>2, UnreadIs, UpStays DEF Up, UnreadOnCarrier
  <2>4. Len(wire[current][periods]) \in Nat
    BY <2>2 DEF TypeOK
  <2>5. Len(Up[x]) + 1 <= MaxWire
    BY <2>1, <2>3, <2>4, ClientAssumption
  <2>6. Link!Fits(Sfu, Len(<<Notification>>)) /\ <<Notification>> # <<>>
    <3>1. Len(<<Notification>>) = 1
      OBVIOUS
    <3> QED
      BY <2>5, <3>1 DEF Link!Fits, Link!Sid, Up
  <2>7. Link!Send(Sfu, <<Notification>>)
    BY <2>1, <2>3, <2>6 DEF Link!Send, Up
  <2> QED
    BY <2>7 DEF LinkStep, Messages
<1> QED
  BY <1>1, <1>2, <1>3, <1>4, <1>5, <1>6 DEF LinkMoves

\* PilotMessageClient, which keeps its old clients with their callbacks, is the
\* CenterLink the other modules assume: one connection at a time, on which the
\* center reads in order what was written, or loses the end of it; and a write
\* may be lost, while is_connected_ is true through an old connection, as Send of
\* CenterLink may lose it.
THEOREM ClientImplementsCenterLink == Spec => ImplementsCenterLink
<1>1. Init => Link!LinkInit
  <2> SUFFICES ASSUME Init PROVE Link!LinkInit
    OBVIOUS
  <2>1. \A c \in Clients, n \in Periods : wire[c][n] = <<>>
    BY DEF Init
  <2>2. 1 \in Clients
    BY ClientAssumption DEF Clients
  <2>3. \A n \in Periods : Alone(1, n)
    BY <2>1 DEF Alone
  <2>4. \A n \in Periods : Unread(n) = <<>>
    BY <2>1, <2>2, <2>3, UnreadIs DEF UnreadOnCarrier
  <2> QED
    BY <2>4 DEF Init, Link!LinkInit, Link!Sids, Periods
<1>2. ClientInv /\ ClientInv' /\ [Next]_vars => [LinkStep]_(Link!linkVars)
  BY LinkMovesOnly, LinkSimulates DEF ClientInv
<1> QED
  BY <1>1, <1>2, ClientAlways, PTL DEF Spec, ImplementsCenterLink
=============================================================================
