----------------------------- MODULE PilotClient -----------------------------
(***************************************************************************)
(* PilotMessageClient of one SFU with the WsProtooClients and              *)
(* WebSocketClients it makes, one per attempt to connect, the old ones     *)
(* kept in old_clients_ with their callbacks, and the pilot center's       *)
(* answers.  Shown to implement CenterLink, the link the other modules     *)
(* assume.                                                                 *)
(***************************************************************************)
EXTENDS SequencesExt, FiniteSetsExt, Integers

CONSTANTS
    Callers,      \* the AsyncRequestCallbackIs: rooms and RoomMgr
    MaxClients,   \* bound: WsProtooClients made
    MaxPeriods,   \* bound: times is_connected_ becomes true
    MaxRequests,  \* bound: requests
    MaxWire,      \* bound: messages written in one period and not read
    None

Clients == 1 .. MaxClients
Requests == 1 .. MaxRequests
Notification == 0
Messages == Requests \cup {Notification}   \* by their ids
Periods == 1 .. MaxPeriods

ASSUME ClientAssumption ==
    /\ MaxClients \in Nat \ {0} /\ MaxPeriods \in Nat /\ MaxRequests \in Nat
    /\ MaxWire \in Nat /\ None \notin Callers

VARIABLES
    client,              \* the state of each WebSocketClient
    current,             \* ws_protoo_client_ptr_: the last one made, 0 before
    is_connected_,
    recent,              \* last_connecting_ms_ is less than 10 s ago
    request_id_,
    async_request_cbs_,  \* requests waiting for an answer, and their callers
    expired,             \* those older than 8 s
    wire,                \* written to a client, by period, and not read by the center
    lossy,               \* something written while is_connected_ was lost
    answers,             \* the center's answers on their way back
    periods,             \* how often is_connected_ became true
    asked,               \* who made each request
    told                 \* the calls of OnAsyncRequestResponse

linkState == <<client, is_connected_, periods>>
requestState == <<request_id_, async_request_cbs_, asked>>
wireState == <<wire, lossy>>
vars == <<linkState, requestState, current, recent, expired, wireState, answers, told>>

Init ==
    /\ client = [c \in Clients |-> "none"]
    /\ current = 0
    /\ is_connected_ = FALSE
    /\ recent = FALSE
    /\ request_id_ = 1
    /\ async_request_cbs_ = <<>>
    /\ expired = {}
    /\ wire = [c \in Clients |-> [n \in Periods |-> <<>>]]
    /\ lossy = FALSE
    /\ answers = [c \in Clients |-> <<>>]
    /\ periods = 0
    /\ asked = [r \in Requests |-> None]
    /\ told = <<>>

-----------------------------------------------------------------------------
(* PilotMessageClient *)

\* AsyncConnect: at most one attempt every 10 s; the old client is kept.
AsyncConnect ==
    IF is_connected_ \/ recent
    THEN UNCHANGED <<client, current, recent>>
    ELSE /\ current < MaxClients
         /\ current' = current + 1
         /\ client' = [client EXCEPT ![current + 1] = "connecting"]
         /\ recent' = TRUE

\* Mutant: the old clients that are still open are written to as well.
WriteToAll(id) ==
    /\ wire' = [c \in Clients |-> IF client[c] = "open"
                                  THEN [wire[c] EXCEPT ![periods] = Append(@, id)]
                                  ELSE wire[c]]
    /\ lossy' = lossy

\* SendRequest or SendNotification of the current client.  An exception of the
\* write is caught there: the message is lost and nobody is told.  While the
\* client is connecting, what is written after the TLS handshake follows the
\* HTTP request and is the first the center reads; before it, SSL_write fails.
Write(id) ==
    \/ /\ client[current] \in {"open", "connecting"}
       /\ wire' = [wire EXCEPT ![current][periods] = Append(@, id)]
       /\ lossy' = lossy
    \/ client[current] # "open" /\ wire' = wire /\ lossy' = TRUE

\* insert of a std::map: an entry that is there stays.
Insert(m, k, v) ==
    [x \in DOMAIN m \cup {k} |-> IF x \in DOMAIN m THEN m[x] ELSE v]

Fits == is_connected_ => Len(wire[current][periods]) < MaxWire

\* Mutant: all requests have the same id.
AsyncRequestReusesId(cb) ==
    /\ request_id_ <= MaxRequests /\ Fits
    /\ \/ /\ ~is_connected_
          /\ AsyncConnect
          /\ UNCHANGED <<is_connected_, periods, requestState, wireState>>
       \/ /\ is_connected_
          /\ Write(1)
          /\ request_id_' = request_id_ + 1
          /\ async_request_cbs_' = Insert(async_request_cbs_, 1, cb)
          /\ asked' = [asked EXCEPT ![request_id_] = cb]
          /\ UNCHANGED <<linkState, current, recent>>
    /\ UNCHANGED <<expired, answers, told>>

\* Mutant: the id is not counted up.
AsyncRequestNoCount(cb) ==
    /\ request_id_ <= MaxRequests /\ Fits
    /\ \/ /\ ~is_connected_
          /\ AsyncConnect
          /\ UNCHANGED <<is_connected_, periods, requestState, wireState>>
       \/ /\ is_connected_
          /\ Write(request_id_)
          /\ request_id_' = request_id_
          /\ async_request_cbs_' = Insert(async_request_cbs_, request_id_, cb)
          /\ asked' = [asked EXCEPT ![request_id_] = cb]
          /\ UNCHANGED <<linkState, current, recent>>
    /\ UNCHANGED <<expired, answers, told>>

AsyncRequest(cb) ==
    /\ request_id_ <= MaxRequests /\ Fits
    /\ \/ /\ ~is_connected_
          /\ AsyncConnect
          /\ UNCHANGED <<is_connected_, periods, requestState, wireState>>
       \/ /\ is_connected_
          /\ Write(request_id_)
          /\ request_id_' = request_id_ + 1
          /\ async_request_cbs_' = Insert(async_request_cbs_, request_id_, cb)
          /\ asked' = [asked EXCEPT ![request_id_] = cb]
          /\ UNCHANGED <<linkState, current, recent>>
    /\ UNCHANGED <<expired, answers, told>>

AsyncNotification ==
    /\ Fits
    /\ \/ /\ ~is_connected_
          /\ AsyncConnect
          /\ UNCHANGED <<is_connected_, periods, wireState>>
       \/ /\ is_connected_
          /\ Write(Notification)
          /\ UNCHANGED <<linkState, current, recent>>
    /\ UNCHANGED <<requestState, expired, answers, told>>

\* HandleHttpRespone of client c, current or old, then OnConnected.
OnConnected(c) ==
    /\ client[c] = "connecting"
    /\ ~is_connected_ => periods < MaxPeriods
    /\ client' = [client EXCEPT ![c] = "open"]
    /\ periods' = IF is_connected_ THEN periods ELSE periods + 1
    /\ is_connected_' = TRUE
    /\ UNCHANGED <<requestState, current, recent, expired, wireState, answers, told>>

\* Mutant: only the current client's close counts.
OnClosedCurrent(c) ==
    /\ client[c] \in {"connecting", "open", "refused"}
    /\ client' = [client EXCEPT ![c] = "closed"]
    /\ is_connected_' = (is_connected_ /\ c # current)
    /\ UNCHANGED <<requestState, periods, current, recent, expired, wireState, answers, told>>

\* A handshake response that is not accepted: OnClosed, but the TCP connection
\* stays and may report its end, or more of the response, later.
Refused(c) ==
    /\ client[c] \in {"connecting", "refused"}
    /\ client' = [client EXCEPT ![c] = "refused"]
    /\ is_connected_' = FALSE
    /\ UNCHANGED <<requestState, periods, current, recent, expired, wireState, answers, told>>

\* The peer closes, a read or the TLS handshake fails or no pong came for 15 s;
\* OnClosed of client c, current or old.
OnClosed(c) ==
    /\ client[c] \in {"connecting", "open", "refused"}
    /\ client' = [client EXCEPT ![c] = "closed"]
    /\ is_connected_' = FALSE
    /\ UNCHANGED <<requestState, periods, current, recent, expired, wireState, answers, told>>

\* TcpClient::OnConnect with an error: nobody is called.
ConnectFails(c) ==
    /\ client[c] = "connecting"
    /\ \A n \in Periods : wire[c][n] = <<>>
    /\ client' = [client EXCEPT ![c] = "closed"]
    /\ UNCHANGED <<is_connected_, periods, requestState, current, recent, expired,
                   wireState, answers, told>>

\* The caller hears of an answer only within 8 s of the request.
OnResponse(c) ==
    LET id == Head(answers[c])
    IN  /\ client[c] = "open"
        /\ answers[c] # <<>>
        /\ answers' = [answers EXCEPT ![c] = Tail(@)]
        /\ told' = IF id \in DOMAIN async_request_cbs_ \ expired
                   THEN Append(told, [id |-> id, cb |-> async_request_cbs_[id]])
                   ELSE told
        /\ async_request_cbs_' =
               [r \in DOMAIN async_request_cbs_ \ {id} |-> async_request_cbs_[r]]
        /\ expired' = expired \ {id}
        /\ UNCHANGED <<linkState, request_id_, asked, current, recent, wireState>>

-----------------------------------------------------------------------------
(* Time and the center *)

TenSeconds ==
    /\ recent
    /\ recent' = FALSE
    /\ UNCHANGED <<linkState, requestState, current, expired, wireState, answers, told>>

EightSeconds(id) ==
    /\ id \in DOMAIN async_request_cbs_ \ expired
    /\ expired' = expired \cup {id}
    /\ UNCHANGED <<linkState, requestState, current, recent, wireState, answers, told>>

\* The center reads a message and answers a request on the same connection.
CenterReads(c) ==
    /\ \E n \in Periods :
           /\ wire[c][n] # <<>>
           /\ \A m \in 1 .. n - 1 : wire[c][m] = <<>>
           /\ wire' = [wire EXCEPT ![c][n] = Tail(@)]
           /\ answers' = IF \/ Head(wire[c][n]) = Notification
                            \/ client[c] \in {"refused", "closed"}
                         THEN answers
                         ELSE [answers EXCEPT ![c] = Append(@, Head(wire[c][n]))]
    /\ UNCHANGED <<linkState, requestState, current, recent, expired, lossy, told>>

\* The end of what was written to a closed connection is lost: what is left of
\* the last period in which it was written to.
WireLoses(c) ==
    /\ client[c] \in {"refused", "closed"}
    /\ \E n \in Periods :
           /\ wire[c][n] # <<>>
           /\ \A m \in n + 1 .. MaxPeriods : wire[c][m] = <<>>
           /\ wire' = [wire EXCEPT ![c][n] = <<>>]
    /\ UNCHANGED <<linkState, requestState, current, recent, expired, lossy, answers, told>>

Next ==
    \/ \E cb \in Callers : AsyncRequest(cb)
    \/ AsyncNotification
    \/ \E c \in Clients : \/ OnConnected(c) \/ Refused(c) \/ OnClosed(c) \/ ConnectFails(c)
                          \/ OnResponse(c) \/ CenterReads(c) \/ WireLoses(c)
    \/ TenSeconds
    \/ \E id \in Requests : EightSeconds(id)

Spec == Init /\ [][Next]_vars

-----------------------------------------------------------------------------
(* Properties *)

\* Every variable has its type, and only clients that were made have a state.
TypeOK ==
    /\ client \in [Clients -> {"none", "connecting", "open", "refused", "closed"}]
    /\ current \in 0 .. MaxClients
    /\ \A c \in Clients : client[c] = "none" <=> c > current
    /\ is_connected_ \in BOOLEAN /\ recent \in BOOLEAN
    /\ request_id_ \in 1 .. MaxRequests + 1
    /\ DOMAIN async_request_cbs_ \subseteq 1 .. request_id_ - 1
    /\ Range(async_request_cbs_) \subseteq Callers
    /\ expired \subseteq DOMAIN async_request_cbs_
    /\ wire \in [Clients -> [Periods -> Seq(Messages)]]
    /\ lossy \in BOOLEAN
    /\ answers \in [Clients -> Seq(Requests)]
    /\ periods \in 0 .. MaxPeriods
    /\ asked \in [Requests -> Callers \cup {None}]

\* is_connected_ is one flag for the current client and all the old ones, whose
\* late handshakes and late closes all set it.  In whatever order these come,
\* when it is true some client is connected (not always the current one).
ConnectedMeansOpen == is_connected_ => \E c \in Clients : client[c] = "open"

\* An answer is told to the caller that asked, and once, though it may come over
\* an old client after requests of others were sent over a new one.
AnswersReachTheirCaller ==
    /\ \A i \in DOMAIN told : told[i].cb = asked[told[i].id]
    /\ \A i, j \in DOMAIN told : told[i].id = told[j].id => i = j

\* No client but c has something unread of the n-th period of is_connected_.
Alone(c, n) == \A d \in Clients \ {c} : wire[d][n] = <<>>

\* What was written in the n-th period and not read: a sequence, being on one
\* connection only.
Unread(n) ==
    IF \E c \in Clients : Alone(c, n)
    THEN wire[CHOOSE c \in Clients : Alone(c, n)][n]
    ELSE None

Sfu == "sfu"

Link == INSTANCE CenterLink WITH
    Sfus <- {Sfu}, Users <- {}, HasCenter <- TRUE,
    MaxEpoch <- MaxPeriods, MaxQueue <- MaxWire,
    conn <- [s \in {Sfu} |-> is_connected_],
    epoch <- [s \in {Sfu} |-> periods],
    up <- [x \in {Sfu} \X Periods |-> Unread(x[2])],
    lossy <- [s \in {Sfu} |-> lossy]

LinkStep ==
    \/ Link!Connect(Sfu)
    \/ Link!OnClosed(Sfu)
    \/ \E m \in Messages : Link!Send(Sfu, <<m>>)
    \/ \E x \in Link!Sids : Link!CenterTakes(x)

\* The client, with its old connections, is a CenterLink: it connects and
\* disconnects, writes in order to the session of the period, or loses a write
\* there, and drops what it is given in between; and the center reads in order
\* or loses the rest.
ImplementsCenterLink == Link!LinkInit /\ [][LinkStep]_(Link!linkVars)
=============================================================================
