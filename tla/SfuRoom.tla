------------------------------ MODULE SfuRoom -------------------------------
(***************************************************************************)
(* One room as the SFUs keep it: RoomMgr, Room, RtcUser, the clients'      *)
(* WsMessageSessions, the WebRtcSessions of WebRtcServer and the relays    *)
(* between SFUs.  Every variable is indexed by the SFU.  Each SFU is one   *)
(* libuv loop, so a handler is one atomic step; handlers of clients,       *)
(* timers, UDP peers and the pilot center interleave.                      *)
(*                                                                         *)
(* The pilot center is an arbitrary environment here: any notification may *)
(* arrive at any time.  Cluster composes this module with PilotCenter.     *)
(*                                                                         *)
(* Time is abstract: an age or an idle flag says which deadline has passed *)
(* since the last refresh, and deadlines pass independently.               *)
(***************************************************************************)
EXTENDS CenterLink, SequencesExt

CONSTANTS
    Sockets, Media,
    Peers,        \* SFUs outside the model that the center speaks of
    Home,         \* the SFU a client's WebSocket goes to
    Speaks,       \* the users for which its client sends requests
    WhipUsers,    \* the users that publish with WHIP
    Audiences,    \* the audience flags that joins carry
    Offers,       \* the sets of accepted media that offers carry
    NoWs,         \* a null resp_cb_; no user
    MaxSess,      \* bound: WebRtcSessions of one SFU
    MaxPort,      \* bound: recv relays made by one SFU
    MaxGen        \* bound: Room objects made by one SFU for the room id

ASSUME RoomAssumption ==
    /\ IsFiniteSet(Media)
    /\ IsFiniteSet(Peers)
    /\ Home \in [Sockets -> Sfus]
    /\ Speaks \in [Sockets -> SUBSET Users]
    /\ WhipUsers \subseteq Users
    /\ Audiences \subseteq BOOLEAN
    /\ Offers \subseteq SUBSET Media
    /\ NoWs \notin Sockets \cup Users
    /\ MaxSess \in Nat
    /\ MaxPort \in Nat
    /\ MaxGen \in Nat

VARIABLES
    room,         \* room[s]: rooms_ has the room, which object, idle for 90 s
    users,        \* users[s][u]: users_
    pushers,      \* pushers[s]: keys of pusherId2pusher_
    pullers,      \* pullers[s]: entries of pusher2pullers_
    recvByUser,   \* recvByUser[s][u]: pusher_user_id2recvRelay_, 0 when absent
    recvByPusher, \* recvByPusher[s]: pusherId2recvRelay_
    relayIdle,    \* relayIdle[s]: recv relays without RTP for 40 s
    lastPort,     \* lastPort[s]: PortGenerator
    sendRelay,    \* sendRelay[s][u]: pusher_user_id2sendRelay_
    sess,         \* sess[s][k]: the WebRtcSessions of WebRtcServer's maps
    ub,           \* ub[s]: s has done something C++ leaves undefined
    ws,           \* ws[w]: a client's WebSocket
    who,          \* who[w]: user_id_ of its WsMessageSession, NoWs when
                  \* room_id_ is not this room
    told,         \* told[w]: the users the client behind w was told of
    heard         \* heard[w]: the pushers the client behind w was told of

relayVars == <<recvByUser, recvByPusher, relayIdle, lastPort, sendRelay>>
mediaVars == <<pushers, pullers, sess>>
viewVars == <<told, heard>>
wsVars == <<ws, who>>
roomVars == <<room, users, relayVars, mediaVars, ub, wsVars, viewVars>>
vars == <<linkVars, roomVars>>

-----------------------------------------------------------------------------
SessIds == 1 .. MaxSess
Ports == 1 .. MaxPort
Pushers == [sfu : Sfus \cup Peers, sess : SessIds, media : Media, user : Users]
Pullers == [sess : SessIds, pusher : Pushers, user : Users]
PushersOf(u) == {p \in Pushers : p.user = u}

\* RtcUser; age 0, 1, 2: within 45 s, within 65 s, past 65 s of the last
\* UpdateHeartbeat.
UserRecs ==
    [in : BOOLEAN, cb : Sockets \cup {NoWs}, remote : BOOLEAN,
     audience : BOOLEAN, pushers : SUBSET Pushers, age : 0 .. 2]

NoUser == [in |-> FALSE, cb |-> NoWs, remote |-> FALSE,
           audience |-> FALSE, pushers |-> {}, age |-> 0]

NewRtcUser(cb, audience) ==
    [NoUser EXCEPT !.in = TRUE, !.cb = cb, !.audience = audience]

\* Mutant: the pushers of the answer to a join are left out.
NewRemoteUserNoPushers(ps) ==
    [NoUser EXCEPT !.in = TRUE, !.remote = TRUE]

NewRemoteUser(ps) ==
    [NoUser EXCEPT !.in = TRUE, !.remote = TRUE, !.pushers = ps]

\* Mutant: a user without a WebSocket is never given up.
IsAliveDetached(r) == r.age = 0 \/ r.cb = NoWs

IsAlive(r) == r.age = 0 \/ (r.age = 1 /\ r.cb = NoWs)

\* WebRtcSession; "wait": only in username2sessions_, "up": a STUN packet has
\* put it into addr2sessions_ as well.
SessRecs ==
    [st : {"none", "wait", "up", "gone"}, user : Users \cup {NoWs},
     gen : 0 .. MaxGen, idle : BOOLEAN,
     pushes : SUBSET Media, pulls : SUBSET Pushers]

NoSess == [st |-> "none", user |-> NoWs, gen |-> 0, idle |-> FALSE,
           pushes |-> {}, pulls |-> {}]
GoneSess == [NoSess EXCEPT !.st = "gone"]

Targets == [sfu : Sfus \cup Peers, port : Ports]

\* RtcSendRelay: the one UDP target it was made with and its push_infos_.
SendRelays == [to : SUBSET Targets, infos : SUBSET Pushers]

NoRelay == [to |-> {}, infos |-> {}]

-----------------------------------------------------------------------------
(* The messages an SFU writes to the pilot center. *)

UserMsgs(methods) == [method : methods, user : Users]
PullMsgs ==
    [method : {"pullRemoteStream"}, user : Users, pusher : Pushers, to : Targets]
UpMsgs ==
    [method : {"join"}, user : Users, audience : BOOLEAN, gen : 0 .. MaxGen]
    \cup [method : {"push"}, user : Users, pushers : SUBSET Pushers]
    \cup PullMsgs
    \cup UserMsgs({"userDisconnect", "userLeave", "userReConnect"})

-----------------------------------------------------------------------------
(* The room object. *)

NoRoom == [up |-> FALSE, gen |-> 0, idle |-> FALSE]

Init ==
    /\ LinkInit
    /\ room = [s \in Sfus |-> NoRoom]
    /\ users = [s \in Sfus |-> [u \in Users |-> NoUser]]
    /\ pushers = [s \in Sfus |-> {}]
    /\ pullers = [s \in Sfus |-> {}]
    /\ recvByUser = [s \in Sfus |-> [u \in Users |-> 0]]
    /\ recvByPusher = [s \in Sfus |-> {}]
    /\ relayIdle = [s \in Sfus |-> {}]
    /\ lastPort = [s \in Sfus |-> 0]
    /\ sendRelay = [s \in Sfus |-> [u \in Users |-> NoRelay]]
    /\ sess = [s \in Sfus |-> [k \in SessIds |-> NoSess]]
    /\ ub = [s \in Sfus |-> FALSE]
    /\ ws = [w \in Sockets |-> "idle"]
    /\ who = [w \in Sockets |-> NoWs]
    /\ told = [w \in Sockets |-> {}]
    /\ heard = [w \in Sockets |-> {}]

\* GetOrCreateRoom.
GotRoom(s) ==
    IF room[s].up THEN room[s]
                  ELSE [up |-> TRUE, gen |-> room[s].gen + 1, idle |-> FALSE]

CanGetRoom(s) == ~ub[s] /\ (room[s].up \/ room[s].gen < MaxGen)

\* The handler gets the room and refreshes last_alive_ms_.
EnterRoom(s) ==
    /\ CanGetRoom(s)
    /\ room' = [room EXCEPT ![s] = [GotRoom(s) EXCEPT !.idle = FALSE]]

\* The handler gets the room and leaves last_alive_ms_ alone.
FindRoom(s) ==
    /\ CanGetRoom(s)
    /\ room' = [room EXCEPT ![s] = GotRoom(s)]

\* The Room* a WebRtcSession or a pending request was made with still exists.
RoomExists(s, gen) == room[s].up /\ room[s].gen = gen

\* C++ leaves the step undefined; nothing is said of s from here on.
Undefined(s) ==
    /\ ub' = [ub EXCEPT ![s] = TRUE]
    /\ UNCHANGED <<linkVars, room, users, relayVars, mediaVars, wsVars, viewVars>>

In(s) == {u \in Users : users[s][u].in}

\* The resp_cb_s of the other users of the room: the local ones, or any.
LocalCbs(s, u) ==
    {users[s][v].cb : v \in {x \in In(s) \ {u} : ~users[s][x].remote}} \ {NoWs}
AllCbs(s, u) == {users[s][v].cb : v \in In(s) \ {u}} \ {NoWs}

\* A notification or a response written to the sockets of W.
Tell(W, us) == [w \in Sockets |-> IF w \in W THEN told[w] \cup us ELSE told[w]]

\* Mutant: newPusher goes to nobody.
AnnounceNobody(W, ps) == heard

Announce(W, ps) ==
    [w \in Sockets |-> IF w \in W THEN heard[w] \cup ps ELSE heard[w]]
Untell(W, us) == [w \in Sockets |-> IF w \in W THEN told[w] \ us ELSE told[w]]
Withdraw(W, us) ==
    [w \in Sockets |-> IF w \in W THEN {p \in heard[w] : p.user \notin us} ELSE heard[w]]

\* UpdateHeartbeat of the users of us that are in users_.
Beat(s, us) ==
    [users EXCEPT ![s] = [u \in Users |->
        IF u \in us /\ users[s][u].in THEN [users[s][u] EXCEPT !.age = 0]
                                      ELSE users[s][u]]]

-----------------------------------------------------------------------------
(* Requests of the clients' WebSockets.  Each names its room and its user; a  *)
(* client may join again as another user, or in another room.                 *)

\* Room::UserJoin of a user the room does not have.  The answer lists the other
\* users, and w may also be the resp_cb_ of one of them.
JoinNew(w, u, audience) ==
    LET s == Home[w]
        listed == {v \in In(s) : ~users[s][v].audience}
        W == IF audience THEN {} ELSE LocalCbs(s, u)
    IN  /\ ~users[s][u].in
        /\ users' = [users EXCEPT ![s][u] = NewRtcUser(w, audience)]
        /\ told' = [Tell(W, {u}) EXCEPT ![w] = (@ \cap {u}) \cup listed]
        /\ heard' = [heard EXCEPT ![w] =
               (@ \cap PushersOf(u)) \cup UNION {users[s][v].pushers : v \in listed}]
        /\ Send(s, <<JoinMsg(u, audience, GotRoom(s).gen)>>)

\* Room::UserJoin of a user the room already has: Room::ReConnect, which
\* leaves resp_cb_ and the heartbeat as they are.
ReConnect(w, u, audience) ==
    LET s == Home[w]
        others == In(s) \ {u}
    IN  /\ users[s][u].in
        /\ users' = [users EXCEPT ![s][u].audience = audience]
        /\ told' = [Tell(LocalCbs(s, u), {u}) EXCEPT ![w] = (@ \cap {u}) \cup others]
        /\ heard' = [heard EXCEPT ![w] =
               (@ \cap PushersOf(u)) \cup UNION {users[s][v].pushers : v \in others}]
        /\ Send(s, <<UserMsg("userReConnect", u)>>)

\* SetUserInfo overwrites the user of an earlier join.
HandleJoinRequest(w, u, audience) ==
    /\ ws[w] \in {"idle", "joined"}
    /\ EnterRoom(Home[w])
    /\ ws' = [ws EXCEPT ![w] = "joined"]
    /\ who' = [who EXCEPT ![w] = u]
    /\ JoinNew(w, u, audience) \/ ReConnect(w, u, audience)
    /\ UNCHANGED <<relayVars, mediaVars, ub>>

\* The client joins another room; also a client that has connected and sends
\* other requests without a join.
HandleJoinRequestElsewhere(w) ==
    /\ ws[w] \in {"idle", "joined"}
    /\ ~ub[Home[w]]
    /\ ws' = [ws EXCEPT ![w] = "joined"]
    /\ who' = [who EXCEPT ![w] = NoWs]
    /\ UNCHANGED <<linkVars, room, users, relayVars, mediaVars, ub, viewVars>>

HandleHeartbeatRequest(w, u) ==
    /\ ws[w] = "joined"
    /\ EnterRoom(Home[w])
    /\ users' = Beat(Home[w], {u})
    /\ UNCHANGED <<linkVars, relayVars, mediaVars, ub, wsVars, viewVars>>

\* The next WebRtcSession of s; SetUserName2Session keeps it from here on.
NewSession(s, k, u, pushes, pulls) ==
    /\ sess[s][k].st = "none"
    /\ \A j \in SessIds : j < k => sess[s][j].st # "none"
    /\ sess' = [sess EXCEPT ![s][k] =
           [st |-> "wait", user |-> u, gen |-> GotRoom(s).gen, idle |-> FALSE,
            pushes |-> pushes, pulls |-> pulls]]

\* Mutant: a pusher is made without its user id.
PushersInNoUser(s, k, u, M) ==
    {[sfu |-> s, sess |-> k, media |-> x, user |-> NoWs] : x \in M}

\* The pushers AddPusherRtpSession makes for the media M of an offer.
PushersIn(s, k, u, M) == {[sfu |-> s, sess |-> k, media |-> x, user |-> u] : x \in M}

\* Room::HandlePushSdp.  An offer without media the room accepts (M = {}) fails
\* after the session was registered, and leaves the session behind.  A user the
\* room does not have gets a pusher that nobody is told of.
HandlePushRequest(w, u, k, M) ==
    LET s == Home[w]
        new == PushersIn(s, k, u, M)
        all == users[s][u].pushers \cup new
    IN  /\ ws[w] = "joined"
        /\ EnterRoom(s)
        /\ NewSession(s, k, u, M, {})
        /\ pushers' = [pushers EXCEPT ![s] = @ \cup new]
        /\ IF M # {} /\ users[s][u].in
           THEN /\ users' = [users EXCEPT ![s][u] = [@ EXCEPT !.pushers = all, !.age = 0]]
                /\ heard' = Announce(LocalCbs(s, u), all)
                /\ Send(s, <<PushMsg(u, all)>>)
           ELSE UNCHANGED <<linkVars, users, heard>>
        /\ UNCHANGED <<pullers, relayVars, ub, wsVars, told>>

\* HandlePullRequest for a target the room does not have.
PullUnknown(w, t) ==
    /\ ws[w] = "joined"
    /\ FindRoom(Home[w])
    /\ ~users[Home[w]][t].in
    /\ UNCHANGED <<linkVars, users, relayVars, mediaVars, ub, wsVars, viewVars>>

PullersIn(k, u, ps) == {[sess |-> k, pusher |-> p, user |-> u] : p \in ps}

\* Room::HandlePullSdp: a pusher the room does not have any more is skipped.
HandlePullSdp(w, u, t, P, k) ==
    LET s == Home[w]
        found == P \cap pushers[s]
    IN  /\ ws[w] = "joined"
        /\ users[s][t].in /\ ~users[s][t].remote
        /\ EnterRoom(s)
        /\ NewSession(s, k, u, {}, found)
        /\ pullers' = [pullers EXCEPT ![s] = @ \cup PullersIn(k, u, found)]
        /\ UNCHANGED <<linkVars, users, pushers, relayVars, ub, wsVars, viewVars>>

\* Room::HandleRemotePullSdp and PullRemotePusher: one recv relay for each
\* remote user, made on its first pull, and a pullRemoteStream for each pusher.
HandleRemotePullSdp(w, u, t, P, k) ==
    LET s == Home[w]
        known == P \cap users[s][t].pushers
        fresh == known # {} /\ recvByUser[s][t] = 0
        port == IF fresh THEN lastPort[s] + 1 ELSE recvByUser[s][t]
        byPusher == {e \in recvByPusher[s] : e.pusher \notin known}
                        \cup {[pusher |-> p, port |-> port] : p \in known}
        found == {p \in P : \E e \in byPusher : e.pusher = p}
    IN  /\ ws[w] = "joined"
        /\ users[s][t].in /\ users[s][t].remote
        /\ EnterRoom(s)
        /\ NewSession(s, k, u, {}, found)
        /\ port <= MaxPort
        /\ recvByUser' = [recvByUser EXCEPT ![s][t] = port]
        /\ recvByPusher' = [recvByPusher EXCEPT ![s] = byPusher]
        /\ lastPort' = [lastPort EXCEPT ![s] = IF fresh THEN port ELSE @]
        /\ relayIdle' = relayIdle
        /\ pullers' = [pullers EXCEPT ![s] = @ \cup PullersIn(k, u, found)]
        /\ LET q == SetToSeq(known)
           IN  Send(s, [i \in 1 .. Len(q) |-> PullMsg(t, q[i], [sfu |-> s, port |-> port])])
        /\ UNCHANGED <<users, pushers, sendRelay, ub, wsVars, viewVars>>

\* A client pulls some of the pushers it was told user t has.
HandlePullRequest(w, u) ==
    \E t \in Users :
        \/ PullUnknown(w, t)
        \/ \E P \in SUBSET {p \in heard[w] : p.user = t}, k \in SessIds :
               HandlePullSdp(w, u, t, P, k) \/ HandleRemotePullSdp(w, u, t, P, k)

-----------------------------------------------------------------------------
(* The end of a WebSocket. *)

\* RoomMgr::OnWsSessionClose and Room::DisconnectUser, for the room and user of
\* the last join: a user of an earlier one keeps w as its resp_cb_.
DisconnectUser(w) ==
    LET s == Home[w]
        u == who[w]
    IN  /\ ~ub[s]
        /\ IF u = NoWs THEN UNCHANGED <<linkVars, room, users>>
           ELSE /\ FindRoom(s)
                /\ IF users[s][u].in
                   THEN /\ users' = [users EXCEPT ![s][u].cb = NoWs]
                        /\ Send(s, <<UserMsg("userDisconnect", u)>>)
                   ELSE UNCHANGED <<linkVars, users>>
        /\ UNCHANGED <<relayVars, mediaVars, ub, who>>

\* The WebSocket session ends, and with it what its client knew.
WsGone(w) ==
    /\ ws' = [ws EXCEPT ![w] = "gone"]
    /\ told' = [told EXCEPT ![w] = {}]
    /\ heard' = [heard EXCEPT ![w] = {}]

\* WsMessageSession::OnClose.
WsOnClose(w) ==
    /\ ws[w] = "joined"
    /\ WsGone(w)
    /\ DisconnectUser(w)

\* WsMessageSession::OnReadText with an error only sets closed_.
WsReadError(w) ==
    /\ ws[w] = "joined"
    /\ ~ub[Home[w]]
    /\ ws' = [ws EXCEPT ![w] = "broken"]
    /\ UNCHANGED <<linkVars, room, users, relayVars, mediaVars, ub, who, viewVars>>

\* Mutant: the sweep drops the session and does not tell RoomMgr.
WsSweepSilent(w) ==
    /\ ws[w] \in {"joined", "broken"}
    /\ ~ub[Home[w]]
    /\ WsGone(w)
    /\ UNCHANGED <<linkVars, room, users, relayVars, mediaVars, ub, who>>

\* WsMessageServer::OnTimer clears a session that is closed or silent for 30 s.
WsSweep(w) ==
    /\ ws[w] \in {"joined", "broken"}
    /\ WsGone(w)
    /\ DisconnectUser(w)

\* A notification is written to a resp_cb_ whose session was destroyed.  (Until
\* the sweep the closed session is there, and writes nothing.)
NotifyDestroyed(s, u) ==
    /\ ~ub[s]
    /\ users[s][u].cb # NoWs
    /\ ws[users[s][u].cb] = "gone"
    /\ Undefined(s)

-----------------------------------------------------------------------------
(* WHIP, and the end of the room. *)

\* WhipHandle: WhipUserJoin and HandleWhipPushSdp in one HTTP handler.
WhipHandle(s, u, k, M) ==
    LET new == PushersIn(s, k, u, M)
        was == IF users[s][u].in THEN users[s][u] ELSE NewRtcUser(NoWs, FALSE)
        all == was.pushers \cup new
        join == JoinMsg(u, was.audience, GotRoom(s).gen)
    IN  /\ EnterRoom(s)
        /\ NewSession(s, k, u, M, {})
        /\ pushers' = [pushers EXCEPT ![s] = @ \cup new]
        /\ users' = [users EXCEPT ![s][u] =
               IF M = {} THEN was ELSE [was EXCEPT !.pushers = all, !.age = 0]]
        /\ told' = Tell(LocalCbs(s, u), {u})
        /\ heard' = Announce(LocalCbs(s, u), all)
        /\ Send(s, IF M = {} THEN <<join>> ELSE <<join, PushMsg(u, all)>>)
        /\ UNCHANGED <<pullers, relayVars, ub, wsVars>>

\* The destruction of the Room object with every map it owns.
DropRoom(s) ==
    /\ room' = [room EXCEPT ![s].up = FALSE, ![s].idle = FALSE]
    /\ users' = [users EXCEPT ![s] = [u \in Users |-> NoUser]]
    /\ pushers' = [pushers EXCEPT ![s] = {}]
    /\ pullers' = [pullers EXCEPT ![s] = {}]
    /\ recvByUser' = [recvByUser EXCEPT ![s] = [u \in Users |-> 0]]
    /\ recvByPusher' = [recvByPusher EXCEPT ![s] = {}]
    /\ relayIdle' = [relayIdle EXCEPT ![s] = {}]
    /\ sendRelay' = [sendRelay EXCEPT ![s] = [u \in Users |-> NoRelay]]
    /\ UNCHANGED <<linkVars, lastPort, ub, wsVars, viewVars>>

\* WebRtcSession::Close calls back into the Room it was made with.
CallsBack(s, k) == sess[s][k].pushes # {} \/ sess[s][k].pulls # {}
Dangling(s, k) == ~RoomExists(s, sess[s][k].gen)

\* WhipDeleteHandle: RemoveSessionByRoomId scans addr2sessions_ only, so a
\* session without STUN outlives the room.
WhipDeleteHandle(s) ==
    LET closing == {k \in SessIds : sess[s][k].st = "up"}
    IN  /\ ~ub[s]
        /\ room[s].up
        /\ IF \E k \in closing : Dangling(s, k) /\ CallsBack(s, k)
           THEN Undefined(s)
           ELSE /\ DropRoom(s)
                /\ sess' = [sess EXCEPT ![s] = [k \in SessIds |->
                       IF k \in closing THEN GoneSess ELSE sess[s][k]]]

\* RoomMgr::OnTimer erases a room that was idle for 90 s.
RoomMgrOnTimer(s) ==
    /\ ~ub[s]
    /\ room[s].up /\ room[s].idle
    /\ DropRoom(s)
    /\ UNCHANGED sess

\* 90 s without a refresh; Room::OnTimer refreshes while the room has users.
RoomIdles(s) ==
    /\ ~ub[s]
    /\ room[s].up /\ ~room[s].idle
    /\ In(s) = {}
    /\ room' = [room EXCEPT ![s].idle = TRUE]
    /\ UNCHANGED <<linkVars, users, relayVars, mediaVars, ub, wsVars, viewVars>>

-----------------------------------------------------------------------------
(* Media sessions. *)

\* WebRtcServer::HandleStunPacket.
HandleStunPacket(s, k) ==
    /\ ~ub[s]
    /\ sess[s][k].st \in {"wait", "up"}
    /\ sess' = [sess EXCEPT ![s][k].st = "up", ![s][k].idle = FALSE]
    /\ UNCHANGED <<linkVars, room, users, relayVars, pushers, pullers, ub, wsVars, viewVars>>

\* The puller users whose heartbeat a packet of pusher p refreshes.
Fed(s, p) == {e.user : e \in {x \in pullers[s] : x.pusher = p}}

\* Room::OnRtpPacketFromRtcPusher, for media x of session k.
OnRtpPacketFromRtcPusher(s, k, x) ==
    LET u == sess[s][k].user
    IN  /\ ~ub[s]
        /\ sess[s][k].st = "up"
        /\ x \in sess[s][k].pushes
        /\ IF Dangling(s, k)
           THEN Undefined(s)
           ELSE /\ EnterRoom(s)
                /\ users' = Beat(s, {u} \cup
                       Fed(s, [sfu |-> s, sess |-> k, media |-> x, user |-> u]))
                /\ sess' = [sess EXCEPT ![s][k].idle = FALSE]
                /\ UNCHANGED <<linkVars, relayVars, pushers, pullers, ub, wsVars, viewVars>>

\* Room::OnKeyFrameRequest: users_.find() is used without a test for end().
OnKeyFrameRequest(s, k, p) ==
    /\ ~ub[s]
    /\ sess[s][k].st = "up"
    /\ p \in sess[s][k].pulls
    /\ IF Dangling(s, k) \/ ~users[s][p.user].in
       THEN Undefined(s)
       ELSE /\ sess' = [sess EXCEPT ![s][k].idle = FALSE]
            /\ UNCHANGED <<linkVars, room, users, relayVars, pushers, pullers,
                           ub, wsVars, viewVars>>

\* The same for a key frame request that reaches a send relay.
OnRelayKeyFrameRequest(s, u) ==
    /\ ~ub[s]
    /\ sendRelay[s][u].infos # {}
    /\ ~users[s][u].in
    /\ Undefined(s)

\* 35 s without a packet of the peer.
SessionIdles(s, k) ==
    /\ ~ub[s]
    /\ sess[s][k].st = "up" /\ ~sess[s][k].idle
    /\ sess' = [sess EXCEPT ![s][k].idle = TRUE]
    /\ UNCHANGED <<linkVars, room, users, relayVars, pushers, pullers, ub, wsVars, viewVars>>

\* Mutant: the session is destroyed without Close.
WebRtcServerOnTimerNoClose(s, k) ==
    /\ ~ub[s]
    /\ sess[s][k].st = "up" /\ sess[s][k].idle
    /\ sess' = [sess EXCEPT ![s][k] = GoneSess]
    /\ UNCHANGED <<linkVars, room, users, relayVars, pushers, pullers, ub, wsVars, viewVars>>

\* WebRtcServer::OnTimer destroys a dead session of addr2sessions_; its Close
\* removes its pushers and pullers from the room's maps (OnPushClose,
\* OnPullClose) and leaves the RtcUser's pushers_ as they are.
WebRtcServerOnTimer(s, k) ==
    /\ ~ub[s]
    /\ sess[s][k].st = "up" /\ sess[s][k].idle
    /\ IF Dangling(s, k) /\ CallsBack(s, k)
       THEN Undefined(s)
       ELSE /\ sess' = [sess EXCEPT ![s][k] = GoneSess]
            /\ pushers' = [pushers EXCEPT ![s] = {p \in @ : p.sess # k}]
            /\ pullers' = [pullers EXCEPT ![s] = {e \in @ : e.sess # k}]
            /\ UNCHANGED <<linkVars, room, users, relayVars, ub, wsVars, viewVars>>

\* Room::OnRtpPacketFromRemoteRtcPusher, for a packet of pusher p that a recv
\* relay has received.
OnRtpPacketFromRemoteRtcPusher(s, e) ==
    /\ e \in recvByPusher[s]
    /\ EnterRoom(s)
    /\ users' = Beat(s, {e.pusher.user} \cup Fed(s, e.pusher))
    /\ relayIdle' = [relayIdle EXCEPT ![s] = @ \ {e.port}]
    /\ UNCHANGED <<linkVars, recvByUser, recvByPusher, lastPort, sendRelay,
                   mediaVars, ub, wsVars, viewVars>>

\* 40 s without RTP on a recv relay.
RelayIdles(s, port) ==
    /\ ~ub[s]
    /\ \E e \in recvByPusher[s] : e.port = port
    /\ port \notin relayIdle[s]
    /\ relayIdle' = [relayIdle EXCEPT ![s] = @ \cup {port}]
    /\ UNCHANGED <<linkVars, room, users, recvByUser, recvByPusher, lastPort,
                   sendRelay, mediaVars, ub, wsVars, viewVars>>

-----------------------------------------------------------------------------
(* The room's own timer. *)

\* 45 s, then 65 s, without UpdateHeartbeat; remote users are not looked at.
UserAges(s, u) ==
    /\ ~ub[s]
    /\ users[s][u].in /\ ~users[s][u].remote
    /\ users[s][u].age < 2
    /\ users' = [users EXCEPT ![s][u].age = @ + 1]
    /\ UNCHANGED <<linkVars, room, relayVars, mediaVars, ub, wsVars, viewVars>>

Expired(s) ==
    {u \in In(s) : ~users[s][u].remote /\ ~IsAlive(users[s][u])}

\* Mutant: a release is notified to nobody.
LeavesSeenByNobody(s, q, w) == {}

\* The users of q, released in this order, whose leaving is notified to w: to
\* the resp_cb_s of the local users that are still there.
LeavesSeen(s, q, w) ==
    {q[i] : i \in {n \in DOMAIN q :
        \E v \in In(s) : /\ ~users[s][v].remote /\ users[s][v].cb = w
                         /\ \A m \in 1 .. n : q[m] # v}}

\* Room::ReleaseUserResources of the users of us, one after the other.
ReleaseUserResources(s, us) ==
    LET q == SetToSeq(us)
    IN  /\ users' = [users EXCEPT ![s] = [u \in Users |->
               IF u \in us THEN NoUser ELSE users[s][u]]]
        /\ pushers' = [pushers EXCEPT ![s] = {p \in @ : p.user \notin us}]
        /\ pullers' = [pullers EXCEPT ![s] = {e \in @ : e.user \notin us}]
        /\ sendRelay' = [sendRelay EXCEPT ![s] = [u \in Users |->
               IF u \in us THEN NoRelay ELSE sendRelay[s][u]]]
        /\ told' = [w \in Sockets |-> told[w] \ LeavesSeen(s, q, w)]
        /\ heard' = [w \in Sockets |->
               {p \in heard[w] : p.user \notin LeavesSeen(s, q, w)}]
        /\ Send(s, [i \in 1 .. Len(q) |-> UserMsg("userLeave", q[i])])

\* Mutant: pusher_user_id2recvRelay_ keeps the dead relays.
RemoveRecvRelaysOneMap(s) ==
    /\ recvByPusher' = [recvByPusher EXCEPT ![s] =
           {e \in @ : e.port \notin relayIdle[s]}]
    /\ relayIdle' = [relayIdle EXCEPT ![s] = {}]
    /\ UNCHANGED recvByUser

\* The recv relays of pusherId2recvRelay_ that are not alive leave that map,
\* and the users they were made for leave pusher_user_id2recvRelay_.
RemoveRecvRelays(s) ==
    LET dead == {e \in recvByPusher[s] : e.port \in relayIdle[s]}
        owners == {e.pusher.user : e \in dead}
    IN  /\ recvByPusher' = [recvByPusher EXCEPT ![s] = @ \ dead]
        /\ recvByUser' = [recvByUser EXCEPT ![s] = [u \in Users |->
               IF u \in owners THEN 0 ELSE recvByUser[s][u]]]
        /\ relayIdle' = [relayIdle EXCEPT ![s] = {}]

\* Room::OnTimer, when it finds something to do.
RoomOnTimer(s) ==
    /\ ~ub[s]
    /\ room[s].up
    /\ Expired(s) # {} \/ relayIdle[s] # {}
    /\ room' = [room EXCEPT ![s].idle = @ /\ In(s) = {}]
    /\ ReleaseUserResources(s, Expired(s))
    /\ RemoveRecvRelays(s)
    /\ UNCHANGED <<lastPort, sess, ub, wsVars>>

-----------------------------------------------------------------------------
(* What the pilot center sends: RoomMgr::OnAsyncNotification, and the answer *)
(* to a join.                                                                *)

\* The remote users us, with their pushers among ps, join users_, and
\* NotifyNewUser is called for each.
AddRemoteUsers(s, us, ps) ==
    LET mine == {p \in ps : p.user \in us}
        W == LocalCbs(s, NoWs)
    IN  /\ users' = [users EXCEPT ![s] = [u \in Users |->
               IF u \in us THEN NewRemoteUser({p \in ps : p.user = u}) ELSE users[s][u]]]
        /\ told' = Tell(W, us)
        /\ heard' = Announce(W, mine)

HandleNewUserNotificationFromCenter(s, m) ==
    /\ EnterRoom(s)
    /\ m.method = "newUser"
    /\ AddRemoteUsers(s, {m.user} \ In(s), {})
    /\ UNCHANGED <<linkVars, relayVars, mediaVars, ub, wsVars>>

HandleNewPusherNotificationFromCenter(s, m) ==
    LET r == users[s][m.user]
    IN  /\ EnterRoom(s)
        /\ m.method = "newPusher"
        /\ IF m.user \in In(s)
           THEN /\ users' = [users EXCEPT ![s][m.user] =
                       [r EXCEPT !.remote = TRUE, !.pushers = r.pushers \cup m.pushers]]
                /\ heard' = Announce(AllCbs(s, m.user), m.pushers)
           ELSE UNCHANGED <<users, heard>>
        /\ UNCHANGED <<linkVars, relayVars, mediaVars, ub, wsVars, told>>

\* A send relay keeps the target of the first request for its user.
HandlePullRemoteStreamNotificationFromCenter(s, m) ==
    LET old == sendRelay[s][m.user]
        relay == IF old = NoRelay THEN [to |-> {m.to}, infos |-> {}] ELSE old
    IN  /\ EnterRoom(s)
        /\ m.method = "pullRemoteStream"
        /\ sendRelay' = [sendRelay EXCEPT ![s][m.user] =
               [relay EXCEPT !.infos = relay.infos \cup {m.pusher}]]
        /\ UNCHANGED <<linkVars, users, recvByUser, recvByPusher, relayIdle, lastPort,
                       mediaVars, ub, wsVars, viewVars>>

\* userDisconnect is passed on to the clients and changes nothing.
HandleUserDisconnectNotificationFromCenter(s, m) ==
    /\ FindRoom(s)
    /\ m.method = "userDisconnect"
    /\ UNCHANGED <<linkVars, users, relayVars, mediaVars, ub, wsVars, viewVars>>

\* userLeave of a remote user is passed on; the user stays in users_.
HandleUserLeaveNotificationFromCenter(s, m) ==
    LET W == IF users[s][m.user].remote THEN LocalCbs(s, m.user) ELSE {}
    IN  /\ FindRoom(s)
        /\ m.method = "userLeave"
        /\ told' = Untell(W, {m.user})
        /\ heard' = Withdraw(W, {m.user})
        /\ UNCHANGED <<linkVars, users, relayVars, mediaVars, ub, wsVars>>

\* OnResponse and Room::JoinResponseFromPilotCenter, called on the Room that
\* sent the join.
JoinResponseFromPilotCenter(s, m) ==
    LET added == m.users \ In(s)
    IN  /\ ~ub[s]
        /\ m.method = "joinResponse"
        /\ IF ~RoomExists(s, m.gen)
           THEN Undefined(s)
           ELSE /\ room' = [room EXCEPT ![s].idle = @ /\ added = {}]
                /\ AddRemoteUsers(s, added, m.pushers)
                /\ UNCHANGED <<linkVars, relayVars, mediaVars, ub, wsVars>>

OnCenterMessage(s, m) ==
    \/ HandleNewUserNotificationFromCenter(s, m)
    \/ HandleNewPusherNotificationFromCenter(s, m)
    \/ HandlePullRemoteStreamNotificationFromCenter(s, m)
    \/ HandleUserDisconnectNotificationFromCenter(s, m)
    \/ HandleUserLeaveNotificationFromCenter(s, m)
    \/ JoinResponseFromPilotCenter(s, m)

\* What a center may send: the pushers of a user are that user's.
CenterMsgs ==
    UserMsgs({"newUser", "userDisconnect", "userLeave"})
    \cup {m \in [method : {"newPusher"}, user : Users, pushers : SUBSET Pushers] :
             m.pushers \subseteq PushersOf(m.user)}
    \cup {m \in PullMsgs : m.pusher.user = m.user}
    \cup [method : {"joinResponse"}, gen : 0 .. MaxGen,
           users : SUBSET Users, pushers : SUBSET Pushers]

-----------------------------------------------------------------------------
ClientNext(w) ==
    \/ \E u \in Speaks[w] :
           \/ \E audience \in Audiences : HandleJoinRequest(w, u, audience)
           \/ HandleHeartbeatRequest(w, u)
           \/ \E k \in SessIds, M \in Offers : HandlePushRequest(w, u, k, M)
           \/ HandlePullRequest(w, u)
    \/ HandleJoinRequestElsewhere(w)
    \/ WsOnClose(w)
    \/ WsReadError(w)
    \/ WsSweep(w)

PeerNext(s) ==
    \/ \E u \in WhipUsers, k \in SessIds, M \in Offers : WhipHandle(s, u, k, M)
    \/ WhipUsers # {} /\ WhipDeleteHandle(s)
    \/ \E u \in Users : NotifyDestroyed(s, u) \/ OnRelayKeyFrameRequest(s, u)
    \/ \E k \in SessIds :
           \/ HandleStunPacket(s, k)
           \/ \E x \in Media : OnRtpPacketFromRtcPusher(s, k, x)
           \/ \E p \in sess[s][k].pulls : OnKeyFrameRequest(s, k, p)
           \/ SessionIdles(s, k)
           \/ WebRtcServerOnTimer(s, k)

TimerNext(s) ==
    \/ \E u \in Users : UserAges(s, u)
    \/ \E port \in Ports : RelayIdles(s, port)
    \/ RoomIdles(s)
    \/ RoomOnTimer(s)
    \/ RoomMgrOnTimer(s)

LocalNext ==
    \/ \E w \in Sockets : ClientNext(w)
    \/ \E s \in Sfus : PeerNext(s) \/ TimerNext(s)

LinkNext == (\E s \in Sfus : Connect(s) \/ OnClosed(s)) /\ UNCHANGED roomVars

CenterNext ==
    \/ HasCenter /\ \E s \in Sfus, m \in CenterMsgs : OnCenterMessage(s, m)
    \/ \E s \in Sfus : \E e \in recvByPusher[s] : OnRtpPacketFromRemoteRtcPusher(s, e)
    \/ (\E x \in Sids : CenterTakes(x)) /\ UNCHANGED roomVars

Next == LocalNext \/ LinkNext \/ CenterNext

Spec == Init /\ [][Next]_vars

-----------------------------------------------------------------------------
(* Properties. *)

LinkTypeOK ==
    /\ conn \in [Sfus -> BOOLEAN]
    /\ epoch \in [Sfus -> 0 .. MaxEpoch]
    /\ up \in [Sids -> Seq(UpMsgs)]
    /\ lossy \in [Sfus -> BOOLEAN]

RoomTypeOK ==
    /\ room \in [Sfus -> [up : BOOLEAN, gen : 0 .. MaxGen, idle : BOOLEAN]]
    /\ users \in [Sfus -> [Users -> UserRecs]]
    /\ ub \in [Sfus -> BOOLEAN]
    /\ ws \in [Sockets -> {"idle", "joined", "broken", "gone"}]
    /\ who \in [Sockets -> Users \cup {NoWs}]

RelayTypeOK ==
    /\ recvByUser \in [Sfus -> [Users -> 0 .. MaxPort]]
    /\ recvByPusher \in [Sfus -> SUBSET [pusher : Pushers, port : Ports]]
    /\ relayIdle \in [Sfus -> SUBSET Ports]
    /\ lastPort \in [Sfus -> 0 .. MaxPort]
    /\ sendRelay \in [Sfus -> [Users -> SendRelays]]

MediaTypeOK ==
    /\ pushers \in [Sfus -> SUBSET Pushers]
    /\ pullers \in [Sfus -> SUBSET Pullers]
    /\ sess \in [Sfus -> [SessIds -> SessRecs]]

ViewTypeOK ==
    /\ told \in [Sockets -> SUBSET Users]
    /\ heard \in [Sockets -> SUBSET Pushers]

\* Every variable holds what the C++ members it stands for can hold.
TypeOK == LinkTypeOK /\ RoomTypeOK /\ RelayTypeOK /\ MediaTypeOK /\ ViewTypeOK

\* The raw resp_cb_ pointer of a user outlives its WebSocket session in one way
\* only: the session joined again as another user or in another room, so that
\* its end reported that one.  Every other end of a session passes through
\* DisconnectUser of the room the user is in, whatever ReConnect, releases and
\* re-creations of the room have happened in between.
NoDanglingRespCb ==
    \A s \in Sfus, u \in Users :
        LET w == users[s][u].cb
        IN  w # NoWs => /\ users[s][u].in
                        /\ Home[w] = s
                        /\ ws[w] # "idle"
                        /\ ws[w] = "gone" => who[w] # u

\* A pusher or a puller of the room's maps points into a WebRtcSession that
\* still exists and that was made for this very Room object: forwarding a
\* packet through the maps never uses a destroyed transport.
MediaHasTransport ==
    \A s \in Sfus :
        /\ \A p \in pushers[s] :
               /\ p.sfu = s
               /\ sess[s][p.sess].st \in {"wait", "up"}
               /\ RoomExists(s, sess[s][p.sess].gen)
               /\ p.user = sess[s][p.sess].user
               /\ p.media \in sess[s][p.sess].pushes
        /\ \A e \in pullers[s] :
               /\ sess[s][e.sess].st \in {"wait", "up"}
               /\ RoomExists(s, sess[s][e.sess].gen)
               /\ e.user = sess[s][e.sess].user
               /\ e.pusher \in sess[s][e.sess].pulls

\* The two maps of recv relays agree: a pusher's relay is the relay of its
\* user, and every relay of a user is reached from some pusher, which is what
\* lets Room::OnTimer, scanning pusherId2recvRelay_ only, remove every relay.
RelayMapsAgree ==
    \A s \in Sfus :
        /\ \A e \in recvByPusher[s] : recvByUser[s][e.pusher.user] = e.port
        /\ \A u \in Users : recvByUser[s][u] # 0 =>
               \E e \in recvByPusher[s] : e.pusher.user = u

\* u is a local user whose client is connected.
Connected(s, u) ==
    /\ users[s][u].cb # NoWs /\ ~users[s][u].remote
    /\ ws[users[s][u].cb] # "gone"

\* What a connected local client was told (join response, newUser,
\* userReConnect, userLeave) is what the room holds: nobody who has been
\* released, and every local user that is not an audience member.
RosterAgreement ==
    \A s \in Sfus, u \in Users :
        LET w == users[s][u].cb
        IN  Connected(s, u) =>
               /\ told[w] \subseteq In(s)
               /\ \A v \in In(s) \ {u} :
                      ~users[s][v].remote /\ ~users[s][v].audience => v \in told[w]

\* Every connected local client was told of every pusher of the other local
\* users (join response, newPusher): holds as long as no audience member
\* pushes and then joins again as a participant, which announces its return
\* (userReConnect) without its pushers.
PushersHeard ==
    \A s \in Sfus, u \in Users :
        LET w == users[s][u].cb
        IN  Connected(s, u) =>
               /\ \A v \in In(s) \ {u} :
                      ~users[s][v].remote => users[s][v].pushers \subseteq heard[w]
               /\ \A p \in heard[w] : p.user \in In(s)

-----------------------------------------------------------------------------
(* Fairness: deadlines pass, and the periodic timers of an SFU keep firing. *)

Fairness ==
    \A s \in Sfus :
        /\ WF_vars(RoomOnTimer(s))
        /\ WF_vars(RoomMgrOnTimer(s))
        /\ WF_vars(RoomIdles(s))
        /\ \A u \in Users : WF_vars(UserAges(s, u))
        /\ \A port \in Ports : WF_vars(RelayIdles(s, port))
        /\ \A k \in SessIds : WF_vars(SessionIdles(s, k)) /\ WF_vars(WebRtcServerOnTimer(s, k))
        /\ \A w \in Sockets : Home[w] = s => WF_vars(ws[w] = "broken" /\ WsSweep(w))

FairSpec == Spec /\ Fairness

\* Nobody uses s any more: no client is connected and no media session is left.
Deserted(s) ==
    /\ \A w \in Sockets : Home[w] = s => ws[w] \in {"idle", "gone"}
    /\ \A k \in SessIds : sess[s][k].st \in {"none", "gone"}

\* A room that everybody has deserted for good is removed with all it holds:
\* RtcUser::IsAlive, Room::OnTimer, Room::IsAlive and RoomMgr::OnTimer.
DesertedRoomRemoved ==
    \A s \in Sfus : <>[]Deserted(s) => <>[](~room[s].up \/ ub[s])

\* u has no WebSocket and no media session whose peer has ever been heard.
Absent(s, u) ==
    /\ \A w \in Sockets : Home[w] = s /\ u \in Speaks[w] => ws[w] \in {"idle", "gone"}
    /\ \A k \in SessIds : sess[s][k].user = u => sess[s][k].st # "up"

\* A user who is absent for good is released (45 s, or 65 s once the WebSocket
\* is closed).
AbsentUserReleased ==
    \A s \in Sfus, u \in Users :
        <>[]Absent(s, u) => <>[](~users[s][u].in \/ users[s][u].remote \/ ub[s])
=============================================================================
