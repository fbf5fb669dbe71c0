---------------------------- MODULE RosterProofs ----------------------------
(***************************************************************************)
(* What the clients were told is what their room holds: RosterAgreement    *)
(* and PushersHeard, for all values of the constants and an arbitrary      *)
(* pilot center.                                                           *)
(***************************************************************************)
EXTENDS SfuRoomProofs

\* A WebSocket session that has ended never comes back.
GoneStay == \A w \in Sockets : ws[w] = "gone" => ws'[w] = "gone"

\* RosterAgreement and PushersHeard for one client.
RosterOf(s, y) ==
    /\ told[users[s][y].cb] \subseteq In(s)
    /\ \A v \in In(s) \ {y} :
           ~users[s][v].remote /\ ~users[s][v].audience => v \in told[users[s][y].cb]

HeardOf(s, y) ==
    /\ \A v \in In(s) \ {y} :
           ~users[s][v].remote => users[s][v].pushers \subseteq heard[users[s][y].cb]
    /\ \A p \in heard[users[s][y].cb] : p.user \in In(s)

Roster(s) == \A y \in Users : Connected(s, y) => RosterOf(s, y)
Heard(s) == \A y \in Users : Connected(s, y) => HeardOf(s, y)

\* What PushersHeard rests on: an RtcUser lists its own pushers only, and
\* without audience members nobody is left out of the answer to a join.
Own(s) ==
    \A y \in Users : /\ users[s][y].pushers \subseteq PushersOf(y)
                     /\ users[s][y].audience = FALSE

HeardInv == PushersHeard /\ \A s \in Sfus : Own(s)

LEMMA RosterAll == RosterAgreement <=> \A s \in Sfus : Roster(s)
BY DEF RosterAgreement, Roster, RosterOf, Connected

LEMMA HeardAll == PushersHeard <=> \A s \in Sfus : Heard(s)
BY DEF PushersHeard, Heard, HeardOf, Connected

\* No step brings a WebSocket session back.
LEMMA NextGoneStay == TypeOK /\ [Next]_vars => GoneStay
<1> SUFFICES ASSUME TypeOK, [Next]_vars PROVE GoneStay
  OBVIOUS
<1>0. ws \in [Sockets -> {"idle", "joined", "broken", "gone"}]
  BY DEF TypeOK, RoomTypeOK
<1>1. CASE UNCHANGED ws
  BY <1>1 DEF GoneStay
<1>2. ASSUME NEW w \in Sockets, ClientNext(w) PROVE GoneStay
  <2>1. ASSUME NEW u, NEW a, HandleJoinRequest(w, u, a) PROVE GoneStay
    BY <1>0, <2>1 DEF HandleJoinRequest, GoneStay
  <2>2. ASSUME NEW u, HandleHeartbeatRequest(w, u) PROVE UNCHANGED ws
    BY <2>2 DEF HandleHeartbeatRequest, wsVars
  <2>3. ASSUME NEW u, NEW k, NEW M, HandlePushRequest(w, u, k, M) PROVE UNCHANGED ws
    BY <2>3 DEF HandlePushRequest, wsVars
  <2>4. ASSUME NEW u, HandlePullRequest(w, u) PROVE UNCHANGED ws
    <3>1. ASSUME NEW t, PullUnknown(w, t) PROVE UNCHANGED ws
      BY <3>1 DEF PullUnknown, wsVars
    <3>2. ASSUME NEW t, NEW P, NEW k, HandlePullSdp(w, u, t, P, k) PROVE UNCHANGED ws
      BY <3>2 DEF HandlePullSdp, wsVars
    <3>3. ASSUME NEW t, NEW P, NEW k, HandleRemotePullSdp(w, u, t, P, k) PROVE UNCHANGED ws
      BY <3>3 DEF HandleRemotePullSdp, wsVars
    <3> QED
      BY <2>4, <3>1, <3>2, <3>3, Zenon DEF HandlePullRequest
  <2>5. CASE HandleJoinRequestElsewhere(w) \/ WsReadError(w)
    BY <1>0, <2>5 DEF HandleJoinRequestElsewhere, WsReadError, GoneStay
  <2>6. CASE WsGone(w)
    BY <1>0, <2>6 DEF WsGone, GoneStay
  <2> QED
    BY <1>1, <1>2, <2>1, <2>2, <2>3, <2>4, <2>5, <2>6, Zenon DEF ClientNext, WsOnClose, WsSweep
<1>3. ASSUME NEW s \in Sfus, PeerNext(s) PROVE UNCHANGED ws
  BY <1>3 DEF PeerNext, WhipHandle, WhipDeleteHandle, DropRoom, Undefined, NotifyDestroyed,
     OnRelayKeyFrameRequest, HandleStunPacket, OnRtpPacketFromRtcPusher, OnKeyFrameRequest,
     SessionIdles, WebRtcServerOnTimer, wsVars
<1>4. ASSUME NEW s \in Sfus, TimerNext(s) PROVE UNCHANGED ws
  BY <1>4 DEF TimerNext, UserAges, RelayIdles, RoomIdles, RoomOnTimer, RoomMgrOnTimer,
     DropRoom, wsVars
<1>5. ASSUME NEW s \in Sfus, NEW m, OnCenterMessage(s, m) PROVE UNCHANGED ws
  BY <1>5 DEF OnCenterMessage, HandleNewUserNotificationFromCenter,
     HandleNewPusherNotificationFromCenter, HandlePullRemoteStreamNotificationFromCenter,
     HandleUserDisconnectNotificationFromCenter, HandleUserLeaveNotificationFromCenter,
     JoinResponseFromPilotCenter, Undefined, wsVars
<1>6. ASSUME NEW s \in Sfus, NEW e, OnRtpPacketFromRemoteRtcPusher(s, e) PROVE UNCHANGED ws
  BY <1>6 DEF OnRtpPacketFromRemoteRtcPusher, wsVars
<1>7. UNCHANGED roomVars \/ UNCHANGED vars => UNCHANGED ws
  BY DEF vars, roomVars, wsVars
<1> QED
  BY <1>1, <1>2, <1>3, <1>4, <1>5, <1>6, <1>7, Zenon DEF Next, LocalNext, LinkNext, CenterNext

\* A client that is connected after a step that left its resp_cb_ alone was
\* connected before it.
LEMMA ConnectedBefore ==
    ASSUME TypeOK, GoneStay, NEW s \in Sfus, NEW y \in Users, Connected(s, y)',
           users'[s][y].cb = users[s][y].cb, users'[s][y].remote = users[s][y].remote
    PROVE  Connected(s, y)
<1>1. users[s][y].cb \in Sockets
  BY CbType DEF Connected
<1> QED
  BY <1>1 DEF Connected, GoneStay

\* The fields of an RtcUser that the two properties look at.
SameUser(s, y) ==
    /\ users'[s][y].in = users[s][y].in
    /\ users'[s][y].cb = users[s][y].cb
    /\ users'[s][y].remote = users[s][y].remote
    /\ users'[s][y].audience = users[s][y].audience
    /\ users'[s][y].pushers = users[s][y].pushers

\* A step that tells nobody anything and leaves every room as it is or empties
\* it.
Calm ==
    /\ UNCHANGED <<told, heard>>
    /\ \A s \in Sfus : \/ \A y \in Users : SameUser(s, y)
                       \/ \A y \in Users : users'[s][y] = NoUser

LEMMA NoUserFields ==
    NoUser.in = FALSE /\ NoUser.cb = NoWs /\ NoUser.audience = FALSE /\ NoUser.pushers = {}
BY DEF NoUser

LEMMA InAfter ==
    ASSUME NEW s, NEW y \in Users
    PROVE  /\ y \in In(s) <=> users[s][y].in
           /\ y \in In(s)' <=> users'[s][y].in
BY DEF In

\* The clients of another room than s are not concerned by a step in room s.
LEMMA ElsewhereRoster ==
    ASSUME TypeOK, NoDanglingRespCb, GoneStay, NEW x \in Sfus, Roster(x), users'[x] = users[x],
           \A w \in Sockets : Home[w] = x => told'[w] = told[w]
    PROVE  Roster(x)'
<1>1. \A y \in Users : users[x][y].cb # NoWs => users[x][y].cb \in Sockets /\ Home[users[x][y].cb] = x
  <2>1. \A y \in Users : users[x][y].cb \in Sockets \cup {NoWs}
    BY DEF TypeOK, RoomTypeOK, UserRecs
  <2> QED
    BY <2>1 DEF NoDanglingRespCb
<1>2. In(x)' = In(x)
  BY DEF In
<1> QED
  BY <1>1, <1>2 DEF Roster, RosterOf, Connected, GoneStay

LEMMA ElsewhereHeard ==
    ASSUME TypeOK, NoDanglingRespCb, GoneStay, NEW x \in Sfus, Heard(x), Own(x), users'[x] = users[x],
           \A w \in Sockets : Home[w] = x => heard'[w] = heard[w]
    PROVE  Heard(x)' /\ Own(x)'
<1>1. \A y \in Users : users[x][y].cb # NoWs => users[x][y].cb \in Sockets /\ Home[users[x][y].cb] = x
  <2>1. \A y \in Users : users[x][y].cb \in Sockets \cup {NoWs}
    BY DEF TypeOK, RoomTypeOK, UserRecs
  <2> QED
    BY <2>1 DEF NoDanglingRespCb
<1>2. In(x)' = In(x)
  BY DEF In
<1> QED
  BY <1>1, <1>2 DEF Heard, HeardOf, Connected, GoneStay, Own

\* Calm steps keep what is told and what is heard.
LEMMA CalmKeeps ==
    ASSUME TypeOK, GoneStay, Calm
    PROVE  /\ RosterAgreement => RosterAgreement'
           /\ HeardInv => HeardInv'
<1>1. ASSUME NEW s \in Sfus, \A y \in Users : SameUser(s, y), Roster(s) PROVE Roster(s)'
  <2>1. In(s)' = In(s)
    BY <1>1 DEF In, SameUser
  <2> QED
    BY <1>1, <2>1, ConnectedBefore DEF Calm, Roster, RosterOf, SameUser, In
<1>2. ASSUME NEW s \in Sfus, \A y \in Users : SameUser(s, y), Heard(s), Own(s)
      PROVE  Heard(s)' /\ Own(s)'
  <2>1. In(s)' = In(s)
    BY <1>2 DEF In, SameUser
  <2>2. Own(s)'
    BY <1>2 DEF Own, SameUser
  <2>3. ASSUME NEW y \in Users, Connected(s, y)' PROVE HeardOf(s, y)'
    <3>1. HeardOf(s, y)
      BY <1>2, <2>3, ConnectedBefore DEF Heard, SameUser
    <3> QED
      BY <1>2, <2>1, <3>1 DEF HeardOf, Calm, SameUser, In
  <2>4. Heard(s)'
    BY <2>3 DEF Heard
  <2> QED
    BY <2>2, <2>4
<1>3. ASSUME NEW s \in Sfus, \A y \in Users : users'[s][y] = NoUser
      PROVE  Roster(s)' /\ Heard(s)' /\ Own(s)'
  BY <1>3, NoUserFields DEF Roster, Heard, Connected, Own
<1>4. ASSUME RosterAgreement PROVE \A s \in Sfus : Roster(s)'
  BY <1>1, <1>3, <1>4, RosterAll DEF Calm
<1>5. ASSUME HeardInv PROVE \A s \in Sfus : Heard(s)' /\ Own(s)'
  BY <1>2, <1>3, <1>5, HeardAll DEF Calm, HeardInv
<1>6. ASSUME \A s \in Sfus : Roster(s)' PROVE RosterAgreement'
  BY <1>6 DEF RosterAgreement, Roster, RosterOf, Connected
<1>7. ASSUME \A s \in Sfus : Heard(s)' PROVE PushersHeard'
  BY <1>7 DEF PushersHeard, Heard, HeardOf, Connected
<1> QED
  BY <1>4, <1>5, <1>6, <1>7 DEF HeardInv

-----------------------------------------------------------------------------
(* The calm steps *)

LEMMA SameUsersCalm ==
    ASSUME UNCHANGED <<users, told, heard>>
    PROVE  Calm
BY DEF Calm, SameUser

LEMMA AgeFields ==
    ASSUME NEW r \in UserRecs, NEW a
    PROVE  /\ [r EXCEPT !.age = a].in = r.in
           /\ [r EXCEPT !.age = a].cb = r.cb
           /\ [r EXCEPT !.age = a].remote = r.remote
           /\ [r EXCEPT !.age = a].audience = r.audience
           /\ [r EXCEPT !.age = a].pushers = r.pushers
BY DEF UserRecs

\* UpdateHeartbeat changes ages only.
LEMMA BeatSame ==
    ASSUME TypeOK, NEW s \in Sfus, NEW us, users' = Beat(s, us)
    PROVE  \A x \in Sfus, y \in Users : SameUser(x, y)
<1> DEFINE f == [u \in Users |->
                    IF u \in us /\ users[s][u].in THEN [users[s][u] EXCEPT !.age = 0]
                                                  ELSE users[s][u]]
<1>1. users' = [users EXCEPT ![s] = f]
  BY DEF Beat
<1>2. users'[s] = f /\ \A x \in Sfus \ {s} : users'[x] = users[x]
  BY <1>1 DEF TypeOK, RoomTypeOK
<1>3. ASSUME NEW y \in Users PROVE SameUser(s, y)
  <2>1. users[s][y] \in UserRecs
    BY DEF TypeOK, RoomTypeOK
  <2>2. users'[s][y] = f[y]
    BY <1>2
  <2>3. f[y] = users[s][y] \/ f[y] = [users[s][y] EXCEPT !.age = 0]
    OBVIOUS
  <2> HIDE DEF f
  <2>4. CASE f[y] = users[s][y]
    BY <2>2, <2>4 DEF SameUser
  <2>5. CASE f[y] = [users[s][y] EXCEPT !.age = 0]
    BY <2>1, <2>2, <2>5, AgeFields DEF SameUser
  <2> QED
    BY <2>3, <2>4, <2>5
<1> HIDE DEF f
<1> QED
  BY <1>2, <1>3 DEF SameUser

LEMMA BeatCalm ==
    ASSUME TypeOK, NEW s \in Sfus, NEW us, users' = Beat(s, us), UNCHANGED <<told, heard>>
    PROVE  Calm
BY BeatSame DEF Calm

LEMMA UserAgesSame ==
    ASSUME TypeOK, NEW s \in Sfus, NEW u \in Users, UserAges(s, u)
    PROVE  \A x \in Sfus, y \in Users : SameUser(x, y)
<1>1. users' = [users EXCEPT ![s][u] = [users[s][u] EXCEPT !.age = users[s][u].age + 1]]
  BY DEF UserAges
<1>2. users[s][u] \in UserRecs
  BY DEF TypeOK, RoomTypeOK
<1>3. /\ users'[s][u] = [users[s][u] EXCEPT !.age = users[s][u].age + 1]
      /\ \A y \in Users \ {u} : users'[s][y] = users[s][y]
      /\ \A x \in Sfus \ {s} : users'[x] = users[x]
  BY <1>1 DEF TypeOK, RoomTypeOK
<1>4. SameUser(s, u)
  BY <1>2, <1>3, AgeFields DEF SameUser
<1> QED
  BY <1>3, <1>4 DEF SameUser

LEMMA DropCalm ==
    ASSUME TypeOK, NEW s \in Sfus, DropRoom(s)
    PROVE  Calm
<1>1. /\ \A y \in Users : users'[s][y] = NoUser
      /\ \A x \in Sfus \ {s} : users'[x] = users[x]
  BY DEF DropRoom, TypeOK, RoomTypeOK
<1>2. UNCHANGED <<told, heard>>
  BY DEF DropRoom, viewVars
<1> QED
  BY <1>1, <1>2 DEF Calm, SameUser

LEMMA UndefinedCalm ==
    ASSUME NEW s, Undefined(s)
    PROVE  Calm
<1>1. UNCHANGED <<users, told, heard>>
  BY DEF Undefined, viewVars
<1> QED
  BY <1>1, SameUsersCalm

\* The requests of a client that tell it, or another client, of a user.
ClientTells(w) ==
    \/ \E u \in Users, a \in Audiences : HandleJoinRequest(w, u, a)
    \/ \E u \in Users, k \in SessIds, M \in Offers : HandlePushRequest(w, u, k, M)
    \/ WsGone(w) /\ DisconnectUser(w)

LEMMA ClientCalm ==
    ASSUME TypeOK, NEW w \in Sockets, ClientNext(w)
    PROVE  Calm \/ ClientTells(w)
<1>0. Home[w] \in Sfus
  BY RoomAssumption
<1>1. ASSUME NEW u, HandleHeartbeatRequest(w, u) PROVE Calm
  <2>1. users' = Beat(Home[w], {u}) /\ UNCHANGED <<told, heard>>
    BY <1>1 DEF HandleHeartbeatRequest, viewVars
  <2> QED
    BY <1>0, <2>1, BeatCalm
<1>2. ASSUME NEW t, PullUnknown(w, t) PROVE Calm
  <2>1. UNCHANGED <<users, told, heard>>
    BY <1>2 DEF PullUnknown, viewVars
  <2> QED
    BY <2>1, SameUsersCalm
<1>3. ASSUME NEW u, NEW t, NEW P, NEW k, HandlePullSdp(w, u, t, P, k) PROVE Calm
  <2>1. UNCHANGED <<users, told, heard>>
    BY <1>3 DEF HandlePullSdp, viewVars
  <2> QED
    BY <2>1, SameUsersCalm
<1>4. ASSUME NEW u, NEW t, NEW P, NEW k, HandleRemotePullSdp(w, u, t, P, k) PROVE Calm
  <2>1. UNCHANGED <<users, told, heard>>
    BY <1>4 DEF HandleRemotePullSdp, viewVars
  <2> QED
    BY <2>1, SameUsersCalm
<1>5. \A u : HandlePullRequest(w, u) => Calm
  BY <1>2, <1>3, <1>4, Zenon DEF HandlePullRequest
<1>6. ASSUME WsReadError(w) \/ HandleJoinRequestElsewhere(w) PROVE Calm
  <2>1. UNCHANGED <<users, told, heard>>
    BY <1>6 DEF WsReadError, HandleJoinRequestElsewhere, viewVars
  <2> QED
    BY <2>1, SameUsersCalm
<1>7. \A u \in Speaks[w] : u \in Users
  BY RoomAssumption
<1> QED
  BY <1>1, <1>5, <1>6, <1>7, Zenon DEF ClientNext, ClientTells, WsOnClose, WsSweep

LEMMA PeerCalm ==
    ASSUME TypeOK, NEW s \in Sfus, PeerNext(s)
    PROVE  \/ Calm
           \/ \E u \in WhipUsers, k \in SessIds, M \in Offers : WhipHandle(s, u, k, M)
<1>1. ASSUME WhipDeleteHandle(s) PROVE Calm
  <2>1. Undefined(s) \/ DropRoom(s)
    BY <1>1 DEF WhipDeleteHandle
  <2> QED
    BY <2>1, UndefinedCalm, DropCalm
<1>2. ASSUME NEW k, HandleStunPacket(s, k) \/ SessionIdles(s, k) PROVE Calm
  <2>1. UNCHANGED <<users, told, heard>>
    BY <1>2 DEF HandleStunPacket, SessionIdles, viewVars
  <2> QED
    BY <2>1, SameUsersCalm
<1>3. ASSUME NEW k, NEW x, OnRtpPacketFromRtcPusher(s, k, x) PROVE Calm
  <2>1. CASE Undefined(s)
    BY <2>1, UndefinedCalm
  <2>2. CASE ~Undefined(s)
    <3>1. PICK us : users' = Beat(s, us)
      BY <1>3, <2>2, Zenon DEF OnRtpPacketFromRtcPusher
    <3>2. UNCHANGED <<told, heard>>
      BY <1>3, <2>2 DEF OnRtpPacketFromRtcPusher, viewVars
    <3> QED
      BY <3>1, <3>2, BeatCalm
  <2> QED
    BY <2>1, <2>2
<1>4. ASSUME NEW k, NEW p, OnKeyFrameRequest(s, k, p) PROVE Calm
  <2>1. Undefined(s) \/ UNCHANGED <<users, told, heard>>
    BY <1>4 DEF OnKeyFrameRequest, viewVars
  <2> QED
    BY <2>1, SameUsersCalm, UndefinedCalm
<1>5. ASSUME NEW k, WebRtcServerOnTimer(s, k) PROVE Calm
  <2>1. Undefined(s) \/ UNCHANGED <<users, told, heard>>
    BY <1>5 DEF WebRtcServerOnTimer, viewVars
  <2> QED
    BY <2>1, SameUsersCalm, UndefinedCalm
<1>6. ASSUME NEW u, NotifyDestroyed(s, u) \/ OnRelayKeyFrameRequest(s, u) PROVE Calm
  BY <1>6, UndefinedCalm DEF NotifyDestroyed, OnRelayKeyFrameRequest
<1> QED
  BY <1>1, <1>2, <1>3, <1>4, <1>5, <1>6, Zenon DEF PeerNext

LEMMA TimerCalm ==
    ASSUME TypeOK, NEW s \in Sfus, TimerNext(s)
    PROVE  Calm \/ RoomOnTimer(s)
<1>1. ASSUME NEW u \in Users, UserAges(s, u) PROVE Calm
  <2>1. UNCHANGED <<told, heard>>
    BY <1>1 DEF UserAges, viewVars
  <2> QED
    BY <1>1, <2>1, UserAgesSame DEF Calm
<1>2. ASSUME NEW port, RelayIdles(s, port) PROVE Calm
  <2>1. UNCHANGED <<users, told, heard>>
    BY <1>2 DEF RelayIdles, viewVars
  <2> QED
    BY <2>1, SameUsersCalm
<1>3. ASSUME RoomIdles(s) PROVE Calm
  <2>1. UNCHANGED <<users, told, heard>>
    BY <1>3 DEF RoomIdles, viewVars
  <2> QED
    BY <2>1, SameUsersCalm
<1>4. ASSUME RoomMgrOnTimer(s) PROVE Calm
  BY <1>4, DropCalm DEF RoomMgrOnTimer
<1> QED
  BY <1>1, <1>2, <1>3, <1>4, Zenon DEF TimerNext

\* The messages of the center that tell clients of a user.
CenterTells(s, m) ==
    \/ HandleNewUserNotificationFromCenter(s, m)
    \/ HandleNewPusherNotificationFromCenter(s, m)
    \/ HandleUserLeaveNotificationFromCenter(s, m)
    \/ m.method = "joinResponse" /\ AddRemoteUsers(s, m.users \ In(s), m.pushers)

LEMMA CenterCalm ==
    ASSUME TypeOK, CenterNext
    PROVE  Calm \/ \E s \in Sfus, m \in CenterMsgs : CenterTells(s, m)
<1>1. ASSUME NEW s \in Sfus, NEW m \in CenterMsgs, OnCenterMessage(s, m)
      PROVE  Calm \/ CenterTells(s, m)
  <2>1. CASE HandlePullRemoteStreamNotificationFromCenter(s, m)
    <3>1. UNCHANGED <<users, told, heard>>
      BY <2>1 DEF HandlePullRemoteStreamNotificationFromCenter, viewVars
    <3> QED
      BY <3>1, SameUsersCalm
  <2>2. CASE HandleUserDisconnectNotificationFromCenter(s, m)
    <3>1. UNCHANGED <<users, told, heard>>
      BY <2>2 DEF HandleUserDisconnectNotificationFromCenter, viewVars
    <3> QED
      BY <3>1, SameUsersCalm
  <2>3. CASE JoinResponseFromPilotCenter(s, m)
    <3>1. \/ Undefined(s)
          \/ m.method = "joinResponse" /\ AddRemoteUsers(s, m.users \ In(s), m.pushers)
      BY <2>3, Zenon DEF JoinResponseFromPilotCenter
    <3> QED
      BY <3>1, UndefinedCalm DEF CenterTells
  <2> QED
    BY <1>1, <2>1, <2>2, <2>3, Zenon DEF OnCenterMessage, CenterTells
<1>2. ASSUME NEW s \in Sfus, NEW e, OnRtpPacketFromRemoteRtcPusher(s, e) PROVE Calm
  <2>1. users' = Beat(s, {e.pusher.user} \cup Fed(s, e.pusher)) /\ UNCHANGED <<told, heard>>
    BY <1>2 DEF OnRtpPacketFromRemoteRtcPusher, viewVars
  <2> QED
    BY <2>1, BeatCalm
<1>3. ASSUME UNCHANGED roomVars PROVE Calm
  <2>1. UNCHANGED <<users, told, heard>>
    BY <1>3 DEF roomVars, viewVars
  <2> QED
    BY <2>1, SameUsersCalm
<1> QED
  BY <1>1, <1>2, <1>3, Zenon DEF CenterNext

\* Every step is calm or one of these.
Tells ==
    \/ \E w \in Sockets : ClientTells(w)
    \/ \E s \in Sfus, u \in WhipUsers, k \in SessIds, M \in Offers : WhipHandle(s, u, k, M)
    \/ \E s \in Sfus : RoomOnTimer(s)
    \/ \E s \in Sfus, m \in CenterMsgs : CenterTells(s, m)

LEMMA CalmOrTells ==
    ASSUME TypeOK, [Next]_vars
    PROVE  Calm \/ Tells
<1>1. CASE LocalNext
  <2>1. ASSUME NEW w \in Sockets, ClientNext(w) PROVE Calm \/ Tells
    BY <2>1, ClientCalm, Zenon DEF Tells
  <2>2. ASSUME NEW s \in Sfus, PeerNext(s) PROVE Calm \/ Tells
    BY <2>2, PeerCalm, Zenon DEF Tells
  <2>3. ASSUME NEW s \in Sfus, TimerNext(s) PROVE Calm \/ Tells
    BY <2>3, TimerCalm, Zenon DEF Tells
  <2> QED
    BY <1>1, <2>1, <2>2, <2>3, Zenon DEF LocalNext
<1>2. CASE CenterNext
  BY <1>2, CenterCalm, Zenon DEF Tells
<1>3. CASE UNCHANGED roomVars
  <2>1. UNCHANGED <<users, told, heard>>
    BY <1>3 DEF roomVars, viewVars
  <2> QED
    BY <2>1, SameUsersCalm
<1>4. LinkNext \/ UNCHANGED vars => UNCHANGED roomVars
  BY DEF LinkNext, vars
<1> QED
  BY <1>1, <1>2, <1>3, <1>4, Zenon DEF Next

-----------------------------------------------------------------------------
(* The steps that tell clients something *)

LEMMA CbFacts ==
    ASSUME TypeOK, NoDanglingRespCb, NEW s \in Sfus, NEW y \in Users, users[s][y].cb # NoWs
    PROVE  /\ users[s][y].cb \in Sockets
           /\ Home[users[s][y].cb] = s
           /\ users[s][y].in
<1>1. users[s][y].cb \in Sockets \cup {NoWs}
  BY DEF TypeOK, RoomTypeOK, UserRecs
<1> QED
  BY <1>1 DEF NoDanglingRespCb

\* The WebSockets that a notification about v goes to.
LEMMA Audience ==
    ASSUME TypeOK, NoDanglingRespCb, NEW s \in Sfus, NEW v
    PROVE  /\ \A w \in LocalCbs(s, v) \cup AllCbs(s, v) : w \in Sockets /\ Home[w] = s
           /\ \A y \in Users \ {v} : Connected(s, y) => users[s][y].cb \in LocalCbs(s, v)
<1>1. \A w \in LocalCbs(s, v) \cup AllCbs(s, v) : \E y \in Users : w = users[s][y].cb /\ w # NoWs
  BY DEF LocalCbs, AllCbs, In
<1>2. ASSUME NEW y \in Users \ {v}, Connected(s, y) PROVE users[s][y].cb \in LocalCbs(s, v)
  <2>1. users[s][y].in
    BY <1>2, CbFacts DEF Connected
  <2> QED
    BY <1>2, <2>1 DEF LocalCbs, In, Connected
<1> QED
  BY <1>1, <1>2, CbFacts

LEMMA RosterFromParts ==
    ASSUME TypeOK, NoDanglingRespCb, GoneStay, RosterAgreement, NEW s \in Sfus, Roster(s)',
           \A x \in Sfus \ {s} : users'[x] = users[x],
           \A w \in Sockets : Home[w] # s => told'[w] = told[w]
    PROVE  RosterAgreement'
<1>1. ASSUME NEW x \in Sfus \ {s} PROVE Roster(x)'
  BY ElsewhereRoster, RosterAll
<1>2. \A x \in Sfus : Roster(x)'
  BY <1>1
<1> QED
  BY <1>2 DEF RosterAgreement, Roster, RosterOf, Connected

LEMMA HeardFromParts ==
    ASSUME TypeOK, NoDanglingRespCb, GoneStay, HeardInv, NEW s \in Sfus, Heard(s)', Own(s)',
           \A x \in Sfus \ {s} : users'[x] = users[x],
           \A w \in Sockets : Home[w] # s => heard'[w] = heard[w]
    PROVE  HeardInv'
<1>1. ASSUME NEW x \in Sfus \ {s} PROVE Heard(x)' /\ Own(x)'
  BY ElsewhereHeard, HeardAll DEF HeardInv
<1>2. \A x \in Sfus : Heard(x)' /\ Own(x)'
  BY <1>1
<1> QED
  BY <1>2 DEF HeardInv, PushersHeard, Heard, HeardOf, Connected

\* One RtcUser of s changes.
OneUser(s, u, r) ==
    /\ users'[s][u] = r
    /\ \A y \in Users \ {u} : users'[s][y] = users[s][y]
    /\ \A x \in Sfus \ {s} : users'[x] = users[x]

LEMMA OneUserChanges ==
    ASSUME TypeOK, NEW s \in Sfus, NEW u \in Users, NEW r, users' = [users EXCEPT ![s][u] = r]
    PROVE  OneUser(s, u, r)
BY DEF OneUser, TypeOK, RoomTypeOK

LEMMA AudienceFields ==
    ASSUME NEW r \in UserRecs, NEW a
    PROVE  /\ [r EXCEPT !.audience = a].in = r.in
           /\ [r EXCEPT !.audience = a].cb = r.cb
           /\ [r EXCEPT !.audience = a].remote = r.remote
           /\ [r EXCEPT !.audience = a].audience = a
           /\ [r EXCEPT !.audience = a].pushers = r.pushers
BY DEF UserRecs

\* A client that joins learns who is there, and the others learn of it, w too
\* when it is already the resp_cb_ of one of them.
LEMMA JoinRoster ==
    ASSUME TypeOK, NoDanglingRespCb, GoneStay, RosterAgreement, NEW w \in Sockets,
           NEW u \in Users, NEW a \in BOOLEAN, HandleJoinRequest(w, u, a)
    PROVE  RosterAgreement'
<1> DEFINE s == Home[w]
<1>1. s \in Sfus /\ told \in [Sockets -> SUBSET Users]
  BY RoomAssumption DEF TypeOK, ViewTypeOK
<1>2. Roster(s)
  BY <1>1, RosterAll
<1>3. CASE JoinNew(w, u, a)
  <2> DEFINE listed == {v \in In(s) : ~users[s][v].audience}
             W == IF a THEN {} ELSE LocalCbs(s, u)
  <2>1. ~users[s][u].in /\ OneUser(s, u, NewRtcUser(w, a))
    BY <1>1, <1>3, OneUserChanges DEF JoinNew
  <2>2. told' = [Tell(W, {u}) EXCEPT ![w] = (@ \cap {u}) \cup listed]
    BY <1>3 DEF JoinNew
  <2>3. /\ told'[w] \subseteq listed \cup {u}
        /\ listed \subseteq told'[w]
        /\ w \in W => u \in told'[w]
        /\ \A z \in Sockets \ {w} : told'[z] = IF z \in W THEN told[z] \cup {u} ELSE told[z]
    BY <1>1, <2>2 DEF Tell
  <2>4. /\ NewRtcUser(w, a).in /\ NewRtcUser(w, a).cb = w
        /\ ~NewRtcUser(w, a).remote /\ NewRtcUser(w, a).audience = a
    BY DEF NewRtcUser, NoUser
  <2>5. In(s)' = In(s) \cup {u}
    BY <1>1, <2>1, <2>4 DEF In, OneUser
  <2>6. \A z \in W : Home[z] = s
    BY <1>1, Audience
  <2> HIDE DEF W
  <2>7. ASSUME NEW y \in Users, Connected(s, y)' PROVE RosterOf(s, y)'
    <3>1. CASE y = u
      BY <2>1, <2>3, <2>4, <2>5, <3>1 DEF RosterOf, OneUser, In
    <3>2. CASE y # u
      <4>0. users'[s][y] = users[s][y]
        BY <2>1, <3>2 DEF OneUser
      <4>1. Connected(s, y)
        BY <1>1, <2>7, <4>0, ConnectedBefore
      <4>2. RosterOf(s, y)
        BY <1>2, <4>1 DEF Roster
      <4>3. users[s][y].cb \in Sockets
        BY <1>1, <4>1, CbFacts DEF Connected
      <4>4. ~a => users[s][y].cb \in W
        BY <1>1, <3>2, <4>1, Audience DEF W
      <4>5. CASE users[s][y].cb = w
        <5>1. told'[w] \subseteq In(s)'
          BY <2>3, <2>5
        <5>2. ASSUME NEW v \in In(s)' \ {y}, ~users'[s][v].audience PROVE v \in told'[w]
          <6>1. CASE v = u
            BY <2>1, <2>3, <2>4, <4>4, <4>5, <5>2, <6>1 DEF OneUser
          <6>2. CASE v # u
            BY <2>1, <2>3, <2>5, <5>2, <6>2 DEF OneUser, In
          <6> QED
            BY <6>1, <6>2
        <5> QED
          BY <4>0, <4>5, <5>1, <5>2 DEF RosterOf
      <4>6. CASE users[s][y].cb # w
        <5>1. told'[users[s][y].cb] \in {told[users[s][y].cb], told[users[s][y].cb] \cup {u}}
          BY <2>3, <4>3, <4>6
        <5>2. ~a => u \in told'[users[s][y].cb]
          BY <2>3, <4>3, <4>4, <4>6
        <5>3. told'[users[s][y].cb] \subseteq In(s)'
          BY <2>5, <4>2, <5>1 DEF RosterOf
        <5>4. ASSUME NEW v \in In(s)' \ {y}, ~users'[s][v].remote, ~users'[s][v].audience
              PROVE  v \in told'[users[s][y].cb]
          BY <2>1, <2>4, <2>5, <4>2, <5>1, <5>2, <5>4 DEF RosterOf, OneUser, In
        <5> QED
          BY <4>0, <5>3, <5>4 DEF RosterOf
      <4> QED
        BY <4>5, <4>6
    <3> QED
      BY <3>1, <3>2
  <2>8. Roster(s)'
    BY <2>7 DEF Roster
  <2>9. \A z \in Sockets : Home[z] # s => told'[z] = told[z]
    BY <2>3, <2>6
  <2> QED
    BY <1>1, <2>1, <2>8, <2>9, RosterFromParts DEF OneUser
<1>4. CASE ReConnect(w, u, a)
  <2> DEFINE W == LocalCbs(s, u)
             others == In(s) \ {u}
             r == [users[s][u] EXCEPT !.audience = a]
  <2>1. users[s][u].in /\ OneUser(s, u, r)
    BY <1>1, <1>4, OneUserChanges DEF ReConnect
  <2>2. told' = [Tell(W, {u}) EXCEPT ![w] = (@ \cap {u}) \cup others]
    BY <1>4 DEF ReConnect
  <2>3. /\ told'[w] \subseteq others \cup {u}
        /\ others \subseteq told'[w]
        /\ w \in W => u \in told'[w]
        /\ \A z \in Sockets \ {w} : told'[z] = IF z \in W THEN told[z] \cup {u} ELSE told[z]
    BY <1>1, <2>2 DEF Tell
  <2>4. users[s][u] \in UserRecs
    BY <1>1 DEF TypeOK, RoomTypeOK
  <2>5. r.in /\ r.cb = users[s][u].cb /\ r.remote = users[s][u].remote /\ r.audience = a
    BY <2>1, <2>4, AudienceFields
  <2> HIDE DEF r
  <2>6. In(s)' = In(s) /\ u \in In(s)
    BY <1>1, <2>1, <2>5 DEF In, OneUser
  <2>7. \A z \in W : Home[z] = s
    BY <1>1, Audience
  <2> HIDE DEF W
  <2>8. ASSUME NEW y \in Users, Connected(s, y)' PROVE RosterOf(s, y)'
    <3>0. users'[s][y].cb = users[s][y].cb /\ users'[s][y].remote = users[s][y].remote
      BY <2>1, <2>5 DEF OneUser
    <3>1. Connected(s, y)
      BY <1>1, <2>8, <3>0, ConnectedBefore
    <3>2. y # u => users[s][y].cb \in W
      BY <1>1, <3>1, Audience DEF W
    <3>3. CASE users[s][y].cb = w
      <4>1. told'[w] \subseteq In(s)'
        BY <2>3, <2>6
      <4>2. ASSUME NEW v \in In(s)' \ {y} PROVE v \in told'[w]
        BY <2>3, <2>6, <3>2, <3>3
      <4> QED
        BY <3>0, <3>3, <4>1, <4>2 DEF RosterOf
    <3>4. CASE users[s][y].cb # w
      <4>1. RosterOf(s, y)
        BY <1>2, <3>1 DEF Roster
      <4>2. users[s][y].cb \in Sockets \ {w}
        BY <1>1, <3>1, <3>4, CbFacts DEF Connected
      <4>4. told'[users[s][y].cb] \in {told[users[s][y].cb], told[users[s][y].cb] \cup {u}}
        BY <2>3, <4>2
      <4>5. y # u => u \in told'[users[s][y].cb]
        BY <2>3, <3>2, <4>2
      <4>7. told'[users[s][y].cb] \subseteq In(s)'
        BY <2>6, <4>1, <4>4 DEF RosterOf
      <4>8. ASSUME NEW v \in In(s)' \ {y}, ~users'[s][v].remote, ~users'[s][v].audience
            PROVE  v \in told'[users[s][y].cb]
        BY <2>1, <2>6, <4>1, <4>4, <4>5, <4>8 DEF RosterOf, OneUser, In
      <4> QED
        BY <3>0, <4>7, <4>8 DEF RosterOf
    <3> QED
      BY <3>3, <3>4
  <2>9. Roster(s)'
    BY <2>8 DEF Roster
  <2>10. \A z \in Sockets : Home[z] # s => told'[z] = told[z]
    BY <2>3, <2>7
  <2> QED
    BY <1>1, <2>1, <2>9, <2>10, RosterFromParts DEF OneUser
<1> QED
  BY <1>3, <1>4 DEF HandleJoinRequest

\* It learns of the pushers, too, when nobody is an audience member.
LEMMA JoinHeard ==
    ASSUME TypeOK, NoDanglingRespCb, GoneStay, HeardInv, NEW w \in Sockets,
           NEW u \in Users, HandleJoinRequest(w, u, FALSE)
    PROVE  HeardInv'
<1> DEFINE s == Home[w]
<1>1. s \in Sfus /\ heard \in [Sockets -> SUBSET Pushers]
  BY RoomAssumption DEF TypeOK, ViewTypeOK
<1>2. Heard(s) /\ Own(s)
  BY <1>1, HeardAll DEF HeardInv
<1>3. \A v \in Users : \A p \in users[s][v].pushers : p.user = v
  BY <1>2 DEF Own, PushersOf
<1>4. \A p \in PushersOf(u) : p.user = u
  BY DEF PushersOf
<1>5. CASE JoinNew(w, u, FALSE)
  <2> DEFINE listed == {v \in In(s) : ~users[s][v].audience}
             r == NewRtcUser(w, FALSE)
  <2>1. ~users[s][u].in /\ OneUser(s, u, r)
    BY <1>1, <1>5, OneUserChanges DEF JoinNew
  <2>2. heard' = [heard EXCEPT ![w] =
            (@ \cap PushersOf(u)) \cup UNION {users[s][v].pushers : v \in listed}]
    BY <1>5 DEF JoinNew
  <2>3. listed = In(s)
    BY <1>2 DEF Own, In
  <2>4. /\ heard'[w] = (heard[w] \cap PushersOf(u)) \cup UNION {users[s][v].pushers : v \in In(s)}
        /\ \A z \in Sockets \ {w} : heard'[z] = heard[z]
    BY <1>1, <2>2, <2>3
  <2>5. r.in /\ r.cb = w /\ ~r.remote /\ r.audience = FALSE /\ r.pushers = {}
    BY DEF NewRtcUser, NoUser
  <2> HIDE DEF r, listed
  <2>6. In(s)' = In(s) \cup {u}
    BY <1>1, <2>1, <2>5 DEF In, OneUser
  <2>7. Own(s)'
    BY <1>2, <2>1, <2>5 DEF Own, OneUser
  <2>8. ASSUME NEW v \in In(s)' PROVE users'[s][v].pushers \subseteq heard'[w]
    <3>1. CASE v = u
      BY <2>1, <2>5, <3>1 DEF OneUser
    <3>2. CASE v # u
      BY <2>1, <2>4, <2>6, <3>2 DEF OneUser, In
    <3> QED
      BY <3>1, <3>2
  <2>9. ASSUME NEW p \in heard'[w] PROVE p.user \in In(s)'
    <3>1. CASE p \in PushersOf(u)
      BY <1>4, <2>6, <3>1
    <3>2. CASE p \notin PushersOf(u)
      <4>1. PICK v \in In(s) : p \in users[s][v].pushers
        BY <2>4, <2>9, <3>2
      <4> QED
        BY <1>3, <2>6, <4>1 DEF In
    <3> QED
      BY <3>1, <3>2
  <2>10. ASSUME NEW y \in Users, Connected(s, y)' PROVE HeardOf(s, y)'
    <3>1. CASE users'[s][y].cb = w
      BY <2>8, <2>9, <3>1 DEF HeardOf
    <3>2. CASE users'[s][y].cb # w
      <4>0. y # u /\ users'[s][y] = users[s][y]
        BY <2>1, <2>5, <3>2 DEF OneUser
      <4>1. Connected(s, y)
        BY <1>1, <2>10, <4>0, ConnectedBefore
      <4>2. HeardOf(s, y)
        BY <1>2, <4>1 DEF Heard
      <4>3. users[s][y].cb \in Sockets \ {w}
        BY <1>1, <3>2, <4>0, <4>1, CbFacts DEF Connected
      <4>4. heard'[users[s][y].cb] = heard[users[s][y].cb]
        BY <2>4, <4>3
      <4> QED
        BY <2>1, <2>5, <2>6, <4>0, <4>2, <4>4 DEF HeardOf, OneUser, In
    <3> QED
      BY <3>1, <3>2
  <2>11. Heard(s)'
    BY <2>10 DEF Heard
  <2>12. \A z \in Sockets : Home[z] # s => heard'[z] = heard[z]
    BY <2>4
  <2> QED
    BY <1>1, <2>1, <2>7, <2>11, <2>12, HeardFromParts DEF OneUser
<1>6. CASE ReConnect(w, u, FALSE)
  <2> DEFINE others == In(s) \ {u}
             r == [users[s][u] EXCEPT !.audience = FALSE]
  <2>1. users[s][u].in /\ OneUser(s, u, r)
    BY <1>1, <1>6, OneUserChanges DEF ReConnect
  <2>2. heard' = [heard EXCEPT ![w] =
            (@ \cap PushersOf(u)) \cup UNION {users[s][v].pushers : v \in others}]
    BY <1>6 DEF ReConnect
  <2>3. /\ heard'[w] = (heard[w] \cap PushersOf(u)) \cup UNION {users[s][v].pushers : v \in others}
        /\ \A z \in Sockets \ {w} : heard'[z] = heard[z]
    BY <1>1, <2>2
  <2>4. users[s][u] \in UserRecs
    BY <1>1 DEF TypeOK, RoomTypeOK
  <2>5. /\ r.in /\ r.cb = users[s][u].cb /\ r.remote = users[s][u].remote
        /\ r.audience = FALSE /\ r.pushers = users[s][u].pushers
    BY <2>1, <2>4, AudienceFields
  <2> HIDE DEF r
  <2>6. In(s)' = In(s) /\ u \in In(s)
    BY <1>1, <2>1, <2>5 DEF In, OneUser
  <2>7. Own(s)'
    BY <1>2, <2>1, <2>5 DEF Own, OneUser
  <2>8. \A v \in Users : /\ users'[s][v].cb = users[s][v].cb
                         /\ users'[s][v].remote = users[s][v].remote
                         /\ users'[s][v].pushers = users[s][v].pushers
    BY <2>1, <2>5 DEF OneUser
  <2>9. ASSUME NEW y \in Users, Connected(s, y)' PROVE HeardOf(s, y)'
    <3>0. users'[s][y].cb = users[s][y].cb /\ users'[s][y].remote = users[s][y].remote
      BY <2>8
    <3>1. Connected(s, y)
      BY <1>1, <2>9, <3>0, ConnectedBefore
    <3>2. HeardOf(s, y)
      BY <1>2, <3>1 DEF Heard
    <3>3. CASE users[s][y].cb = w
      <4>1. ASSUME NEW v \in In(s)' \ {y}, ~users'[s][v].remote
            PROVE  users'[s][v].pushers \subseteq heard'[w]
        <5>1. v \in In(s) \ {y} /\ v \in Users /\ ~users[s][v].remote
              /\ users'[s][v].pushers = users[s][v].pushers
          BY <2>6, <2>8, <4>1 DEF In
        <5>2. CASE v = u
          <6>1. users[s][u].pushers \subseteq heard[w]
            BY <3>2, <3>3, <5>1, <5>2 DEF HeardOf
          <6>2. users[s][u].pushers \subseteq PushersOf(u)
            BY <1>2 DEF Own
          <6> QED
            BY <2>3, <5>1, <5>2, <6>1, <6>2
        <5>3. CASE v # u
          BY <2>3, <5>1, <5>3
        <5> QED
          BY <5>2, <5>3
      <4>2. ASSUME NEW p \in heard'[w] PROVE p.user \in In(s)'
        <5>1. CASE p \in PushersOf(u)
          BY <1>4, <2>6, <5>1
        <5>2. CASE p \notin PushersOf(u)
          <6>1. PICK v \in others : p \in users[s][v].pushers
            BY <2>3, <4>2, <5>2
          <6> QED
            BY <1>3, <2>6, <6>1 DEF In
        <5> QED
          BY <5>1, <5>2
      <4> QED
        BY <3>0, <3>3, <4>1, <4>2 DEF HeardOf
    <3>4. CASE users[s][y].cb # w
      <4>1. users[s][y].cb \in Sockets \ {w}
        BY <1>1, <3>1, <3>4, CbFacts DEF Connected
      <4>2. heard'[users[s][y].cb] = heard[users[s][y].cb]
        BY <2>3, <4>1
      <4> QED
        BY <2>6, <2>8, <3>0, <3>2, <4>2 DEF HeardOf, In
    <3> QED
      BY <3>3, <3>4
  <2>10. Heard(s)'
    BY <2>9 DEF Heard
  <2>11. \A z \in Sockets : Home[z] # s => heard'[z] = heard[z]
    BY <2>3
  <2> QED
    BY <1>1, <2>1, <2>7, <2>10, <2>11, HeardFromParts DEF OneUser
<1> QED
  BY <1>5, <1>6 DEF HandleJoinRequest

\* The end of a WebSocket: whoever has it as its resp_cb_ is not connected any
\* more.
LEMMA GoneViews ==
    ASSUME TypeOK, NoDanglingRespCb, GoneStay, NEW w \in Sockets, WsGone(w), DisconnectUser(w)
    PROVE  /\ RosterAgreement => RosterAgreement'
           /\ HeardInv => HeardInv'
<1> DEFINE s == Home[w]
<1>1. /\ s \in Sfus /\ told \in [Sockets -> SUBSET Users]
      /\ heard \in [Sockets -> SUBSET Pushers]
  BY RoomAssumption DEF TypeOK, ViewTypeOK, RoomTypeOK
<1>2. /\ \A z \in Sockets \ {w} : told'[z] = told[z] /\ heard'[z] = heard[z]
      /\ ws'[w] = "gone"
  BY <1>1 DEF WsGone, TypeOK, RoomTypeOK
<1>3. /\ \A x \in Sfus \ {s} : users'[x] = users[x]
      /\ \A v \in Users : /\ users'[s][v].in = users[s][v].in
                          /\ users'[s][v].cb \in {users[s][v].cb, NoWs}
                          /\ users'[s][v].remote = users[s][v].remote
                          /\ users'[s][v].audience = users[s][v].audience
                          /\ users'[s][v].pushers = users[s][v].pushers
  <2>1. CASE UNCHANGED users
    BY <2>1
  <2>2. CASE who[w] # NoWs /\ users' = [users EXCEPT ![s][who[w]].cb = NoWs]
    <3> DEFINE u == who[w]
               r == [users[s][u] EXCEPT !.cb = NoWs]
    <3>1. u \in Users
      BY <2>2 DEF TypeOK, RoomTypeOK
    <3>2. users[s][u] \in UserRecs
      BY <1>1, <3>1 DEF TypeOK, RoomTypeOK
    <3>3. /\ r.in = users[s][u].in /\ r.cb = NoWs /\ r.remote = users[s][u].remote
          /\ r.audience = users[s][u].audience /\ r.pushers = users[s][u].pushers
      BY <3>2 DEF UserRecs
    <3> HIDE DEF r, u
    <3>4. OneUser(s, u, r)
      BY <1>1, <2>2, <3>1, OneUserChanges DEF r, u
    <3> QED
      BY <3>3, <3>4 DEF OneUser
  <2> QED
    BY <2>1, <2>2 DEF DisconnectUser
<1>4. In(s)' = In(s)
  BY <1>3 DEF In
<1>5. ASSUME NEW y \in Users, Connected(s, y)'
      PROVE  /\ Connected(s, y) /\ users'[s][y].cb = users[s][y].cb
             /\ told'[users[s][y].cb] = told[users[s][y].cb]
             /\ heard'[users[s][y].cb] = heard[users[s][y].cb]
  <2>1. users'[s][y].cb = users[s][y].cb /\ users'[s][y].remote = users[s][y].remote
    BY <1>3, <1>5 DEF Connected
  <2>2. Connected(s, y)
    BY <1>1, <1>5, <2>1, ConnectedBefore
  <2>3. users[s][y].cb # w
    BY <1>2, <1>5, <2>1 DEF Connected
  <2>4. users[s][y].cb \in Sockets
    BY <1>1, <2>2, CbFacts DEF Connected
  <2> QED
    BY <1>2, <2>1, <2>2, <2>3, <2>4
<1>6. ASSUME RosterAgreement PROVE RosterAgreement'
  <2>1. Roster(s)
    BY <1>1, <1>6, RosterAll
  <2>2. ASSUME NEW y \in Users, Connected(s, y)' PROVE RosterOf(s, y)'
    <3>1. RosterOf(s, y)
      BY <1>5, <2>1, <2>2 DEF Roster
    <3>2. /\ users'[s][y].cb = users[s][y].cb
          /\ told'[users[s][y].cb] = told[users[s][y].cb]
      BY <1>5, <2>2
    <3> QED
      BY <1>3, <1>4, <3>1, <3>2 DEF RosterOf, In
  <2>3. Roster(s)'
    BY <2>2 DEF Roster
  <2> QED
    BY <1>1, <1>2, <1>3, <1>6, <2>3, RosterFromParts
<1>7. ASSUME HeardInv PROVE HeardInv'
  <2>1. Heard(s) /\ Own(s)
    BY <1>1, <1>7, HeardAll DEF HeardInv
  <2>2. ASSUME NEW y \in Users, Connected(s, y)' PROVE HeardOf(s, y)'
    <3>1. HeardOf(s, y)
      BY <1>5, <2>1, <2>2 DEF Heard
    <3>2. /\ users'[s][y].cb = users[s][y].cb
          /\ heard'[users[s][y].cb] = heard[users[s][y].cb]
      BY <1>5, <2>2
    <3> QED
      BY <1>3, <1>4, <3>1, <3>2 DEF HeardOf, In
  <2>3. Heard(s)'
    BY <2>2 DEF Heard
  <2>4. Own(s)'
    BY <1>3, <2>1 DEF Own
  <2> QED
    BY <1>1, <1>2, <1>3, <1>7, <2>3, <2>4, HeardFromParts
<1> QED
  BY <1>6, <1>7

\* A user publishes, and joins by it if need be: the others hear of its pushers.
LEMMA PublishHeard ==
    ASSUME TypeOK, NoDanglingRespCb, GoneStay, HeardInv, NEW s \in Sfus, NEW u \in Users, NEW r,
           OneUser(s, u, r), r.in, r.audience = FALSE, r.pushers \subseteq PushersOf(u),
           r.cb = users[s][u].cb, r.cb = NoWs \/ r.remote = users[s][u].remote,
           heard' = Announce(LocalCbs(s, u), r.pushers)
    PROVE  HeardInv'
<1>1. heard \in [Sockets -> SUBSET Pushers] /\ Heard(s) /\ Own(s)
  BY HeardAll DEF TypeOK, ViewTypeOK, HeardInv
<1>2. \A z \in Sockets :
        heard'[z] = IF z \in LocalCbs(s, u) THEN heard[z] \cup r.pushers ELSE heard[z]
  BY DEF Announce
<1>3. In(s)' = In(s) \cup {u}
  BY DEF In, OneUser
<1>4. \A p \in r.pushers : p.user = u
  BY DEF PushersOf
<1>5. ASSUME NEW y \in Users, Connected(s, y)' PROVE HeardOf(s, y)'
  <2>0. users'[s][y].cb = users[s][y].cb /\ users'[s][y].remote = users[s][y].remote
    BY <1>5 DEF Connected, OneUser
  <2>1. Connected(s, y) /\ users'[s][y].cb = users[s][y].cb
    BY <1>5, <2>0, ConnectedBefore
  <2>2. HeardOf(s, y)
    BY <1>1, <2>1 DEF Heard
  <2>3. users[s][y].cb \in Sockets
    BY <2>1, CbFacts DEF Connected
  <2>4. y # u => users[s][y].cb \in LocalCbs(s, u)
    BY <2>1, Audience
  <2>5. /\ heard'[users[s][y].cb] \in {heard[users[s][y].cb], heard[users[s][y].cb] \cup r.pushers}
        /\ y # u => r.pushers \subseteq heard'[users[s][y].cb]
    BY <1>2, <2>3, <2>4
  <2>6. ASSUME NEW p \in heard'[users[s][y].cb] PROVE p.user \in In(s)'
    BY <1>3, <1>4, <2>2, <2>5 DEF HeardOf
  <2>7. ASSUME NEW v \in In(s)' \ {y}, ~users'[s][v].remote
        PROVE  users'[s][v].pushers \subseteq heard'[users[s][y].cb]
    <3>1. CASE v = u
      BY <2>5, <2>7, <3>1 DEF OneUser
    <3>2. CASE v # u
      <4>1. v \in In(s) \ {y} /\ users'[s][v] = users[s][v]
        BY <1>3, <2>7, <3>2 DEF OneUser, In
      <4>2. users[s][v].pushers \subseteq heard[users[s][y].cb]
        BY <2>2, <2>7, <4>1 DEF HeardOf
      <4> QED
        BY <2>5, <4>1, <4>2
    <3> QED
      BY <3>1, <3>2
  <2> QED
    BY <2>1, <2>6, <2>7 DEF HeardOf
<1>6. Heard(s)'
  BY <1>5 DEF Heard
<1>7. Own(s)'
  BY <1>1 DEF Own, OneUser
<1>8. \A z \in Sockets : Home[z] # s => heard'[z] = heard[z]
  BY <1>2, Audience
<1> QED
  BY <1>6, <1>7, <1>8, HeardFromParts DEF OneUser

LEMMA PushFields ==
    ASSUME NEW r \in UserRecs, NEW ps
    PROVE  /\ [r EXCEPT !.pushers = ps, !.age = 0].in = r.in
           /\ [r EXCEPT !.pushers = ps, !.age = 0].cb = r.cb
           /\ [r EXCEPT !.pushers = ps, !.age = 0].remote = r.remote
           /\ [r EXCEPT !.pushers = ps, !.age = 0].audience = r.audience
           /\ [r EXCEPT !.pushers = ps, !.age = 0].pushers = ps
BY DEF UserRecs

\* A push request.
LEMMA PushViews ==
    ASSUME TypeOK, NoDanglingRespCb, GoneStay, NEW w \in Sockets, NEW u \in Users,
           NEW k \in SessIds, NEW M \in Offers, HandlePushRequest(w, u, k, M)
    PROVE  /\ RosterAgreement => RosterAgreement'
           /\ HeardInv => HeardInv'
<1> DEFINE s == Home[w]
           new == PushersIn(s, k, u, M)
           all == users[s][u].pushers \cup new
           r == [users[s][u] EXCEPT !.pushers = all, !.age = 0]
<1>1. s \in Sfus /\ u \in Users /\ M \in SUBSET Media /\ users[s][u] \in UserRecs
  BY RoomAssumption DEF TypeOK, RoomTypeOK
<1>2. CASE M # {} /\ users[s][u].in
  <2>1. OneUser(s, u, r) /\ heard' = Announce(LocalCbs(s, u), all) /\ told' = told
    BY <1>1, <1>2, OneUserChanges DEF HandlePushRequest
  <2>2. /\ r.in /\ r.cb = users[s][u].cb /\ r.remote = users[s][u].remote
        /\ r.audience = users[s][u].audience /\ r.pushers = all
    BY <1>1, <1>2, PushFields
  <2>3. new \subseteq PushersOf(u)
    <3>1. new \subseteq Pushers
      BY <1>1, PushersInType
    <3>2. \A p \in new : p.user = u
      BY DEF PushersIn
    <3> QED
      BY <3>1, <3>2 DEF PushersOf
  <2> HIDE DEF r, new
  <2>4. ASSUME HeardInv PROVE HeardInv'
    <3>1. users[s][u].audience = FALSE /\ users[s][u].pushers \subseteq PushersOf(u)
      BY <1>1, <2>4 DEF HeardInv, Own
    <3> QED
      BY <1>1, <2>1, <2>2, <2>3, <2>4, <3>1, PublishHeard
  <2>5. ASSUME RosterAgreement PROVE RosterAgreement'
    <3>1. Roster(s)
      BY <1>1, <2>5, RosterAll
    <3>2. /\ In(s)' = In(s)
          /\ \A v \in Users : /\ users'[s][v].remote = users[s][v].remote
                              /\ users'[s][v].audience = users[s][v].audience
                              /\ users'[s][v].cb = users[s][v].cb
      BY <1>2, <2>1, <2>2 DEF In, OneUser
    <3>3. ASSUME NEW y \in Users, Connected(s, y)' PROVE RosterOf(s, y)'
      <4>1. RosterOf(s, y)
        BY <1>1, <3>1, <3>2, <3>3, ConnectedBefore DEF Roster
      <4> QED
        BY <2>1, <3>2, <4>1 DEF RosterOf, In
    <3>4. Roster(s)'
      BY <3>3 DEF Roster
    <3> QED
      BY <1>1, <2>1, <2>5, <3>4, RosterFromParts DEF OneUser
  <2> QED
    BY <2>4, <2>5
<1>3. CASE ~(M # {} /\ users[s][u].in)
  <2>1. UNCHANGED <<users, told, heard>>
    BY <1>3 DEF HandlePushRequest
  <2> QED
    BY <2>1, SameUsersCalm, CalmKeeps
<1> QED
  BY <1>2, <1>3

\* WHIP: the user joins, if it has not, and publishes.
LEMMA WhipViews ==
    ASSUME TypeOK, NoDanglingRespCb, GoneStay, NEW s \in Sfus, NEW u \in WhipUsers, NEW k \in SessIds,
           NEW M \in Offers, WhipHandle(s, u, k, M)
    PROVE  /\ RosterAgreement => RosterAgreement'
           /\ HeardInv => HeardInv'
<1> DEFINE new == PushersIn(s, k, u, M)
           was == IF users[s][u].in THEN users[s][u] ELSE NewRtcUser(NoWs, FALSE)
           all == was.pushers \cup new
           r == IF M = {} THEN was ELSE [was EXCEPT !.pushers = all, !.age = 0]
<1>1. /\ u \in Users /\ M \in SUBSET Media /\ users[s][u] \in UserRecs
      /\ told \in [Sockets -> SUBSET Users]
  BY RoomAssumption DEF TypeOK, RoomTypeOK, ViewTypeOK
<1>2. /\ OneUser(s, u, r)
      /\ told' = Tell(LocalCbs(s, u), {u})
      /\ heard' = Announce(LocalCbs(s, u), all)
  BY <1>1, OneUserChanges DEF WhipHandle
<1>3. new \subseteq PushersOf(u) /\ (M = {} => new = {})
  <2>1. new \subseteq Pushers
    BY <1>1, PushersInType
  <2>2. \A p \in new : p.user = u
    BY DEF PushersIn
  <2>3. M = {} => new = {}
    BY DEF PushersIn
  <2> QED
    BY <2>1, <2>2, <2>3 DEF PushersOf
<1>4. /\ NewRtcUser(NoWs, FALSE) \in UserRecs /\ NewRtcUser(NoWs, FALSE).in
      /\ NewRtcUser(NoWs, FALSE).cb = NoWs /\ NewRtcUser(NoWs, FALSE).audience = FALSE
      /\ NewRtcUser(NoWs, FALSE).pushers = {}
  <2>1. NewRtcUser(NoWs, FALSE) \in UserRecs
    BY UserRecTypes
  <2> QED
    BY <2>1 DEF NewRtcUser, NoUser
<1>5. /\ was \in UserRecs /\ was.in /\ was.cb = users[s][u].cb
      /\ was.cb = NoWs \/ was.remote = users[s][u].remote
      /\ was = users[s][u] \/ (was.audience = FALSE /\ was.pushers = {})
  <2>1. ~users[s][u].in => users[s][u].cb = NoWs
    BY <1>1, CbFacts
  <2>2. CASE users[s][u].in
    BY <1>1, <2>2
  <2>3. CASE ~users[s][u].in
    <3>1. was = NewRtcUser(NoWs, FALSE)
      BY <2>3
    <3> QED
      BY <1>4, <2>1, <2>3, <3>1
  <2> QED
    BY <2>2, <2>3
<1> HIDE DEF was, new
<1>6. /\ r.in /\ r.cb = was.cb /\ r.remote = was.remote
      /\ r.audience = was.audience /\ r.pushers = all
  BY <1>3, <1>5, PushFields
<1> HIDE DEF r
<1>7. ASSUME HeardInv PROVE HeardInv'
  <2>1. users[s][u].audience = FALSE /\ users[s][u].pushers \subseteq PushersOf(u)
    BY <1>1, <1>7 DEF HeardInv, Own
  <2>2. r.audience = FALSE /\ r.pushers \subseteq PushersOf(u)
    BY <1>3, <1>5, <1>6, <2>1
  <2> QED
    BY <1>1, <1>2, <1>5, <1>6, <1>7, <2>2, PublishHeard
<1>8. ASSUME RosterAgreement PROVE RosterAgreement'
  <2>1. Roster(s)
    BY <1>8, RosterAll
  <2>2. \A z \in Sockets : told'[z] = IF z \in LocalCbs(s, u) THEN told[z] \cup {u} ELSE told[z]
    BY <1>2 DEF Tell
  <2>3. In(s)' = In(s) \cup {u}
    BY <1>1, <1>2, <1>5, <1>6 DEF In, OneUser
  <2>4. ASSUME NEW y \in Users, Connected(s, y)' PROVE RosterOf(s, y)'
    <3>0. users'[s][y].cb = users[s][y].cb /\ users'[s][y].remote = users[s][y].remote
      BY <1>2, <1>5, <1>6, <2>4 DEF Connected, OneUser
    <3>1. Connected(s, y) /\ users'[s][y].cb = users[s][y].cb
      BY <2>4, <3>0, ConnectedBefore
    <3>2. RosterOf(s, y) /\ users[s][y].cb \in Sockets
      BY <2>1, <3>1, CbFacts DEF Roster, Connected
    <3>3. y # u => users[s][y].cb \in LocalCbs(s, u)
      BY <3>1, Audience
    <3>4. /\ told'[users[s][y].cb] \in {told[users[s][y].cb], told[users[s][y].cb] \cup {u}}
          /\ y # u => u \in told'[users[s][y].cb]
      BY <2>2, <3>2, <3>3
    <3>5. told'[users[s][y].cb] \subseteq In(s)'
      BY <2>3, <3>2, <3>4 DEF RosterOf
    <3>6. ASSUME NEW v \in In(s)' \ {y}, ~users'[s][v].remote, ~users'[s][v].audience
          PROVE  v \in told'[users[s][y].cb]
      BY <1>2, <2>3, <3>2, <3>4, <3>6 DEF RosterOf, OneUser, In
    <3> QED
      BY <3>1, <3>5, <3>6 DEF RosterOf
  <2>5. Roster(s)'
    BY <2>4 DEF Roster
  <2>6. \A z \in Sockets : Home[z] # s => told'[z] = told[z]
    BY <2>2, Audience
  <2> QED
    BY <1>2, <1>8, <2>5, <2>6, RosterFromParts DEF OneUser
<1> QED
  BY <1>7, <1>8

\* SetToSeq leaves nobody out.
LEMMA SetToSeqCovers ==
    ASSUME NEW S, IsFiniteSet(S)
    PROVE  /\ \A i \in DOMAIN SetToSeq(S) : SetToSeq(S)[i] \in S
           /\ \A x \in S : \E i \in DOMAIN SetToSeq(S) : SetToSeq(S)[i] = x
<1> DEFINE D == 1 .. Cardinality(S)
<1>1. Cardinality(S) \in Nat /\ ExistsBijection(D, S)
  BY FS_CardinalityType
<1>2. \E f \in [D -> S] : IsInjective(f)
  BY <1>1, Zenon DEF ExistsBijection, Bijection, Injection
<1>3. SetToSeq(S) \in [D -> S] /\ IsInjective(SetToSeq(S))
  BY <1>2, Zenon DEF SetToSeq
<1>4. SetToSeq(S) \in Injection(D, S)
  BY <1>3, Zenon DEF Injection
<1>5. Cardinality(D) = Cardinality(S)
  BY <1>1, FS_Interval, SMT
<1>6. SetToSeq(S) \in Surjection(D, S)
  BY <1>4, <1>5, FS_Injection, Zenon
<1>7. \A x \in S : \E i \in D : SetToSeq(S)[i] = x
  BY <1>6, Zenon DEF Surjection
<1> HIDE DEF D
<1> QED
  BY <1>3, <1>7

\* The WebSocket of a client that stays hears of every release; one of another
\* SFU of none.
LEMMA LeavesSeenByClient ==
    ASSUME TypeOK, NoDanglingRespCb, NEW s \in Sfus, NEW us \in SUBSET Users
    PROVE  /\ \A y \in Users \ us :
                  Connected(s, y) => LeavesSeen(s, SetToSeq(us), users[s][y].cb) = us
           /\ \A w \in Sockets : Home[w] # s => LeavesSeen(s, SetToSeq(us), w) = {}
<1> DEFINE q == SetToSeq(us)
<1>0. IsFiniteSet(us)
  BY LinkAssumption, FS_Subset
<1>1. /\ \A i \in DOMAIN q : q[i] \in us
      /\ \A x \in us : \E i \in DOMAIN q : q[i] = x
  BY <1>0, SetToSeqCovers
<1>1a. DOMAIN q = 1 .. Len(q) /\ Len(q) \in Nat
  BY <1>0, SetToSeqType
<1> HIDE DEF q
<1>2. ASSUME NEW y \in Users \ us, Connected(s, y) PROVE LeavesSeen(s, q, users[s][y].cb) = us
  <2>1. y \in In(s) /\ ~users[s][y].remote
    BY <1>2, CbFacts DEF In, Connected
  <2>2. \A n \in DOMAIN q : \A m \in 1 .. n : m \in DOMAIN q
    BY <1>1a
  <2>3. \A n \in DOMAIN q : \A m \in 1 .. n : q[m] # y
    BY <1>1, <2>2
  <2>4. LeavesSeen(s, q, users[s][y].cb) = {q[i] : i \in DOMAIN q}
    BY <2>1, <2>3 DEF LeavesSeen
  <2> QED
    BY <1>1, <2>4
<1>3. ASSUME NEW w \in Sockets, Home[w] # s PROVE LeavesSeen(s, q, w) = {}
  <2>1. \A v \in In(s) : users[s][v].cb # w
    BY <1>3, RoomAssumption, CbFacts DEF In
  <2> QED
    BY <2>1 DEF LeavesSeen
<1> QED
  BY <1>2, <1>3 DEF q

\* Room::OnTimer: those that stay hear of every release, with its pushers.
LEMMA TimerViews ==
    ASSUME TypeOK, NoDanglingRespCb, GoneStay, NEW s \in Sfus, RoomOnTimer(s)
    PROVE  /\ RosterAgreement => RosterAgreement'
           /\ HeardInv => HeardInv'
<1> DEFINE us == Expired(s)
           q == SetToSeq(us)
<1>1. us \in SUBSET Users
  BY DEF Expired, In
<1>2. /\ users' = [users EXCEPT ![s] = [u \in Users |-> IF u \in us THEN NoUser ELSE users[s][u]]]
      /\ told' = [w \in Sockets |-> told[w] \ LeavesSeen(s, q, w)]
      /\ heard' = [w \in Sockets |-> {p \in heard[w] : p.user \notin LeavesSeen(s, q, w)}]
  BY DEF RoomOnTimer, ReleaseUserResources
<1> HIDE DEF us
<1>3. /\ \A y \in Users : users'[s][y] = IF y \in us THEN NoUser ELSE users[s][y]
      /\ \A x \in Sfus \ {s} : users'[x] = users[x]
  BY <1>2 DEF TypeOK, RoomTypeOK
<1>4. /\ \A y \in Users \ us : Connected(s, y) => LeavesSeen(s, q, users[s][y].cb) = us
      /\ \A w \in Sockets : Home[w] # s => LeavesSeen(s, q, w) = {}
  BY <1>1, LeavesSeenByClient
<1>5. told \in [Sockets -> SUBSET Users] /\ heard \in [Sockets -> SUBSET Pushers]
  BY DEF TypeOK, ViewTypeOK
<1>6. \A w \in Sockets : Home[w] # s => told'[w] = told[w] /\ heard'[w] = heard[w]
  BY <1>2, <1>4, <1>5
<1>7. In(s)' = In(s) \ us
  BY <1>1, <1>3, NoUserFields DEF In
<1>8. ASSUME NEW y \in Users, Connected(s, y)'
      PROVE  /\ users'[s][y] = users[s][y] /\ Connected(s, y)
             /\ told'[users[s][y].cb] = told[users[s][y].cb] \ us
             /\ heard'[users[s][y].cb] = {p \in heard[users[s][y].cb] : p.user \notin us}
  <2>1. y \notin us
    BY <1>3, <1>8, NoUserFields DEF Connected
  <2>2. users'[s][y] = users[s][y] /\ Connected(s, y)
    BY <1>3, <1>8, <2>1, ConnectedBefore
  <2>3. LeavesSeen(s, q, users[s][y].cb) = us /\ users[s][y].cb \in Sockets
    BY <1>4, <2>1, <2>2, CbFacts DEF Connected
  <2> QED
    BY <1>2, <2>2, <2>3
<1>9. ASSUME RosterAgreement PROVE RosterAgreement'
  <2>1. Roster(s)
    BY <1>9, RosterAll
  <2>2. ASSUME NEW y \in Users, Connected(s, y)' PROVE RosterOf(s, y)'
    <3>1. RosterOf(s, y)
      BY <1>8, <2>1, <2>2 DEF Roster
    <3>2. users'[s][y] = users[s][y] /\ told'[users[s][y].cb] = told[users[s][y].cb] \ us
      BY <1>8, <2>2
    <3> QED
      BY <1>3, <1>7, <3>1, <3>2 DEF RosterOf, In
  <2>3. Roster(s)'
    BY <2>2 DEF Roster
  <2> QED
    BY <1>3, <1>6, <1>9, <2>3, RosterFromParts
<1>10. ASSUME HeardInv PROVE HeardInv'
  <2>1. Heard(s) /\ Own(s)
    BY <1>10, HeardAll DEF HeardInv
  <2>2. ASSUME NEW y \in Users, Connected(s, y)' PROVE HeardOf(s, y)'
    <3>1. HeardOf(s, y)
      BY <1>8, <2>1, <2>2 DEF Heard
    <3>2. /\ users'[s][y] = users[s][y]
          /\ heard'[users[s][y].cb] = {p \in heard[users[s][y].cb] : p.user \notin us}
      BY <1>8, <2>2
    <3>3. \A p \in heard'[users[s][y].cb] : p.user \in In(s)'
      BY <1>7, <3>1, <3>2 DEF HeardOf
    <3>4. ASSUME NEW v \in In(s)' \ {y}, ~users'[s][v].remote
          PROVE  users'[s][v].pushers \subseteq heard'[users[s][y].cb]
      <4>1. v \in In(s) \ {y} /\ v \notin us /\ users'[s][v] = users[s][v] /\ v \in Users
        BY <1>3, <1>7, <3>4 DEF In
      <4>2. users[s][v].pushers \subseteq heard[users[s][y].cb]
        BY <3>1, <3>4, <4>1 DEF HeardOf
      <4>3. \A p \in users[s][v].pushers : p.user = v
        BY <2>1, <4>1 DEF Own, PushersOf
      <4> QED
        BY <3>2, <4>1, <4>2, <4>3
    <3> QED
      BY <3>2, <3>3, <3>4 DEF HeardOf
  <2>3. Heard(s)'
    BY <2>2 DEF Heard
  <2>4. Own(s)'
    BY <1>3, <2>1, NoUserFields DEF Own
  <2> QED
    BY <1>3, <1>6, <1>10, <2>3, <2>4, HeardFromParts
<1> QED
  BY <1>9, <1>10

\* Remote users join users_, with their pushers.
LEMMA AddRemoteViews ==
    ASSUME TypeOK, NoDanglingRespCb, GoneStay, NEW s \in Sfus, NEW us \in SUBSET Users,
           us \cap In(s) = {}, NEW ps \in SUBSET Pushers, AddRemoteUsers(s, us, ps)
    PROVE  /\ RosterAgreement => RosterAgreement'
           /\ HeardInv => HeardInv'
<1> DEFINE mine == {p \in ps : p.user \in us}
           W == LocalCbs(s, NoWs)
           rec(u) == NewRemoteUser({p \in ps : p.user = u})
<1>1. /\ users' = [users EXCEPT ![s] = [u \in Users |-> IF u \in us THEN rec(u) ELSE users[s][u]]]
      /\ told' = Tell(W, us)
      /\ heard' = Announce(W, mine)
  BY DEF AddRemoteUsers
<1>2. \A u \in Users : /\ rec(u).in /\ rec(u).remote /\ rec(u).audience = FALSE
                       /\ rec(u).pushers \subseteq PushersOf(u)
  BY DEF NewRemoteUser, NoUser, PushersOf
<1> HIDE DEF rec
<1>3. /\ \A y \in Users : users'[s][y] = IF y \in us THEN rec(y) ELSE users[s][y]
      /\ \A x \in Sfus \ {s} : users'[x] = users[x]
  BY <1>1 DEF TypeOK, RoomTypeOK
<1>4. In(s)' = In(s) \cup us
  BY <1>2, <1>3 DEF In
<1>5. \A w \in Sockets :
          /\ told'[w] = IF w \in W THEN told[w] \cup us ELSE told[w]
          /\ heard'[w] = IF w \in W THEN heard[w] \cup mine ELSE heard[w]
  BY <1>1 DEF Tell, Announce
<1>6. \A w \in Sockets : Home[w] # s => told'[w] = told[w] /\ heard'[w] = heard[w]
  BY <1>5, Audience
<1> HIDE DEF W
<1>7. ASSUME NEW y \in Users, Connected(s, y)'
      PROVE  /\ users'[s][y] = users[s][y] /\ Connected(s, y)
             /\ told'[users[s][y].cb] \in {told[users[s][y].cb], told[users[s][y].cb] \cup us}
             /\ heard'[users[s][y].cb] \in {heard[users[s][y].cb], heard[users[s][y].cb] \cup mine}
  <2>0. users'[s][y] = users[s][y]
    BY <1>2, <1>3, <1>7 DEF Connected
  <2>1. users'[s][y] = users[s][y] /\ Connected(s, y)
    BY <1>7, <2>0, ConnectedBefore
  <2>2. users[s][y].cb \in Sockets
    BY <2>1, CbFacts DEF Connected
  <2> QED
    BY <1>5, <2>1, <2>2
<1>8. \A v \in In(s)' : ~users'[s][v].remote => v \in In(s) /\ users'[s][v] = users[s][v]
  BY <1>2, <1>3, <1>4 DEF In
<1>9. ASSUME RosterAgreement PROVE RosterAgreement'
  <2>1. Roster(s)
    BY <1>9, RosterAll
  <2>2. ASSUME NEW y \in Users, Connected(s, y)' PROVE RosterOf(s, y)'
    <3>1. RosterOf(s, y)
      BY <1>7, <2>1, <2>2 DEF Roster
    <3>2. /\ users'[s][y] = users[s][y]
          /\ told'[users[s][y].cb] \in {told[users[s][y].cb], told[users[s][y].cb] \cup us}
      BY <1>7, <2>2
    <3> QED
      BY <1>4, <1>8, <3>1, <3>2 DEF RosterOf
  <2>3. Roster(s)'
    BY <2>2 DEF Roster
  <2> QED
    BY <1>3, <1>6, <1>9, <2>3, RosterFromParts
<1>10. ASSUME HeardInv PROVE HeardInv'
  <2>1. Heard(s) /\ Own(s)
    BY <1>10, HeardAll DEF HeardInv
  <2>2. ASSUME NEW y \in Users, Connected(s, y)' PROVE HeardOf(s, y)'
    <3>1. HeardOf(s, y)
      BY <1>7, <2>1, <2>2 DEF Heard
    <3>2. /\ users'[s][y] = users[s][y]
          /\ heard'[users[s][y].cb] \in {heard[users[s][y].cb], heard[users[s][y].cb] \cup mine}
      BY <1>7, <2>2
    <3>3. \A p \in heard'[users[s][y].cb] : p.user \in In(s)'
      BY <1>4, <3>1, <3>2 DEF HeardOf
    <3>4. ASSUME NEW v \in In(s)' \ {y}, ~users'[s][v].remote
          PROVE  users'[s][v].pushers \subseteq heard'[users[s][y].cb]
      <4>1. v \in In(s) \ {y} /\ users'[s][v] = users[s][v]
        BY <1>8, <3>4
      <4>2. users[s][v].pushers \subseteq heard[users[s][y].cb]
        BY <3>1, <3>4, <4>1 DEF HeardOf
      <4> QED
        BY <3>2, <4>1, <4>2
    <3> QED
      BY <3>2, <3>3, <3>4 DEF HeardOf
  <2>3. Heard(s)'
    BY <2>2 DEF Heard
  <2>4. Own(s)'
    BY <1>2, <1>3, <2>1 DEF Own
  <2> QED
    BY <1>3, <1>6, <1>10, <2>3, <2>4, HeardFromParts
<1> QED
  BY <1>9, <1>10

LEMMA RemoteFields ==
    ASSUME NEW r \in UserRecs, NEW ps
    PROVE  /\ [r EXCEPT !.remote = TRUE, !.pushers = ps].in = r.in
           /\ [r EXCEPT !.remote = TRUE, !.pushers = ps].remote = TRUE
           /\ [r EXCEPT !.remote = TRUE, !.pushers = ps].audience = r.audience
           /\ [r EXCEPT !.remote = TRUE, !.pushers = ps].pushers = ps
BY DEF UserRecs

LEMMA NewPusherOwn ==
    ASSUME NEW m \in CenterMsgs, m.method = "newPusher"
    PROVE  m.pushers \subseteq PushersOf(m.user)
<1>1. CASE m \in UserMsgs({"newUser", "userDisconnect", "userLeave"})
  BY <1>1 DEF UserMsgs
<1>2. CASE m \in PullMsgs
  BY <1>2 DEF PullMsgs
<1>3. CASE m \in [method : {"joinResponse"}, gen : 0 .. MaxGen,
                  users : SUBSET Users, pushers : SUBSET Pushers]
  BY <1>3
<1> QED
  BY <1>1, <1>2, <1>3 DEF CenterMsgs

\* newPusher from the center makes the user a remote one, and announces the
\* pushers to everybody else.
LEMMA NewPusherViews ==
    ASSUME TypeOK, NoDanglingRespCb, GoneStay, NEW s \in Sfus, NEW m \in CenterMsgs,
           HandleNewPusherNotificationFromCenter(s, m)
    PROVE  /\ RosterAgreement => RosterAgreement'
           /\ HeardInv => HeardInv'
<1> DEFINE u == m.user
           W == AllCbs(s, u)
           ps == users[s][u].pushers \cup m.pushers
           r == [users[s][u] EXCEPT !.remote = TRUE, !.pushers = ps]
<1>1. m.method = "newPusher" /\ UNCHANGED told
  BY DEF HandleNewPusherNotificationFromCenter
<1>2. u \in Users /\ m.pushers \subseteq PushersOf(u)
  BY <1>1, CenterMsgFields, NewPusherOwn
<1>3. CASE u \notin In(s)
  <2>1. UNCHANGED <<users, told, heard>>
    BY <1>1, <1>3 DEF HandleNewPusherNotificationFromCenter
  <2> QED
    BY <2>1, SameUsersCalm, CalmKeeps
<1>4. CASE u \in In(s)
  <2>1. users' = [users EXCEPT ![s][u] = r] /\ heard' = Announce(W, m.pushers)
    BY <1>4 DEF HandleNewPusherNotificationFromCenter
  <2>2. OneUser(s, u, r)
    BY <1>2, <2>1, OneUserChanges
  <2>3. users[s][u] \in UserRecs
    BY <1>2 DEF TypeOK, RoomTypeOK
  <2>4. /\ r.in = users[s][u].in /\ r.remote = TRUE /\ r.audience = users[s][u].audience
        /\ r.pushers = ps
    BY <2>3, RemoteFields
  <2> HIDE DEF r
  <2>5. \A w \in Sockets : heard'[w] = IF w \in W THEN heard[w] \cup m.pushers ELSE heard[w]
    BY <2>1 DEF Announce
  <2>6. \A w \in Sockets : Home[w] # s => heard'[w] = heard[w]
    BY <2>5, Audience
  <2> HIDE DEF W
  <2>7. In(s)' = In(s)
    BY <1>2, <2>2, <2>4 DEF In, OneUser
  <2>8. ASSUME NEW y \in Users, Connected(s, y)' PROVE users'[s][y] = users[s][y] /\ Connected(s, y)
    <3>1. users'[s][y] = users[s][y]
      BY <2>2, <2>4, <2>8 DEF Connected, OneUser
    <3> QED
      BY <2>8, <3>1, ConnectedBefore
  <2>9. \A v \in In(s)' : ~users'[s][v].remote => v \in In(s) /\ users'[s][v] = users[s][v]
    BY <2>2, <2>4, <2>7 DEF In, OneUser
  <2>10. ASSUME RosterAgreement PROVE RosterAgreement'
    <3>1. Roster(s)
      BY <2>10, RosterAll
    <3>2. ASSUME NEW y \in Users, Connected(s, y)' PROVE RosterOf(s, y)'
      <4>1. RosterOf(s, y) /\ users'[s][y] = users[s][y]
        BY <2>8, <3>1, <3>2 DEF Roster
      <4> QED
        BY <1>1, <2>7, <2>9, <4>1 DEF RosterOf
    <3>3. Roster(s)'
      BY <3>2 DEF Roster
    <3> QED
      BY <1>1, <2>2, <2>10, <3>3, RosterFromParts DEF OneUser
  <2>11. ASSUME HeardInv PROVE HeardInv'
    <3>1. Heard(s) /\ Own(s)
      BY <2>11, HeardAll DEF HeardInv
    <3>2. ASSUME NEW y \in Users, Connected(s, y)' PROVE HeardOf(s, y)'
      <4>1. HeardOf(s, y) /\ users'[s][y] = users[s][y]
        BY <2>8, <3>1, <3>2 DEF Heard
      <4>2. users[s][y].cb \in Sockets
        BY <2>8, <3>2, CbFacts DEF Connected
      <4>3. heard'[users[s][y].cb] \in {heard[users[s][y].cb], heard[users[s][y].cb] \cup m.pushers}
        BY <2>5, <4>2
      <4>4. \A p \in m.pushers : p.user \in In(s)
        BY <1>2, <1>4 DEF PushersOf
      <4>5. \A p \in heard'[users[s][y].cb] : p.user \in In(s)'
        BY <2>7, <4>1, <4>3, <4>4 DEF HeardOf
      <4>6. ASSUME NEW v \in In(s)' \ {y}, ~users'[s][v].remote
            PROVE  users'[s][v].pushers \subseteq heard'[users[s][y].cb]
        <5>1. v \in In(s) \ {y} /\ users'[s][v] = users[s][v]
          BY <2>9, <4>6
        <5>2. users[s][v].pushers \subseteq heard[users[s][y].cb]
          BY <4>1, <4>6, <5>1 DEF HeardOf
        <5> QED
          BY <4>3, <5>1, <5>2
      <4> QED
        BY <4>1, <4>5, <4>6 DEF HeardOf
    <3>3. Heard(s)'
      BY <3>2 DEF Heard
    <3>4. Own(s)'
      BY <1>2, <2>2, <2>4, <3>1 DEF Own, OneUser
    <3> QED
      BY <2>2, <2>6, <2>11, <3>3, <3>4, HeardFromParts DEF OneUser
  <2> QED
    BY <2>10, <2>11
<1> QED
  BY <1>3, <1>4

\* userLeave from the center is passed on for remote users only, whom the two
\* properties do not ask for.
LEMMA UserLeaveViews ==
    ASSUME TypeOK, NoDanglingRespCb, GoneStay, NEW s \in Sfus, NEW m \in CenterMsgs,
           HandleUserLeaveNotificationFromCenter(s, m)
    PROVE  /\ RosterAgreement => RosterAgreement'
           /\ HeardInv => HeardInv'
<1> DEFINE u == m.user
           W == IF users[s][u].remote THEN LocalCbs(s, u) ELSE {}
<1>1. /\ UNCHANGED users /\ told' = Untell(W, {u}) /\ heard' = Withdraw(W, {u})
  BY DEF HandleUserLeaveNotificationFromCenter
<1>2. \A w \in Sockets :
          /\ told'[w] = IF w \in W THEN told[w] \ {u} ELSE told[w]
          /\ heard'[w] = IF w \in W THEN {p \in heard[w] : p.user # u} ELSE heard[w]
  BY <1>1 DEF Untell, Withdraw
<1>3. \A w \in Sockets : Home[w] # s => told'[w] = told[w] /\ heard'[w] = heard[w]
  BY <1>2, Audience
<1>4. W # {} => users[s][u].remote
  OBVIOUS
<1> HIDE DEF W
<1>5. In(s)' = In(s)
  BY <1>1 DEF In
<1>6. ASSUME NEW y \in Users, Connected(s, y)' PROVE Connected(s, y) /\ users[s][y].cb \in Sockets
  <2>1. Connected(s, y)
    BY <1>1, <1>6, ConnectedBefore
  <2> QED
    BY <2>1, CbFacts DEF Connected
<1>7. ASSUME RosterAgreement PROVE RosterAgreement'
  <2>1. Roster(s)
    BY <1>7, RosterAll
  <2>2. ASSUME NEW y \in Users, Connected(s, y)' PROVE RosterOf(s, y)'
    <3>1. RosterOf(s, y) /\ users[s][y].cb \in Sockets
      BY <1>6, <2>1, <2>2 DEF Roster
    <3> QED
      BY <1>1, <1>2, <1>4, <1>5, <3>1 DEF RosterOf
  <2>3. Roster(s)'
    BY <2>2 DEF Roster
  <2> QED
    BY <1>1, <1>3, <1>7, <2>3, RosterFromParts
<1>8. ASSUME HeardInv PROVE HeardInv'
  <2>1. Heard(s) /\ Own(s)
    BY <1>8, HeardAll DEF HeardInv
  <2>2. ASSUME NEW y \in Users, Connected(s, y)' PROVE HeardOf(s, y)'
    <3>1. HeardOf(s, y) /\ users[s][y].cb \in Sockets
      BY <1>6, <2>1, <2>2 DEF Heard
    <3>2. \A p \in heard'[users[s][y].cb] : p.user \in In(s)'
      BY <1>2, <1>5, <3>1 DEF HeardOf
    <3>3. ASSUME NEW v \in In(s) \ {y}, ~users[s][v].remote
          PROVE  users[s][v].pushers \subseteq heard'[users[s][y].cb]
      <4>1. users[s][v].pushers \subseteq heard[users[s][y].cb]
        BY <3>1, <3>3 DEF HeardOf
      <4>2. \A p \in users[s][v].pushers : p.user = v
        BY <2>1, <3>3 DEF Own, PushersOf, In
      <4>3. W # {} => v # u
        BY <1>4, <3>3
      <4> QED
        BY <1>2, <3>1, <4>1, <4>2, <4>3
    <3> QED
      BY <1>1, <1>5, <3>2, <3>3 DEF HeardOf
  <2>3. Heard(s)'
    BY <2>2 DEF Heard
  <2>4. Own(s)'
    BY <1>1, <2>1 DEF Own
  <2> QED
    BY <1>1, <1>3, <1>8, <2>3, <2>4, HeardFromParts
<1> QED
  BY <1>7, <1>8

LEMMA CenterViews ==
    ASSUME TypeOK, NoDanglingRespCb, GoneStay, NEW s \in Sfus, NEW m \in CenterMsgs, CenterTells(s, m)
    PROVE  /\ RosterAgreement => RosterAgreement'
           /\ HeardInv => HeardInv'
<1>1. CASE HandleNewUserNotificationFromCenter(s, m)
  <2>1. m.method = "newUser" /\ AddRemoteUsers(s, {m.user} \ In(s), {})
    BY <1>1 DEF HandleNewUserNotificationFromCenter
  <2>2. {m.user} \ In(s) \in SUBSET Users /\ ({m.user} \ In(s)) \cap In(s) = {}
    BY <2>1, CenterMsgFields
  <2> QED
    BY <2>1, <2>2, AddRemoteViews
<1>2. CASE m.method = "joinResponse" /\ AddRemoteUsers(s, m.users \ In(s), m.pushers)
  <2>1. /\ m.users \ In(s) \in SUBSET Users /\ (m.users \ In(s)) \cap In(s) = {}
        /\ m.pushers \in SUBSET Pushers
    BY <1>2, CenterMsgFields
  <2> QED
    BY <1>2, <2>1, AddRemoteViews
<1> QED
  BY <1>1, <1>2, NewPusherViews, UserLeaveViews DEF CenterTells

-----------------------------------------------------------------------------
(* The theorems *)

LEMMA RosterStep ==
    TypeOK /\ NoDanglingRespCb /\ RosterAgreement /\ [Next]_vars => RosterAgreement'
<1> SUFFICES ASSUME TypeOK, NoDanglingRespCb, RosterAgreement, [Next]_vars
             PROVE  RosterAgreement'
  OBVIOUS
<1>0. GoneStay
  BY NextGoneStay
<1>1. CASE Calm
  BY <1>0, <1>1, CalmKeeps
<1>2. ASSUME NEW w \in Sockets, ClientTells(w) PROVE RosterAgreement'
  <2>1. \A a \in Audiences : a \in BOOLEAN
    BY RoomAssumption
  <2> QED
    BY <1>0, <1>2, <2>1, JoinRoster, PushViews, GoneViews DEF ClientTells
<1>3. CASE Tells
  BY <1>0, <1>2, <1>3, WhipViews, TimerViews, CenterViews, Zenon DEF Tells
<1> QED
  BY <1>1, <1>3, CalmOrTells

LEMMA HeardStep ==
    ASSUME Audiences \subseteq {FALSE}
    PROVE  TypeOK /\ NoDanglingRespCb /\ HeardInv /\ [Next]_vars => HeardInv'
<1> SUFFICES ASSUME TypeOK, NoDanglingRespCb, HeardInv, [Next]_vars
             PROVE  HeardInv'
  OBVIOUS
<1>0. GoneStay
  BY NextGoneStay
<1>1. CASE Calm
  BY <1>0, <1>1, CalmKeeps
<1>2. ASSUME NEW w \in Sockets, ClientTells(w) PROVE HeardInv'
  BY <1>0, <1>2, JoinHeard, PushViews, GoneViews DEF ClientTells
<1>3. CASE Tells
  BY <1>0, <1>2, <1>3, WhipViews, TimerViews, CenterViews, Zenon DEF Tells
<1> QED
  BY <1>1, <1>3, CalmOrTells

LEMMA RosterInit == Init => RosterAgreement /\ HeardInv
<1> SUFFICES ASSUME Init PROVE RosterAgreement /\ HeardInv
  OBVIOUS
<1>1. \A s \in Sfus, y \in Users : users[s][y] = NoUser
  BY DEF Init
<1> QED
  BY <1>1, NoUserFields DEF RosterAgreement, HeardInv, PushersHeard, Connected, Own

\* What a connected local client was told is what its room holds, for any number
\* of SFUs, users and clients, whatever the center sends and however joins,
\* reconnections, time-outs, releases and re-creations of the room interleave.
THEOREM RosterAgreementAlways == Spec => []RosterAgreement
<1>1. Init => RosterAgreement
  BY RosterInit
<1> QED
  BY <1>1, RosterStep, TypeCorrect, RespCbNeverDangles, PTL DEF Spec

\* Where nobody joins as an audience member, every connected local client was
\* told of every pusher of the other local users, and of no pusher of a user
\* who has been released.
THEOREM PushersHeardAlways ==
    ASSUME Audiences \subseteq {FALSE}
    PROVE  Spec => []PushersHeard
<1>1. Init => HeardInv
  BY RosterInit
<1>2. TypeOK /\ NoDanglingRespCb /\ HeardInv /\ [Next]_vars => HeardInv'
  BY HeardStep
<1>3. HeardInv => PushersHeard
  BY DEF HeardInv
<1> QED
  BY <1>1, <1>2, <1>3, TypeCorrect, RespCbNeverDangles, PTL DEF Spec
=============================================================================
