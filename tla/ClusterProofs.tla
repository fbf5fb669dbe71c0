---------------------------- MODULE ClusterProofs ---------------------------
(***************************************************************************)
(* The cluster implements SfuRoom: what the pilot center and the relays do *)
(* is something the open environment of SfuRoom may do, so that every      *)
(* theorem about SfuRoom!Spec holds of SFUs and their center together.     *)
(***************************************************************************)
EXTENDS Cluster, RosterProofs, RoomMapsProofs

-----------------------------------------------------------------------------
(* Whose pushers an RtcUser lists *)

OwnPushers == \A s \in Sfus, y \in Users : users[s][y].pushers \subseteq PushersOf(y)

LEMMA OneUserOwn ==
    ASSUME OwnPushers, NEW s \in Sfus, NEW u \in Users, NEW r, OneUser(s, u, r),
           r.pushers \subseteq PushersOf(u)
    PROVE  OwnPushers'
BY DEF OwnPushers, OneUser

LEMMA NewPushersOwn ==
    ASSUME NEW s \in Sfus, NEW k \in SessIds, NEW u \in Users, NEW M \in Offers
    PROVE  PushersIn(s, k, u, M) \subseteq PushersOf(u)
<1>1. PushersIn(s, k, u, M) \subseteq Pushers
  BY RoomAssumption, PushersInType
<1>2. \A p \in PushersIn(s, k, u, M) : p.user = u
  BY DEF PushersIn
<1> QED
  BY <1>1, <1>2 DEF PushersOf

\* A client's request gives its user its own pushers only.
LEMMA ClientOwn ==
    ASSUME TypeOK, OwnPushers, NEW w \in Sockets, ClientTells(w)
    PROVE  OwnPushers'
<1> DEFINE s == Home[w]
<1>1. /\ s \in Sfus /\ Speaks[w] \in SUBSET Users
      /\ \A u \in Users : users[s][u] \in UserRecs
  BY RoomAssumption DEF TypeOK, RoomTypeOK
<1>2. \A u \in Users : users[s][u].pushers \subseteq PushersOf(u)
  BY <1>1 DEF OwnPushers
<1>3. ASSUME NEW u \in Users, NEW a, HandleJoinRequest(w, u, a) PROVE OwnPushers'
  <2>1. CASE JoinNew(w, u, a)
    <3>1. OneUser(s, u, NewRtcUser(w, a))
      BY <1>1, <2>1, OneUserChanges DEF JoinNew
    <3>2. NewRtcUser(w, a).pushers = {}
      BY DEF NewRtcUser, NoUser
    <3> QED
      BY <1>1, <3>1, <3>2, OneUserOwn
  <2>2. CASE ReConnect(w, u, a)
    <3>1. OneUser(s, u, [users[s][u] EXCEPT !.audience = a])
      BY <1>1, <2>2, OneUserChanges DEF ReConnect
    <3>2. [users[s][u] EXCEPT !.audience = a].pushers = users[s][u].pushers
      BY <1>1, AudienceFields
    <3> QED
      BY <1>1, <1>2, <3>1, <3>2, OneUserOwn
  <2> QED
    BY <1>3, <2>1, <2>2 DEF HandleJoinRequest
<1>4. ASSUME NEW u \in Users, NEW k \in SessIds, NEW M \in Offers,
             HandlePushRequest(w, u, k, M)
      PROVE  OwnPushers'
  <2> DEFINE all == users[s][u].pushers \cup PushersIn(s, k, u, M)
             r == [users[s][u] EXCEPT !.pushers = all, !.age = 0]
  <2>1. UNCHANGED users \/ OneUser(s, u, r)
    BY <1>1, <1>4, OneUserChanges DEF HandlePushRequest
  <2>2. r.pushers = all
    BY <1>1, PushFields
  <2>3. all \subseteq PushersOf(u)
    BY <1>1, <1>2, NewPushersOwn
  <2> HIDE DEF r, all
  <2>4. CASE UNCHANGED users
    BY <2>4 DEF OwnPushers
  <2> QED
    BY <1>1, <2>1, <2>2, <2>3, <2>4, OneUserOwn
<1>5. ASSUME DisconnectUser(w) PROVE OwnPushers'
  <2> DEFINE u == who[w]
             r == [users[s][u] EXCEPT !.cb = NoWs]
  <2>1. CASE UNCHANGED users
    BY <2>1 DEF OwnPushers
  <2>2. CASE ~UNCHANGED users
    <3>1. u \in Users
      BY <1>5, <2>2 DEF DisconnectUser, TypeOK, RoomTypeOK
    <3>2. OneUser(s, u, r)
      BY <1>1, <1>5, <2>2, <3>1, OneUserChanges DEF DisconnectUser
    <3>3. r.pushers = users[s][u].pushers
      BY <1>1, <3>1 DEF UserRecs
    <3> HIDE DEF r, u
    <3> QED
      BY <1>1, <1>2, <3>1, <3>2, <3>3, OneUserOwn
  <2> QED
    BY <2>1, <2>2
<1> QED
  BY <1>1, <1>3, <1>4, <1>5, Zenon DEF ClientTells

\* So does WHIP.
LEMMA WhipOwn ==
    ASSUME TypeOK, OwnPushers, NEW s \in Sfus, NEW u \in WhipUsers, NEW k \in SessIds,
           NEW M \in Offers, WhipHandle(s, u, k, M)
    PROVE  OwnPushers'
<1> DEFINE was == IF users[s][u].in THEN users[s][u] ELSE NewRtcUser(NoWs, FALSE)
           all == was.pushers \cup PushersIn(s, k, u, M)
           r == IF M = {} THEN was ELSE [was EXCEPT !.pushers = all, !.age = 0]
<1>1. u \in Users /\ users[s][u] \in UserRecs
  BY RoomAssumption DEF TypeOK, RoomTypeOK
<1>2. OneUser(s, u, r)
  BY <1>1, OneUserChanges DEF WhipHandle
<1>3. NewRtcUser(NoWs, FALSE) \in UserRecs
  BY UserRecTypes
<1>4. NewRtcUser(NoWs, FALSE).pushers = {}
  BY DEF NewRtcUser, NoUser
<1>5. was \in UserRecs /\ was.pushers \subseteq PushersOf(u)
  <2>1. CASE users[s][u].in
    BY <1>1, <2>1 DEF OwnPushers
  <2>2. CASE ~users[s][u].in
    <3>1. was = NewRtcUser(NoWs, FALSE)
      BY <2>2
    <3> HIDE DEF was
    <3> QED
      BY <1>3, <1>4, <3>1
  <2> QED
    BY <2>1, <2>2
<1> HIDE DEF was
<1>6. r.pushers \subseteq all
  BY <1>5, PushFields
<1>7. all \subseteq PushersOf(u)
  BY <1>1, <1>5, NewPushersOwn
<1> HIDE DEF r, all
<1> QED
  BY <1>1, <1>2, <1>6, <1>7, OneUserOwn

\* The center sends a user's own pushers only.
LEMMA CenterOwn ==
    ASSUME TypeOK, OwnPushers, NEW s \in Sfus, NEW m \in CenterMsgs, CenterTells(s, m)
    PROVE  OwnPushers'
<1>1. ASSUME NEW us, NEW ps \in SUBSET Pushers, AddRemoteUsers(s, us, ps) PROVE OwnPushers'
  <2> DEFINE rec(u) == NewRemoteUser({p \in ps : p.user = u})
  <2>1. users' = [users EXCEPT ![s] = [u \in Users |-> IF u \in us THEN rec(u) ELSE users[s][u]]]
    BY <1>1 DEF AddRemoteUsers
  <2>2. \A u \in Users : rec(u).pushers \subseteq PushersOf(u)
    BY DEF NewRemoteUser, NoUser, PushersOf
  <2> HIDE DEF rec
  <2>3. /\ \A y \in Users : users'[s][y] = IF y \in us THEN rec(y) ELSE users[s][y]
        /\ \A x \in Sfus \ {s} : users'[x] = users[x]
    BY <2>1 DEF TypeOK, RoomTypeOK
  <2> QED
    BY <2>2, <2>3 DEF OwnPushers
<1>2. CASE HandleNewUserNotificationFromCenter(s, m)
  BY <1>1, <1>2 DEF HandleNewUserNotificationFromCenter
<1>3. CASE HandleNewPusherNotificationFromCenter(s, m)
  <2> DEFINE u == m.user
             ps == users[s][u].pushers \cup m.pushers
             r == [users[s][u] EXCEPT !.remote = TRUE, !.pushers = ps]
  <2>1. m.method = "newPusher"
    BY <1>3 DEF HandleNewPusherNotificationFromCenter
  <2>2. u \in Users /\ m.pushers \subseteq PushersOf(u)
    BY <2>1, CenterMsgFields, NewPusherOwn
  <2>3. users[s][u] \in UserRecs /\ users[s][u].pushers \subseteq PushersOf(u)
    BY <2>2 DEF TypeOK, RoomTypeOK, OwnPushers
  <2>4. UNCHANGED users \/ OneUser(s, u, r)
    BY <1>3, <2>2, OneUserChanges DEF HandleNewPusherNotificationFromCenter
  <2>5. r.pushers = ps
    BY <2>3, RemoteFields
  <2> HIDE DEF r
  <2>6. CASE UNCHANGED users
    BY <2>6 DEF OwnPushers
  <2> QED
    BY <2>2, <2>3, <2>4, <2>5, <2>6, OneUserOwn
<1>4. CASE HandleUserLeaveNotificationFromCenter(s, m)
  BY <1>4 DEF HandleUserLeaveNotificationFromCenter, OwnPushers
<1>5. CASE m.method = "joinResponse" /\ AddRemoteUsers(s, m.users \ In(s), m.pushers)
  BY <1>1, <1>5, CenterMsgFields
<1> QED
  BY <1>2, <1>3, <1>4, <1>5 DEF CenterTells

LEMMA OwnStep ==
    ASSUME TypeOK, OwnPushers, [Next]_vars
    PROVE  OwnPushers'
<1>1. CASE Calm
  <2>1. ASSUME NEW s \in Sfus, NEW y \in Users PROVE users'[s][y].pushers \subseteq PushersOf(y)
    <3>1. users'[s][y].pushers = users[s][y].pushers \/ users'[s][y] = NoUser
      BY <1>1 DEF Calm, SameUser
    <3> QED
      BY <3>1, NoUserFields DEF OwnPushers
  <2> QED
    BY <2>1 DEF OwnPushers
<1>2. ASSUME NEW s \in Sfus, RoomOnTimer(s) PROVE OwnPushers'
  <2>1. users' = [users EXCEPT ![s] =
            [u \in Users |-> IF u \in Expired(s) THEN NoUser ELSE users[s][u]]]
    BY <1>2 DEF RoomOnTimer, ReleaseUserResources
  <2>2. /\ \A y \in Users : users'[s][y] = IF y \in Expired(s) THEN NoUser ELSE users[s][y]
        /\ \A x \in Sfus \ {s} : users'[x] = users[x]
    BY <2>1 DEF TypeOK, RoomTypeOK
  <2> QED
    BY <2>2, NoUserFields DEF OwnPushers
<1>3. CASE Tells
  BY <1>2, <1>3, ClientOwn, WhipOwn, CenterOwn, Zenon DEF Tells
<1> QED
  BY <1>1, <1>3, CalmOrTells

-----------------------------------------------------------------------------
(* What the SFUs write to the center *)

\* The messages an SFU writes: like those a center sends, they speak of a user's
\* own pushers only.
OwnMsgs ==
    [method : {"join"}, user : Users, audience : BOOLEAN, gen : 0 .. MaxGen]
    \cup {m \in [method : {"push"}, user : Users, pushers : SUBSET Pushers] :
             m.pushers \subseteq PushersOf(m.user)}
    \cup {m \in PullMsgs : m.pusher.user = m.user}
    \cup UserMsgs({"userDisconnect", "userLeave", "userReConnect"})

UpOwn == up \in [Sids -> Seq(OwnMsgs)]

\* A connected client has a center and has counted its connection.
LinkUp == \A s \in Sfus : conn[s] => HasCenter /\ epoch[s] # 0

LEMMA OwnMsgTypes ==
    ASSUME NEW u \in Users
    PROVE  /\ \A a \in BOOLEAN, g \in 0 .. MaxGen : JoinMsg(u, a, g) \in OwnMsgs
           /\ \A ps \in SUBSET PushersOf(u) : PushMsg(u, ps) \in OwnMsgs
           /\ \A p \in PushersOf(u), t \in Targets : PullMsg(u, p, t) \in OwnMsgs
           /\ UserMsg("userDisconnect", u) \in OwnMsgs
           /\ UserMsg("userLeave", u) \in OwnMsgs
           /\ UserMsg("userReConnect", u) \in OwnMsgs
<1>1. \A a \in BOOLEAN, g \in 0 .. MaxGen : JoinMsg(u, a, g) \in OwnMsgs
  BY DEF JoinMsg, OwnMsgs
<1>2. \A ps \in SUBSET PushersOf(u) : PushMsg(u, ps) \in OwnMsgs
  BY DEF PushMsg, OwnMsgs, PushersOf
<1>3. \A p \in PushersOf(u), t \in Targets : PullMsg(u, p, t) \in OwnMsgs
  BY DEF PullMsg, OwnMsgs, PullMsgs, PushersOf
<1>4. /\ UserMsg("userDisconnect", u) \in OwnMsgs
      /\ UserMsg("userLeave", u) \in OwnMsgs
      /\ UserMsg("userReConnect", u) \in OwnMsgs
  BY DEF UserMsg, OwnMsgs, UserMsgs
<1> QED
  BY <1>1, <1>2, <1>3, <1>4

\* What a step of SfuRoom may do to the link.
Sends(s) == \E msgs \in Seq(OwnMsgs) : Send(s, msgs)

LinkStep ==
    \/ UNCHANGED linkVars
    \/ \E s \in Sfus : Sends(s) \/ Connect(s) \/ OnClosed(s)
    \/ \E x \in Sids : CenterTakes(x)

LEMMA OneMsgSends ==
    ASSUME NEW s, NEW m \in OwnMsgs, Send(s, <<m>>)
    PROVE  Sends(s)
<1>1. <<m>> \in Seq(OwnMsgs)
  OBVIOUS
<1> QED
  BY <1>1 DEF Sends

\* HandleRemotePullSdp asks for pushers of the user it pulls from.
LEMMA PullSends ==
    ASSUME TypeOK, OwnPushers, NEW w \in Sockets, NEW u, NEW t \in Users, NEW P,
           NEW k \in SessIds, HandleRemotePullSdp(w, u, t, P, k)
    PROVE  Sends(Home[w])
<1> DEFINE s == Home[w]
           known == P \cap users[s][t].pushers
           fresh == known # {} /\ recvByUser[s][t] = 0
           port == IF fresh THEN lastPort[s] + 1 ELSE recvByUser[s][t]
           q == SetToSeq(known)
           to == [sfu |-> s, port |-> port]
           msgs == [i \in 1 .. Len(q) |-> PullMsg(t, q[i], to)]
<1>1. s \in Sfus
  BY RoomAssumption
<1>2. known \subseteq PushersOf(t) /\ known \subseteq Pushers
  BY <1>1 DEF OwnPushers, PushersOf
<1>3. q \in Seq(known)
  BY <1>2, PushersFinite, FS_Subset, SetToSeqType, Zenon
<1>4. port <= MaxPort /\ Send(s, msgs)
  BY DEF HandleRemotePullSdp
<1>5. known # {} => port \in Ports
  <2>1. lastPort[s] \in 0 .. MaxPort /\ recvByUser[s][t] \in 0 .. MaxPort /\ MaxPort \in Nat
    BY <1>1, RoomAssumption DEF TypeOK, RelayTypeOK
  <2> QED
    BY <1>4, <2>1 DEF Ports
<1> HIDE DEF port, q
<1>6. \A i \in 1 .. Len(q) : q[i] \in known
  BY <1>3
<1> HIDE DEF known
<1>7. known # {} => to \in Targets
  BY <1>1, <1>5 DEF Targets
<1> HIDE DEF to
<1>8. \A i \in 1 .. Len(q) : PullMsg(t, q[i], to) \in OwnMsgs
  BY <1>2, <1>6, <1>7, OwnMsgTypes
<1>9. msgs \in Seq(OwnMsgs)
  BY <1>3, <1>8
<1> HIDE DEF msgs
<1> QED
  BY <1>4, <1>9 DEF Sends

LEMMA ClientSends ==
    ASSUME TypeOK, OwnPushers, NEW w \in Sockets, ClientNext(w)
    PROVE  UNCHANGED linkVars \/ Sends(Home[w])
<1> DEFINE s == Home[w]
<1>1. s \in Sfus /\ Speaks[w] \in SUBSET Users
  BY RoomAssumption
<1>2. ASSUME NEW u \in Users, NEW a \in Audiences, HandleJoinRequest(w, u, a) PROVE Sends(s)
  <2>1. a \in BOOLEAN /\ EnterRoom(s)
    BY <1>2, RoomAssumption DEF HandleJoinRequest
  <2>2. GotRoom(s).gen \in 0 .. MaxGen
    BY <1>1, <2>1, GetRoomType
  <2>3. /\ JoinMsg(u, a, GotRoom(s).gen) \in OwnMsgs
        /\ UserMsg("userReConnect", u) \in OwnMsgs
    BY <1>1, <2>1, <2>2, OwnMsgTypes
  <2>4. \/ Send(s, <<JoinMsg(u, a, GotRoom(s).gen)>>)
        \/ Send(s, <<UserMsg("userReConnect", u)>>)
    BY <1>2 DEF HandleJoinRequest, JoinNew, ReConnect
  <2> QED
    BY <2>3, <2>4, OneMsgSends, Zenon
<1>3. ASSUME NEW u \in Users, NEW k \in SessIds, NEW M \in Offers,
             HandlePushRequest(w, u, k, M)
      PROVE  UNCHANGED linkVars \/ Sends(s)
  <2> DEFINE all == users[s][u].pushers \cup PushersIn(s, k, u, M)
  <2>1. all \in SUBSET PushersOf(u)
    BY <1>1, NewPushersOwn DEF OwnPushers
  <2>2. UNCHANGED linkVars \/ Send(s, <<PushMsg(u, all)>>)
    BY <1>3 DEF HandlePushRequest
  <2> HIDE DEF all
  <2>3. PushMsg(u, all) \in OwnMsgs
    BY <1>1, <2>1, OwnMsgTypes
  <2> QED
    BY <2>2, <2>3, OneMsgSends, Zenon
<1>4. ASSUME NEW u, HandlePullRequest(w, u) PROVE UNCHANGED linkVars \/ Sends(s)
  <2>1. PICK t \in Users :
            \/ PullUnknown(w, t)
            \/ \E P \in SUBSET {p \in heard[w] : p.user = t}, k \in SessIds :
                   HandlePullSdp(w, u, t, P, k) \/ HandleRemotePullSdp(w, u, t, P, k)
    BY <1>4 DEF HandlePullRequest
  <2>2. PullUnknown(w, t) => UNCHANGED linkVars
    BY DEF PullUnknown
  <2>3. \A P, k : HandlePullSdp(w, u, t, P, k) => UNCHANGED linkVars
    BY DEF HandlePullSdp
  <2>4. ASSUME NEW P, NEW k \in SessIds, HandleRemotePullSdp(w, u, t, P, k) PROVE Sends(s)
    BY <2>4, PullSends
  <2> QED
    BY <2>1, <2>2, <2>3, <2>4, Zenon
<1>5. ASSUME DisconnectUser(w) PROVE UNCHANGED linkVars \/ Sends(s)
  <2> DEFINE u == who[w]
  <2>1. \/ UNCHANGED linkVars
        \/ u # NoWs /\ Send(s, <<UserMsg("userDisconnect", u)>>)
    BY <1>5 DEF DisconnectUser
  <2>2. u \in Users \cup {NoWs}
    BY DEF TypeOK, RoomTypeOK
  <2> HIDE DEF u
  <2>3. u # NoWs => UserMsg("userDisconnect", u) \in OwnMsgs
    BY <2>2, OwnMsgTypes
  <2> QED
    BY <2>1, <2>3, OneMsgSends, Zenon
<1>6. /\ \A u : HandleHeartbeatRequest(w, u) => UNCHANGED linkVars
      /\ WsReadError(w) \/ HandleJoinRequestElsewhere(w) => UNCHANGED linkVars
  BY DEF HandleHeartbeatRequest, WsReadError, HandleJoinRequestElsewhere
<1>7. WsOnClose(w) \/ WsSweep(w) => DisconnectUser(w)
  BY DEF WsOnClose, WsSweep
<1> HIDE DEF s
<1>8. UNCHANGED linkVars \/ Sends(s)
  BY <1>1, <1>2, <1>3, <1>4, <1>5, <1>6, <1>7, Zenon DEF ClientNext
<1> QED
  BY <1>8 DEF s

LEMMA PeerSends ==
    ASSUME TypeOK, OwnPushers, NEW s \in Sfus, PeerNext(s)
    PROVE  UNCHANGED linkVars \/ Sends(s)
<1>1. ASSUME NEW u \in WhipUsers, NEW k \in SessIds, NEW M \in Offers,
             WhipHandle(s, u, k, M)
      PROVE  Sends(s)
  <2> DEFINE was == IF users[s][u].in THEN users[s][u] ELSE NewRtcUser(NoWs, FALSE)
             all == was.pushers \cup PushersIn(s, k, u, M)
             join == JoinMsg(u, was.audience, GotRoom(s).gen)
             msgs == IF M = {} THEN <<join>> ELSE <<join, PushMsg(u, all)>>
  <2>1. u \in Users /\ users[s][u] \in UserRecs
    BY RoomAssumption DEF TypeOK, RoomTypeOK
  <2>2. GotRoom(s).gen \in 0 .. MaxGen
    BY <1>1, GetRoomType DEF WhipHandle
  <2>3. Send(s, msgs)
    BY <1>1 DEF WhipHandle
  <2>4. NewRtcUser(NoWs, FALSE).pushers = {} /\ NewRtcUser(NoWs, FALSE).audience = FALSE
    BY DEF NewRtcUser, NoUser
  <2>5. users[s][u].audience \in BOOLEAN /\ users[s][u].pushers \subseteq PushersOf(u)
    BY <2>1, UserFields DEF OwnPushers
  <2>6. was.audience \in BOOLEAN /\ was.pushers \subseteq PushersOf(u)
    BY <2>4, <2>5
  <2> HIDE DEF was
  <2>7. all \in SUBSET PushersOf(u)
    BY <2>1, <2>6, NewPushersOwn
  <2> HIDE DEF all
  <2>8. join \in OwnMsgs /\ PushMsg(u, all) \in OwnMsgs
    BY <2>1, <2>2, <2>6, <2>7, OwnMsgTypes
  <2> HIDE DEF join
  <2>9. msgs \in Seq(OwnMsgs)
    BY <2>8
  <2> HIDE DEF msgs
  <2> QED
    BY <2>3, <2>9 DEF Sends
<1>2. WhipDeleteHandle(s) => UNCHANGED linkVars
  BY DEF WhipDeleteHandle, Undefined, DropRoom
<1>3. ASSUME NEW k PROVE HandleStunPacket(s, k) \/ SessionIdles(s, k) => UNCHANGED linkVars
  BY DEF HandleStunPacket, SessionIdles
<1>4. ASSUME NEW k, NEW x PROVE OnRtpPacketFromRtcPusher(s, k, x) => UNCHANGED linkVars
  BY DEF OnRtpPacketFromRtcPusher, Undefined
<1>5. ASSUME NEW k, NEW p PROVE OnKeyFrameRequest(s, k, p) => UNCHANGED linkVars
  BY DEF OnKeyFrameRequest, Undefined
<1>6. ASSUME NEW k PROVE WebRtcServerOnTimer(s, k) => UNCHANGED linkVars
  BY DEF WebRtcServerOnTimer, Undefined
<1>7. ASSUME NEW u PROVE NotifyDestroyed(s, u) \/ OnRelayKeyFrameRequest(s, u) => UNCHANGED linkVars
  BY DEF NotifyDestroyed, OnRelayKeyFrameRequest, Undefined
<1> QED
  BY <1>1, <1>2, <1>3, <1>4, <1>5, <1>6, <1>7, Zenon DEF PeerNext

LEMMA TimerSends ==
    ASSUME TypeOK, NEW s \in Sfus, TimerNext(s)
    PROVE  UNCHANGED linkVars \/ Sends(s)
<1>1. ASSUME RoomOnTimer(s) PROVE Sends(s)
  <2> DEFINE us == Expired(s)
             q == SetToSeq(us)
             msgs == [i \in 1 .. Len(q) |-> UserMsg("userLeave", q[i])]
  <2>1. us \in SUBSET Users
    BY DEF Expired, In
  <2>2. q \in Seq(us)
    BY <2>1, LeaveMsgsType
  <2>3. Send(s, msgs)
    BY <1>1 DEF RoomOnTimer, ReleaseUserResources
  <2> HIDE DEF us, q
  <2>4. \A i \in 1 .. Len(q) : q[i] \in Users
    BY <2>1, <2>2
  <2>5. \A i \in 1 .. Len(q) : UserMsg("userLeave", q[i]) \in OwnMsgs
    BY <2>4, OwnMsgTypes
  <2>6. msgs \in Seq(OwnMsgs)
    BY <2>2, <2>5
  <2> HIDE DEF msgs
  <2> QED
    BY <2>3, <2>6 DEF Sends
<1>2. ASSUME NEW u PROVE UserAges(s, u) => UNCHANGED linkVars
  BY DEF UserAges
<1>3. ASSUME NEW port PROVE RelayIdles(s, port) => UNCHANGED linkVars
  BY DEF RelayIdles
<1>4. RoomIdles(s) \/ RoomMgrOnTimer(s) => UNCHANGED linkVars
  BY DEF RoomIdles, RoomMgrOnTimer, DropRoom
<1> QED
  BY <1>1, <1>2, <1>3, <1>4, Zenon DEF TimerNext

LEMMA CenterMessageQuiet ==
    ASSUME NEW s, NEW m, OnCenterMessage(s, m)
    PROVE  UNCHANGED linkVars
BY DEF OnCenterMessage, HandleNewUserNotificationFromCenter,
       HandleNewPusherNotificationFromCenter, HandlePullRemoteStreamNotificationFromCenter,
       HandleUserDisconnectNotificationFromCenter, HandleUserLeaveNotificationFromCenter,
       JoinResponseFromPilotCenter, Undefined

LEMMA LinkSteps ==
    ASSUME TypeOK, OwnPushers, [Next]_vars
    PROVE  LinkStep
<1>1. ASSUME NEW w \in Sockets, ClientNext(w) PROVE LinkStep
  <2>1. Home[w] \in Sfus
    BY RoomAssumption
  <2> QED
    BY <1>1, <2>1, ClientSends, Zenon DEF LinkStep
<1>2. ASSUME NEW s \in Sfus, PeerNext(s) \/ TimerNext(s) PROVE LinkStep
  BY <1>2, PeerSends, TimerSends, Zenon DEF LinkStep
<1>3. CASE LinkNext
  BY <1>3, Zenon DEF LinkNext, LinkStep
<1>4. ASSUME NEW s, NEW m, OnCenterMessage(s, m) PROVE LinkStep
  BY <1>4, CenterMessageQuiet, Zenon DEF LinkStep
<1>5. ASSUME NEW s, NEW e, OnRtpPacketFromRemoteRtcPusher(s, e) PROVE LinkStep
  <2>1. UNCHANGED linkVars
    BY <1>5 DEF OnRtpPacketFromRemoteRtcPusher
  <2> QED
    BY <2>1 DEF LinkStep
<1>6. CASE (\E x \in Sids : CenterTakes(x)) /\ UNCHANGED roomVars
  BY <1>6, Zenon DEF LinkStep
<1>7. CASE UNCHANGED vars
  <2>1. UNCHANGED linkVars
    BY <1>7 DEF vars
  <2> QED
    BY <2>1 DEF LinkStep
<1> QED
  BY <1>1, <1>2, <1>3, <1>4, <1>5, <1>6, <1>7, Zenon DEF Next, LocalNext, CenterNext

-----------------------------------------------------------------------------
(* SFUs with an arbitrary center *)

OpenInv == TypeOK /\ OwnPushers /\ UpOwn /\ LinkUp

LEMMA SendOwn ==
    ASSUME UpOwn, NEW s, NEW msgs \in Seq(OwnMsgs), Send(s, msgs)
    PROVE  UpOwn'
<1>1. \A x \in Sids : up[x] \o msgs \in Seq(OwnMsgs)
  BY ConcatProperties DEF UpOwn
<1>2. up' = up \/ up' = [up EXCEPT ![Sid(s)] = up[Sid(s)] \o msgs]
  BY DEF Send, Writes
<1>3. up \in [Sids -> Seq(OwnMsgs)]
  BY DEF UpOwn
<1>4. [up EXCEPT ![Sid(s)] = up[Sid(s)] \o msgs] \in [Sids -> Seq(OwnMsgs)]
  BY <1>1, <1>3, ExceptType, Zenon
<1>5. up' \in [Sids -> Seq(OwnMsgs)]
  BY <1>2, <1>3, <1>4, Zenon
<1> QED
  BY <1>5 DEF UpOwn

LEMMA TakesOwn ==
    ASSUME UpOwn, NEW x \in Sids, CenterTakes(x)
    PROVE  UpOwn'
<1>1. up[x] \in Seq(OwnMsgs) /\ up[x] # <<>>
  BY DEF UpOwn, CenterTakes
<1>2. PICK rest \in {Tail(up[x]), <<>>} : up' = [up EXCEPT ![x] = rest]
  BY DEF CenterTakes
<1>3. Tail(up[x]) \in Seq(OwnMsgs) /\ <<>> \in Seq(OwnMsgs)
  BY <1>1
<1>4. rest \in Seq(OwnMsgs)
  BY <1>2, <1>3
<1> QED
  BY <1>2, <1>4 DEF UpOwn

LEMMA OpenInit == Init => OpenInv
<1> SUFFICES ASSUME Init PROVE OpenInv
  OBVIOUS
<1>1. TypeOK
  BY InitType
<1>2. OwnPushers
  BY NoUserFields DEF Init, OwnPushers
<1>3. UpOwn
  BY DEF Init, LinkInit, UpOwn
<1>4. LinkUp
  BY DEF Init, LinkInit, LinkUp
<1> QED
  BY <1>1, <1>2, <1>3, <1>4 DEF OpenInv

\* The room of an SFU with any center: it writes a user's own pushers only.
LEMMA OpenStep == OpenInv /\ [Next]_vars => OpenInv'
<1> SUFFICES ASSUME TypeOK, OwnPushers, UpOwn, LinkUp, [Next]_vars PROVE OpenInv'
  BY DEF OpenInv
<1>1. TypeOK'
  BY NextType
<1>2. OwnPushers'
  BY OwnStep
<1>3. LinkStep
  BY LinkSteps
<1>4. UpOwn'
  <2>1. CASE UNCHANGED up
    BY <2>1 DEF UpOwn
  <2>2. ASSUME NEW s, Sends(s) PROVE UpOwn'
    BY <2>2, SendOwn DEF Sends
  <2>3. ASSUME NEW s, Connect(s) \/ OnClosed(s) PROVE UNCHANGED up
    BY <2>3 DEF Connect, OnClosed
  <2>4. UNCHANGED linkVars => UNCHANGED up
    BY DEF linkVars
  <2> QED
    BY <1>3, <2>1, <2>2, <2>3, <2>4, TakesOwn, Zenon DEF LinkStep
<1>5. LinkUp'
  <2>1. CASE UNCHANGED <<conn, epoch>>
    BY <2>1 DEF LinkUp
  <2>2. ASSUME NEW s, Sends(s) PROVE UNCHANGED <<conn, epoch>>
    BY <2>2 DEF Sends, Send
  <2>3. ASSUME NEW x, CenterTakes(x) PROVE UNCHANGED <<conn, epoch>>
    BY <2>3 DEF CenterTakes
  <2>4. ASSUME NEW s \in Sfus, Connect(s) PROVE LinkUp'
    BY <2>4 DEF Connect, LinkUp, TypeOK, LinkTypeOK
  <2>5. ASSUME NEW s \in Sfus, OnClosed(s) PROVE LinkUp'
    BY <2>5 DEF OnClosed, LinkUp, TypeOK, LinkTypeOK
  <2>6. UNCHANGED linkVars => UNCHANGED <<conn, epoch>>
    BY DEF linkVars
  <2> QED
    BY <1>3, <2>1, <2>2, <2>3, <2>4, <2>5, <2>6, Zenon DEF LinkStep
<1> QED
  BY <1>1, <1>2, <1>4, <1>5 DEF OpenInv

-----------------------------------------------------------------------------
(* What the center holds and sends *)

CUserRecs ==
    [in : BOOLEAN, sid : Sids \cup {NoSid}, audience : BOOLEAN, pushers : SUBSET Pushers]

CenterTypeOK ==
    /\ cusers \in [Users -> CUserRecs]
    /\ reg \in SUBSET Sids
    /\ part \in [Sids -> SUBSET Users]
    /\ pend \in [Sids -> CenterMsgs \cup {NoSid}]
    /\ down \in [Sids -> Seq(CenterMsgs)]

LEMMA CenterInitType == CenterInit => CenterTypeOK
<1>1. NoCUser \in CUserRecs
  BY DEF NoCUser, CUserRecs
<1> QED
  BY <1>1 DEF CenterInit, CenterTypeOK

LEMMA PutType ==
    ASSUME CenterTypeOK, NEW X, NEW m \in CenterMsgs
    PROVE  Put(X, m) \in [Sids -> Seq(CenterMsgs)]
<1>1. \A x \in Sids : Append(down[x], m) \in Seq(CenterMsgs)
  BY DEF CenterTypeOK
<1> QED
  BY <1>1 DEF CenterTypeOK, Put

LEMMA CenterMsgTypes ==
    /\ \A u \in Users : UserMsg("newUser", u) \in CenterMsgs
    /\ \A u \in Users : \A ps \in SUBSET PushersOf(u) : NewPusherMsg(u, ps) \in CenterMsgs
    /\ \A g \in 0 .. MaxGen : \A us \in SUBSET Users : \A ps \in SUBSET Pushers :
           JoinResponse(g, us, ps) \in CenterMsgs
<1>1. \A u \in Users : UserMsg("newUser", u) \in CenterMsgs
  BY DEF UserMsg, CenterMsgs, UserMsgs
<1>2. \A u \in Users : \A ps \in SUBSET PushersOf(u) : NewPusherMsg(u, ps) \in CenterMsgs
  BY DEF NewPusherMsg, CenterMsgs, PushersOf
<1>3. \A g \in 0 .. MaxGen : \A us \in SUBSET Users : \A ps \in SUBSET Pushers :
          JoinResponse(g, us, ps) \in CenterMsgs
  BY DEF JoinResponse, CenterMsgs
<1> QED
  BY <1>1, <1>2, <1>3

\* The fields of what an SFU writes; a pullRemoteStream, a userDisconnect and a
\* userLeave are passed on as they are.
LEMMA OwnMsgFields ==
    ASSUME NEW m \in OwnMsgs
    PROVE  /\ m.user \in Users
           /\ m.method = "join" => m.audience \in BOOLEAN /\ m.gen \in 0 .. MaxGen
           /\ m.method = "push" => m.pushers \in SUBSET PushersOf(m.user)
           /\ m.method \in {"pullRemoteStream", "userDisconnect", "userLeave"} =>
                  m \in CenterMsgs
<1>1. CASE m \in [method : {"join"}, user : Users, audience : BOOLEAN, gen : 0 .. MaxGen]
  BY <1>1
<1>2. CASE m \in {z \in [method : {"push"}, user : Users, pushers : SUBSET Pushers] :
                      z.pushers \subseteq PushersOf(z.user)}
  BY <1>2
<1>3. CASE m \in {z \in PullMsgs : z.pusher.user = z.user}
  <2>1. m \in CenterMsgs
    BY <1>3 DEF CenterMsgs
  <2>2. m.user \in Users /\ m.method = "pullRemoteStream"
    BY <1>3 DEF PullMsgs
  <2> QED
    BY <2>1, <2>2
<1>4. CASE m \in UserMsgs({"userDisconnect", "userLeave", "userReConnect"})
  <2>1. m.user \in Users /\ m.method \in {"userDisconnect", "userLeave", "userReConnect"}
    BY <1>4 DEF UserMsgs
  <2>2. m.method \in {"userDisconnect", "userLeave"} =>
            m \in UserMsgs({"newUser", "userDisconnect", "userLeave"})
    BY <1>4 DEF UserMsgs
  <2> QED
    BY <2>1, <2>2 DEF CenterMsgs
<1> QED
  BY <1>1, <1>2, <1>3, <1>4, Zenon DEF OwnMsgs

\* A user of the center's room after a change of one of its fields.
LEMMA CUserFields ==
    ASSUME NEW r \in CUserRecs
    PROVE  /\ \A x \in Sids, a \in BOOLEAN :
                  [r EXCEPT !.in = TRUE, !.sid = x, !.audience = a] \in CUserRecs
           /\ \A ps \in SUBSET Pushers :
                  [r EXCEPT !.in = TRUE, !.pushers = r.pushers \cup ps] \in CUserRecs
           /\ \A x \in Sids \cup {NoSid} : [r EXCEPT !.sid = x] \in CUserRecs
<1>1. \A x \in Sids, a \in BOOLEAN :
          [r EXCEPT !.in = TRUE, !.sid = x, !.audience = a] \in CUserRecs
  BY DEF CUserRecs
<1>2. \A ps \in SUBSET Pushers :
          [r EXCEPT !.in = TRUE, !.pushers = r.pushers \cup ps] \in CUserRecs
  BY DEF CUserRecs
<1>3. \A x \in Sids \cup {NoSid} : [r EXCEPT !.sid = x] \in CUserRecs
  BY DEF CUserRecs
<1> QED
  BY <1>1, <1>2, <1>3

LEMMA HandleJoinType ==
    ASSUME CenterTypeOK, NEW x \in Sids, NEW m \in OwnMsgs, HandleJoin(x, m)
    PROVE  CenterTypeOK'
<1> DEFINE u == m.user
           others == {y \in Users \ {u} : cusers[y].in /\ ~cusers[y].audience}
           ps == UNION {cusers[y].pushers : y \in others}
           resp == JoinResponse(m.gen, others, ps)
           us == [cusers EXCEPT ![u].in = TRUE, ![u].sid = x, ![u].audience = m.audience]
           R == reg \cup {x}
           X == IF m.audience THEN {} ELSE Except(R, us, u)
           told1 == Put(X, UserMsg("newUser", u))
<1>1. m.method = "join"
  BY DEF HandleJoin
<1>2. u \in Users /\ m.audience \in BOOLEAN /\ m.gen \in 0 .. MaxGen
  BY <1>1, OwnMsgFields
<1>3. /\ cusers' = us
      /\ reg' = R
      /\ part' = [part EXCEPT ![x] = @ \cup {u}]
      /\ \/ pend' = [pend EXCEPT ![x] = resp] /\ down' = told1
         \/ down' = [told1 EXCEPT ![x] = Append(@, resp)] /\ UNCHANGED pend
  BY DEF HandleJoin
<1>4. us = [cusers EXCEPT ![u] = [cusers[u] EXCEPT !.in = TRUE, !.sid = x,
                                                   !.audience = m.audience]]
  BY <1>2 DEF CenterTypeOK
<1>5. cusers[u] \in CUserRecs
  BY <1>2 DEF CenterTypeOK
<1>6. [cusers[u] EXCEPT !.in = TRUE, !.sid = x, !.audience = m.audience] \in CUserRecs
  BY <1>2, <1>5, CUserFields
<1>7. cusers' \in [Users -> CUserRecs]
  BY <1>3, <1>4, <1>6 DEF CenterTypeOK
<1>8. ps \in SUBSET Pushers
  BY DEF CenterTypeOK, CUserRecs
<1>9. resp \in CenterMsgs
  <2>1. others \in SUBSET Users
    OBVIOUS
  <2> HIDE DEF others, ps
  <2> QED
    BY <1>2, <1>8, <2>1, CenterMsgTypes
<1> HIDE DEF resp, X
<1>10. told1 \in [Sids -> Seq(CenterMsgs)]
  BY <1>2, PutType, CenterMsgTypes
<1> HIDE DEF told1
<1>11. Append(told1[x], resp) \in Seq(CenterMsgs)
  BY <1>9, <1>10
<1>12. down' \in [Sids -> Seq(CenterMsgs)]
  BY <1>3, <1>10, <1>11
<1>13. pend' \in [Sids -> CenterMsgs \cup {NoSid}]
  BY <1>3, <1>9 DEF CenterTypeOK
<1>14. reg' \in SUBSET Sids /\ part' \in [Sids -> SUBSET Users]
  BY <1>2, <1>3 DEF CenterTypeOK
<1> QED
  BY <1>7, <1>12, <1>13, <1>14 DEF CenterTypeOK

LEMMA HandlePushType ==
    ASSUME CenterTypeOK, NEW x \in Sids, NEW m \in OwnMsgs, HandlePush(x, m)
    PROVE  CenterTypeOK'
<1> DEFINE u == m.user
           r == [cusers[u] EXCEPT !.in = TRUE, !.pushers = cusers[u].pushers \cup m.pushers]
<1>1. m.method = "push"
  BY DEF HandlePush
<1>2. u \in Users /\ m.pushers \in SUBSET PushersOf(u) /\ m.pushers \in SUBSET Pushers
  BY <1>1, OwnMsgFields DEF PushersOf
<1>3. cusers[u] \in CUserRecs
  BY <1>2 DEF CenterTypeOK
<1>4. cusers' = [cusers EXCEPT ![u].in = TRUE, ![u].pushers = @ \cup m.pushers]
  BY DEF HandlePush
<1>5. cusers' = [cusers EXCEPT ![u] = r]
  BY <1>2, <1>3, <1>4 DEF CenterTypeOK
<1>6. r \in CUserRecs
  BY <1>2, <1>3, CUserFields
<1> HIDE DEF r
<1>7. cusers' \in [Users -> CUserRecs]
  BY <1>5, <1>6 DEF CenterTypeOK
<1>8. NewPusherMsg(u, m.pushers) \in CenterMsgs
  BY <1>2, CenterMsgTypes
<1>9. down' \in [Sids -> Seq(CenterMsgs)]
  BY <1>8, PutType DEF HandlePush
<1> QED
  BY <1>7, <1>9 DEF HandlePush, CenterTypeOK

\* The handlers that pass the message on.
LEMMA PassedOnType ==
    ASSUME CenterTypeOK, NEW x \in Sids, NEW m \in OwnMsgs,
           \/ HandlePullRemoteStream(x, m)
           \/ HandleUserDisconnect(x, m)
           \/ HandleUserLeave(x, m)
    PROVE  CenterTypeOK'
<1> DEFINE u == m.user
<1>1. u \in Users
  BY OwnMsgFields
<1>2. m.method \in {"pullRemoteStream", "userDisconnect", "userLeave"}
  BY DEF HandlePullRemoteStream, HandleUserDisconnect, HandleUserLeave
<1>3. m \in CenterMsgs
  BY <1>2, OwnMsgFields
<1>4. \E X : down' = Put(X, m)
  BY DEF HandlePullRemoteStream, HandleUserDisconnect, HandleUserLeave
<1>5. down' \in [Sids -> Seq(CenterMsgs)]
  BY <1>3, <1>4, PutType
<1>6. UNCHANGED <<reg, part, pend>>
  BY DEF HandlePullRemoteStream, HandleUserDisconnect, HandleUserLeave
<1>7. cusers' \in [Users -> CUserRecs]
  <2>1. cusers[u] \in CUserRecs
    BY <1>1 DEF CenterTypeOK
  <2>2. CASE HandlePullRemoteStream(x, m)
    BY <2>2 DEF HandlePullRemoteStream, CenterTypeOK
  <2>3. CASE HandleUserDisconnect(x, m)
    <3> DEFINE n == IF cusers[u].sid = x THEN NoSid ELSE cusers[u].sid
    <3>1. cusers' = [cusers EXCEPT ![u] = [cusers[u] EXCEPT !.sid = n]]
      BY <2>3 DEF HandleUserDisconnect
    <3>2. cusers[u].sid \in Sids \cup {NoSid}
      BY <2>1 DEF CUserRecs
    <3>3. n \in Sids \cup {NoSid}
      BY <3>2
    <3> HIDE DEF n
    <3>4. [cusers[u] EXCEPT !.sid = n] \in CUserRecs
      BY <2>1, <3>3, CUserFields
    <3> QED
      BY <3>1, <3>4 DEF CenterTypeOK
  <2>4. CASE HandleUserLeave(x, m)
    <3>1. NoCUser \in CUserRecs
      BY DEF NoCUser, CUserRecs
    <3> QED
      BY <2>4, <3>1 DEF HandleUserLeave, CenterTypeOK
  <2> QED
    BY <2>2, <2>3, <2>4
<1> QED
  BY <1>5, <1>6, <1>7 DEF CenterTypeOK

\* A step of the center keeps what it holds and has sent well-formed.
LEMMA CenterStepsType ==
    ASSUME CenterTypeOK, UpOwn, CenterSteps
    PROVE  CenterTypeOK'
<1>1. ASSUME NEW x \in Sids, OnMessage(x) PROVE CenterTypeOK'
  <2> DEFINE m == Head(up[x])
  <2>1. up[x] \in Seq(OwnMsgs) /\ up[x] # <<>>
    BY <1>1 DEF OnMessage, Reads, UpOwn
  <2>2. m \in OwnMsgs
    BY <2>1
  <2>3. Handle(x, m)
    BY <1>1 DEF OnMessage
  <2> HIDE DEF m
  <2>4. CASE Unhandled(x, m)
    BY <2>4 DEF Unhandled, centerVars, CenterTypeOK
  <2> QED
    BY <2>2, <2>3, <2>4, HandleJoinType, HandlePushType, PassedOnType, Zenon DEF Handle
<1>2. ASSUME NEW x \in Sids, CloseSession(x) PROVE CenterTypeOK'
  <2> DEFINE lost == {u \in part[x] : cusers[u].sid \in {x, NoSid}}
  <2>1. NoCUser \in CUserRecs
    BY DEF NoCUser, CUserRecs
  <2>2. /\ cusers' = [u \in Users |-> IF u \in lost THEN NoCUser ELSE cusers[u]]
        /\ reg' = IF part[x] = {} THEN reg ELSE reg \ {x}
        /\ part' = [part EXCEPT ![x] = {}]
        /\ down' = [down EXCEPT ![x] = <<>>]
        /\ UNCHANGED pend
    BY <1>2 DEF CloseSession
  <2> HIDE DEF lost
  <2>3. cusers' \in [Users -> CUserRecs]
    BY <2>1, <2>2 DEF CenterTypeOK
  <2>4. <<>> \in Seq(CenterMsgs)
    OBVIOUS
  <2> QED
    BY <2>2, <2>3, <2>4 DEF CenterTypeOK
<1> QED
  BY <1>1, <1>2 DEF CenterSteps

LEMMA MsuAnswersType ==
    ASSUME CenterTypeOK, NEW x \in Sids, MsuAnswers(x)
    PROVE  CenterTypeOK'
<1>1. pend[x] \in CenterMsgs /\ down[x] \in Seq(CenterMsgs)
  BY DEF MsuAnswers, CenterTypeOK
<1>2. Append(down[x], pend[x]) \in Seq(CenterMsgs)
  BY <1>1
<1> QED
  BY <1>2 DEF MsuAnswers, CenterTypeOK

\* The SFU has read a message of its session, or has lost the session.
LEMMA DownShrinksType ==
    ASSUME CenterTypeOK, NEW x, NEW rest, down' = [down EXCEPT ![x] = rest],
           x \in Sids => rest \in Seq(CenterMsgs),
           UNCHANGED <<cusers, reg, part, pend>>
    PROVE  CenterTypeOK'
<1>1. down' \in [Sids -> Seq(CenterMsgs)]
  BY ExceptType DEF CenterTypeOK
<1> QED
  BY <1>1 DEF CenterTypeOK

-----------------------------------------------------------------------------
(* The cluster *)

ClusterInv == OpenInv /\ CenterTypeOK

\* The current session of a connected SFU is one of the center's.
LEMMA ConnectedSid ==
    ASSUME TypeOK, LinkUp, NEW s \in Sfus, conn[s]
    PROVE  HasCenter /\ Sid(s) \in Sids
<1>1. HasCenter /\ epoch[s] \in 0 .. MaxEpoch /\ epoch[s] # 0 /\ MaxEpoch \in Nat
  BY LinkAssumption DEF LinkUp, TypeOK, LinkTypeOK
<1>2. epoch[s] \in 1 .. MaxEpoch
  BY <1>1
<1> QED
  BY <1>1, <1>2 DEF Sid, Sids

\* Every message an SFU has still to read is one that a center may send.
LEMMA NextDown ==
    ASSUME ClusterInv, NEW s \in Sfus, conn[s], down[Sid(s)] # <<>>
    PROVE  /\ HasCenter
           /\ Head(down[Sid(s)]) \in CenterMsgs
           /\ Tail(down[Sid(s)]) \in Seq(CenterMsgs)
<1>1. HasCenter /\ Sid(s) \in Sids
  BY ConnectedSid DEF ClusterInv, OpenInv
<1>2. down[Sid(s)] \in Seq(CenterMsgs)
  BY <1>1 DEF ClusterInv, CenterTypeOK
<1> QED
  BY <1>1, <1>2

\* Each step of the cluster is, for the SFUs, a step of SfuRoom or a stutter:
\* what the center does between two messages is invisible to them.
LEMMA ClusterSimulates ==
    ASSUME ClusterInv, [ClusterNext]_clusterVars
    PROVE  [Next]_vars
<1>1. CASE LocalNext
  BY <1>1 DEF Next
<1>2. ASSUME NEW s \in Sfus, Connect(s), UNCHANGED roomVars PROVE Next
  BY <1>2, Zenon DEF Next, LinkNext
<1>3. ASSUME NEW s \in Sfus, LinkLost(s) PROVE Next
  <2>1. OnClosed(s) /\ UNCHANGED roomVars
    BY <1>3 DEF LinkLost
  <2> QED
    BY <2>1, Zenon DEF Next, LinkNext
<1>4. ASSUME NEW s \in Sfus, Deliver(s) PROVE Next
  <2> DEFINE m == Head(down[Sid(s)])
  <2>1. conn[s] /\ down[Sid(s)] # <<>> /\ OnCenterMessage(s, m)
    BY <1>4 DEF Deliver
  <2>2. HasCenter /\ m \in CenterMsgs
    BY <2>1, NextDown
  <2> HIDE DEF m
  <2> QED
    BY <2>1, <2>2, Zenon DEF Next, CenterNext
<1>5. ASSUME NEW s \in Sfus, DropLateResponse(s) PROVE UNCHANGED vars
  BY <1>5 DEF DropLateResponse
<1>6. ASSUME NEW s \in Sfus, NEW e \in recvByPusher[s], RelayRtp(s, e) PROVE Next
  <2>1. OnRtpPacketFromRemoteRtcPusher(s, e)
    BY <1>6 DEF RelayRtp
  <2> QED
    BY <2>1, Zenon DEF Next, CenterNext
<1>7. ASSUME NEW x \in Sids, CenterTakes(x), UNCHANGED roomVars PROVE Next
  BY <1>7, Zenon DEF Next, CenterNext
<1>8. ASSUME NEW x \in Sids, OnMessage(x), UNCHANGED roomVars PROVE Next
  <2>1. /\ up[x] # <<>> /\ up' = [up EXCEPT ![x] = Tail(up[x])]
        /\ UNCHANGED <<conn, epoch, lossy>>
    BY <1>8 DEF OnMessage, Reads
  <2>2. CenterTakes(x)
    BY <2>1 DEF CenterTakes
  <2> QED
    BY <1>7, <1>8, <2>2
<1>9. ASSUME NEW x \in Sids, CloseSession(x), UNCHANGED roomVars PROVE [Next]_vars
  <2>1. up' = [up EXCEPT ![x] = <<>>] /\ UNCHANGED <<conn, epoch, lossy>>
    BY <1>9 DEF CloseSession
  <2>2. CASE up[x] # <<>>
    <3>1. CenterTakes(x)
      BY <2>1, <2>2 DEF CenterTakes
    <3> QED
      BY <1>7, <1>9, <3>1
  <2>3. CASE up[x] = <<>>
    <3>1. UNCHANGED up
      BY <2>1, <2>3 DEF ClusterInv, OpenInv, UpOwn
    <3> QED
      BY <1>9, <2>1, <3>1 DEF vars, linkVars
  <2> QED
    BY <2>2, <2>3
<1>10. CASE UNCHANGED clusterVars
  BY <1>10 DEF clusterVars
<1> QED
  BY <1>1, <1>2, <1>3, <1>4, <1>5, <1>6, <1>8, <1>9, <1>10, Zenon
     DEF ClusterNext, CenterSteps

LEMMA ClusterStep == ClusterInv /\ [ClusterNext]_clusterVars => ClusterInv'
<1> SUFFICES ASSUME ClusterInv, [ClusterNext]_clusterVars PROVE ClusterInv'
  OBVIOUS
<1>1. OpenInv'
  BY ClusterSimulates, OpenStep DEF ClusterInv
<1>2. CenterTypeOK /\ UpOwn
  BY DEF ClusterInv, OpenInv
<1>3. ASSUME UNCHANGED centerVars PROVE CenterTypeOK'
  BY <1>2, <1>3 DEF centerVars, CenterTypeOK
<1>4. ASSUME NEW s \in Sfus, LinkLost(s) PROVE CenterTypeOK'
  <2>1. <<>> \in Seq(CenterMsgs)
    OBVIOUS
  <2>2. down' = [down EXCEPT ![Sid(s)] = <<>>] /\ UNCHANGED <<cusers, reg, part, pend>>
    BY <1>4 DEF LinkLost
  <2> QED
    BY <1>2, <2>1, <2>2, DownShrinksType
<1>5. ASSUME NEW s \in Sfus, Deliver(s) \/ DropLateResponse(s) PROVE CenterTypeOK'
  <2>1. /\ conn[s] /\ down[Sid(s)] # <<>>
        /\ down' = [down EXCEPT ![Sid(s)] = Tail(down[Sid(s)])]
        /\ UNCHANGED <<cusers, reg, part, pend>>
    BY <1>5 DEF Deliver, DropLateResponse
  <2>2. Tail(down[Sid(s)]) \in Seq(CenterMsgs)
    BY <2>1, NextDown
  <2> QED
    BY <1>2, <2>1, <2>2, DownShrinksType
<1>6. UNCHANGED clusterVars => UNCHANGED centerVars
  BY DEF clusterVars
<1>7. CenterTypeOK'
  BY <1>2, <1>3, <1>4, <1>5, <1>6, CenterStepsType, MsuAnswersType, Zenon
     DEF ClusterNext
<1> QED
  BY <1>1, <1>7 DEF ClusterInv

LEMMA ClusterInvariant == ClusterSpec => []ClusterInv
<1>1. ClusterInit => ClusterInv
  BY OpenInit, CenterInitType DEF ClusterInit, ClusterInv
<1> QED
  BY <1>1, ClusterStep, PTL DEF ClusterSpec

\* SFUs and their pilot center implement SfuRoom, the SFUs with an arbitrary
\* center: the center (room.py, ws_protoo_session.py) and the relays send an
\* SFU nothing that OnAsyncNotification, OnResponse and the recv relays of
\* SfuRoom do not expect, whatever the clients do and however connections to
\* the center are lost.
THEOREM ClusterImplementsSfuRoom == ClusterSpec => ImplementsSfuRoom
<1>1. ClusterInit => Init
  BY DEF ClusterInit
<1>2. ClusterInv /\ [ClusterNext]_clusterVars => [Next]_vars
  BY ClusterSimulates
<1> QED
  BY <1>1, <1>2, ClusterInvariant, PTL DEF ClusterSpec, ImplementsSfuRoom, Spec

\* What was proved with an arbitrary center holds of the cluster: a resp_cb_
\* dangles only when its session joined again (as another user or elsewhere),
\* the room's maps point at live transports, the two maps of recv relays agree
\* and the clients know the users their room holds.
THEOREM ClusterIsSafe ==
    ClusterSpec => [](NoDanglingRespCb /\ MediaHasTransport
                        /\ RelayMapsAgree /\ RosterAgreement)
BY ClusterImplementsSfuRoom, RespCbNeverDangles, MediaHasTransportAlways,
   RelayMapsAgreeAlways, RosterAgreementAlways, PTL DEF ImplementsSfuRoom
=============================================================================
