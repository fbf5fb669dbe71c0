--------------------------- MODULE RoomMapsProofs ---------------------------
(***************************************************************************)
(* Proofs about the maps of a Room: the two maps of recv relays agree, and *)
(* the pushers and pullers have the transport they were made with.         *)
(***************************************************************************)
EXTENDS SfuRoomProofs

-----------------------------------------------------------------------------
(* The maps of recv relays *)

\* RelayMapsAgree of one SFU, with the maps by user and by pusher given.
MapsAgree(byUser, byPusher) ==
    /\ \A e \in byPusher : byUser[e.pusher.user] = e.port
    /\ \A u \in Users : byUser[u] # 0 => \E e \in byPusher : e.pusher.user = u

\* A pull request as a client may make it, for pushers it was told t has.
RemotePull(w, t, P, k) ==
    /\ P \in SUBSET {p \in heard[w] : p.user = t}
    /\ \E u : HandleRemotePullSdp(w, u, t, P, k)

\* The requests of a client that change the maps.
LEMMA ClientRelays ==
    ASSUME NEW w \in Sockets, ClientNext(w)
    PROVE  \/ UNCHANGED <<recvByUser, recvByPusher>>
           \/ \E t \in Users : \E P, k : RemotePull(w, t, P, k)
<1>1. ASSUME NEW u, NEW a, HandleJoinRequest(w, u, a)
      PROVE  UNCHANGED <<recvByUser, recvByPusher>>
  BY <1>1 DEF HandleJoinRequest, relayVars
<1>2. ASSUME NEW u, HandleHeartbeatRequest(w, u)
      PROVE  UNCHANGED <<recvByUser, recvByPusher>>
  BY <1>2 DEF HandleHeartbeatRequest, relayVars
<1>3. ASSUME NEW u, NEW k, NEW M, HandlePushRequest(w, u, k, M)
      PROVE  UNCHANGED <<recvByUser, recvByPusher>>
  BY <1>3 DEF HandlePushRequest, relayVars
<1>4. ASSUME NEW t, PullUnknown(w, t) PROVE UNCHANGED <<recvByUser, recvByPusher>>
  BY <1>4 DEF PullUnknown, relayVars
<1>5. ASSUME NEW u, NEW t, NEW P, NEW k, HandlePullSdp(w, u, t, P, k)
      PROVE  UNCHANGED <<recvByUser, recvByPusher>>
  BY <1>5 DEF HandlePullSdp, relayVars
<1>6. ASSUME NEW u, HandlePullRequest(w, u)
      PROVE  \/ UNCHANGED <<recvByUser, recvByPusher>>
             \/ \E t \in Users : \E P, k : RemotePull(w, t, P, k)
  BY <1>4, <1>5, <1>6, Zenon DEF HandlePullRequest, RemotePull
<1>7. HandleJoinRequestElsewhere(w) \/ WsOnClose(w) \/ WsReadError(w) \/ WsSweep(w) =>
          UNCHANGED <<recvByUser, recvByPusher>>
  BY DEF HandleJoinRequestElsewhere, WsOnClose, WsReadError, WsSweep, DisconnectUser, relayVars
<1> QED
  BY <1>1, <1>2, <1>3, <1>6, <1>7, Zenon DEF ClientNext

\* The steps of peers and timers that do.
LEMMA PeerRelays ==
    ASSUME NEW s \in Sfus, PeerNext(s) \/ TimerNext(s)
    PROVE  \/ UNCHANGED <<recvByUser, recvByPusher>>
           \/ DropRoom(s) \/ RemoveRecvRelays(s)
<1> DEFINE Same == UNCHANGED <<recvByUser, recvByPusher>>
<1>1. ASSUME NEW u, NEW k, NEW M, WhipHandle(s, u, k, M) PROVE Same
  BY <1>1 DEF WhipHandle, relayVars
<1>2. WhipDeleteHandle(s) => Same \/ DropRoom(s)
  BY DEF WhipDeleteHandle, Undefined, relayVars
<1>3. ASSUME NEW k, NEW x, OnRtpPacketFromRtcPusher(s, k, x) PROVE Same
  BY <1>3 DEF OnRtpPacketFromRtcPusher, Undefined, relayVars
<1>4. ASSUME NEW k, NEW p, OnKeyFrameRequest(s, k, p) PROVE Same
  BY <1>4 DEF OnKeyFrameRequest, Undefined, relayVars
<1>5. ASSUME NEW k, HandleStunPacket(s, k) \/ SessionIdles(s, k) \/ WebRtcServerOnTimer(s, k)
      PROVE  Same
  BY <1>5 DEF HandleStunPacket, SessionIdles, WebRtcServerOnTimer, Undefined, relayVars
<1>13. ASSUME NEW u, NotifyDestroyed(s, u) \/ OnRelayKeyFrameRequest(s, u) PROVE Same
  BY <1>13 DEF NotifyDestroyed, OnRelayKeyFrameRequest, Undefined, relayVars
<1>6. ASSUME NEW u, UserAges(s, u) PROVE Same
  BY <1>6 DEF UserAges, relayVars
<1>7. ASSUME NEW port, RelayIdles(s, port) PROVE Same
  BY <1>7 DEF RelayIdles
<1>8. RoomIdles(s) => Same
  BY DEF RoomIdles, relayVars
<1>9. RoomOnTimer(s) => RemoveRecvRelays(s)
  BY DEF RoomOnTimer
<1>10. RoomMgrOnTimer(s) => DropRoom(s)
  BY DEF RoomMgrOnTimer
<1> HIDE DEF Same
<1>11. PeerNext(s) => Same \/ DropRoom(s)
  BY <1>1, <1>2, <1>3, <1>4, <1>5, <1>13, Zenon DEF PeerNext
<1>12. TimerNext(s) => Same \/ DropRoom(s) \/ RemoveRecvRelays(s)
  BY <1>6, <1>7, <1>8, <1>9, <1>10, Zenon DEF TimerNext
<1> QED
  BY <1>11, <1>12 DEF Same

\* The messages of the center change neither map.
LEMMA CenterRelays ==
    ASSUME NEW s, NEW m, OnCenterMessage(s, m)
    PROVE  UNCHANGED <<recvByUser, recvByPusher>>
BY DEF OnCenterMessage, HandleNewUserNotificationFromCenter,
       HandleNewPusherNotificationFromCenter, HandlePullRemoteStreamNotificationFromCenter,
       HandleUserDisconnectNotificationFromCenter, HandleUserLeaveNotificationFromCenter,
       JoinResponseFromPilotCenter, Undefined, relayVars

\* The steps that change the maps of recv relays.
LEMMA RelaySteps ==
    ASSUME [Next]_vars
    PROVE  \/ UNCHANGED <<recvByUser, recvByPusher>>
           \/ \E w \in Sockets, t \in Users : \E P, k : RemotePull(w, t, P, k)
           \/ \E s \in Sfus : DropRoom(s) \/ RemoveRecvRelays(s)
<1>1. LocalNext => \/ UNCHANGED <<recvByUser, recvByPusher>>
                   \/ \E w \in Sockets, t \in Users : \E P, k : RemotePull(w, t, P, k)
                   \/ \E s \in Sfus : DropRoom(s) \/ RemoveRecvRelays(s)
  BY ClientRelays, PeerRelays, Zenon DEF LocalNext
<1>2. ASSUME NEW s, NEW e, OnRtpPacketFromRemoteRtcPusher(s, e)
      PROVE  UNCHANGED <<recvByUser, recvByPusher>>
  BY <1>2 DEF OnRtpPacketFromRemoteRtcPusher
<1>3. UNCHANGED roomVars => UNCHANGED <<recvByUser, recvByPusher>>
  BY DEF roomVars, relayVars
<1>4. LinkNext => UNCHANGED roomVars
  BY DEF LinkNext
<1>5. UNCHANGED vars => UNCHANGED roomVars
  BY DEF vars
<1>6. CenterNext => UNCHANGED <<recvByUser, recvByPusher>>
  BY <1>2, <1>3, CenterRelays DEF CenterNext
<1> QED
  BY <1>1, <1>3, <1>4, <1>5, <1>6 DEF Next

\* The maps of one SFU change; those of the others do not.
LEMMA OneSfuAgrees ==
    ASSUME TypeOK, RelayMapsAgree, NEW s \in Sfus, NEW byUser, NEW byPusher,
           recvByUser' = [recvByUser EXCEPT ![s] = byUser],
           recvByPusher' = [recvByPusher EXCEPT ![s] = byPusher],
           MapsAgree(byUser, byPusher)
    PROVE  RelayMapsAgree'
<1>1. /\ recvByUser'[s] = byUser /\ recvByPusher'[s] = byPusher
      /\ \A x \in Sfus \ {s} :
             recvByUser'[x] = recvByUser[x] /\ recvByPusher'[x] = recvByPusher[x]
  BY DEF TypeOK, RelayTypeOK
<1> QED
  BY <1>1 DEF RelayMapsAgree, MapsAgree

\* HandleRemotePullSdp: the relay of the user, or a new one, takes the pushers.
LEMMA RemotePullAgrees ==
    ASSUME TypeOK, RelayMapsAgree, NEW w \in Sockets, NEW t \in Users, NEW P, NEW k,
           RemotePull(w, t, P, k)
    PROVE  RelayMapsAgree'
<1> DEFINE s == Home[w]
           known == P \cap users[s][t].pushers
           fresh == known # {} /\ recvByUser[s][t] = 0
           port == IF fresh THEN lastPort[s] + 1 ELSE recvByUser[s][t]
           byPusher == {e \in recvByPusher[s] : e.pusher \notin known}
                           \cup {[pusher |-> p, port |-> port] : p \in known}
           byUser == [recvByUser[s] EXCEPT ![t] = port]
<1>1. s \in Sfus
  BY RoomAssumption
<1>2. /\ recvByUser' = [recvByUser EXCEPT ![s] = byUser]
      /\ recvByPusher' = [recvByPusher EXCEPT ![s] = byPusher]
  BY DEF RemotePull, HandleRemotePullSdp
<1>3. \A p \in known : p.user = t
  BY DEF RemotePull
<1>4. /\ recvByUser[s] \in [Users -> 0 .. MaxPort] /\ lastPort[s] \in Nat
      /\ \A e \in recvByPusher[s] : e.port # 0 /\ e.pusher.user \in Users
  BY <1>1, RoomAssumption DEF TypeOK, RelayTypeOK, Ports, Pushers
<1>5. /\ \A e \in recvByPusher[s] : recvByUser[s][e.pusher.user] = e.port
      /\ \A u \in Users : recvByUser[s][u] # 0 => \E e \in recvByPusher[s] : e.pusher.user = u
  BY <1>1 DEF RelayMapsAgree
<1>6. port # 0 \/ (known = {} /\ port = recvByUser[s][t])
  BY <1>4
<1>7. fresh => \A e \in recvByPusher[s] : e.pusher.user # t
  BY <1>4, <1>5
<1>8. ~fresh => port = recvByUser[s][t]
  OBVIOUS
<1>9. \A e \in byPusher : \/ e \in recvByPusher[s] /\ e.pusher \notin known
                          \/ e.pusher \in known /\ e.port = port
  OBVIOUS
<1>10. /\ \A e \in recvByPusher[s] : e.pusher \notin known => e \in byPusher
       /\ \A p \in known : \E e \in byPusher : e.pusher = p
  <2>1. \A p \in known : [pusher |-> p, port |-> port] \in byPusher
    OBVIOUS
  <2> QED
    BY <2>1
<1>11. /\ byUser[t] = port /\ \A u \in Users \ {t} : byUser[u] = recvByUser[s][u]
  BY <1>4
<1> HIDE DEF known, fresh, port, byPusher, byUser, s
<1>12. \A e \in byPusher : byUser[e.pusher.user] = e.port
  <2> TAKE e \in byPusher
  <2>1. CASE e.pusher \in known /\ e.port = port
    BY <1>3, <1>11, <2>1
  <2>2. CASE e \in recvByPusher[s] /\ e.pusher.user # t
    BY <1>4, <1>5, <1>11, <2>2
  <2>3. CASE e \in recvByPusher[s] /\ e.pusher.user = t
    BY <1>5, <1>7, <1>8, <1>11, <2>3
  <2> QED
    BY <1>9, <2>1, <2>2, <2>3
<1>13. \A u \in Users : byUser[u] # 0 => \E e \in byPusher : e.pusher.user = u
  <2> TAKE u \in Users
  <2>1. CASE \E p \in known : p.user = u
    BY <1>10, <2>1
  <2>2. CASE ~\E p \in known : p.user = u
    <3>1. byUser[u] = recvByUser[s][u]
      <4>1. CASE u = t
        <5>1. known = {}
          BY <1>3, <2>2, <4>1
        <5>2. ~fresh
          BY <5>1 DEF fresh
        <5> QED
          BY <1>8, <1>11, <4>1, <5>2
      <4> QED
        BY <1>11, <4>1
    <3> QED
      BY <1>5, <1>10, <2>2, <3>1
  <2> QED
    BY <2>1, <2>2
<1>14. MapsAgree(byUser, byPusher)
  BY <1>12, <1>13 DEF MapsAgree
<1> QED
  BY <1>1, <1>2, <1>14, OneSfuAgrees

\* Room::OnTimer: a dead relay leaves both maps, with all its pushers.
LEMMA TimerAgrees ==
    ASSUME TypeOK, RelayMapsAgree, NEW s \in Sfus, RemoveRecvRelays(s)
    PROVE  RelayMapsAgree'
<1> DEFINE dead == {e \in recvByPusher[s] : e.port \in relayIdle[s]}
           owners == {e.pusher.user : e \in dead}
           byPusher == recvByPusher[s] \ dead
           byUser == [u \in Users |-> IF u \in owners THEN 0 ELSE recvByUser[s][u]]
<1>1. /\ recvByUser' = [recvByUser EXCEPT ![s] = byUser]
      /\ recvByPusher' = [recvByPusher EXCEPT ![s] = byPusher]
  BY DEF RemoveRecvRelays
<1>2. \A e \in recvByPusher[s] : e.pusher.user \in Users
  BY DEF TypeOK, RelayTypeOK, Pushers
<1>3. /\ \A e \in recvByPusher[s] : recvByUser[s][e.pusher.user] = e.port
      /\ \A u \in Users : recvByUser[s][u] # 0 => \E e \in recvByPusher[s] : e.pusher.user = u
  BY DEF RelayMapsAgree
<1>4. \A e \in byPusher : e.pusher.user \notin owners
  BY <1>3
<1>5. \A u \in Users \ owners : \A e \in recvByPusher[s] :
          e.pusher.user = u => e \in byPusher
  OBVIOUS
<1>6. \A u \in Users : byUser[u] = IF u \in owners THEN 0 ELSE recvByUser[s][u]
  OBVIOUS
<1>7. byPusher \subseteq recvByPusher[s]
  OBVIOUS
<1> HIDE DEF dead, owners, byPusher, byUser
<1>8. MapsAgree(byUser, byPusher)
  BY <1>2, <1>3, <1>4, <1>5, <1>6, <1>7 DEF MapsAgree
<1> QED
  BY <1>1, <1>8, OneSfuAgrees

\* The two maps of recv relays agree in every room of any number of SFUs, users
\* and clients, whatever the center sends: what lets Room::OnTimer, scanning
\* pusherId2recvRelay_ only, remove every relay.
THEOREM RelayMapsAgreeAlways == Spec => []RelayMapsAgree
<1>1. Init => RelayMapsAgree
  <2> SUFFICES ASSUME Init PROVE RelayMapsAgree
    OBVIOUS
  <2>1. \A s \in Sfus : recvByPusher[s] = {} /\ \A u \in Users : recvByUser[s][u] = 0
    BY DEF Init
  <2> QED
    BY <2>1 DEF RelayMapsAgree
<1>2. TypeOK /\ RelayMapsAgree /\ [Next]_vars => RelayMapsAgree'
  <2> SUFFICES ASSUME TypeOK, RelayMapsAgree, [Next]_vars PROVE RelayMapsAgree'
    OBVIOUS
  <2>1. ASSUME NEW s \in Sfus, DropRoom(s) PROVE RelayMapsAgree'
    <3> DEFINE byUser == [u \in Users |-> 0]
    <3>1. /\ recvByUser' = [recvByUser EXCEPT ![s] = byUser]
          /\ recvByPusher' = [recvByPusher EXCEPT ![s] = {}]
      BY <2>1 DEF DropRoom
    <3>2. MapsAgree(byUser, {})
      BY DEF MapsAgree
    <3> HIDE DEF byUser
    <3> QED
      BY <3>1, <3>2, OneSfuAgrees
  <2>2. CASE UNCHANGED <<recvByUser, recvByPusher>>
    BY <2>2 DEF RelayMapsAgree
  <2> QED
    BY <2>1, <2>2, RelaySteps, RemotePullAgrees, TimerAgrees
<1> QED
  BY <1>1, <1>2, TypeCorrect, PTL DEF Spec

-----------------------------------------------------------------------------
(* Pushers, pullers and their transports *)

\* MediaHasTransport of one SFU.
Transport(s) ==
    /\ \A p \in pushers[s] :
           /\ p.sfu = s
           /\ sess[s][p.sess].st \in {"wait", "up"}
           /\ RoomExists(s, sess[s][p.sess].gen)
           /\ p.user = sess[s][p.sess].user
           /\ p.media \in sess[s][p.sess].pushes
    /\ \A e \in pullers[s] :
           /\ sess[s][e.sess].st \in {"wait", "up"}
           /\ RoomExists(s, sess[s][e.sess].gen)
           /\ e.user = sess[s][e.sess].user
           /\ e.pusher \in sess[s][e.sess].pulls

\* The Room object of s, if there is one, outlives the step.
RoomStays(s) == room[s].up => room'[s].up /\ room'[s].gen = room[s].gen

\* Session k of s, if its peer may still use it, outlives the step.
SessStays(s, k) ==
    sess[s][k].st \in {"wait", "up"} =>
        /\ sess'[s][k].st \in {"wait", "up"}
        /\ sess'[s][k].gen = sess[s][k].gen
        /\ sess'[s][k].user = sess[s][k].user
        /\ sess'[s][k].pushes = sess[s][k].pushes
        /\ sess'[s][k].pulls = sess[s][k].pulls

\* The step removes pushers and pullers of s, and keeps what the others use.
MediaKept(s) ==
    /\ RoomStays(s)
    /\ pushers'[s] \subseteq pushers[s]
    /\ pullers'[s] \subseteq pullers[s]
    /\ \A p \in pushers'[s] : SessStays(s, p.sess)
    /\ \A e \in pullers'[s] : SessStays(s, e.sess)

\* The step removes all of them.
MediaGone(s) == pushers'[s] = {} /\ pullers'[s] = {}

MediaShrinks == \A s \in Sfus : MediaKept(s) \/ MediaGone(s)

\* The step makes session k of s, with what it pushes and what it pulls.
MediaGrows(s, k, u, pushes, pulls) ==
    /\ EnterRoom(s)
    /\ NewSession(s, k, u, pushes, pulls)
    /\ pushers' = [pushers EXCEPT ![s] = @ \cup PushersIn(s, k, u, pushes)]
    /\ pullers' = [pullers EXCEPT ![s] = @ \cup PullersIn(k, u, pulls)]

LEMMA TransportAll == MediaHasTransport <=> \A s \in Sfus : Transport(s)
BY DEF MediaHasTransport, Transport

\* Nothing that remains loses its transport when media only leave.
LEMMA ShrinkKeeps ==
    ASSUME MediaHasTransport, MediaShrinks
    PROVE  MediaHasTransport'
<1>1. ASSUME NEW s \in Sfus PROVE Transport(s)'
  <2>1. CASE MediaGone(s)
    BY <2>1 DEF MediaGone, Transport
  <2>2. CASE MediaKept(s)
    <3>1. Transport(s)
      BY TransportAll
    <3>2. ASSUME NEW p \in pushers'[s]
          PROVE  /\ p.sfu = s
                 /\ sess'[s][p.sess].st \in {"wait", "up"}
                 /\ RoomExists(s, sess[s][p.sess].gen)'
                 /\ p.user = sess'[s][p.sess].user
                 /\ p.media \in sess'[s][p.sess].pushes
      <4>1. p \in pushers[s] /\ SessStays(s, p.sess)
        BY <2>2 DEF MediaKept
      <4> QED
        BY <2>2, <3>1, <4>1 DEF Transport, SessStays, MediaKept, RoomStays, RoomExists
    <3>3. ASSUME NEW e \in pullers'[s]
          PROVE  /\ sess'[s][e.sess].st \in {"wait", "up"}
                 /\ RoomExists(s, sess[s][e.sess].gen)'
                 /\ e.user = sess'[s][e.sess].user
                 /\ e.pusher \in sess'[s][e.sess].pulls
      <4>1. e \in pullers[s] /\ SessStays(s, e.sess)
        BY <2>2 DEF MediaKept
      <4> QED
        BY <2>2, <3>1, <4>1 DEF Transport, SessStays, MediaKept, RoomStays, RoomExists
    <3> QED
      BY <3>2, <3>3 DEF Transport
  <2> QED
    BY <2>1, <2>2 DEF MediaShrinks
<1>2. \A s \in Sfus : Transport(s)'
  BY <1>1
<1> QED
  BY <1>2, TransportAll DEF MediaHasTransport, Transport

\* GetOrCreateRoom keeps the Room objects there are.
LEMMA GetRoomStays ==
    ASSUME TypeOK, NEW s \in Sfus, EnterRoom(s) \/ FindRoom(s)
    PROVE  /\ \A x \in Sfus : RoomStays(x)
           /\ room'[s].up /\ room'[s].gen = GotRoom(s).gen
<1>1. room \in [Sfus -> Rooms]
  BY DEF TypeOK, RoomTypeOK, Rooms
<1>2. \/ room' = [room EXCEPT ![s] = [GotRoom(s) EXCEPT !.idle = FALSE]]
      \/ room' = [room EXCEPT ![s] = GotRoom(s)]
  BY DEF EnterRoom, FindRoom
<1>3. GotRoom(s).up /\ (room[s].up => GotRoom(s).gen = room[s].gen)
  BY <1>1 DEF GotRoom, Rooms
<1>4. DOMAIN GotRoom(s) = {"up", "gen", "idle"}
  BY <1>1 DEF GotRoom, Rooms
<1>5. /\ [GotRoom(s) EXCEPT !.idle = FALSE].up = GotRoom(s).up
      /\ [GotRoom(s) EXCEPT !.idle = FALSE].gen = GotRoom(s).gen
  BY <1>1 DEF GotRoom, Rooms
<1>6. /\ room'[s].up = GotRoom(s).up /\ room'[s].gen = GotRoom(s).gen
      /\ \A x \in Sfus \ {s} : room'[x] = room[x]
  BY <1>1, <1>2, <1>5
<1> QED
  BY <1>3, <1>6 DEF RoomStays

\* A new session is the transport of the pushers and pullers made with it, and
\* it was nobody's transport before.
LEMMA GrowKeeps ==
    ASSUME TypeOK, MediaHasTransport, NEW s \in Sfus, NEW k \in SessIds, NEW u,
           NEW pushes, NEW pulls, MediaGrows(s, k, u, pushes, pulls)
    PROVE  MediaHasTransport'
<1> DEFINE r == [st |-> "wait", user |-> u, gen |-> GotRoom(s).gen, idle |-> FALSE,
                 pushes |-> pushes, pulls |-> pulls]
<1>1. /\ sess[s][k].st = "none"
      /\ sess' = [sess EXCEPT ![s][k] = r]
  BY DEF MediaGrows, NewSession
<1>2. /\ sess \in [Sfus -> [SessIds -> SessRecs]] /\ pushers \in [Sfus -> SUBSET Pushers]
      /\ pullers \in [Sfus -> SUBSET Pullers]
  BY DEF TypeOK, MediaTypeOK
<1>3. /\ sess'[s][k] = r
      /\ \A x \in Sfus, j \in SessIds : x # s \/ j # k => sess'[x][j] = sess[x][j]
  BY <1>1, <1>2
<1>4. r.st = "wait" /\ r.user = u /\ r.gen = GotRoom(s).gen /\ r.pushes = pushes /\ r.pulls = pulls
  OBVIOUS
<1> HIDE DEF r
<1>5. /\ \A x \in Sfus : RoomStays(x)
      /\ room'[s].up /\ room'[s].gen = GotRoom(s).gen
  BY GetRoomStays DEF MediaGrows
<1>6. /\ \A p \in PushersIn(s, k, u, pushes) :
             p.sfu = s /\ p.sess = k /\ p.user = u /\ p.media \in pushes
      /\ \A e \in PullersIn(k, u, pulls) : e.sess = k /\ e.user = u /\ e.pusher \in pulls
  BY DEF PushersIn, PullersIn
<1>7. /\ pushers'[s] = pushers[s] \cup PushersIn(s, k, u, pushes)
      /\ pullers'[s] = pullers[s] \cup PullersIn(k, u, pulls)
      /\ \A x \in Sfus \ {s} : pushers'[x] = pushers[x] /\ pullers'[x] = pullers[x]
  BY <1>2 DEF MediaGrows
<1>8. ASSUME NEW x \in Sfus PROVE Transport(x)'
  <2>1. Transport(x)
    BY TransportAll
  <2>2. ASSUME NEW p \in pushers[x]
        PROVE  sess'[x][p.sess] = sess[x][p.sess]
    <3>1. p.sess \in SessIds
      BY <1>2 DEF Pushers
    <3>2. sess[x][p.sess].st # "none"
      BY <2>1 DEF Transport
    <3> QED
      BY <1>1, <1>3, <3>1, <3>2
  <2>3. ASSUME NEW e \in pullers[x]
        PROVE  sess'[x][e.sess] = sess[x][e.sess]
    <3>1. e.sess \in SessIds
      BY <1>2 DEF Pullers
    <3>2. sess[x][e.sess].st # "none"
      BY <2>1 DEF Transport
    <3> QED
      BY <1>1, <1>3, <3>1, <3>2
  <2>4. \A p \in pushers[x] :
          /\ p.sfu = x
          /\ sess'[x][p.sess].st \in {"wait", "up"}
          /\ room'[x].up /\ room'[x].gen = sess'[x][p.sess].gen
          /\ p.user = sess'[x][p.sess].user
          /\ p.media \in sess'[x][p.sess].pushes
    BY <1>5, <2>1, <2>2 DEF Transport, RoomExists, RoomStays
  <2>5. \A e \in pullers[x] :
          /\ sess'[x][e.sess].st \in {"wait", "up"}
          /\ room'[x].up /\ room'[x].gen = sess'[x][e.sess].gen
          /\ e.user = sess'[x][e.sess].user
          /\ e.pusher \in sess'[x][e.sess].pulls
    BY <1>5, <2>1, <2>3 DEF Transport, RoomExists, RoomStays
  <2>6. CASE x # s
    BY <1>7, <2>4, <2>5, <2>6 DEF Transport, RoomExists
  <2>7. CASE x = s
    <3>1. \A p \in PushersIn(s, k, u, pushes) :
          /\ p.sfu = s
          /\ sess'[s][p.sess].st \in {"wait", "up"}
          /\ room'[s].up /\ room'[s].gen = sess'[s][p.sess].gen
          /\ p.user = sess'[s][p.sess].user
          /\ p.media \in sess'[s][p.sess].pushes
      BY <1>3, <1>4, <1>5, <1>6
    <3>2. \A e \in PullersIn(k, u, pulls) :
          /\ sess'[s][e.sess].st \in {"wait", "up"}
          /\ room'[s].up /\ room'[s].gen = sess'[s][e.sess].gen
          /\ e.user = sess'[s][e.sess].user
          /\ e.pusher \in sess'[s][e.sess].pulls
      BY <1>3, <1>4, <1>5, <1>6
    <3> QED
      BY <1>7, <2>4, <2>5, <2>7, <3>1, <3>2 DEF Transport, RoomExists
  <2> QED
    BY <2>6, <2>7
<1>9. \A x \in Sfus : Transport(x)'
  BY <1>8
<1> QED
  BY <1>9, TransportAll DEF MediaHasTransport, Transport

\* Steps that keep the maps and the sessions.
LEMMA StaysShrinks ==
    ASSUME \A x \in Sfus : RoomStays(x), UNCHANGED <<pushers, pullers, sess>>
    PROVE  MediaShrinks
BY DEF MediaShrinks, MediaKept, SessStays

LEMMA SameRoomStays ==
    ASSUME UNCHANGED room
    PROVE  \A x \in Sfus : RoomStays(x)
BY DEF RoomStays

\* Steps that keep the maps and touch one session without ending it.
LEMMA TouchShrinks ==
    ASSUME TypeOK, NEW s \in Sfus, NEW k \in SessIds, NEW st \in {"wait", "up"}, NEW b,
           \/ sess' = [sess EXCEPT ![s][k].st = st, ![s][k].idle = b]
           \/ sess' = [sess EXCEPT ![s][k].idle = b],
           \A x \in Sfus : RoomStays(x), UNCHANGED <<pushers, pullers>>
    PROVE  MediaShrinks
<1>1. sess \in [Sfus -> [SessIds -> SessRecs]]
  BY DEF TypeOK, MediaTypeOK
<1>2. \A x \in Sfus, j \in SessIds : x # s \/ j # k => sess'[x][j] = sess[x][j]
  BY <1>1
<1>3. SessStays(s, k)
  BY <1>1 DEF SessStays, SessRecs
<1>4. \A x \in Sfus, j \in SessIds : SessStays(x, j)
  BY <1>2, <1>3 DEF SessStays
<1>5. /\ \A x \in Sfus : \A p \in pushers[x] : p.sess \in SessIds
      /\ \A x \in Sfus : \A e \in pullers[x] : e.sess \in SessIds
  BY DEF TypeOK, MediaTypeOK, Pushers, Pullers
<1> QED
  BY <1>4, <1>5 DEF MediaShrinks, MediaKept

\* The requests of the clients.
LEMMA ClientMedia ==
    ASSUME TypeOK, MediaHasTransport, NEW w \in Sockets, ClientNext(w)
    PROVE  MediaHasTransport'
<1>0. Home[w] \in Sfus
  BY RoomAssumption
<1>1. ASSUME NEW u, NEW a, HandleJoinRequest(w, u, a) PROVE MediaShrinks
  <2>1. EnterRoom(Home[w]) /\ UNCHANGED <<pushers, pullers, sess>>
    BY <1>1 DEF HandleJoinRequest, mediaVars
  <2> QED
    BY <1>0, <2>1, GetRoomStays, StaysShrinks
<1>2. ASSUME NEW u, HandleHeartbeatRequest(w, u) PROVE MediaShrinks
  <2>1. EnterRoom(Home[w]) /\ UNCHANGED <<pushers, pullers, sess>>
    BY <1>2 DEF HandleHeartbeatRequest, mediaVars
  <2> QED
    BY <1>0, <2>1, GetRoomStays, StaysShrinks
<1>3. ASSUME NEW u, NEW k \in SessIds, NEW M, HandlePushRequest(w, u, k, M)
      PROVE  MediaHasTransport'
  <2>1. MediaGrows(Home[w], k, u, M, {})
    <3>1. PullersIn(k, u, {}) = {}
      BY DEF PullersIn
    <3>2. pullers' = [pullers EXCEPT ![Home[w]] = @ \cup PullersIn(k, u, {})]
      BY <1>0, <1>3, <3>1 DEF HandlePushRequest, TypeOK, MediaTypeOK
    <3> QED
      BY <1>3, <3>2 DEF HandlePushRequest, MediaGrows
  <2> QED
    BY <1>0, <2>1, GrowKeeps
<1>4. ASSUME NEW t, PullUnknown(w, t) PROVE MediaShrinks
  <2>1. FindRoom(Home[w]) /\ UNCHANGED <<pushers, pullers, sess>>
    BY <1>4 DEF PullUnknown, mediaVars
  <2> QED
    BY <1>0, <2>1, GetRoomStays, StaysShrinks
<1>5. ASSUME NEW u, NEW k \in SessIds, NEW pulls,
             EnterRoom(Home[w]), NewSession(Home[w], k, u, {}, pulls), UNCHANGED pushers,
             pullers' = [pullers EXCEPT ![Home[w]] = @ \cup PullersIn(k, u, pulls)]
      PROVE  MediaHasTransport'
  <2>1. PushersIn(Home[w], k, u, {}) = {}
    BY DEF PushersIn
  <2>2. pushers' = [pushers EXCEPT ![Home[w]] = @ \cup PushersIn(Home[w], k, u, {})]
    BY <1>0, <1>5, <2>1 DEF TypeOK, MediaTypeOK
  <2>3. MediaGrows(Home[w], k, u, {}, pulls)
    BY <1>5, <2>2 DEF MediaGrows
  <2> QED
    BY <1>0, <2>3, GrowKeeps
<1>6. ASSUME NEW u, NEW t, NEW P, NEW k \in SessIds, HandlePullSdp(w, u, t, P, k)
      PROVE  MediaHasTransport'
  BY <1>5, <1>6 DEF HandlePullSdp
<1>7. ASSUME NEW u, NEW t, NEW P, NEW k \in SessIds, HandleRemotePullSdp(w, u, t, P, k)
      PROVE  MediaHasTransport'
  BY <1>5, <1>7 DEF HandleRemotePullSdp
<1>8. ASSUME NEW u, HandlePullRequest(w, u) PROVE MediaHasTransport'
  BY <1>4, <1>6, <1>7, <1>8, ShrinkKeeps, Zenon DEF HandlePullRequest
<1>9. ASSUME DisconnectUser(w) PROVE MediaShrinks
  <2>1. /\ FindRoom(Home[w]) \/ UNCHANGED room
        /\ UNCHANGED <<pushers, pullers, sess>>
    BY <1>9 DEF DisconnectUser, mediaVars
  <2> QED
    BY <1>0, <2>1, GetRoomStays, SameRoomStays, StaysShrinks
<1>10. ASSUME WsReadError(w) \/ HandleJoinRequestElsewhere(w) PROVE MediaShrinks
  <2>1. UNCHANGED <<room, pushers, pullers, sess>>
    BY <1>10 DEF WsReadError, HandleJoinRequestElsewhere, mediaVars
  <2> QED
    BY <2>1, SameRoomStays, StaysShrinks
<1> QED
  BY <1>1, <1>2, <1>3, <1>8, <1>9, <1>10, ShrinkKeeps, Zenon
  DEF ClientNext, WsOnClose, WsSweep

\* The end of the Room object.
LEMMA DropShrinks ==
    ASSUME TypeOK, NEW s \in Sfus, DropRoom(s),
           \A x \in Sfus \ {s} : sess'[x] = sess[x]
    PROVE  MediaShrinks
<1>1. /\ pushers'[s] = {} /\ pullers'[s] = {}
      /\ \A x \in Sfus \ {s} :
             room'[x] = room[x] /\ pushers'[x] = pushers[x] /\ pullers'[x] = pullers[x]
  BY DEF DropRoom, TypeOK, RoomTypeOK, MediaTypeOK
<1>2. ASSUME NEW x \in Sfus \ {s} PROVE MediaKept(x)
  BY <1>1 DEF MediaKept, RoomStays, SessStays
<1> QED
  BY <1>1, <1>2 DEF MediaShrinks, MediaGone

LEMMA UndefinedShrinks ==
    ASSUME NEW s, Undefined(s)
    PROVE  MediaShrinks
<1>1. UNCHANGED <<room, pushers, pullers, sess>>
  BY DEF Undefined, mediaVars
<1> QED
  BY <1>1, SameRoomStays, StaysShrinks

\* The steps of the media peers.
LEMMA PeerMedia ==
    ASSUME TypeOK, MediaHasTransport, NEW s \in Sfus, PeerNext(s)
    PROVE  MediaHasTransport'
<1>0. /\ sess \in [Sfus -> [SessIds -> SessRecs]] /\ pushers \in [Sfus -> SUBSET Pushers]
      /\ pullers \in [Sfus -> SUBSET Pullers]
  BY DEF TypeOK, MediaTypeOK
<1>1. ASSUME NEW u, NEW k \in SessIds, NEW M, WhipHandle(s, u, k, M) PROVE MediaHasTransport'
  <2>1. PullersIn(k, u, {}) = {}
    BY DEF PullersIn
  <2>2. pullers' = [pullers EXCEPT ![s] = @ \cup PullersIn(k, u, {})]
    BY <1>0, <1>1, <2>1 DEF WhipHandle
  <2>3. MediaGrows(s, k, u, M, {})
    BY <1>1, <2>2 DEF WhipHandle, MediaGrows
  <2> QED
    BY <2>3, GrowKeeps
<1>2. ASSUME WhipDeleteHandle(s) PROVE MediaShrinks
  <2>1. CASE DropRoom(s) /\ \A x \in Sfus \ {s} : sess'[x] = sess[x]
    BY <2>1, DropShrinks
  <2>2. Undefined(s) \/ (DropRoom(s) /\ \A x \in Sfus \ {s} : sess'[x] = sess[x])
    BY <1>0, <1>2 DEF WhipDeleteHandle
  <2> QED
    BY <2>1, <2>2, UndefinedShrinks
<1>3. ASSUME NEW k \in SessIds, HandleStunPacket(s, k) PROVE MediaShrinks
  <2>1. /\ sess' = [sess EXCEPT ![s][k].st = "up", ![s][k].idle = FALSE]
        /\ UNCHANGED <<room, pushers, pullers>>
    BY <1>3 DEF HandleStunPacket
  <2> QED
    BY <2>1, SameRoomStays, TouchShrinks
<1>4. ASSUME NEW k \in SessIds, NEW x, OnRtpPacketFromRtcPusher(s, k, x) PROVE MediaShrinks
  <2>1. CASE EnterRoom(s) /\ sess' = [sess EXCEPT ![s][k].idle = FALSE]
             /\ UNCHANGED <<pushers, pullers>>
    BY <2>1, GetRoomStays, TouchShrinks
  <2>2. Undefined(s) \/ (EnterRoom(s) /\ sess' = [sess EXCEPT ![s][k].idle = FALSE]
             /\ UNCHANGED <<pushers, pullers>>)
    BY <1>4 DEF OnRtpPacketFromRtcPusher
  <2> QED
    BY <2>1, <2>2, UndefinedShrinks
<1>5. ASSUME NEW k \in SessIds, NEW p, OnKeyFrameRequest(s, k, p) PROVE MediaShrinks
  <2>1. CASE sess' = [sess EXCEPT ![s][k].idle = FALSE] /\ UNCHANGED <<room, pushers, pullers>>
    BY <2>1, SameRoomStays, TouchShrinks
  <2>2. Undefined(s) \/ (sess' = [sess EXCEPT ![s][k].idle = FALSE]
             /\ UNCHANGED <<room, pushers, pullers>>)
    BY <1>5 DEF OnKeyFrameRequest
  <2> QED
    BY <2>1, <2>2, UndefinedShrinks
<1>6. ASSUME NEW k \in SessIds, SessionIdles(s, k) PROVE MediaShrinks
  <2>1. /\ sess' = [sess EXCEPT ![s][k].idle = TRUE]
        /\ UNCHANGED <<room, pushers, pullers>>
    BY <1>6 DEF SessionIdles
  <2> QED
    BY <2>1, SameRoomStays, TouchShrinks
<1>7. ASSUME NEW k \in SessIds, WebRtcServerOnTimer(s, k) PROVE MediaShrinks
  <2>1. CASE Undefined(s)
    BY <2>1, UndefinedShrinks
  <2>2. CASE ~Undefined(s)
    <3>1. /\ sess' = [sess EXCEPT ![s][k] = GoneSess]
          /\ pushers' = [pushers EXCEPT ![s] = {p \in @ : p.sess # k}]
          /\ pullers' = [pullers EXCEPT ![s] = {e \in @ : e.sess # k}]
          /\ room' = room
      BY <1>7, <2>2 DEF WebRtcServerOnTimer
    <3>2. /\ pushers'[s] = {p \in pushers[s] : p.sess # k}
          /\ pullers'[s] = {e \in pullers[s] : e.sess # k}
          /\ \A x \in Sfus \ {s} : /\ pushers'[x] = pushers[x] /\ pullers'[x] = pullers[x]
                                   /\ sess'[x] = sess[x]
          /\ \A j \in SessIds \ {k} : sess'[s][j] = sess[s][j]
      BY <1>0, <3>1
    <3>3. /\ \A p \in pushers[s] : p.sess \in SessIds
          /\ \A e \in pullers[s] : e.sess \in SessIds
      BY <1>0 DEF Pushers, Pullers
    <3>4. \A x \in Sfus \ {s} : MediaKept(x)
      BY <3>1, <3>2 DEF MediaKept, RoomStays, SessStays
    <3>5. MediaKept(s)
      BY <3>1, <3>2, <3>3 DEF MediaKept, RoomStays, SessStays
    <3> QED
      BY <3>4, <3>5 DEF MediaShrinks
  <2> QED
    BY <2>1, <2>2
<1>8. ASSUME NEW u, NotifyDestroyed(s, u) \/ OnRelayKeyFrameRequest(s, u) PROVE MediaShrinks
  BY <1>8, UndefinedShrinks DEF NotifyDestroyed, OnRelayKeyFrameRequest
<1> QED
  BY <1>1, <1>2, <1>3, <1>4, <1>5, <1>6, <1>7, <1>8, ShrinkKeeps, Zenon DEF PeerNext

\* The timers of the rooms.
LEMMA TimerMedia ==
    ASSUME TypeOK, MediaHasTransport, NEW s \in Sfus, TimerNext(s)
    PROVE  MediaHasTransport'
<1>0. room \in [Sfus -> Rooms]
  BY DEF TypeOK, RoomTypeOK, Rooms
<1>1. ASSUME NEW u, UserAges(s, u) PROVE MediaShrinks
  <2>1. UNCHANGED <<room, pushers, pullers, sess>>
    BY <1>1 DEF UserAges, mediaVars
  <2> QED
    BY <2>1, SameRoomStays, StaysShrinks
<1>2. ASSUME NEW port, RelayIdles(s, port) PROVE MediaShrinks
  <2>1. UNCHANGED <<room, pushers, pullers, sess>>
    BY <1>2 DEF RelayIdles, mediaVars
  <2> QED
    BY <2>1, SameRoomStays, StaysShrinks
<1>3. ASSUME RoomIdles(s) PROVE MediaShrinks
  <2>1. room' = [room EXCEPT ![s].idle = TRUE] /\ UNCHANGED <<pushers, pullers, sess>>
    BY <1>3 DEF RoomIdles, mediaVars
  <2>2. \A x \in Sfus : RoomStays(x)
    BY <1>0, <2>1 DEF RoomStays, Rooms
  <2> QED
    BY <2>1, <2>2, StaysShrinks
<1>4. ASSUME RoomOnTimer(s) PROVE MediaShrinks
  <2>1. /\ room' = [room EXCEPT ![s].idle = @ /\ In(s) = {}] /\ UNCHANGED sess
        /\ pushers' = [pushers EXCEPT ![s] = {p \in @ : p.user \notin Expired(s)}]
        /\ pullers' = [pullers EXCEPT ![s] = {e \in @ : e.user \notin Expired(s)}]
    BY <1>4 DEF RoomOnTimer, ReleaseUserResources
  <2>2. \A x \in Sfus : RoomStays(x)
    BY <1>0, <2>1 DEF RoomStays, Rooms
  <2>3. \A x \in Sfus : pushers'[x] \subseteq pushers[x] /\ pullers'[x] \subseteq pullers[x]
    BY <2>1 DEF TypeOK, MediaTypeOK
  <2> QED
    BY <2>1, <2>2, <2>3 DEF MediaShrinks, MediaKept, SessStays
<1>5. ASSUME RoomMgrOnTimer(s) PROVE MediaShrinks
  BY <1>5, DropShrinks DEF RoomMgrOnTimer
<1> QED
  BY <1>1, <1>2, <1>3, <1>4, <1>5, ShrinkKeeps, Zenon DEF TimerNext

\* The center and the relays' packets.
LEMMA CenterMedia ==
    ASSUME TypeOK, MediaHasTransport, CenterNext
    PROVE  MediaHasTransport'
<1>0. room \in [Sfus -> Rooms]
  BY DEF TypeOK, RoomTypeOK, Rooms
<1>1. ASSUME NEW s \in Sfus, NEW m, OnCenterMessage(s, m) PROVE MediaShrinks
  <2>1. CASE JoinResponseFromPilotCenter(s, m)
    <3>1. CASE Undefined(s)
      BY <3>1, UndefinedShrinks
    <3>2. CASE ~Undefined(s)
      <4>1. /\ room' = [room EXCEPT ![s].idle = @ /\ (m.users \ In(s)) = {}]
            /\ UNCHANGED <<pushers, pullers, sess>>
        BY <2>1, <3>2 DEF JoinResponseFromPilotCenter, mediaVars
      <4>2. \A x \in Sfus : RoomStays(x)
        BY <1>0, <4>1 DEF RoomStays, Rooms
      <4> QED
        BY <4>1, <4>2, StaysShrinks
    <3> QED
      BY <3>1, <3>2
  <2>2. CASE ~JoinResponseFromPilotCenter(s, m)
    <3>1. (EnterRoom(s) \/ FindRoom(s)) /\ UNCHANGED <<pushers, pullers, sess>>
      BY <1>1, <2>2 DEF OnCenterMessage, HandleNewUserNotificationFromCenter,
         HandleNewPusherNotificationFromCenter, HandlePullRemoteStreamNotificationFromCenter,
         HandleUserDisconnectNotificationFromCenter, HandleUserLeaveNotificationFromCenter,
         mediaVars
    <3> QED
      BY <3>1, GetRoomStays, StaysShrinks
  <2> QED
    BY <2>1, <2>2
<1>2. ASSUME NEW s \in Sfus, NEW e, OnRtpPacketFromRemoteRtcPusher(s, e) PROVE MediaShrinks
  <2>1. EnterRoom(s) /\ UNCHANGED <<pushers, pullers, sess>>
    BY <1>2 DEF OnRtpPacketFromRemoteRtcPusher, mediaVars
  <2> QED
    BY <2>1, GetRoomStays, StaysShrinks
<1>3. ASSUME UNCHANGED roomVars PROVE MediaShrinks
  <2>1. UNCHANGED <<room, pushers, pullers, sess>>
    BY <1>3 DEF roomVars, mediaVars
  <2> QED
    BY <2>1, SameRoomStays, StaysShrinks
<1> QED
  BY <1>1, <1>2, <1>3, ShrinkKeeps, Zenon DEF CenterNext

\* Forwarding a packet through the maps of a room never uses a destroyed
\* transport, nor one made for an earlier Room object of the same id, in rooms
\* of any number of SFUs, users, clients and sessions.
THEOREM MediaHasTransportAlways == Spec => []MediaHasTransport
<1>1. Init => MediaHasTransport
  <2> SUFFICES ASSUME Init PROVE MediaHasTransport
    OBVIOUS
  <2>1. \A s \in Sfus : pushers[s] = {} /\ pullers[s] = {}
    BY DEF Init
  <2> QED
    BY <2>1 DEF MediaHasTransport
<1>2. TypeOK /\ MediaHasTransport /\ [Next]_vars => MediaHasTransport'
  <2> SUFFICES ASSUME TypeOK, MediaHasTransport, [Next]_vars PROVE MediaHasTransport'
    OBVIOUS
  <2>1. CASE LocalNext
    BY <2>1, ClientMedia, PeerMedia, TimerMedia, Zenon DEF LocalNext
  <2>2. CASE UNCHANGED roomVars
    <3>1. UNCHANGED <<room, pushers, pullers, sess>>
      BY <2>2 DEF roomVars, mediaVars
    <3> QED
      BY <3>1, SameRoomStays, StaysShrinks, ShrinkKeeps
  <2>3. LinkNext \/ UNCHANGED vars => UNCHANGED roomVars
    BY DEF LinkNext, vars
  <2> QED
    BY <2>1, <2>2, <2>3, CenterMedia, Zenon DEF Next
<1> QED
  BY <1>1, <1>2, TypeCorrect, PTL DEF Spec
=============================================================================
