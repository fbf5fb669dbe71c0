--------------------------- MODULE SfuRoomProofs ----------------------------
(***************************************************************************)
(* Theorems about SfuRoom!Spec, for all values of the constants.           *)
(***************************************************************************)
EXTENDS SfuRoom, FiniteSetTheorems, SequenceTheorems, TLAPS

-----------------------------------------------------------------------------
(* Sequences made from sets. *)

\* The elements of a finite set can be put into a sequence.
LEMMA SetToSeqType ==
    ASSUME NEW S, IsFiniteSet(S)
    PROVE  SetToSeq(S) \in Seq(S)
<1>1. Cardinality(S) \in Nat /\ ExistsBijection(1 .. Cardinality(S), S)
    BY FS_CardinalityType
<1>2. \E f \in [1 .. Cardinality(S) -> S] : IsInjective(f)
    BY <1>1, Zenon DEF ExistsBijection, Bijection, Injection
<1>3. SetToSeq(S) \in [1 .. Cardinality(S) -> S]
    BY <1>2, Zenon DEF SetToSeq
<1>. QED  BY <1>1, <1>3, SMT

\* There are finitely many pushers.
LEMMA PushersFinite == IsFiniteSet(Pushers)
<1>. DEFINE A == (Sfus \cup Peers) \X SessIds
            B == Media \X Users
            f == [x \in A \X B |-> [sfu |-> x[1][1], sess |-> x[1][2],
                                    media |-> x[2][1], user |-> x[2][2]]]
<1>1. IsFiniteSet(Sfus \cup Peers)
    BY FS_Union, LinkAssumption, RoomAssumption, Zenon
<1>2. IsFiniteSet(SessIds)
    BY FS_Interval, RoomAssumption, SMT DEF SessIds
<1>3. IsFiniteSet(A)
    BY <1>1, <1>2, FS_Product, Zenon
<1>4. IsFiniteSet(B)
    BY FS_Product, LinkAssumption, RoomAssumption, Zenon
<1>5. IsFiniteSet(A \X B)
    BY <1>3, <1>4, FS_Product, Zenon
<1>6. f \in [A \X B -> Pushers]
    BY SMT DEF Pushers
<1>7. ASSUME NEW p \in Pushers PROVE \E x \in A \X B : f[x] = p
  <2>1. <<<<p.sfu, p.sess>>, <<p.media, p.user>>>> \in A \X B
      BY SMT DEF Pushers
  <2>2. f[<<<<p.sfu, p.sess>>, <<p.media, p.user>>>>] = p
      BY <2>1, SMT DEF Pushers
  <2>. QED  BY <2>1, <2>2
<1>8. f \in Surjection(A \X B, Pushers)
    BY <1>6, <1>7, Zenon DEF Surjection
<1>. HIDE DEF A, B, f
<1>. QED  BY <1>5, <1>8, FS_Surjection, Zenon

-----------------------------------------------------------------------------
(* Parts of actions. *)

\* A function updated at one point, in its domain or not.
LEMMA ExceptType ==
    ASSUME NEW D, NEW T, NEW f \in [D -> T], NEW x, NEW y, x \in D => y \in T
    PROVE  [f EXCEPT ![x] = y] \in [D -> T]
  OBVIOUS

\* The link variables after Send keep their types.
LEMMA SendType ==
    ASSUME TypeOK, NEW s \in Sfus, NEW msgs \in Seq(UpMsgs), Send(s, msgs)
    PROVE  LinkTypeOK'
<1>1. \A x \in Sids : up[x] \o msgs \in Seq(UpMsgs)
    BY ConcatProperties DEF TypeOK, LinkTypeOK
<1>2. up' = up \/ up' = [up EXCEPT ![Sid(s)] = up[Sid(s)] \o msgs]
    BY DEF Send, Writes
<1>3. up \in [Sids -> Seq(UpMsgs)]
    BY DEF TypeOK, LinkTypeOK
<1>4. Sid(s) \in Sids => up[Sid(s)] \o msgs \in Seq(UpMsgs)
    BY <1>1
<1>5. [up EXCEPT ![Sid(s)] = up[Sid(s)] \o msgs] \in [Sids -> Seq(UpMsgs)]
    BY <1>3, <1>4, ExceptType, Zenon
<1>6. up' \in [Sids -> Seq(UpMsgs)]
    BY <1>2, <1>3, <1>5, Zenon
<1>7. lossy' \in [Sfus -> BOOLEAN]
    BY DEF TypeOK, LinkTypeOK, Send
<1>. QED  BY <1>6, <1>7 DEF TypeOK, LinkTypeOK, Send

\* A sequence of one message.
LEMMA OneMsg ==
    ASSUME NEW m \in UpMsgs PROVE <<m>> \in Seq(UpMsgs)
  OBVIOUS

\* The messages the actions send are of UpMsgs.
LEMMA MsgTypes ==
    ASSUME NEW u \in Users
    PROVE  /\ \A a \in BOOLEAN, g \in 0 .. MaxGen : JoinMsg(u, a, g) \in UpMsgs
           /\ \A ps \in SUBSET Pushers : PushMsg(u, ps) \in UpMsgs
           /\ \A p \in Pushers, t \in Targets : PullMsg(u, p, t) \in UpMsgs
           /\ UserMsg("userDisconnect", u) \in UpMsgs
           /\ UserMsg("userLeave", u) \in UpMsgs
           /\ UserMsg("userReConnect", u) \in UpMsgs
<1>1. \A a \in BOOLEAN, g \in 0 .. MaxGen : JoinMsg(u, a, g) \in UpMsgs
    BY DEF JoinMsg, UpMsgs
<1>2. \A ps \in SUBSET Pushers : PushMsg(u, ps) \in UpMsgs
    BY DEF PushMsg, UpMsgs
<1>3. \A p \in Pushers, t \in Targets : PullMsg(u, p, t) \in UpMsgs
    BY DEF PullMsg, UpMsgs, PullMsgs
<1>4. /\ UserMsg("userDisconnect", u) \in UpMsgs
      /\ UserMsg("userLeave", u) \in UpMsgs
      /\ UserMsg("userReConnect", u) \in UpMsgs
    BY DEF UserMsg, UpMsgs, UserMsgs
<1>. QED  BY <1>1, <1>2, <1>3, <1>4

Rooms == [up : BOOLEAN, gen : 0 .. MaxGen, idle : BOOLEAN]

\* Getting the room, with or without a refresh, keeps its type.
LEMMA GetRoomType ==
    ASSUME TypeOK, NEW s \in Sfus, EnterRoom(s) \/ FindRoom(s)
    PROVE  room' \in [Sfus -> Rooms] /\ GotRoom(s).gen \in 0 .. MaxGen
<1>1. GotRoom(s) \in Rooms
    BY RoomAssumption DEF TypeOK, RoomTypeOK, EnterRoom, FindRoom, CanGetRoom, GotRoom, Rooms
<1>2. [GotRoom(s) EXCEPT !.idle = FALSE] \in Rooms
    BY <1>1 DEF Rooms
<1>3. room \in [Sfus -> Rooms]
    BY DEF TypeOK, RoomTypeOK, Rooms, wsVars
<1>4. room' \in [Sfus -> Rooms]
    BY <1>1, <1>2, <1>3 DEF EnterRoom, FindRoom
<1>. QED  BY <1>1, <1>4 DEF Rooms

\* What a notification or a response makes a client know.
LEMMA ViewTypes ==
    ASSUME TypeOK, NEW W, NEW us \in SUBSET Users, NEW ps \in SUBSET Pushers
    PROVE  /\ Tell(W, us) \in [Sockets -> SUBSET Users]
           /\ Announce(W, ps) \in [Sockets -> SUBSET Pushers]
           /\ Untell(W, us) \in [Sockets -> SUBSET Users]
           /\ Withdraw(W, us) \in [Sockets -> SUBSET Pushers]
  BY DEF TypeOK, ViewTypeOK, Tell, Announce, Untell, Withdraw

\* The records of users_.
LEMMA UserRecTypes ==
    /\ NoUser \in UserRecs
    /\ \A cb \in Sockets \cup {NoWs}, a \in BOOLEAN : NewRtcUser(cb, a) \in UserRecs
    /\ \A ps \in SUBSET Pushers : NewRemoteUser(ps) \in UserRecs
<1>1. NoUser \in UserRecs
    BY DEF NoUser, UserRecs
<1>2. \A r \in UserRecs, cb \in Sockets \cup {NoWs}, a \in BOOLEAN :
          [r EXCEPT !.in = TRUE, !.cb = cb, !.audience = a] \in UserRecs
    BY DEF UserRecs
<1>3. \A r \in UserRecs, ps \in SUBSET Pushers :
          [r EXCEPT !.in = TRUE, !.remote = TRUE, !.pushers = ps] \in UserRecs
    BY DEF UserRecs
<1>. QED  BY <1>1, <1>2, <1>3, Zenon DEF NewRtcUser, NewRemoteUser

\* UpdateHeartbeat.
LEMMA BeatType ==
    ASSUME TypeOK, NEW s \in Sfus, NEW us
    PROVE  Beat(s, us) \in [Sfus -> [Users -> UserRecs]]
<1>0. \A u \in Users : users[s][u] \in UserRecs
    BY DEF TypeOK, RoomTypeOK
<1>1. \A r \in UserRecs : [r EXCEPT !.age = 0] \in UserRecs
    BY DEF UserRecs
<1>. QED  BY <1>0, <1>1 DEF TypeOK, RoomTypeOK, Beat

\* The pushers and pullers a request makes.
LEMMA PushersInType ==
    ASSUME NEW s \in Sfus, NEW k \in SessIds, NEW u \in Users, NEW M \in SUBSET Media
    PROVE  PushersIn(s, k, u, M) \in SUBSET Pushers
  BY DEF PushersIn, Pushers

LEMMA PullersInType ==
    ASSUME NEW k \in SessIds, NEW u \in Users, NEW ps \in SUBSET Pushers
    PROVE  PullersIn(k, u, ps) \in SUBSET Pullers
  BY DEF PullersIn, Pullers

\* A new WebRtcSession.
LEMMA NewSessionType ==
    ASSUME TypeOK, NEW s \in Sfus, NEW k \in SessIds, NEW u \in Users,
           NEW M \in SUBSET Media, NEW ps \in SUBSET Pushers,
           GotRoom(s).gen \in 0 .. MaxGen, NewSession(s, k, u, M, ps)
    PROVE  sess' \in [Sfus -> [SessIds -> SessRecs]]
<1>. DEFINE r == [st |-> "wait", user |-> u, gen |-> GotRoom(s).gen, idle |-> FALSE,
                  pushes |-> M, pulls |-> ps]
<1>1. r \in SessRecs
    BY DEF SessRecs
<1>. HIDE DEF r
<1>2. sess' = [sess EXCEPT ![s][k] = r]
    BY DEF NewSession, r
<1>. QED  BY <1>1, <1>2 DEF TypeOK, MediaTypeOK

\* A part none of whose variables changes keeps its type.
LEMMA Frame ==
    ASSUME TypeOK
    PROVE  /\ UNCHANGED linkVars => LinkTypeOK'
           /\ UNCHANGED <<room, users, ub, wsVars>> => RoomTypeOK'
           /\ UNCHANGED relayVars => RelayTypeOK'
           /\ UNCHANGED mediaVars => MediaTypeOK'
           /\ UNCHANGED viewVars => ViewTypeOK'
<1>1. UNCHANGED linkVars => LinkTypeOK'
    BY DEF TypeOK, LinkTypeOK, linkVars
<1>2. UNCHANGED <<room, users, ub, wsVars>> => RoomTypeOK'
    BY DEF TypeOK, RoomTypeOK, wsVars
<1>3. UNCHANGED relayVars => RelayTypeOK'
    BY DEF TypeOK, RelayTypeOK, relayVars
<1>4. UNCHANGED mediaVars => MediaTypeOK'
    BY DEF TypeOK, MediaTypeOK, mediaVars
<1>5. UNCHANGED viewVars => ViewTypeOK'
    BY DEF TypeOK, ViewTypeOK, viewVars
<1>. QED  BY <1>1, <1>2, <1>3, <1>4, <1>5

\* The RtcUser of one user changes.
LEMMA UserUpdate ==
    ASSUME TypeOK, NEW s \in Sfus, NEW u \in Users, NEW r \in UserRecs
    PROVE  [users EXCEPT ![s][u] = r] \in [Sfus -> [Users -> UserRecs]]
  BY DEF TypeOK, RoomTypeOK

\* One field, or two, of an RtcUser change.
LEMMA UserFields ==
    ASSUME NEW r \in UserRecs
    PROVE  /\ \A a \in BOOLEAN : [r EXCEPT !.audience = a] \in UserRecs
           /\ [r EXCEPT !.cb = NoWs] \in UserRecs
           /\ \A ps \in SUBSET Pushers :
                  /\ [r EXCEPT !.pushers = ps, !.age = 0] \in UserRecs
                  /\ [r EXCEPT !.remote = TRUE, !.pushers = ps] \in UserRecs
           /\ r.age < 2 => [r EXCEPT !.age = r.age + 1] \in UserRecs
           /\ r.pushers \in SUBSET Pushers /\ r.audience \in BOOLEAN
<1>1. \A a \in BOOLEAN : [r EXCEPT !.audience = a] \in UserRecs
    BY DEF UserRecs
<1>2. [r EXCEPT !.cb = NoWs] \in UserRecs
    BY DEF UserRecs
<1>3. ASSUME NEW ps \in SUBSET Pushers
      PROVE  [r EXCEPT !.pushers = ps, !.age = 0] \in UserRecs
  <2>1. [r EXCEPT !.pushers = ps] \in UserRecs
      BY DEF UserRecs
  <2>2. \A q \in UserRecs : [q EXCEPT !.age = 0] \in UserRecs
      BY DEF UserRecs
  <2>. QED  BY <2>1, <2>2, Zenon
<1>4. \A ps \in SUBSET Pushers : [r EXCEPT !.remote = TRUE, !.pushers = ps] \in UserRecs
    BY DEF UserRecs
<1>5. r.age < 2 => [r EXCEPT !.age = r.age + 1] \in UserRecs
    BY DEF UserRecs
<1>6. r.pushers \in SUBSET Pushers /\ r.audience \in BOOLEAN
    BY DEF UserRecs
<1>. QED  BY <1>1, <1>2, <1>3, <1>4, <1>5, <1>6, Zenon

\* The pushers a room lists for some of its users.
LEMMA ListedType ==
    ASSUME TypeOK, NEW s \in Sfus, NEW us \in SUBSET Users
    PROVE  UNION {users[s][v].pushers : v \in us} \in SUBSET Pushers
<1>1. \A v \in us : users[s][v] \in UserRecs
    BY DEF TypeOK, RoomTypeOK
<1>2. \A v \in us : users[s][v].pushers \in SUBSET Pushers
    BY <1>1, UserFields
<1>. QED  BY <1>2

-----------------------------------------------------------------------------
(* The actions keep TypeOK. *)

LEMMA JoinType ==
    ASSUME TypeOK, NEW w \in Sockets, NEW u \in Users, NEW a \in BOOLEAN,
           HandleJoinRequest(w, u, a)
    PROVE  TypeOK'
<1>. DEFINE s == Home[w]
<1>1. s \in Sfus
    BY RoomAssumption
<1>2. room' \in [Sfus -> Rooms] /\ GotRoom(s).gen \in 0 .. MaxGen
    BY <1>1, GetRoomType DEF HandleJoinRequest
<1>3. /\ ws' \in [Sockets -> {"idle", "joined", "broken", "gone"}]
      /\ who' \in [Sockets -> Users \cup {NoWs}]
    BY DEF HandleJoinRequest, TypeOK, RoomTypeOK
<1>4. RelayTypeOK' /\ MediaTypeOK' /\ UNCHANGED ub
    BY Frame DEF HandleJoinRequest
<1>. HIDE DEF s
<1>5. CASE JoinNew(w, u, a)
  <2>. DEFINE listed == {v \in In(s) : ~users[s][v].audience}
              W == IF a THEN {} ELSE LocalCbs(s, u)
  <2>1. NewRtcUser(w, a) \in UserRecs
      BY UserRecTypes
  <2>2. users' \in [Sfus -> [Users -> UserRecs]]
      BY <1>1, <1>5, <2>1, UserUpdate DEF JoinNew, s
  <2>3. listed \in SUBSET Users
      BY DEF In
  <2>4. Tell(W, {u}) \in [Sockets -> SUBSET Users]
      BY <1>1, ViewTypes
  <2>5. /\ told' = [Tell(W, {u}) EXCEPT ![w] = (@ \cap {u}) \cup listed]
        /\ heard' = [heard EXCEPT ![w] =
               (@ \cap PushersOf(u)) \cup UNION {users[s][v].pushers : v \in listed}]
      BY <1>5 DEF JoinNew, s
  <2>6. UNION {users[s][v].pushers : v \in listed} \in SUBSET Pushers
      BY <1>1, <2>3, ListedType
  <2>. HIDE DEF listed, W
  <2>7. ViewTypeOK'
      BY <2>3, <2>4, <2>5, <2>6 DEF TypeOK, ViewTypeOK
  <2>8. LinkTypeOK'
      BY <1>1, <1>2, <1>5, SendType, MsgTypes, OneMsg DEF JoinNew, s
  <2>. QED  BY <1>2, <1>3, <1>4, <2>2, <2>7, <2>8 DEF TypeOK, RoomTypeOK, Rooms, wsVars
<1>6. CASE ReConnect(w, u, a)
  <2>. DEFINE others == In(s) \ {u}
  <2>1. users[s][u] \in UserRecs
      BY <1>1 DEF TypeOK, RoomTypeOK
  <2>2. users' = [users EXCEPT ![s][u] = [users[s][u] EXCEPT !.audience = a]]
      BY <1>6 DEF ReConnect, s
  <2>3. users' \in [Sfus -> [Users -> UserRecs]]
      BY <1>1, <2>1, <2>2, UserFields, UserUpdate
  <2>4. others \in SUBSET Users
      BY DEF In
  <2>5. Tell(LocalCbs(s, u), {u}) \in [Sockets -> SUBSET Users]
      BY <1>1, ViewTypes
  <2>6. /\ told' = [Tell(LocalCbs(s, u), {u}) EXCEPT ![w] = (@ \cap {u}) \cup others]
        /\ heard' = [heard EXCEPT ![w] =
               (@ \cap PushersOf(u)) \cup UNION {users[s][v].pushers : v \in others}]
      BY <1>6 DEF ReConnect, s
  <2>7. UNION {users[s][v].pushers : v \in others} \in SUBSET Pushers
      BY <1>1, <2>4, ListedType
  <2>. HIDE DEF others
  <2>8. ViewTypeOK'
      BY <2>4, <2>5, <2>6, <2>7 DEF TypeOK, ViewTypeOK
  <2>9. LinkTypeOK'
      BY <1>1, <1>6, SendType, MsgTypes, OneMsg DEF ReConnect, s
  <2>. QED  BY <1>2, <1>3, <1>4, <2>3, <2>8, <2>9 DEF TypeOK, RoomTypeOK, Rooms, wsVars
<1>. QED  BY <1>5, <1>6 DEF HandleJoinRequest

LEMMA HeartbeatType ==
    ASSUME TypeOK, NEW w \in Sockets, NEW u, HandleHeartbeatRequest(w, u)
    PROVE  TypeOK'
<1>1. Home[w] \in Sfus
    BY RoomAssumption
<1>2. users' \in [Sfus -> [Users -> UserRecs]] /\ room' \in [Sfus -> Rooms]
    BY <1>1, GetRoomType, BeatType DEF HandleHeartbeatRequest
<1>3. LinkTypeOK' /\ RelayTypeOK' /\ MediaTypeOK' /\ ViewTypeOK'
    BY Frame DEF HandleHeartbeatRequest
<1>4. RoomTypeOK'
    BY <1>2 DEF HandleHeartbeatRequest, TypeOK, RoomTypeOK, Rooms, wsVars
<1>. QED  BY <1>3, <1>4 DEF TypeOK

\* The step is undefined: only ub changes.
LEMMA UndefinedType ==
    ASSUME TypeOK, NEW s \in Sfus, Undefined(s)
    PROVE  TypeOK'
<1>1. LinkTypeOK' /\ RelayTypeOK' /\ MediaTypeOK' /\ ViewTypeOK'
    BY Frame DEF Undefined
<1>2. RoomTypeOK'
    BY DEF Undefined, TypeOK, RoomTypeOK, wsVars
<1>. QED  BY <1>1, <1>2 DEF TypeOK

LEMMA PushType ==
    ASSUME TypeOK, NEW w \in Sockets, NEW u \in Users, NEW k \in SessIds,
           NEW M \in SUBSET Media, HandlePushRequest(w, u, k, M)
    PROVE  TypeOK'
<1>. DEFINE s == Home[w]
            new == PushersIn(s, k, u, M)
            all == users[s][u].pushers \cup new
<1>1. s \in Sfus /\ u \in Users
    BY RoomAssumption
<1>2. room' \in [Sfus -> Rooms] /\ GotRoom(s).gen \in 0 .. MaxGen
    BY <1>1, GetRoomType DEF HandlePushRequest
<1>3. new \in SUBSET Pushers
    BY <1>1, PushersInType
<1>4. users[s][u] \in UserRecs
    BY <1>1 DEF TypeOK, RoomTypeOK
<1>5. all \in SUBSET Pushers
    BY <1>3, <1>4, UserFields
<1>6. /\ NewSession(s, k, u, M, {})
      /\ pushers' = [pushers EXCEPT ![s] = @ \cup new]
      /\ UNCHANGED <<pullers, relayVars, ub, wsVars, told>>
    BY DEF HandlePushRequest
<1>7. \/ /\ users' = [users EXCEPT ![s][u] = [users[s][u] EXCEPT !.pushers = all, !.age = 0]]
         /\ heard' = Announce(LocalCbs(s, u), all)
         /\ Send(s, <<PushMsg(u, all)>>)
      \/ UNCHANGED <<linkVars, users, heard>>
    BY DEF HandlePushRequest
<1>. HIDE DEF s, new, all
<1>8. sess' \in [Sfus -> [SessIds -> SessRecs]]
  <2>1. {} \in SUBSET Pushers
      OBVIOUS
  <2>. QED  BY <1>1, <1>2, <1>6, <2>1, NewSessionType, Zenon
<1>9. MediaTypeOK'
    BY <1>3, <1>6, <1>8 DEF TypeOK, MediaTypeOK
<1>10. RelayTypeOK'
    BY <1>6, Frame
<1>11. CASE UNCHANGED <<linkVars, users, heard>>
  <2>1. LinkTypeOK' /\ ViewTypeOK'
      BY <1>6, <1>11, Frame DEF viewVars
  <2>2. RoomTypeOK'
      BY <1>2, <1>6, <1>11 DEF TypeOK, RoomTypeOK, Rooms, wsVars
  <2>. QED  BY <1>9, <1>10, <2>1, <2>2 DEF TypeOK
<1>12. CASE /\ users' = [users EXCEPT ![s][u] =
                           [users[s][u] EXCEPT !.pushers = all, !.age = 0]]
            /\ heard' = Announce(LocalCbs(s, u), all)
            /\ Send(s, <<PushMsg(u, all)>>)
  <2>1. users' \in [Sfus -> [Users -> UserRecs]]
      BY <1>1, <1>4, <1>5, <1>12, UserFields, UserUpdate
  <2>2. RoomTypeOK'
      BY <1>2, <1>6, <2>1 DEF TypeOK, RoomTypeOK, Rooms, wsVars
  <2>3. heard' \in [Sockets -> SUBSET Pushers]
      BY <1>5, <1>12, ViewTypes
  <2>4. ViewTypeOK'
      BY <1>6, <2>3 DEF TypeOK, ViewTypeOK
  <2>5. LinkTypeOK'
      BY <1>1, <1>5, <1>12, SendType, MsgTypes, OneMsg
  <2>. QED  BY <1>9, <1>10, <2>2, <2>4, <2>5 DEF TypeOK
<1>. QED  BY <1>7, <1>11, <1>12

LEMMA PullUnknownType ==
    ASSUME TypeOK, NEW w \in Sockets, NEW t \in Users, PullUnknown(w, t)
    PROVE  TypeOK'
<1>1. room' \in [Sfus -> Rooms]
    BY RoomAssumption, GetRoomType DEF PullUnknown
<1>2. LinkTypeOK' /\ RelayTypeOK' /\ MediaTypeOK' /\ ViewTypeOK'
    BY Frame DEF PullUnknown
<1>3. RoomTypeOK'
    BY <1>1 DEF PullUnknown, TypeOK, RoomTypeOK, Rooms, wsVars
<1>. QED  BY <1>2, <1>3 DEF TypeOK

LEMMA PullSdpType ==
    ASSUME TypeOK, NEW w \in Sockets, NEW u \in Users, NEW t \in Users,
           NEW P \in SUBSET Pushers, NEW k \in SessIds, HandlePullSdp(w, u, t, P, k)
    PROVE  TypeOK'
<1>. DEFINE s == Home[w]
            found == P \cap pushers[s]
<1>1. s \in Sfus /\ u \in Users
    BY RoomAssumption
<1>2. room' \in [Sfus -> Rooms] /\ GotRoom(s).gen \in 0 .. MaxGen
    BY <1>1, GetRoomType DEF HandlePullSdp
<1>3. PullersIn(k, u, found) \in SUBSET Pullers
    BY <1>1, PullersInType
<1>4. /\ NewSession(s, k, u, {}, found)
      /\ pullers' = [pullers EXCEPT ![s] = @ \cup PullersIn(k, u, found)]
      /\ UNCHANGED <<linkVars, users, pushers, relayVars, ub, wsVars, viewVars>>
    BY DEF HandlePullSdp
<1>5. sess' \in [Sfus -> [SessIds -> SessRecs]]
  <2>1. {} \in SUBSET Media /\ found \in SUBSET Pushers
      OBVIOUS
  <2>. QED  BY <1>1, <1>2, <1>4, <2>1, NewSessionType, Zenon
<1>. HIDE DEF s, found
<1>6. MediaTypeOK'
    BY <1>3, <1>4, <1>5 DEF TypeOK, MediaTypeOK
<1>7. RoomTypeOK'
    BY <1>2, <1>4 DEF TypeOK, RoomTypeOK, Rooms, wsVars
<1>8. LinkTypeOK' /\ RelayTypeOK' /\ ViewTypeOK'
    BY <1>4, Frame
<1>. QED  BY <1>6, <1>7, <1>8 DEF TypeOK

\* The requests for a set of pushers are a sequence of messages.
LEMMA PullMsgsType ==
    ASSUME NEW t \in Users, NEW P \in SUBSET Pushers, NEW to \in Targets
    PROVE  LET q == SetToSeq(P)
           IN  [i \in 1 .. Len(q) |-> PullMsg(t, q[i], to)] \in Seq(UpMsgs)
<1>. DEFINE q == SetToSeq(P)
<1>1. q \in Seq(P)
    BY PushersFinite, FS_Subset, SetToSeqType, Zenon
<1>. HIDE DEF q
<1>2. \A i \in 1 .. Len(q) : q[i] \in Pushers
    BY <1>1
<1>3. \A i \in 1 .. Len(q) : PullMsg(t, q[i], to) \in UpMsgs
    BY <1>2, MsgTypes
<1>4. Len(q) \in Nat
    BY <1>1
<1>5. [i \in 1 .. Len(q) |-> PullMsg(t, q[i], to)] \in Seq(UpMsgs)
    BY <1>3, <1>4
<1>. QED  BY <1>5 DEF q

LEMMA RemotePullType ==
    ASSUME TypeOK, NEW w \in Sockets, NEW u \in Users, NEW t \in Users,
           NEW P \in SUBSET Pushers, NEW k \in SessIds, HandleRemotePullSdp(w, u, t, P, k)
    PROVE  TypeOK'
<1>. DEFINE s == Home[w]
            known == P \cap users[s][t].pushers
            fresh == known # {} /\ recvByUser[s][t] = 0
            port == IF fresh THEN lastPort[s] + 1 ELSE recvByUser[s][t]
            byPusher == {e \in recvByPusher[s] : e.pusher \notin known}
                            \cup {[pusher |-> p, port |-> port] : p \in known}
            found == {p \in P : \E e \in byPusher : e.pusher = p}
            q == SetToSeq(known)
            msgs == [i \in 1 .. Len(q) |-> PullMsg(t, q[i], [sfu |-> s, port |-> port])]
<1>1. s \in Sfus /\ u \in Users
    BY RoomAssumption
<1>2. room' \in [Sfus -> Rooms] /\ GotRoom(s).gen \in 0 .. MaxGen
    BY <1>1, GetRoomType DEF HandleRemotePullSdp
<1>3. port <= MaxPort /\ port \in 0 .. MaxPort
  <2>1. port <= MaxPort
      BY DEF HandleRemotePullSdp
  <2>2. lastPort[s] \in 0 .. MaxPort /\ recvByUser[s][t] \in 0 .. MaxPort /\ MaxPort \in Nat
      BY <1>1, RoomAssumption DEF TypeOK, RelayTypeOK
  <2>3. port = lastPort[s] + 1 \/ port = recvByUser[s][t]
      OBVIOUS
  <2>. HIDE DEF port
  <2>. QED  BY <2>1, <2>2, <2>3
<1>4. known # {} => port \in Ports
    BY <1>1, <1>3, RoomAssumption DEF TypeOK, RelayTypeOK, Ports
<1>5. known \in SUBSET Pushers /\ found \in SUBSET Pushers
    OBVIOUS
<1>6. byPusher \in SUBSET [pusher : Pushers, port : Ports]
    BY <1>1, <1>4 DEF TypeOK, RelayTypeOK
<1>7. /\ NewSession(s, k, u, {}, found)
      /\ recvByUser' = [recvByUser EXCEPT ![s][t] = port]
      /\ recvByPusher' = [recvByPusher EXCEPT ![s] = byPusher]
      /\ lastPort' = [lastPort EXCEPT ![s] = IF fresh THEN port ELSE @]
      /\ relayIdle' = relayIdle
      /\ pullers' = [pullers EXCEPT ![s] = @ \cup PullersIn(k, u, found)]
      /\ Send(s, msgs)
      /\ UNCHANGED <<users, pushers, sendRelay, ub, wsVars, viewVars>>
    BY DEF HandleRemotePullSdp
<1>8. msgs \in Seq(UpMsgs)
  <2>1. CASE known # {}
    <3>1. [sfu |-> s, port |-> port] \in Targets
        BY <1>1, <1>4, <2>1 DEF Targets
    <3>. QED  BY <1>5, <3>1, PullMsgsType
  <2>2. CASE known = {}
    <3>1. SetToSeq({}) \in Seq({})
        BY FS_EmptySet, SetToSeqType
    <3>2. \A z \in Seq({}) : z = <<>>
        OBVIOUS
    <3>3. q = <<>>
        BY <2>2, <3>1, <3>2
    <3>4. Len(q) = 0
        BY <3>3
    <3>. QED  BY <3>4
  <2>. QED  BY <2>1, <2>2
<1>. HIDE DEF s, known, fresh, port, byPusher, found, q, msgs
<1>9. sess' \in [Sfus -> [SessIds -> SessRecs]]
    BY <1>1, <1>2, <1>5, <1>7, NewSessionType
<1>10. PullersIn(k, u, found) \in SUBSET Pullers
    BY <1>1, <1>5, PullersInType
<1>11. MediaTypeOK'
    BY <1>7, <1>9, <1>10 DEF TypeOK, MediaTypeOK
<1>12. RelayTypeOK'
    BY <1>3, <1>6, <1>7 DEF TypeOK, RelayTypeOK
<1>13. RoomTypeOK'
    BY <1>2, <1>7 DEF TypeOK, RoomTypeOK, Rooms, wsVars
<1>14. LinkTypeOK' /\ ViewTypeOK'
    BY <1>1, <1>7, <1>8, SendType, Frame
<1>. QED  BY <1>11, <1>12, <1>13, <1>14 DEF TypeOK

LEMMA PullType ==
    ASSUME TypeOK, NEW w \in Sockets, NEW u \in Users, HandlePullRequest(w, u)
    PROVE  TypeOK'
<1>1. PICK t \in Users :
          \/ PullUnknown(w, t)
          \/ \E P \in SUBSET {p \in heard[w] : p.user = t}, k \in SessIds :
                 HandlePullSdp(w, u, t, P, k) \/ HandleRemotePullSdp(w, u, t, P, k)
    BY DEF HandlePullRequest
<1>2. CASE PullUnknown(w, t)
    BY <1>2, PullUnknownType
<1>3. ASSUME NEW P \in SUBSET {p \in heard[w] : p.user = t}, NEW k \in SessIds,
             HandlePullSdp(w, u, t, P, k) \/ HandleRemotePullSdp(w, u, t, P, k)
      PROVE  TypeOK'
  <2>1. P \in SUBSET Pushers
      BY DEF TypeOK, ViewTypeOK
  <2>. QED  BY <1>3, <2>1, PullSdpType, RemotePullType
<1>. QED  BY <1>1, <1>2, <1>3

LEMMA WsEndType ==
    ASSUME TypeOK, NEW w \in Sockets, WsGone(w), DisconnectUser(w)
    PROVE  TypeOK'
<1>. DEFINE s == Home[w]
            u == who[w]
<1>1. s \in Sfus
    BY RoomAssumption
<1>2. /\ ws' \in [Sockets -> {"idle", "joined", "broken", "gone"}]
      /\ ViewTypeOK'
    BY DEF WsGone, TypeOK, ViewTypeOK, RoomTypeOK
<1>3. RelayTypeOK' /\ MediaTypeOK' /\ UNCHANGED <<ub, who>>
    BY Frame DEF DisconnectUser
<1>4. CASE UNCHANGED <<linkVars, room, users>>
  <2>1. LinkTypeOK'
      BY <1>4, Frame
  <2>2. RoomTypeOK'
      BY <1>2, <1>3, <1>4 DEF TypeOK, RoomTypeOK
  <2>. QED  BY <1>2, <1>3, <2>1, <2>2 DEF TypeOK
<1>5. CASE u # NoWs
  <2>1. u \in Users
      BY <1>5 DEF TypeOK, RoomTypeOK
  <2>2. room' \in [Sfus -> Rooms]
      BY <1>1, <1>5, GetRoomType DEF DisconnectUser
  <2>3. users[s][u] \in UserRecs
      BY <1>1, <2>1 DEF TypeOK, RoomTypeOK
  <2>4. \/ /\ users' = [users EXCEPT ![s][u] = [users[s][u] EXCEPT !.cb = NoWs]]
           /\ Send(s, <<UserMsg("userDisconnect", u)>>)
        \/ UNCHANGED <<linkVars, users>>
      BY <1>5 DEF DisconnectUser
  <2>. HIDE DEF s, u
  <2>5. users' \in [Sfus -> [Users -> UserRecs]]
    <3>1. [users EXCEPT ![s][u] = [users[s][u] EXCEPT !.cb = NoWs]]
              \in [Sfus -> [Users -> UserRecs]]
        BY <1>1, <2>1, <2>3, UserFields, UserUpdate
    <3>. QED  BY <2>4, <3>1 DEF TypeOK, RoomTypeOK
  <2>6. LinkTypeOK'
    <3>1. CASE Send(s, <<UserMsg("userDisconnect", u)>>)
        BY <1>1, <2>1, <3>1, SendType, MsgTypes, OneMsg
    <3>2. CASE UNCHANGED linkVars
        BY <3>2, Frame
    <3>. QED  BY <2>4, <3>1, <3>2
  <2>7. RoomTypeOK'
      BY <1>2, <1>3, <2>2, <2>5 DEF TypeOK, RoomTypeOK, Rooms
  <2>. QED  BY <1>2, <1>3, <2>6, <2>7 DEF TypeOK
<1>. QED  BY <1>4, <1>5 DEF DisconnectUser

LEMMA JoinElsewhereType ==
    ASSUME TypeOK, NEW w \in Sockets, HandleJoinRequestElsewhere(w)
    PROVE  TypeOK'
<1>1. LinkTypeOK' /\ RelayTypeOK' /\ MediaTypeOK' /\ ViewTypeOK'
    BY Frame DEF HandleJoinRequestElsewhere
<1>2. RoomTypeOK'
    BY DEF HandleJoinRequestElsewhere, TypeOK, RoomTypeOK
<1>. QED  BY <1>1, <1>2 DEF TypeOK

LEMMA WsReadErrorType ==
    ASSUME TypeOK, NEW w \in Sockets, WsReadError(w)
    PROVE  TypeOK'
<1>1. LinkTypeOK' /\ RelayTypeOK' /\ MediaTypeOK' /\ ViewTypeOK'
    BY Frame DEF WsReadError
<1>2. RoomTypeOK'
    BY DEF WsReadError, TypeOK, RoomTypeOK
<1>. QED  BY <1>1, <1>2 DEF TypeOK

LEMMA ClientType ==
    ASSUME TypeOK, NEW w \in Sockets, ClientNext(w)
    PROVE  TypeOK'
<1>1. ASSUME NEW u \in Users, NEW a \in Audiences, HandleJoinRequest(w, u, a)
      PROVE  TypeOK'
    BY <1>1, JoinType, RoomAssumption
<1>2. ASSUME NEW u, HandleHeartbeatRequest(w, u) PROVE TypeOK'
    BY <1>2, HeartbeatType
<1>3. ASSUME NEW u \in Users, NEW k \in SessIds, NEW M \in Offers,
             HandlePushRequest(w, u, k, M)
      PROVE  TypeOK'
    BY <1>3, PushType, RoomAssumption
<1>4. ASSUME NEW u \in Users, HandlePullRequest(w, u) PROVE TypeOK'
    BY <1>4, PullType
<1>5. CASE WsOnClose(w)
    BY <1>5, WsEndType DEF WsOnClose
<1>6. CASE WsReadError(w)
    BY <1>6, WsReadErrorType
<1>7. CASE WsSweep(w)
    BY <1>7, WsEndType DEF WsSweep
<1>8. CASE HandleJoinRequestElsewhere(w)
    BY <1>8, JoinElsewhereType
<1>9. \A u \in Speaks[w] : u \in Users
    BY RoomAssumption
<1>. QED
    BY <1>1, <1>2, <1>3, <1>4, <1>5, <1>6, <1>7, <1>8, <1>9, Zenon DEF ClientNext

-----------------------------------------------------------------------------
LEMMA WhipType ==
    ASSUME TypeOK, NEW s \in Sfus, NEW u \in Users, NEW k \in SessIds,
           NEW M \in SUBSET Media, WhipHandle(s, u, k, M)
    PROVE  TypeOK'
<1>. DEFINE new == PushersIn(s, k, u, M)
            was == IF users[s][u].in THEN users[s][u] ELSE NewRtcUser(NoWs, FALSE)
            all == was.pushers \cup new
            join == JoinMsg(u, was.audience, GotRoom(s).gen)
            msgs == IF M = {} THEN <<join>> ELSE <<join, PushMsg(u, all)>>
            r == IF M = {} THEN was ELSE [was EXCEPT !.pushers = all, !.age = 0]
<1>1. room' \in [Sfus -> Rooms] /\ GotRoom(s).gen \in 0 .. MaxGen
    BY GetRoomType DEF WhipHandle
<1>2. new \in SUBSET Pushers
    BY PushersInType
<1>3. was \in UserRecs
  <2>1. users[s][u] \in UserRecs
      BY DEF TypeOK, RoomTypeOK
  <2>2. NewRtcUser(NoWs, FALSE) \in UserRecs
      BY UserRecTypes
  <2>. QED  BY <2>1, <2>2
<1>4. /\ NewSession(s, k, u, M, {})
      /\ pushers' = [pushers EXCEPT ![s] = @ \cup new]
      /\ users' = [users EXCEPT ![s][u] = r]
      /\ told' = Tell(LocalCbs(s, u), {u})
      /\ heard' = Announce(LocalCbs(s, u), all)
      /\ Send(s, msgs)
      /\ UNCHANGED <<pullers, relayVars, ub, wsVars>>
    BY DEF WhipHandle
<1>. HIDE DEF new, was
<1>5. all \in SUBSET Pushers /\ was.audience \in BOOLEAN
    BY <1>2, <1>3, UserFields
<1>. HIDE DEF all
<1>6. r \in UserRecs
  <2>1. [was EXCEPT !.pushers = all, !.age = 0] \in UserRecs
      BY <1>3, <1>5, UserFields, Zenon
  <2>. QED  BY <1>3, <2>1
<1>7. join \in UpMsgs /\ PushMsg(u, all) \in UpMsgs
    BY <1>1, <1>5, MsgTypes
<1>. HIDE DEF join, r
<1>8. msgs \in Seq(UpMsgs)
    BY <1>7
<1>. HIDE DEF msgs
<1>9. sess' \in [Sfus -> [SessIds -> SessRecs]]
  <2>1. {} \in SUBSET Pushers
      OBVIOUS
  <2>. QED  BY <1>1, <1>4, <2>1, NewSessionType, Zenon
<1>10. MediaTypeOK'
    BY <1>2, <1>4, <1>9 DEF TypeOK, MediaTypeOK
<1>11. RoomTypeOK'
  <2>1. users' \in [Sfus -> [Users -> UserRecs]]
      BY <1>4, <1>6, UserUpdate
  <2>. QED  BY <1>1, <1>4, <2>1 DEF TypeOK, RoomTypeOK, Rooms, wsVars
<1>12. ViewTypeOK'
  <2>1. {u} \in SUBSET Users
      OBVIOUS
  <2>. QED  BY <1>4, <1>5, <2>1, ViewTypes, Zenon DEF ViewTypeOK
<1>13. LinkTypeOK'
    BY <1>4, <1>8, SendType
<1>14. RelayTypeOK'
    BY <1>4, Frame
<1>. QED  BY <1>10, <1>11, <1>12, <1>13, <1>14 DEF TypeOK

\* The Room object goes with its maps.
LEMMA DropRoomType ==
    ASSUME TypeOK, NEW s \in Sfus, DropRoom(s)
    PROVE  /\ LinkTypeOK' /\ RoomTypeOK' /\ RelayTypeOK' /\ ViewTypeOK'
           /\ pushers' \in [Sfus -> SUBSET Pushers]
           /\ pullers' \in [Sfus -> SUBSET Pullers]
<1>1. LinkTypeOK' /\ ViewTypeOK'
    BY Frame DEF DropRoom
<1>2. room' \in [Sfus -> Rooms]
    BY DEF DropRoom, TypeOK, RoomTypeOK, Rooms, wsVars
<1>3. [u \in Users |-> NoUser] \in [Users -> UserRecs]
    BY UserRecTypes
<1>4. users' \in [Sfus -> [Users -> UserRecs]]
    BY <1>3 DEF DropRoom, TypeOK, RoomTypeOK
<1>5. RoomTypeOK'
    BY <1>2, <1>4 DEF DropRoom, TypeOK, RoomTypeOK, Rooms, wsVars
<1>6. [u \in Users |-> NoRelay] \in [Users -> SendRelays]
    BY DEF NoRelay, SendRelays
<1>7. sendRelay' \in [Sfus -> [Users -> SendRelays]]
    BY <1>6 DEF DropRoom, TypeOK, RelayTypeOK
<1>8. RelayTypeOK'
    BY <1>7, RoomAssumption DEF DropRoom, TypeOK, RelayTypeOK
<1>9. pushers' \in [Sfus -> SUBSET Pushers] /\ pullers' \in [Sfus -> SUBSET Pullers]
    BY DEF DropRoom, TypeOK, MediaTypeOK
<1>. QED  BY <1>1, <1>5, <1>8, <1>9

\* A session that has gone.
LEMMA GoneSessType == GoneSess \in SessRecs
<1>1. NoSess \in SessRecs
    BY RoomAssumption DEF NoSess, SessRecs
<1>2. \A r \in SessRecs : [r EXCEPT !.st = "gone"] \in SessRecs
    BY DEF SessRecs
<1>. QED  BY <1>1, <1>2 DEF GoneSess

LEMMA WhipDeleteType ==
    ASSUME TypeOK, NEW s \in Sfus, WhipDeleteHandle(s)
    PROVE  TypeOK'
<1>. DEFINE closing == {k \in SessIds : sess[s][k].st = "up"}
            rest == [k \in SessIds |-> IF k \in closing THEN GoneSess ELSE sess[s][k]]
<1>1. CASE Undefined(s)
    BY <1>1, UndefinedType
<1>2. CASE DropRoom(s) /\ sess' = [sess EXCEPT ![s] = rest]
  <2>1. rest \in [SessIds -> SessRecs]
      BY GoneSessType DEF TypeOK, MediaTypeOK
  <2>. HIDE DEF rest
  <2>2. sess' \in [Sfus -> [SessIds -> SessRecs]]
      BY <1>2, <2>1 DEF TypeOK, MediaTypeOK
  <2>. QED  BY <1>2, <2>2, DropRoomType DEF TypeOK, MediaTypeOK
<1>. QED  BY <1>1, <1>2 DEF WhipDeleteHandle

LEMMA RoomTimersType ==
    ASSUME TypeOK, NEW s \in Sfus, RoomMgrOnTimer(s) \/ RoomIdles(s)
    PROVE  TypeOK'
<1>1. CASE RoomMgrOnTimer(s)
    BY <1>1, DropRoomType DEF RoomMgrOnTimer, TypeOK, MediaTypeOK
<1>2. CASE RoomIdles(s)
  <2>1. LinkTypeOK' /\ RelayTypeOK' /\ MediaTypeOK' /\ ViewTypeOK'
      BY <1>2, Frame DEF RoomIdles
  <2>2. RoomTypeOK'
      BY <1>2 DEF RoomIdles, TypeOK, RoomTypeOK, wsVars
  <2>. QED  BY <2>1, <2>2 DEF TypeOK
<1>. QED  BY <1>1, <1>2

-----------------------------------------------------------------------------
\* One field of a WebRtcSession changes.
LEMMA SessUpdate ==
    ASSUME TypeOK, NEW s \in Sfus, NEW k \in SessIds, NEW r \in SessRecs
    PROVE  [sess EXCEPT ![s][k] = r] \in [Sfus -> [SessIds -> SessRecs]]
  BY DEF TypeOK, MediaTypeOK

LEMMA SessFields ==
    ASSUME NEW r \in SessRecs
    PROVE  /\ \A b \in BOOLEAN : [r EXCEPT !.idle = b] \in SessRecs
           /\ [r EXCEPT !.st = "up", !.idle = FALSE] \in SessRecs
           /\ r.pulls \in SUBSET Pushers
  BY DEF SessRecs

\* A session is heard, or has been silent for 35 s.
LEMMA SessionStepType ==
    ASSUME TypeOK, NEW s \in Sfus, NEW k \in SessIds, NEW r \in SessRecs,
           sess' = [sess EXCEPT ![s][k] = r],
           UNCHANGED <<linkVars, room, users, relayVars, pushers, pullers, ub, wsVars, viewVars>>
    PROVE  TypeOK'
<1>1. sess' \in [Sfus -> [SessIds -> SessRecs]]
    BY SessUpdate
<1>2. LinkTypeOK' /\ RoomTypeOK' /\ RelayTypeOK' /\ ViewTypeOK'
    BY Frame
<1>3. MediaTypeOK'
    BY <1>1 DEF TypeOK, MediaTypeOK
<1>. QED  BY <1>2, <1>3 DEF TypeOK

LEMMA StunType ==
    ASSUME TypeOK, NEW s \in Sfus, NEW k \in SessIds, HandleStunPacket(s, k)
    PROVE  TypeOK'
<1>1. sess[s][k] \in SessRecs
    BY DEF TypeOK, MediaTypeOK
<1>2. sess' = [sess EXCEPT ![s][k] = [sess[s][k] EXCEPT !.st = "up", !.idle = FALSE]]
    BY DEF HandleStunPacket
<1>3. [sess[s][k] EXCEPT !.st = "up", !.idle = FALSE] \in SessRecs
    BY <1>1, SessFields
<1>. QED  BY <1>2, <1>3, SessionStepType DEF HandleStunPacket

LEMMA SessionIdlesType ==
    ASSUME TypeOK, NEW s \in Sfus, NEW k \in SessIds, SessionIdles(s, k)
    PROVE  TypeOK'
<1>1. sess[s][k] \in SessRecs
    BY DEF TypeOK, MediaTypeOK
<1>2. [sess[s][k] EXCEPT !.idle = TRUE] \in SessRecs
    BY <1>1, SessFields
<1>. QED  BY <1>2, SessionStepType DEF SessionIdles

LEMMA KeyFrameType ==
    ASSUME TypeOK, NEW s \in Sfus, NEW k \in SessIds, NEW p, OnKeyFrameRequest(s, k, p)
    PROVE  TypeOK'
<1>1. sess[s][k] \in SessRecs
    BY DEF TypeOK, MediaTypeOK
<1>2. [sess[s][k] EXCEPT !.idle = FALSE] \in SessRecs
    BY <1>1, SessFields
<1>3. CASE Undefined(s)
    BY <1>3, UndefinedType
<1>4. CASE ~Undefined(s)
    BY <1>2, <1>4, SessionStepType DEF OnKeyFrameRequest
<1>. QED  BY <1>3, <1>4

LEMMA RtpType ==
    ASSUME TypeOK, NEW s \in Sfus, NEW k \in SessIds, NEW x,
           OnRtpPacketFromRtcPusher(s, k, x)
    PROVE  TypeOK'
<1>1. CASE Undefined(s)
    BY <1>1, UndefinedType
<1>2. CASE ~Undefined(s)
  <2>1. PICK us : users' = Beat(s, us)
      BY <1>2 DEF OnRtpPacketFromRtcPusher
  <2>2. /\ EnterRoom(s)
        /\ sess' = [sess EXCEPT ![s][k] = [sess[s][k] EXCEPT !.idle = FALSE]]
        /\ UNCHANGED <<linkVars, relayVars, pushers, pullers, ub, wsVars, viewVars>>
      BY <1>2 DEF OnRtpPacketFromRtcPusher
  <2>3. users' \in [Sfus -> [Users -> UserRecs]] /\ room' \in [Sfus -> Rooms]
      BY <2>1, <2>2, BeatType, GetRoomType
  <2>4. RoomTypeOK'
      BY <2>2, <2>3 DEF TypeOK, RoomTypeOK, Rooms, wsVars
  <2>5. sess' \in [Sfus -> [SessIds -> SessRecs]]
    <3>1. sess[s][k] \in SessRecs
        BY DEF TypeOK, MediaTypeOK
    <3>2. [sess[s][k] EXCEPT !.idle = FALSE] \in SessRecs
        BY <3>1, SessFields
    <3>. QED  BY <2>2, <3>2, SessUpdate
  <2>6. MediaTypeOK'
      BY <2>2, <2>5 DEF TypeOK, MediaTypeOK
  <2>7. LinkTypeOK' /\ RelayTypeOK' /\ ViewTypeOK'
      BY <2>2, Frame
  <2>. QED  BY <2>4, <2>6, <2>7 DEF TypeOK
<1>. QED  BY <1>1, <1>2

LEMMA SessionTimerType ==
    ASSUME TypeOK, NEW s \in Sfus, NEW k \in SessIds, WebRtcServerOnTimer(s, k)
    PROVE  TypeOK'
<1>1. CASE Undefined(s)
    BY <1>1, UndefinedType
<1>2. CASE ~Undefined(s)
  <2>1. /\ sess' = [sess EXCEPT ![s][k] = GoneSess]
        /\ pushers' = [pushers EXCEPT ![s] = {p \in @ : p.sess # k}]
        /\ pullers' = [pullers EXCEPT ![s] = {e \in @ : e.sess # k}]
        /\ UNCHANGED <<linkVars, room, users, relayVars, ub, wsVars, viewVars>>
      BY <1>2, Zenon DEF WebRtcServerOnTimer
  <2>2. sess' \in [Sfus -> [SessIds -> SessRecs]]
      BY <2>1, GoneSessType, SessUpdate
  <2>3. /\ pushers' \in [Sfus -> SUBSET Pushers]
        /\ pullers' \in [Sfus -> SUBSET Pullers]
      BY <2>1 DEF TypeOK, MediaTypeOK
  <2>4. LinkTypeOK' /\ RoomTypeOK' /\ RelayTypeOK' /\ ViewTypeOK'
      BY <2>1, Frame
  <2>. QED  BY <2>2, <2>3, <2>4 DEF TypeOK, MediaTypeOK
<1>. QED  BY <1>1, <1>2

LEMMA PeerType ==
    ASSUME TypeOK, NEW s \in Sfus, PeerNext(s)
    PROVE  TypeOK'
<1>1. ASSUME NEW u \in WhipUsers, NEW k \in SessIds, NEW M \in Offers,
             WhipHandle(s, u, k, M)
      PROVE  TypeOK'
    BY <1>1, WhipType, RoomAssumption
<1>2. CASE WhipDeleteHandle(s)
    BY <1>2, WhipDeleteType
<1>3. ASSUME NEW k \in SessIds,
             \/ HandleStunPacket(s, k)
             \/ \E x \in Media : OnRtpPacketFromRtcPusher(s, k, x)
             \/ \E p \in sess[s][k].pulls : OnKeyFrameRequest(s, k, p)
             \/ SessionIdles(s, k)
             \/ WebRtcServerOnTimer(s, k)
      PROVE  TypeOK'
    BY <1>3, StunType, RtpType, KeyFrameType, SessionIdlesType, SessionTimerType
<1>4. ASSUME NEW u \in Users, NotifyDestroyed(s, u) \/ OnRelayKeyFrameRequest(s, u)
      PROVE  TypeOK'
    BY <1>4, UndefinedType DEF NotifyDestroyed, OnRelayKeyFrameRequest
<1>. QED  BY <1>1, <1>2, <1>3, <1>4 DEF PeerNext

-----------------------------------------------------------------------------
LEMMA UserAgesType ==
    ASSUME TypeOK, NEW s \in Sfus, NEW u \in Users, UserAges(s, u)
    PROVE  TypeOK'
<1>1. users[s][u] \in UserRecs
    BY DEF TypeOK, RoomTypeOK
<1>2. users' = [users EXCEPT ![s][u] = [users[s][u] EXCEPT !.age = users[s][u].age + 1]]
    BY DEF UserAges
<1>3. [users[s][u] EXCEPT !.age = users[s][u].age + 1] \in UserRecs
    BY <1>1, UserFields DEF UserAges
<1>4. users' \in [Sfus -> [Users -> UserRecs]]
    BY <1>2, <1>3, UserUpdate
<1>5. LinkTypeOK' /\ RelayTypeOK' /\ MediaTypeOK' /\ ViewTypeOK'
    BY Frame DEF UserAges
<1>6. RoomTypeOK'
    BY <1>4 DEF UserAges, TypeOK, RoomTypeOK, wsVars
<1>. QED  BY <1>5, <1>6 DEF TypeOK

LEMMA RelayIdlesType ==
    ASSUME TypeOK, NEW s \in Sfus, NEW port \in Ports, RelayIdles(s, port)
    PROVE  TypeOK'
<1>1. LinkTypeOK' /\ RoomTypeOK' /\ MediaTypeOK' /\ ViewTypeOK'
    BY Frame DEF RelayIdles
<1>2. RelayTypeOK'
    BY DEF RelayIdles, TypeOK, RelayTypeOK
<1>. QED  BY <1>1, <1>2 DEF TypeOK

\* The userLeave messages of a set of users are a sequence of messages.
LEMMA LeaveMsgsType ==
    ASSUME NEW us \in SUBSET Users
    PROVE  /\ SetToSeq(us) \in Seq(us)
           /\ LET q == SetToSeq(us)
              IN  [i \in 1 .. Len(q) |-> UserMsg("userLeave", q[i])] \in Seq(UpMsgs)
<1>. DEFINE q == SetToSeq(us)
<1>1. q \in Seq(us)
    BY LinkAssumption, FS_Subset, SetToSeqType, Zenon
<1>. HIDE DEF q
<1>2. \A i \in 1 .. Len(q) : q[i] \in Users
    BY <1>1
<1>3. \A i \in 1 .. Len(q) : UserMsg("userLeave", q[i]) \in UpMsgs
    BY <1>2, MsgTypes
<1>4. Len(q) \in Nat
    BY <1>1
<1>5. [i \in 1 .. Len(q) |-> UserMsg("userLeave", q[i])] \in Seq(UpMsgs)
    BY <1>3, <1>4
<1>. QED  BY <1>1, <1>5 DEF q

LEMMA RoomTimerType ==
    ASSUME TypeOK, NEW s \in Sfus, RoomOnTimer(s)
    PROVE  TypeOK'
<1>. DEFINE us == Expired(s)
            q == SetToSeq(us)
            msgs == [i \in 1 .. Len(q) |-> UserMsg("userLeave", q[i])]
<1>1. us \in SUBSET Users
    BY DEF Expired, In
<1>2. msgs \in Seq(UpMsgs)
    BY <1>1, LeaveMsgsType
<1>3. /\ users' = [users EXCEPT ![s] = [u \in Users |->
             IF u \in us THEN NoUser ELSE users[s][u]]]
      /\ pushers' = [pushers EXCEPT ![s] = {p \in @ : p.user \notin us}]
      /\ pullers' = [pullers EXCEPT ![s] = {e \in @ : e.user \notin us}]
      /\ sendRelay' = [sendRelay EXCEPT ![s] = [u \in Users |->
             IF u \in us THEN NoRelay ELSE sendRelay[s][u]]]
      /\ told' = [w \in Sockets |-> told[w] \ LeavesSeen(s, q, w)]
      /\ heard' = [w \in Sockets |->
             {p \in heard[w] : p.user \notin LeavesSeen(s, q, w)}]
      /\ Send(s, msgs)
    BY DEF RoomOnTimer, ReleaseUserResources
<1>. HIDE DEF us, q, msgs
<1>4. LinkTypeOK'
    BY <1>2, <1>3, SendType
<1>5. ViewTypeOK'
    BY <1>3 DEF TypeOK, ViewTypeOK
<1>6. MediaTypeOK'
    BY <1>3 DEF RoomOnTimer, TypeOK, MediaTypeOK
<1>7. users' \in [Sfus -> [Users -> UserRecs]]
  <2>1. [u \in Users |-> IF u \in us THEN NoUser ELSE users[s][u]] \in [Users -> UserRecs]
      BY UserRecTypes DEF TypeOK, RoomTypeOK
  <2>. QED  BY <1>3, <2>1 DEF TypeOK, RoomTypeOK
<1>8. room' \in [Sfus -> Rooms]
  <2>1. room[s] \in Rooms
      BY DEF TypeOK, RoomTypeOK, Rooms, wsVars
  <2>2. [room[s] EXCEPT !.idle = room[s].idle /\ In(s) = {}] \in Rooms
      BY <2>1 DEF Rooms
  <2>. QED  BY <2>2 DEF RoomOnTimer, TypeOK, RoomTypeOK, Rooms, wsVars
<1>9. RoomTypeOK'
    BY <1>7, <1>8 DEF RoomOnTimer, TypeOK, RoomTypeOK, Rooms, wsVars
<1>10. sendRelay' \in [Sfus -> [Users -> SendRelays]]
  <2>1. NoRelay \in SendRelays
      BY DEF NoRelay, SendRelays
  <2>2. [u \in Users |-> IF u \in us THEN NoRelay ELSE sendRelay[s][u]]
            \in [Users -> SendRelays]
      BY <2>1 DEF TypeOK, RelayTypeOK
  <2>. QED  BY <1>3, <2>2 DEF TypeOK, RelayTypeOK
<1>11. recvByUser' \in [Sfus -> [Users -> 0 .. MaxPort]]
  <2>. DEFINE dead == {e \in recvByPusher[s] : e.port \in relayIdle[s]}
              owners == {e.pusher.user : e \in dead}
              f == [u \in Users |-> IF u \in owners THEN 0 ELSE recvByUser[s][u]]
  <2>1. recvByUser' = [recvByUser EXCEPT ![s] = f]
      BY DEF RoomOnTimer, RemoveRecvRelays
  <2>. HIDE DEF owners
  <2>2. f \in [Users -> 0 .. MaxPort]
      BY RoomAssumption DEF TypeOK, RelayTypeOK
  <2>. HIDE DEF f
  <2>. QED  BY <2>1, <2>2 DEF TypeOK, RelayTypeOK
<1>12. /\ recvByPusher' \in [Sfus -> SUBSET [pusher : Pushers, port : Ports]]
       /\ relayIdle' \in [Sfus -> SUBSET Ports]
       /\ UNCHANGED lastPort
    BY DEF RoomOnTimer, RemoveRecvRelays, TypeOK, RelayTypeOK
<1>13. RelayTypeOK'
    BY <1>10, <1>11, <1>12 DEF TypeOK, RelayTypeOK
<1>. QED  BY <1>4, <1>5, <1>6, <1>9, <1>13 DEF TypeOK

LEMMA TimerType ==
    ASSUME TypeOK, NEW s \in Sfus, TimerNext(s)
    PROVE  TypeOK'
  BY UserAgesType, RelayIdlesType, RoomTimersType, RoomTimerType DEF TimerNext

-----------------------------------------------------------------------------
\* The fields of what the center sends.
LEMMA CenterMsgFields ==
    ASSUME NEW m \in CenterMsgs
    PROVE  /\ m.method # "joinResponse" => m.user \in Users
           /\ m.method = "newPusher" => m.pushers \in SUBSET Pushers
           /\ m.method = "pullRemoteStream" => m.pusher \in Pushers /\ m.to \in Targets
           /\ m.method = "joinResponse" =>
                  m.users \in SUBSET Users /\ m.pushers \in SUBSET Pushers
<1>1. CASE m \in UserMsgs({"newUser", "userDisconnect", "userLeave"})
    BY <1>1 DEF UserMsgs
<1>2. CASE m \in [method : {"newPusher"}, user : Users, pushers : SUBSET Pushers]
    BY <1>2
<1>3. CASE m \in PullMsgs
    BY <1>3 DEF PullMsgs
<1>4. CASE m \in [method : {"joinResponse"}, gen : 0 .. MaxGen,
                  users : SUBSET Users, pushers : SUBSET Pushers]
    BY <1>4
<1>. QED  BY <1>1, <1>2, <1>3, <1>4 DEF CenterMsgs

LEMMA AddRemoteUsersType ==
    ASSUME TypeOK, NEW s \in Sfus, NEW us \in SUBSET Users, NEW ps \in SUBSET Pushers,
           AddRemoteUsers(s, us, ps)
    PROVE  users' \in [Sfus -> [Users -> UserRecs]] /\ ViewTypeOK'
<1>. DEFINE f == [u \in Users |->
                     IF u \in us THEN NewRemoteUser({p \in ps : p.user = u}) ELSE users[s][u]]
            mine == {p \in ps : p.user \in us}
            W == LocalCbs(s, NoWs)
<1>1. /\ users' = [users EXCEPT ![s] = f]
      /\ told' = Tell(W, us)
      /\ heard' = Announce(W, mine)
    BY DEF AddRemoteUsers
<1>2. \A u \in Users : NewRemoteUser({p \in ps : p.user = u}) \in UserRecs
    BY UserRecTypes
<1>3. f \in [Users -> UserRecs]
    BY <1>2 DEF TypeOK, RoomTypeOK
<1>4. mine \in SUBSET Pushers
    OBVIOUS
<1>. HIDE DEF f, mine, W
<1>5. users' \in [Sfus -> [Users -> UserRecs]]
    BY <1>1, <1>3 DEF TypeOK, RoomTypeOK
<1>6. ViewTypeOK'
    BY <1>1, <1>4, ViewTypes, Zenon DEF ViewTypeOK
<1>. QED  BY <1>5, <1>6

LEMMA NewUserFromCenterType ==
    ASSUME TypeOK, NEW s \in Sfus, NEW m \in CenterMsgs,
           HandleNewUserNotificationFromCenter(s, m)
    PROVE  TypeOK'
<1>1. {m.user} \ In(s) \in SUBSET Users /\ {} \in SUBSET Pushers
    BY CenterMsgFields DEF HandleNewUserNotificationFromCenter
<1>2. users' \in [Sfus -> [Users -> UserRecs]] /\ ViewTypeOK'
    BY <1>1, AddRemoteUsersType, Zenon DEF HandleNewUserNotificationFromCenter
<1>3. room' \in [Sfus -> Rooms]
    BY GetRoomType DEF HandleNewUserNotificationFromCenter
<1>4. LinkTypeOK' /\ RelayTypeOK' /\ MediaTypeOK'
    BY Frame DEF HandleNewUserNotificationFromCenter
<1>5. RoomTypeOK'
    BY <1>2, <1>3 DEF HandleNewUserNotificationFromCenter, TypeOK, RoomTypeOK, Rooms, wsVars
<1>. QED  BY <1>2, <1>4, <1>5 DEF TypeOK

LEMMA NewPusherFromCenterType ==
    ASSUME TypeOK, NEW s \in Sfus, NEW m \in CenterMsgs,
           HandleNewPusherNotificationFromCenter(s, m)
    PROVE  TypeOK'
<1>. DEFINE r == users[s][m.user]
            r2 == [r EXCEPT !.remote = TRUE, !.pushers = r.pushers \cup m.pushers]
<1>1. m.user \in Users /\ m.pushers \in SUBSET Pushers
    BY CenterMsgFields DEF HandleNewPusherNotificationFromCenter
<1>2. r \in UserRecs
    BY <1>1 DEF TypeOK, RoomTypeOK
<1>3. r2 \in UserRecs
  <2>1. r.pushers \cup m.pushers \in SUBSET Pushers
      BY <1>1, <1>2, UserFields
  <2>. QED  BY <1>2, <2>1, UserFields, Zenon
<1>4. \/ /\ users' = [users EXCEPT ![s][m.user] = r2]
         /\ heard' = Announce(AllCbs(s, m.user), m.pushers)
      \/ UNCHANGED <<users, heard>>
    BY Zenon DEF HandleNewPusherNotificationFromCenter
<1>. HIDE DEF r2
<1>5. users' \in [Sfus -> [Users -> UserRecs]]
  <2>1. [users EXCEPT ![s][m.user] = r2] \in [Sfus -> [Users -> UserRecs]]
      BY <1>1, <1>3, UserUpdate
  <2>. QED  BY <1>4, <2>1 DEF TypeOK, RoomTypeOK
<1>6. heard' \in [Sockets -> SUBSET Pushers]
  <2>1. Announce(AllCbs(s, m.user), m.pushers) \in [Sockets -> SUBSET Pushers]
      BY <1>1, ViewTypes
  <2>. QED  BY <1>4, <2>1 DEF TypeOK, ViewTypeOK
<1>7. room' \in [Sfus -> Rooms]
    BY GetRoomType DEF HandleNewPusherNotificationFromCenter
<1>8. LinkTypeOK' /\ RelayTypeOK' /\ MediaTypeOK'
    BY Frame DEF HandleNewPusherNotificationFromCenter
<1>9. RoomTypeOK' /\ ViewTypeOK'
    BY <1>5, <1>6, <1>7
       DEF HandleNewPusherNotificationFromCenter, TypeOK, RoomTypeOK, ViewTypeOK, Rooms, wsVars
<1>. QED  BY <1>8, <1>9 DEF TypeOK

LEMMA PullFromCenterType ==
    ASSUME TypeOK, NEW s \in Sfus, NEW m \in CenterMsgs,
           HandlePullRemoteStreamNotificationFromCenter(s, m)
    PROVE  TypeOK'
<1>. DEFINE old == sendRelay[s][m.user]
            relay == IF old = NoRelay THEN [to |-> {m.to}, infos |-> {}] ELSE old
            r == [relay EXCEPT !.infos = relay.infos \cup {m.pusher}]
<1>1. m.user \in Users /\ m.pusher \in Pushers /\ m.to \in Targets
    BY CenterMsgFields DEF HandlePullRemoteStreamNotificationFromCenter
<1>2. old \in SendRelays
    BY <1>1 DEF TypeOK, RelayTypeOK
<1>3. relay \in SendRelays
    BY <1>1, <1>2 DEF SendRelays
<1>4. sendRelay' = [sendRelay EXCEPT ![s][m.user] = r]
    BY Zenon DEF HandlePullRemoteStreamNotificationFromCenter
<1>. HIDE DEF relay
<1>4a. r \in SendRelays
    BY <1>1, <1>3 DEF SendRelays
<1>. HIDE DEF r
<1>5. sendRelay' \in [Sfus -> [Users -> SendRelays]]
    BY <1>1, <1>4, <1>4a DEF TypeOK, RelayTypeOK
<1>6. RelayTypeOK'
    BY <1>5 DEF HandlePullRemoteStreamNotificationFromCenter, TypeOK, RelayTypeOK
<1>7. room' \in [Sfus -> Rooms]
    BY GetRoomType DEF HandlePullRemoteStreamNotificationFromCenter
<1>8. LinkTypeOK' /\ MediaTypeOK' /\ ViewTypeOK'
    BY Frame DEF HandlePullRemoteStreamNotificationFromCenter
<1>9. RoomTypeOK'
    BY <1>7 DEF HandlePullRemoteStreamNotificationFromCenter, TypeOK, RoomTypeOK, Rooms, wsVars
<1>. QED  BY <1>6, <1>8, <1>9 DEF TypeOK

LEMMA GoneFromCenterType ==
    ASSUME TypeOK, NEW s \in Sfus, NEW m \in CenterMsgs,
           \/ HandleUserDisconnectNotificationFromCenter(s, m)
           \/ HandleUserLeaveNotificationFromCenter(s, m)
    PROVE  TypeOK'
<1>1. CASE HandleUserDisconnectNotificationFromCenter(s, m)
  <2>1. room' \in [Sfus -> Rooms]
      BY <1>1, GetRoomType DEF HandleUserDisconnectNotificationFromCenter
  <2>2. LinkTypeOK' /\ RelayTypeOK' /\ MediaTypeOK' /\ ViewTypeOK'
      BY <1>1, Frame DEF HandleUserDisconnectNotificationFromCenter
  <2>3. RoomTypeOK'
      BY <1>1, <2>1
         DEF HandleUserDisconnectNotificationFromCenter, TypeOK, RoomTypeOK, Rooms, wsVars
  <2>. QED  BY <2>2, <2>3 DEF TypeOK
<1>2. CASE HandleUserLeaveNotificationFromCenter(s, m)
  <2>1. room' \in [Sfus -> Rooms]
      BY <1>2, GetRoomType DEF HandleUserLeaveNotificationFromCenter
  <2>2. {m.user} \in SUBSET Users
      BY <1>2, CenterMsgFields DEF HandleUserLeaveNotificationFromCenter
  <2>3. ViewTypeOK'
      BY <1>2, <2>2, ViewTypes
         DEF HandleUserLeaveNotificationFromCenter, TypeOK, ViewTypeOK
  <2>4. LinkTypeOK' /\ RelayTypeOK' /\ MediaTypeOK'
      BY <1>2, Frame DEF HandleUserLeaveNotificationFromCenter
  <2>5. RoomTypeOK'
      BY <1>2, <2>1 DEF HandleUserLeaveNotificationFromCenter, TypeOK, RoomTypeOK, Rooms, wsVars
  <2>. QED  BY <2>3, <2>4, <2>5 DEF TypeOK
<1>. QED  BY <1>1, <1>2

LEMMA JoinResponseType ==
    ASSUME TypeOK, NEW s \in Sfus, NEW m \in CenterMsgs, JoinResponseFromPilotCenter(s, m)
    PROVE  TypeOK'
<1>. DEFINE added == m.users \ In(s)
<1>1. CASE Undefined(s)
    BY <1>1, UndefinedType
<1>2. CASE ~Undefined(s)
  <2>1. /\ room' = [room EXCEPT ![s].idle = @ /\ added = {}]
        /\ AddRemoteUsers(s, added, m.pushers)
        /\ UNCHANGED <<linkVars, relayVars, mediaVars, ub, wsVars>>
      BY <1>2, Zenon DEF JoinResponseFromPilotCenter
  <2>2. added \in SUBSET Users /\ m.pushers \in SUBSET Pushers
      BY CenterMsgFields DEF JoinResponseFromPilotCenter
  <2>. HIDE DEF added
  <2>3. users' \in [Sfus -> [Users -> UserRecs]] /\ ViewTypeOK'
      BY <2>1, <2>2, AddRemoteUsersType
  <2>4. room' \in [Sfus -> Rooms]
      BY <2>1 DEF TypeOK, RoomTypeOK, Rooms, wsVars
  <2>5. LinkTypeOK' /\ RelayTypeOK' /\ MediaTypeOK'
      BY <2>1, Frame
  <2>6. RoomTypeOK'
      BY <2>1, <2>3, <2>4 DEF TypeOK, RoomTypeOK, Rooms, wsVars
  <2>. QED  BY <2>3, <2>5, <2>6 DEF TypeOK
<1>. QED  BY <1>1, <1>2

LEMMA RemoteRtpType ==
    ASSUME TypeOK, NEW s \in Sfus, NEW e, OnRtpPacketFromRemoteRtcPusher(s, e)
    PROVE  TypeOK'
<1>1. PICK us : users' = Beat(s, us)
    BY DEF OnRtpPacketFromRemoteRtcPusher
<1>2. users' \in [Sfus -> [Users -> UserRecs]] /\ room' \in [Sfus -> Rooms]
    BY <1>1, BeatType, GetRoomType DEF OnRtpPacketFromRemoteRtcPusher
<1>3. RoomTypeOK'
    BY <1>2 DEF OnRtpPacketFromRemoteRtcPusher, TypeOK, RoomTypeOK, Rooms, wsVars
<1>4. RelayTypeOK'
    BY DEF OnRtpPacketFromRemoteRtcPusher, TypeOK, RelayTypeOK
<1>5. LinkTypeOK' /\ MediaTypeOK' /\ ViewTypeOK'
    BY Frame DEF OnRtpPacketFromRemoteRtcPusher
<1>. QED  BY <1>3, <1>4, <1>5 DEF TypeOK

\* The link's own steps.
LEMMA LinkStepType ==
    ASSUME TypeOK, UNCHANGED roomVars,
           \/ \E s \in Sfus : Connect(s) \/ OnClosed(s)
           \/ \E x \in Sids : CenterTakes(x)
    PROVE  TypeOK'
<1>1. RoomTypeOK' /\ RelayTypeOK' /\ MediaTypeOK' /\ ViewTypeOK'
    BY Frame DEF roomVars
<1>2. ASSUME NEW s \in Sfus, Connect(s) PROVE LinkTypeOK'
    BY <1>2, LinkAssumption DEF Connect, TypeOK, LinkTypeOK
<1>3. ASSUME NEW s \in Sfus, OnClosed(s) PROVE LinkTypeOK'
    BY <1>3 DEF OnClosed, TypeOK, LinkTypeOK
<1>4. ASSUME NEW x \in Sids, CenterTakes(x) PROVE LinkTypeOK'
  <2>1. up[x] \in Seq(UpMsgs) /\ up[x] # <<>>
      BY <1>4 DEF CenterTakes, TypeOK, LinkTypeOK
  <2>2. Tail(up[x]) \in Seq(UpMsgs) /\ <<>> \in Seq(UpMsgs)
      BY <2>1
  <2>3. PICK rest \in {Tail(up[x]), <<>>} : up' = [up EXCEPT ![x] = rest]
      BY <1>4 DEF CenterTakes
  <2>4. rest \in Seq(UpMsgs)
      BY <2>2, <2>3
  <2>5. up' \in [Sids -> Seq(UpMsgs)]
      BY <2>3, <2>4 DEF TypeOK, LinkTypeOK
  <2>. QED  BY <1>4, <2>5 DEF CenterTakes, TypeOK, LinkTypeOK
<1>. QED  BY <1>1, <1>2, <1>3, <1>4 DEF TypeOK

LEMMA InitType == Init => TypeOK
<1>. SUFFICES ASSUME Init PROVE TypeOK
    OBVIOUS
<1>1. LinkTypeOK
    BY LinkAssumption DEF Init, LinkInit, LinkTypeOK
<1>2. RoomTypeOK
  <2>1. NoRoom \in [up : BOOLEAN, gen : 0 .. MaxGen, idle : BOOLEAN]
      BY RoomAssumption DEF NoRoom
  <2>. QED  BY <2>1, UserRecTypes DEF Init, RoomTypeOK
<1>3. RelayTypeOK
  <2>1. NoRelay \in SendRelays
      BY DEF NoRelay, SendRelays
  <2>. QED  BY <2>1, RoomAssumption DEF Init, RelayTypeOK
<1>4. MediaTypeOK
  <2>1. NoSess \in SessRecs
      BY RoomAssumption DEF NoSess, SessRecs
  <2>. QED  BY <2>1 DEF Init, MediaTypeOK
<1>5. ViewTypeOK
    BY DEF Init, ViewTypeOK
<1>. QED  BY <1>1, <1>2, <1>3, <1>4, <1>5 DEF TypeOK

LEMMA NextType == TypeOK /\ [Next]_vars => TypeOK'
<1>. SUFFICES ASSUME TypeOK, [Next]_vars PROVE TypeOK'
    OBVIOUS
<1>1. ASSUME NEW w \in Sockets, ClientNext(w) PROVE TypeOK'
    BY <1>1, ClientType
<1>2. ASSUME NEW s \in Sfus, PeerNext(s) \/ TimerNext(s) PROVE TypeOK'
    BY <1>2, PeerType, TimerType
<1>3. CASE LinkNext
    BY <1>3, LinkStepType DEF LinkNext
<1>4. ASSUME NEW s \in Sfus, NEW m \in CenterMsgs, OnCenterMessage(s, m) PROVE TypeOK'
    BY <1>4, NewUserFromCenterType, NewPusherFromCenterType, PullFromCenterType,
       GoneFromCenterType, JoinResponseType, Zenon DEF OnCenterMessage
<1>5. ASSUME NEW s \in Sfus, NEW e, OnRtpPacketFromRemoteRtcPusher(s, e) PROVE TypeOK'
    BY <1>5, RemoteRtpType
<1>6. CASE (\E x \in Sids : CenterTakes(x)) /\ UNCHANGED roomVars
    BY <1>6, LinkStepType
<1>7. CASE UNCHANGED vars
    BY <1>7, Frame DEF vars, roomVars, TypeOK
<1>. QED
    BY <1>1, <1>2, <1>3, <1>4, <1>5, <1>6, <1>7 DEF Next, LocalNext, CenterNext

\* Type correctness of the room with an arbitrary pilot center.
THEOREM TypeCorrect == Spec => []TypeOK
<1>1. Init => TypeOK
    BY InitType
<1>2. TypeOK /\ [Next]_vars => TypeOK'
    BY NextType
<1>. QED  BY <1>1, <1>2, PTL DEF Spec

-----------------------------------------------------------------------------
(* How the raw pointer RtcUser::resp_cb_ can outlive its WebSocket session:  *)
(* NoDanglingRespCb, with an arbitrary pilot center and arbitrary clients.   *)

\* resp_cb_ is null or a WebSocket session.
LEMMA CbType ==
    ASSUME TypeOK
    PROVE  \A s \in Sfus, u \in Users : users[s][u].cb \in Sockets \cup {NoWs}
<1>1. \A s \in Sfus, u \in Users : users[s][u] \in UserRecs
    BY DEF TypeOK, RoomTypeOK
<1>. QED  BY <1>1 DEF UserRecs

\* No user gets a WebSocket by this step, and those that keep one stay.
CbKept ==
    \A s \in Sfus, u \in Users :
        \/ users'[s][u].cb = NoWs
        \/ users'[s][u].cb = users[s][u].cb /\ users'[s][u].in = users[s][u].in

\* A step that changes no WebSocket and gives none to a user is harmless.
LEMMA KeptIsSafe ==
    ASSUME NoDanglingRespCb, CbKept, UNCHANGED wsVars
    PROVE  NoDanglingRespCb'
  BY DEF NoDanglingRespCb, CbKept, wsVars

\* No WebSocket session ends by this step, and those that have ended keep the
\* user they reported.
WsKept ==
    \A w \in Sockets :
        /\ ws[w] # "idle" => ws'[w] # "idle"
        /\ ws'[w] = "gone" => ws[w] = "gone" /\ who'[w] = who[w]

\* A step that ends no WebSocket session and gives none to a user is harmless.
LEMMA WsKeptIsSafe ==
    ASSUME TypeOK, NoDanglingRespCb, CbKept, WsKept
    PROVE  NoDanglingRespCb'
<1>. SUFFICES ASSUME NEW s \in Sfus, NEW u \in Users, users'[s][u].cb # NoWs
              PROVE  /\ users'[s][u].in
                     /\ Home[users'[s][u].cb] = s
                     /\ ws'[users'[s][u].cb] # "idle"
                     /\ ws'[users'[s][u].cb] = "gone" => who'[users'[s][u].cb] # u
    BY DEF NoDanglingRespCb
<1>1. users'[s][u].cb = users[s][u].cb /\ users'[s][u].in = users[s][u].in
    BY DEF CbKept
<1>2. users[s][u].cb \in Sockets
    BY <1>1, CbType
<1>3. /\ users[s][u].in
      /\ Home[users[s][u].cb] = s
      /\ ws[users[s][u].cb] # "idle"
      /\ ws[users[s][u].cb] = "gone" => who[users[s][u].cb] # u
    BY <1>1 DEF NoDanglingRespCb
<1>. QED  BY <1>1, <1>2, <1>3 DEF WsKept

\* A step that leaves users_ alone gives no user a WebSocket.
LEMMA SameUsersKept == UNCHANGED users => CbKept
  BY DEF CbKept

\* The RtcUser of one user is replaced.
LEMMA OneUserKept ==
    ASSUME TypeOK, NEW s \in Sfus, NEW u \in Users, NEW r,
           users' = [users EXCEPT ![s][u] = r],
           r.cb = NoWs \/ (r.cb = users[s][u].cb /\ r.in = users[s][u].in)
    PROVE  CbKept
  BY DEF CbKept, TypeOK, RoomTypeOK

\* The RtcUsers of one room are replaced.
LEMMA OneRoomKept ==
    ASSUME NEW s \in Sfus,
           \A x \in Sfus \ {s} : users'[x] = users[x],
           \A u \in Users :
               \/ users'[s][u].cb = NoWs
               \/ users'[s][u].cb = users[s][u].cb /\ users'[s][u].in = users[s][u].in
    PROVE  CbKept
  BY DEF CbKept

\* New RtcUsers of WHIP and of the center have no WebSocket.
LEMMA NoCb ==
    /\ NoUser.cb = NoWs
    /\ NewRtcUser(NoWs, FALSE).cb = NoWs
    /\ \A ps : NewRemoteUser(ps).cb = NoWs
  BY DEF NoUser, NewRtcUser, NewRemoteUser

\* UpdateHeartbeat leaves resp_cb_ alone.
LEMMA BeatKept ==
    ASSUME TypeOK, NEW s \in Sfus, NEW us, users' = Beat(s, us)
    PROVE  CbKept
<1>. DEFINE f == [u \in Users |->
                     IF u \in us /\ users[s][u].in THEN [users[s][u] EXCEPT !.age = 0]
                                                   ELSE users[s][u]]
<1>1. users' = [users EXCEPT ![s] = f]
    BY DEF Beat
<1>2. ASSUME NEW u \in Users
      PROVE  f[u].cb = users[s][u].cb /\ f[u].in = users[s][u].in
  <2>1. users[s][u] \in UserRecs
      BY DEF TypeOK, RoomTypeOK
  <2>2. \A r \in UserRecs : /\ [r EXCEPT !.age = 0].cb = r.cb
                            /\ [r EXCEPT !.age = 0].in = r.in
      BY DEF UserRecs
  <2>. QED  BY <2>1, <2>2
<1>3. \A u \in Users :
          f[u].cb = NoWs \/ (f[u].cb = users[s][u].cb /\ f[u].in = users[s][u].in)
    BY <1>2
<1>. HIDE DEF f
<1>4. users'[s] = f /\ \A x \in Sfus \ {s} : users'[x] = users[x]
    BY <1>1 DEF TypeOK, RoomTypeOK
<1>. QED  BY <1>3, <1>4, OneRoomKept

\* A Room object is destroyed with its RtcUsers.
LEMMA DropRoomKept ==
    ASSUME TypeOK, NEW s \in Sfus, DropRoom(s)
    PROVE  CbKept
<1>. DEFINE f == [u \in Users |-> NoUser]
<1>1. users' = [users EXCEPT ![s] = f]
    BY DEF DropRoom
<1>2. \A u \in Users : f[u].cb = NoWs
    BY NoCb
<1>. HIDE DEF f
<1>3. users'[s] = f /\ \A x \in Sfus \ {s} : users'[x] = users[x]
    BY <1>1 DEF TypeOK, RoomTypeOK
<1>. QED  BY <1>2, <1>3, OneRoomKept

\* Remote users are added to users_.
LEMMA AddRemoteKept ==
    ASSUME TypeOK, NEW s \in Sfus, NEW us, NEW ps, AddRemoteUsers(s, us, ps)
    PROVE  CbKept
<1>. DEFINE f == [u \in Users |->
                     IF u \in us THEN NewRemoteUser({p \in ps : p.user = u}) ELSE users[s][u]]
<1>1. users' = [users EXCEPT ![s] = f]
    BY DEF AddRemoteUsers
<1>2. \A u \in Users :
          f[u].cb = NoWs \/ (f[u].cb = users[s][u].cb /\ f[u].in = users[s][u].in)
    BY NoCb
<1>. HIDE DEF f
<1>3. users'[s] = f /\ \A x \in Sfus \ {s} : users'[x] = users[x]
    BY <1>1 DEF TypeOK, RoomTypeOK
<1>. QED  BY <1>2, <1>3, OneRoomKept

-----------------------------------------------------------------------------
(* The two kinds of step that change a WebSocket. *)

\* A join makes w the resp_cb_ of the user it names only, or leaves resp_cb_
\* alone.
LEMMA JoinSafe ==
    ASSUME TypeOK, NoDanglingRespCb, NEW w \in Sockets, NEW u \in Users,
           NEW a \in BOOLEAN, HandleJoinRequest(w, u, a)
    PROVE  NoDanglingRespCb'
<1>. DEFINE s == Home[w]
<1>1. s \in Sfus
    BY RoomAssumption
<1>2. ws' = [ws EXCEPT ![w] = "joined"] /\ who' = [who EXCEPT ![w] = u]
    BY DEF HandleJoinRequest
<1>3. WsKept /\ ws'[w] = "joined"
    BY <1>2 DEF WsKept, TypeOK, RoomTypeOK
<1>4. CASE JoinNew(w, u, a)
  <2>1. users' = [users EXCEPT ![s][u] = NewRtcUser(w, a)]
      BY <1>4 DEF JoinNew
  <2>2. NewRtcUser(w, a).cb = w /\ NewRtcUser(w, a).in
      BY DEF NewRtcUser, NoUser
  <2>. SUFFICES ASSUME NEW x \in Sfus, NEW v \in Users, users'[x][v].cb # NoWs
                PROVE  /\ users'[x][v].in
                       /\ Home[users'[x][v].cb] = x
                       /\ ws'[users'[x][v].cb] # "idle"
                       /\ ws'[users'[x][v].cb] = "gone" => who'[users'[x][v].cb] # v
      BY DEF NoDanglingRespCb
  <2>3. CASE x = s /\ v = u
    <3>1. users'[x][v] = NewRtcUser(w, a)
        BY <1>1, <2>1, <2>3 DEF TypeOK, RoomTypeOK
    <3>. QED  BY <1>3, <2>2, <2>3, <3>1
  <2>4. CASE ~(x = s /\ v = u)
    <3>1. users'[x][v] = users[x][v]
        BY <2>1, <2>4 DEF TypeOK, RoomTypeOK
    <3>2. users[x][v].cb \in Sockets
        BY <3>1, CbType
    <3>3. /\ users[x][v].in
          /\ Home[users[x][v].cb] = x
          /\ ws[users[x][v].cb] # "idle"
          /\ ws[users[x][v].cb] = "gone" => who[users[x][v].cb] # v
        BY <3>1 DEF NoDanglingRespCb
    <3>. QED  BY <1>3, <3>1, <3>2, <3>3 DEF WsKept
  <2>. QED  BY <2>3, <2>4
<1>5. CASE ReConnect(w, u, a)
  <2>1. users' = [users EXCEPT ![s][u] = [users[s][u] EXCEPT !.audience = a]]
      BY <1>5 DEF ReConnect
  <2>2. users[s][u] \in UserRecs
      BY <1>1 DEF TypeOK, RoomTypeOK
  <2>3. \A r \in UserRecs : /\ [r EXCEPT !.audience = a].cb = r.cb
                            /\ [r EXCEPT !.audience = a].in = r.in
      BY DEF UserRecs
  <2>4. CbKept
      BY <1>1, <2>1, <2>2, <2>3, OneUserKept
  <2>. QED  BY <1>3, <2>4, WsKeptIsSafe
<1>. QED  BY <1>4, <1>5 DEF HandleJoinRequest

\* The user that w joined as last loses its resp_cb_ when w ends.
LEMMA WsEndSafe ==
    ASSUME TypeOK, NoDanglingRespCb, NEW w \in Sockets, WsGone(w), DisconnectUser(w)
    PROVE  NoDanglingRespCb'
<1>. DEFINE s == Home[w]
            u == who[w]
            r == [users[s][u] EXCEPT !.cb = NoWs]
<1>1. s \in Sfus
    BY RoomAssumption
<1>2. ws' = [ws EXCEPT ![w] = "gone"] /\ who' = who
    BY DEF WsGone, DisconnectUser
<1>3. CbKept /\ (u \in Users => users'[s][u].cb \in {NoWs} \cup (Sockets \ {w}))
  <2>1. CASE UNCHANGED users /\ (u = NoWs \/ ~users[s][u].in)
    <3>1. u \in Users => users[s][u].cb = NoWs
        BY <1>1, <2>1, RoomAssumption DEF NoDanglingRespCb
    <3>. QED  BY <2>1, <3>1, SameUsersKept
  <2>2. CASE u # NoWs /\ users' = [users EXCEPT ![s][u] = r]
    <3>1. u \in Users
        BY <2>2 DEF TypeOK, RoomTypeOK
    <3>2. users[s][u] \in UserRecs
        BY <1>1, <3>1 DEF TypeOK, RoomTypeOK
    <3>3. r.cb = NoWs
        BY <3>2 DEF UserRecs
    <3>. HIDE DEF r, s, u
    <3>4. users'[s][u] = r
        BY <1>1, <2>2, <3>1 DEF TypeOK, RoomTypeOK
    <3>. QED  BY <1>1, <2>2, <3>1, <3>3, <3>4, OneUserKept
  <2>. QED  BY <2>1, <2>2 DEF DisconnectUser
<1>. HIDE DEF s, u
<1>4. SUFFICES ASSUME NEW x \in Sfus, NEW v \in Users, users'[x][v].cb # NoWs
               PROVE  /\ users'[x][v].in
                      /\ Home[users'[x][v].cb] = x
                      /\ ws'[users'[x][v].cb] # "idle"
                      /\ ws'[users'[x][v].cb] = "gone" => who'[users'[x][v].cb] # v
    BY DEF NoDanglingRespCb
<1>5. users'[x][v].cb = users[x][v].cb /\ users'[x][v].in = users[x][v].in
    BY <1>3, <1>4 DEF CbKept
<1>6. /\ users[x][v].in
      /\ Home[users[x][v].cb] = x
      /\ ws[users[x][v].cb] # "idle"
      /\ ws[users[x][v].cb] = "gone" => who[users[x][v].cb] # v
    BY <1>4, <1>5 DEF NoDanglingRespCb
<1>7. CASE users[x][v].cb = w
  <2>1. ws'[w] = "gone"
      BY <1>2 DEF TypeOK, RoomTypeOK
  <2>2. who[w] # v
      BY <1>3, <1>4, <1>5, <1>6, <1>7 DEF s, u
  <2>. QED  BY <1>2, <1>5, <1>6, <1>7, <2>1, <2>2
<1>8. CASE users[x][v].cb # w
  <2>1. ws'[users[x][v].cb] = ws[users[x][v].cb]
      BY <1>2, <1>8 DEF TypeOK, RoomTypeOK
  <2>. QED  BY <1>2, <1>5, <1>6, <2>1
<1>. QED  BY <1>7, <1>8

-----------------------------------------------------------------------------
\* The steps of a WebSocket client.
LEMMA ClientSafe ==
    ASSUME TypeOK, NoDanglingRespCb, NEW w \in Sockets, ClientNext(w)
    PROVE  NoDanglingRespCb'
<1>1. ASSUME NEW u \in Users, NEW a \in Audiences, HandleJoinRequest(w, u, a)
      PROVE  NoDanglingRespCb'
    BY <1>1, JoinSafe, RoomAssumption
<1>2. ASSUME NEW u, HandleHeartbeatRequest(w, u) PROVE NoDanglingRespCb'
    BY <1>2, RoomAssumption, BeatKept, KeptIsSafe DEF HandleHeartbeatRequest
<1>3. ASSUME NEW u \in Users, NEW k \in SessIds, NEW M \in Offers,
             HandlePushRequest(w, u, k, M)
      PROVE  NoDanglingRespCb'
  <2>. DEFINE s == Home[w]
              all == users[s][u].pushers \cup PushersIn(s, k, u, M)
              r == [users[s][u] EXCEPT !.pushers = all, !.age = 0]
  <2>1. s \in Sfus /\ u \in Users
      BY RoomAssumption
  <2>2. users' = [users EXCEPT ![s][u] = r] \/ UNCHANGED users
      BY <1>3 DEF HandlePushRequest
  <2>3. r.cb = users[s][u].cb /\ r.in = users[s][u].in
    <3>1. users[s][u] \in UserRecs
        BY <2>1 DEF TypeOK, RoomTypeOK
    <3>2. \A ps : \A q \in UserRecs :
              /\ [q EXCEPT !.pushers = ps, !.age = 0].cb = q.cb
              /\ [q EXCEPT !.pushers = ps, !.age = 0].in = q.in
        BY DEF UserRecs
    <3>. QED  BY <3>1, <3>2
  <2>. HIDE DEF r
  <2>4. CbKept
    <3>1. CASE users' = [users EXCEPT ![s][u] = r]
        BY <2>1, <2>3, <3>1, OneUserKept, Zenon
    <3>2. CASE UNCHANGED users
        BY <3>2, SameUsersKept
    <3>. QED  BY <2>2, <3>1, <3>2
  <2>. QED  BY <1>3, <2>4, KeptIsSafe DEF HandlePushRequest
<1>4. ASSUME NEW u \in Users, HandlePullRequest(w, u) PROVE NoDanglingRespCb'
  <2>1. ASSUME NEW t, PullUnknown(w, t) PROVE UNCHANGED <<users, wsVars>>
      BY <2>1 DEF PullUnknown
  <2>2. ASSUME NEW t, NEW P, NEW k, HandlePullSdp(w, u, t, P, k)
        PROVE  UNCHANGED <<users, wsVars>>
      BY <2>2 DEF HandlePullSdp
  <2>3. ASSUME NEW t, NEW P, NEW k, HandleRemotePullSdp(w, u, t, P, k)
        PROVE  UNCHANGED <<users, wsVars>>
      BY <2>3 DEF HandleRemotePullSdp
  <2>4. UNCHANGED <<users, wsVars>>
      BY <1>4, <2>1, <2>2, <2>3, Zenon DEF HandlePullRequest
  <2>. QED  BY <2>4, SameUsersKept, KeptIsSafe
<1>5. CASE WsOnClose(w)
    BY <1>5, WsEndSafe DEF WsOnClose
<1>6. CASE WsReadError(w)
  <2>1. UNCHANGED users /\ ws' = [ws EXCEPT ![w] = "broken"]
      BY <1>6 DEF WsReadError
  <2>2. WsKept
      BY <1>6, <2>1 DEF WsReadError, WsKept, TypeOK, RoomTypeOK
  <2>. QED  BY <2>1, <2>2, SameUsersKept, WsKeptIsSafe
<1>7. CASE WsSweep(w)
    BY <1>7, WsEndSafe DEF WsSweep
<1>8. CASE HandleJoinRequestElsewhere(w)
  <2>1. UNCHANGED users /\ WsKept
      BY <1>8 DEF HandleJoinRequestElsewhere, WsKept, TypeOK, RoomTypeOK
  <2>. QED  BY <2>1, SameUsersKept, WsKeptIsSafe
<1>9. \A u \in Speaks[w] : u \in Users
    BY RoomAssumption
<1>. QED
    BY <1>1, <1>2, <1>3, <1>4, <1>5, <1>6, <1>7, <1>8, <1>9, Zenon DEF ClientNext

\* The steps of HTTP and UDP peers: WHIP makes users without a WebSocket.
LEMMA PeerSafe ==
    ASSUME TypeOK, NoDanglingRespCb, NEW s \in Sfus, PeerNext(s)
    PROVE  NoDanglingRespCb'
<1>1. ASSUME NEW u \in WhipUsers, NEW k \in SessIds, NEW M \in Offers, WhipHandle(s, u, k, M)
      PROVE  NoDanglingRespCb'
  <2>. DEFINE was == IF users[s][u].in THEN users[s][u] ELSE NewRtcUser(NoWs, FALSE)
              all == was.pushers \cup PushersIn(s, k, u, M)
              r == IF M = {} THEN was ELSE [was EXCEPT !.pushers = all, !.age = 0]
  <2>1. u \in Users
      BY RoomAssumption
  <2>2. users' = [users EXCEPT ![s][u] = r] /\ UNCHANGED wsVars
      BY <1>1 DEF WhipHandle
  <2>3. was \in UserRecs
    <3>1. users[s][u] \in UserRecs
        BY <2>1 DEF TypeOK, RoomTypeOK
    <3>. QED  BY <3>1, UserRecTypes
  <2>4. r.cb = was.cb /\ r.in = was.in
    <3>. HIDE DEF was, all
    <3>1. \A ps : \A q \in UserRecs :
              /\ [q EXCEPT !.pushers = ps, !.age = 0].cb = q.cb
              /\ [q EXCEPT !.pushers = ps, !.age = 0].in = q.in
        BY DEF UserRecs
    <3>. QED  BY <2>3, <3>1
  <2>5. was.cb = NoWs \/ (was.cb = users[s][u].cb /\ was.in = users[s][u].in)
      BY NoCb
  <2>. HIDE DEF r, was
  <2>6. r.cb = NoWs \/ (r.cb = users[s][u].cb /\ r.in = users[s][u].in)
      BY <2>4, <2>5
  <2>7. CbKept
      BY <2>1, <2>2, <2>6, OneUserKept, Zenon
  <2>. QED  BY <2>2, <2>7, KeptIsSafe
<1>2. CASE WhipDeleteHandle(s)
  <2>1. CASE Undefined(s)
      BY <2>1, SameUsersKept, KeptIsSafe DEF Undefined
  <2>2. CASE DropRoom(s)
      BY <2>2, DropRoomKept, KeptIsSafe DEF DropRoom
  <2>. QED  BY <1>2, <2>1, <2>2 DEF WhipDeleteHandle
<1>3. ASSUME NEW k \in SessIds, NEW x \in Media, OnRtpPacketFromRtcPusher(s, k, x)
      PROVE  NoDanglingRespCb'
  <2>1. UNCHANGED wsVars
      BY <1>3 DEF OnRtpPacketFromRtcPusher, Undefined
  <2>2. UNCHANGED users \/ \E us : users' = Beat(s, us)
      BY <1>3 DEF OnRtpPacketFromRtcPusher, Undefined
  <2>3. CbKept
      BY <2>2, SameUsersKept, BeatKept
  <2>. QED  BY <2>1, <2>3, KeptIsSafe
<1>4. ASSUME NEW k \in SessIds,
             \/ HandleStunPacket(s, k)
             \/ \E p \in sess[s][k].pulls : OnKeyFrameRequest(s, k, p)
             \/ SessionIdles(s, k)
             \/ WebRtcServerOnTimer(s, k)
      PROVE  NoDanglingRespCb'
  <2>1. UNCHANGED <<users, wsVars>>
      BY <1>4 DEF HandleStunPacket, OnKeyFrameRequest, SessionIdles, WebRtcServerOnTimer,
                  Undefined
  <2>. QED  BY <2>1, SameUsersKept, KeptIsSafe
<1>5. ASSUME NEW u \in Users, NotifyDestroyed(s, u) \/ OnRelayKeyFrameRequest(s, u)
      PROVE  NoDanglingRespCb'
  <2>1. UNCHANGED <<users, wsVars>>
      BY <1>5 DEF NotifyDestroyed, OnRelayKeyFrameRequest, Undefined
  <2>. QED  BY <2>1, SameUsersKept, KeptIsSafe
<1>. QED  BY <1>1, <1>2, <1>3, <1>4, <1>5, Zenon DEF PeerNext

\* The steps of the timers: a release resets the RtcUser, pointer included.
LEMMA TimerSafe ==
    ASSUME TypeOK, NoDanglingRespCb, NEW s \in Sfus, TimerNext(s)
    PROVE  NoDanglingRespCb'
<1>1. ASSUME NEW u \in Users, UserAges(s, u) PROVE NoDanglingRespCb'
  <2>. DEFINE r == [users[s][u] EXCEPT !.age = users[s][u].age + 1]
  <2>1. users' = [users EXCEPT ![s][u] = r] /\ UNCHANGED wsVars
      BY <1>1 DEF UserAges, TypeOK, RoomTypeOK
  <2>2. users[s][u] \in UserRecs
      BY DEF TypeOK, RoomTypeOK
  <2>3. r.cb = users[s][u].cb /\ r.in = users[s][u].in
      BY <2>2 DEF UserRecs
  <2>. HIDE DEF r
  <2>4. CbKept
      BY <2>1, <2>3, OneUserKept, Zenon
  <2>. QED  BY <2>1, <2>4, KeptIsSafe
<1>2. ASSUME NEW port \in Ports, RelayIdles(s, port) PROVE NoDanglingRespCb'
    BY <1>2, SameUsersKept, KeptIsSafe DEF RelayIdles
<1>3. CASE RoomIdles(s)
    BY <1>3, SameUsersKept, KeptIsSafe DEF RoomIdles
<1>4. CASE RoomOnTimer(s)
  <2>. DEFINE f == [u \in Users |-> IF u \in Expired(s) THEN NoUser ELSE users[s][u]]
  <2>1. users' = [users EXCEPT ![s] = f] /\ UNCHANGED wsVars
      BY <1>4 DEF RoomOnTimer, ReleaseUserResources
  <2>2. \A u \in Users :
            f[u].cb = NoWs \/ (f[u].cb = users[s][u].cb /\ f[u].in = users[s][u].in)
      BY NoCb
  <2>. HIDE DEF f
  <2>3. users'[s] = f /\ \A x \in Sfus \ {s} : users'[x] = users[x]
      BY <2>1 DEF TypeOK, RoomTypeOK
  <2>4. CbKept
      BY <2>2, <2>3, OneRoomKept
  <2>. QED  BY <2>1, <2>4, KeptIsSafe
<1>5. CASE RoomMgrOnTimer(s)
    BY <1>5, DropRoomKept, KeptIsSafe DEF RoomMgrOnTimer, DropRoom
<1>. QED  BY <1>1, <1>2, <1>3, <1>4, <1>5 DEF TimerNext

\* Whatever the center sends: a remote user is made without a WebSocket, and a
\* user the room has keeps the one it has.
LEMMA CenterSafe ==
    ASSUME TypeOK, NoDanglingRespCb, NEW s \in Sfus, NEW m \in CenterMsgs,
           OnCenterMessage(s, m)
    PROVE  NoDanglingRespCb'
<1>1. CASE HandleNewUserNotificationFromCenter(s, m)
  <2>1. CbKept
      BY <1>1, AddRemoteKept DEF HandleNewUserNotificationFromCenter
  <2>. QED  BY <1>1, <2>1, KeptIsSafe DEF HandleNewUserNotificationFromCenter
<1>2. CASE HandleNewPusherNotificationFromCenter(s, m)
  <2>. DEFINE u == m.user
              all == users[s][u].pushers \cup m.pushers
              r == [users[s][u] EXCEPT !.remote = TRUE, !.pushers = all]
  <2>1. UNCHANGED wsVars /\ (UNCHANGED users \/ (u \in Users /\ users' = [users EXCEPT ![s][u] = r]))
      BY <1>2 DEF HandleNewPusherNotificationFromCenter, In
  <2>2. CASE u \in Users /\ users' = [users EXCEPT ![s][u] = r]
    <3>1. users[s][u] \in UserRecs
        BY <2>2 DEF TypeOK, RoomTypeOK
    <3>2. \A ps : \A q \in UserRecs :
              /\ [q EXCEPT !.remote = TRUE, !.pushers = ps].cb = q.cb
              /\ [q EXCEPT !.remote = TRUE, !.pushers = ps].in = q.in
        BY DEF UserRecs
    <3>3. r.cb = users[s][u].cb /\ r.in = users[s][u].in
        BY <3>1, <3>2
    <3>. HIDE DEF r, u
    <3>4. CbKept
        BY <2>2, <3>3, OneUserKept, Zenon
    <3>. QED  BY <2>1, <3>4, KeptIsSafe
  <2>3. CASE UNCHANGED users
      BY <2>1, <2>3, SameUsersKept, KeptIsSafe
  <2>. QED  BY <2>1, <2>2, <2>3
<1>3. CASE \/ HandlePullRemoteStreamNotificationFromCenter(s, m)
           \/ HandleUserDisconnectNotificationFromCenter(s, m)
           \/ HandleUserLeaveNotificationFromCenter(s, m)
  <2>1. UNCHANGED <<users, wsVars>>
      BY <1>3 DEF HandlePullRemoteStreamNotificationFromCenter,
                  HandleUserDisconnectNotificationFromCenter,
                  HandleUserLeaveNotificationFromCenter
  <2>. QED  BY <2>1, SameUsersKept, KeptIsSafe
<1>4. CASE JoinResponseFromPilotCenter(s, m)
  <2>1. UNCHANGED wsVars
      BY <1>4 DEF JoinResponseFromPilotCenter, Undefined
  <2>2. UNCHANGED users \/ AddRemoteUsers(s, m.users \ In(s), m.pushers)
      BY <1>4 DEF JoinResponseFromPilotCenter, Undefined
  <2>3. CbKept
      BY <2>2, SameUsersKept, AddRemoteKept
  <2>. QED  BY <2>1, <2>3, KeptIsSafe
<1>. QED  BY <1>1, <1>2, <1>3, <1>4 DEF OnCenterMessage

\* TypeOK and NoDanglingRespCb together are inductive.
LEMMA NextSafe == TypeOK /\ NoDanglingRespCb /\ [Next]_vars => NoDanglingRespCb'
<1>. SUFFICES ASSUME TypeOK, NoDanglingRespCb, [Next]_vars PROVE NoDanglingRespCb'
    OBVIOUS
<1>1. ASSUME NEW w \in Sockets, ClientNext(w) PROVE NoDanglingRespCb'
    BY <1>1, ClientSafe
<1>2. ASSUME NEW s \in Sfus, PeerNext(s) \/ TimerNext(s) PROVE NoDanglingRespCb'
    BY <1>2, PeerSafe, TimerSafe
<1>3. ASSUME NEW s \in Sfus, NEW m \in CenterMsgs, OnCenterMessage(s, m)
      PROVE  NoDanglingRespCb'
    BY <1>3, CenterSafe
<1>4. ASSUME NEW s \in Sfus, NEW e, OnRtpPacketFromRemoteRtcPusher(s, e)
      PROVE  NoDanglingRespCb'
  <2>1. CbKept
      BY <1>4, BeatKept DEF OnRtpPacketFromRemoteRtcPusher
  <2>. QED  BY <1>4, <2>1, KeptIsSafe DEF OnRtpPacketFromRemoteRtcPusher
<1>5. CASE UNCHANGED <<users, wsVars>>
    BY <1>5, SameUsersKept, KeptIsSafe
<1>6. LinkNext => UNCHANGED <<users, wsVars>>
    BY DEF LinkNext, roomVars
<1>7. (\E x \in Sids : CenterTakes(x)) /\ UNCHANGED roomVars => UNCHANGED <<users, wsVars>>
    BY DEF roomVars
<1>8. UNCHANGED vars => UNCHANGED <<users, wsVars>>
    BY DEF vars, roomVars
<1>. QED
    BY <1>1, <1>2, <1>3, <1>4, <1>5, <1>6, <1>7, <1>8 DEF Next, LocalNext, CenterNext

\* The raw pointer RtcUser::resp_cb_ belongs to a user the room has, and outlives
\* its WebSocket session in one way only: the session joined again, as another
\* user or in another room (SetUserInfo).  For any number of SFUs, users, sockets
\* and re-created rooms, whatever joins the clients send and whatever the pilot
\* center sends.
THEOREM RespCbNeverDangles == Spec => []NoDanglingRespCb
<1>1. Init => NoDanglingRespCb
    BY NoCb DEF Init, NoDanglingRespCb
<1>2. TypeOK /\ NoDanglingRespCb /\ [Next]_vars => NoDanglingRespCb'
    BY NextSafe
<1>3. Spec => []TypeOK
    BY TypeCorrect
<1>. QED  BY <1>1, <1>2, <1>3, PTL DEF Spec
=============================================================================
