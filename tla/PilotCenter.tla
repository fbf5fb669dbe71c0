---------------------------- MODULE PilotCenter -----------------------------
(***************************************************************************)
(* One room as the pilot center keeps it: Room, User and the               *)
(* WsProtooSessions of the SFUs.  The center is one asyncio loop; a        *)
(* session reads one message at a time and does not read the next before   *)
(* its handler is done, so a join that waits for the MSU's answer to       *)
(* "invite" blocks its own session and no other.                           *)
(***************************************************************************)
EXTENDS CenterLink

CONSTANTS
    HasMsu,     \* an MSU is registered: joins wait for its answer
    NoSid       \* no session, no pending response

ASSUME CenterAssumption == HasMsu \in BOOLEAN /\ NoSid \notin Sids

VARIABLES
    cusers,     \* cusers[u]: Room._users
    reg,        \* Room._sessions
    part,       \* part[x]: the participations of session x
    pend,       \* pend[x]: the join response held while waiting for the MSU
    down        \* down[x]: written to x and not yet read by the SFU

centerVars == <<cusers, reg, part, pend, down>>

NoCUser == [in |-> FALSE, sid |-> NoSid, audience |-> FALSE, pushers |-> {}]

CenterInit ==
    /\ cusers = [u \in Users |-> NoCUser]
    /\ reg = {}
    /\ part = [x \in Sids |-> {}]
    /\ pend = [x \in Sids |-> NoSid]
    /\ down = [x \in Sids |-> <<>>]

\* Append msg to every session of X.
Put(X, msg) == [x \in Sids |-> IF x \in X THEN Append(down[x], msg) ELSE down[x]]

\* Bound: no session of X is full.
Takes(X) == \A x \in X : Len(down[x]) < MaxQueue

\* broadcast_except_user: every registered session but the one of user u, as
\* it is bound at this moment.
Except(R, us, u) == R \ {us[u].sid}

\* Session x is in its receive loop and takes the next message.
Reads(x) ==
    /\ pend[x] = NoSid
    /\ up[x] # <<>>
    /\ up' = [up EXCEPT ![x] = Tail(@)]
    /\ UNCHANGED <<conn, epoch, lossy>>

\* Room.handle_join, the MSU's invite for a participant, and the response.
HandleJoin(x, m) ==
    LET u == m.user
        us == [cusers EXCEPT ![u].in = TRUE, ![u].sid = x, ![u].audience = m.audience]
        others == {y \in Users \ {u} : cusers[y].in /\ ~cusers[y].audience}
        resp == JoinResponse(m.gen, others, UNION {cusers[y].pushers : y \in others})
        R == reg \cup {x}
        X == IF m.audience THEN {} ELSE Except(R, us, u)
        told1 == Put(X, UserMsg("newUser", u))
    IN  /\ m.method = "join"
        /\ Takes(X \cup {x})
        /\ cusers' = us
        /\ reg' = R
        /\ part' = [part EXCEPT ![x] = @ \cup {u}]
        /\ IF HasMsu /\ ~m.audience
           THEN /\ pend' = [pend EXCEPT ![x] = resp]
                /\ down' = told1
           ELSE /\ down' = [told1 EXCEPT ![x] = Append(@, resp)]
                /\ UNCHANGED pend

\* The MSU has answered, or 10 s are over: the response is sent as it was
\* computed before the wait.
MsuAnswers(x) ==
    /\ pend[x] # NoSid
    /\ Takes({x})
    /\ down' = [down EXCEPT ![x] = Append(@, pend[x])]
    /\ pend' = [pend EXCEPT ![x] = NoSid]
    /\ UNCHANGED <<cusers, reg, part>>

\* Room.handle_push_notification; an unknown user is made, without a session.
HandlePush(x, m) ==
    LET us == [cusers EXCEPT ![m.user].in = TRUE, ![m.user].pushers = @ \cup m.pushers]
        X == Except(reg, cusers, m.user)
    IN  /\ m.method = "push"
        /\ Takes(X)
        /\ cusers' = us
        /\ down' = Put(X, NewPusherMsg(m.user, m.pushers))
        /\ UNCHANGED <<reg, part, pend>>

\* Mutant: the request is passed on under the puller's name.
HandlePullRemoteStreamPuller(x, m) ==
    LET X == {cusers[m.user].sid} \ {NoSid}
    IN  /\ m.method = "pullRemoteStream"
        /\ Takes(X)
        /\ \E u \in part[x] : down' = Put(X, [m EXCEPT !.user = u])
        /\ UNCHANGED <<cusers, reg, part, pend>>

\* Room.handle_pull_remote_stream_notification goes to the pusher's session.
HandlePullRemoteStream(x, m) ==
    LET X == {cusers[m.user].sid} \ {NoSid}
    IN  /\ m.method = "pullRemoteStream"
        /\ Takes(X)
        /\ down' = Put(X, m)
        /\ UNCHANGED <<cusers, reg, part, pend>>

\* Room.handle_userDisconnect_notification: User.remove_session only unbinds
\* the session that sends it.
HandleUserDisconnect(x, m) ==
    LET u == m.user
        X == IF cusers[u].in THEN Except(reg, cusers, u) ELSE {}
    IN  /\ m.method = "userDisconnect"
        /\ Takes(X)
        /\ down' = Put(X, m)
        /\ cusers' = [cusers EXCEPT ![u].sid = IF @ = x THEN NoSid ELSE @]
        /\ UNCHANGED <<reg, part, pend>>

\* Room.handle_userLeave_notification.
HandleUserLeave(x, m) ==
    LET u == m.user
        X == IF cusers[u].in THEN Except(reg, cusers, u) ELSE {}
    IN  /\ m.method = "userLeave"
        /\ Takes(X)
        /\ down' = Put(X, m)
        /\ cusers' = [cusers EXCEPT ![u] = NoCUser]
        /\ UNCHANGED <<reg, part, pend>>

\* "userReConnect" is not among the methods _handle_notification knows.
Unhandled(x, m) ==
    /\ m.method = "userReConnect"
    /\ UNCHANGED centerVars

Handle(x, m) ==
    \/ HandleJoin(x, m)
    \/ HandlePush(x, m)
    \/ HandlePullRemoteStream(x, m)
    \/ HandleUserDisconnect(x, m)
    \/ HandleUserLeave(x, m)
    \/ Unhandled(x, m)

\* _on_message: the next message of session x, handled to the end or to the
\* wait for the MSU.
OnMessage(x) == Reads(x) /\ Handle(x, Head(up[x]))

\* WsProtooSession.close, once the SFU's side of session x has gone: the users
\* x speaks for lose it, those left without a session leave the room, and no
\* other SFU is told.
CloseSession(x) ==
    LET lost == {u \in part[x] : cusers[u].sid \in {x, NoSid}}
    IN  /\ x[2] < epoch[x[1]] \/ (x[2] = epoch[x[1]] /\ ~conn[x[1]])
        /\ pend[x] = NoSid
        /\ part[x] # {} \/ up[x] # <<>>
        /\ cusers' = [u \in Users |-> IF u \in lost THEN NoCUser ELSE cusers[u]]
        /\ reg' = IF part[x] = {} THEN reg ELSE reg \ {x}
        /\ part' = [part EXCEPT ![x] = {}]
        /\ up' = [up EXCEPT ![x] = <<>>]
        /\ down' = [down EXCEPT ![x] = <<>>]
        /\ UNCHANGED <<conn, epoch, lossy, pend>>

CenterSteps == \E x \in Sids : OnMessage(x) \/ CloseSession(x)
=============================================================================
