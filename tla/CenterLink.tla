----------------------------- MODULE CenterLink -----------------------------
(***************************************************************************)
(* The WebSocket link from an SFU to the pilot center, seen from the SFU:  *)
(* PilotMessageClient.  Each (re)connection of SFU s is a session          *)
(* <<s, n>>; up[<<s, n>>] holds what s has written to it and the center    *)
(* has not read.  What is written while the client is not connected is     *)
(* dropped, never queued.                                                  *)
(***************************************************************************)
EXTENDS Naturals, Sequences, FiniteSets

CONSTANTS
    Sfus,       \* the SFU processes
    Users,
    HasCenter,  \* the SFUs were configured with a pilot center
    MaxEpoch,   \* bound: connections made by one SFU
    MaxQueue    \* bound: messages in flight on one session

ASSUME LinkAssumption ==
    /\ IsFiniteSet(Sfus)
    /\ IsFiniteSet(Users)
    /\ HasCenter \in BOOLEAN
    /\ MaxEpoch \in Nat
    /\ MaxQueue \in Nat

VARIABLES
    conn,       \* conn[s]: PilotMessageClient::is_connected_
    epoch,      \* epoch[s]: connections made so far
    up,         \* up[<<s, n>>]: written by s and not yet read by the center
    lossy       \* lossy[s]: something s wrote while connected was lost

linkVars == <<conn, epoch, up, lossy>>

Sids == Sfus \X (1 .. MaxEpoch)

Sid(s) == <<s, epoch[s]>>

LinkInit ==
    /\ conn = [s \in Sfus |-> FALSE]
    /\ epoch = [s \in Sfus |-> 0]
    /\ up = [x \in Sids |-> <<>>]
    /\ lossy = [s \in Sfus |-> FALSE]

\* AsyncRequest and AsyncNotification: written when connected, else dropped.
Writes(s, msgs) ==
    IF HasCenter /\ conn[s] THEN [up EXCEPT ![Sid(s)] = @ \o msgs] ELSE up

Fits(s, n) == HasCenter /\ conn[s] => Len(up[Sid(s)]) + n <= MaxQueue

\* is_connected_ may be true through an old connection while the current one,
\* to which the client writes, is not yet open: what is written is lost.
Send(s, msgs) ==
    /\ Fits(s, Len(msgs))
    /\ \/ up' = Writes(s, msgs) /\ lossy' = lossy
       \/ /\ HasCenter /\ conn[s] /\ msgs # <<>>
          /\ lossy' = [lossy EXCEPT ![s] = TRUE]
          /\ up' = up
    /\ UNCHANGED <<conn, epoch>>

\* AsyncConnect, retried by every request and by the 5 s echo, and OnConnected.
Connect(s) ==
    /\ HasCenter
    /\ ~conn[s]
    /\ epoch[s] < MaxEpoch
    /\ conn' = [conn EXCEPT ![s] = TRUE]
    /\ epoch' = [epoch EXCEPT ![s] = @ + 1]
    /\ UNCHANGED <<up, lossy>>

\* OnClosed, or an exception of a write: the client is not connected any more.
OnClosed(s) ==
    /\ conn[s]
    /\ conn' = [conn EXCEPT ![s] = FALSE]
    /\ UNCHANGED <<epoch, up, lossy>>

\* The center takes the next message of a session, or closes the session and
\* loses the rest.
CenterTakes(x) ==
    /\ up[x] # <<>>
    /\ \E rest \in {Tail(up[x]), <<>>} : up' = [up EXCEPT ![x] = rest]
    /\ UNCHANGED <<conn, epoch, lossy>>

-----------------------------------------------------------------------------
(* The messages, of both directions.  A join and its response carry the Room *)
(* object (gen) that PilotMessageClient will call back.                      *)

JoinMsg(u, audience, gen) ==
    [method |-> "join", user |-> u, audience |-> audience, gen |-> gen]

JoinResponse(gen, us, ps) ==
    [method |-> "joinResponse", gen |-> gen, users |-> us, pushers |-> ps]

PushMsg(u, ps) == [method |-> "push", user |-> u, pushers |-> ps]

NewPusherMsg(u, ps) == [method |-> "newPusher", user |-> u, pushers |-> ps]

PullMsg(u, p, target) ==
    [method |-> "pullRemoteStream", user |-> u, pusher |-> p, to |-> target]

UserMsg(method, u) == [method |-> method, user |-> u]
=============================================================================
