------------------------------ MODULE MCCluster -----------------------------
(***************************************************************************)
(* Instances of Cluster for TLC.                                           *)
(***************************************************************************)
EXTENDS Cluster

CONSTANTS s1, s2, u1, u2, u3, w1, w2, w3, v

\* w1 and w2 are WebSockets of u1 at s1, w3 is one of u2 at s2.
HomeOf == [w \in Sockets |-> IF w = w3 THEN s2 ELSE s1]
SpeaksFor == [w \in Sockets |-> IF w = w3 THEN {u2} ELSE {u1}]

\* w2 is a WebSocket of u3, who shares s1 with u1.
SpeaksForThree == [SpeaksFor EXCEPT ![w2] = {u3}]

\* u2 stays once it has joined, its SFU's media sessions never see a packet, and
\* WebSockets keep to the room and end by a close: the comings and goings are
\* those of s1.
U2Stays ==
    /\ users[s2][u2].age = 0
    /\ \A w \in Sockets :
           /\ ws[w] = "idle" \/ who[w] # NoWs
           /\ ws[w] # "broken" /\ (w = w3 => ws[w] # "gone")
    /\ \A k \in SessIds : sess[s2][k].st # "up"

\* Neither a write nor a connection is lost, nothing is pulled and no media packet
\* arrives.
NothingPulled ==
    /\ U2Stays
    /\ \A s \in Sfus : (conn[s] \/ epoch[s] = 0) /\ ~lossy[s]
    /\ \A s \in Sfus, k \in SessIds :
           sess[s][k].st = "none" \/ (sess[s][k].st = "wait" /\ sess[s][k].pushes # {})

\* The rooms are made when their SFU is connected, and stay; only s1 pushes, and
\* only u1 can be released and, being released, push again.
U1ComesAndGoes ==
    /\ NothingPulled
    /\ users[s1][u3].age = 0 /\ ws[w2] # "gone"
    /\ \A s \in Sfus : room[s].up => conn[s] /\ ~room[s].idle
    /\ \A k \in SessIds : sess[s2][k].st = "none"

\* s1 only has the pusher u1 and s2 only the puller u2; rooms are made once the
\* SFU is connected and stay, and u1 is not released; s1 may lose its
\* connection, unless u2 pulls.
PusherAndPuller ==
    /\ U2Stays
    /\ \A s \in Sfus : (room[s].up => epoch[s] > 0 /\ ~room[s].idle) /\ ~lossy[s]
    /\ users[s1][u1].age = 0
    /\ \A s \in Sfus : conn[s] \/ epoch[s] = 0 \/ <<s, epoch[s]>> = <<s1, 1>>
    /\ epoch[s2] < 2
    /\ \A k \in SessIds :
           /\ sess[s1][k].st # "gone" /\ ~sess[s1][k].idle /\ sess[s1][k].pulls = {}
           /\ sess[s1][k].st # "none" => sess[s1][k].pushes # {}
           /\ sess[s2][k].st # "none" =>
                  sess[s2][k].pulls # {} /\ conn[s1] /\ epoch[s1] = 1
=============================================================================
