----------------------------- MODULE MCSfuRoom ------------------------------
(***************************************************************************)
(* Instances of SfuRoom for TLC.                                           *)
(***************************************************************************)
EXTENDS SfuRoom

CONSTANTS s1, u1, u2, w1, w3, v

\* w1 is a WebSocket of u1, w3 one of u2.
HomeIsS1 == [w \in Sockets |-> s1]
OneUserEach == [w \in Sockets |-> IF w = w3 THEN {u2} ELSE {u1}]

\* The client of w3 speaks for u1 as well, so that u1 can reconnect and w3 join
\* as another user.
TwoUsersOfW3 == [w \in Sockets |-> IF w = w3 THEN {u1, u2} ELSE {u1}]

\* Clients keep to the room: all of them, or all but that of w3.
Keeps(w) == ws[w] = "idle" \/ who[w] # NoWs
OneRoom == \A w \in Sockets : Keeps(w)
OnlyW3Strays == \A w \in Sockets \ {w3} : Keeps(w)
=============================================================================
