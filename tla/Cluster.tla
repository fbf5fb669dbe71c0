------------------------------ MODULE Cluster -------------------------------
(***************************************************************************)
(* SFUs and their pilot center: SfuRoom's open environment closed by       *)
(* PilotCenter and by the send relays of the other SFUs.                   *)
(***************************************************************************)
EXTENDS SfuRoom, PilotCenter

clusterVars == <<vars, centerVars>>

ClusterInit == Init /\ CenterInit

\* OnNotification and OnResponse: the next message of the current connection.
Deliver(s) ==
    /\ conn[s]
    /\ down[Sid(s)] # <<>>
    /\ OnCenterMessage(s, Head(down[Sid(s)]))
    /\ down' = [down EXCEPT ![Sid(s)] = Tail(@)]
    /\ UNCHANGED <<cusers, reg, part, pend>>

\* OnResponse drops an answer that took 8 s or more; only the MSU is that slow.
DropLateResponse(s) ==
    /\ conn[s]
    /\ HasMsu
    /\ down[Sid(s)] # <<>>
    /\ Head(down[Sid(s)]).method = "joinResponse"
    /\ down' = [down EXCEPT ![Sid(s)] = Tail(@)]
    /\ UNCHANGED <<vars, cusers, reg, part, pend>>

\* The connection ends at the SFU, with what it had not read.
LinkLost(s) ==
    /\ OnClosed(s)
    /\ down' = [down EXCEPT ![Sid(s)] = <<>>]
    /\ UNCHANGED <<roomVars, cusers, reg, part, pend>>

\* The pusher's SFU forwards a packet of e.pusher through its send relay, whose
\* one target is this recv relay (RtcSendRelay::SendRtpPacket).
RelayRtp(s, e) ==
    LET h == e.pusher.sfu
    IN  /\ ~ub[h]
        /\ sess[h][e.pusher.sess].st = "up"
        /\ e.pusher.media \in sess[h][e.pusher.sess].pushes
        /\ [sfu |-> s, port |-> e.port] \in sendRelay[h][e.pusher.user].to
        /\ e.pusher \in sendRelay[h][e.pusher.user].infos
        /\ OnRtpPacketFromRemoteRtcPusher(s, e)

ClusterNext ==
    \/ LocalNext /\ UNCHANGED centerVars
    \/ \E s \in Sfus :
           \/ Connect(s) /\ UNCHANGED <<roomVars, centerVars>>
           \/ LinkLost(s)
           \/ Deliver(s)
           \/ DropLateResponse(s)
           \/ (\E e \in recvByPusher[s] : RelayRtp(s, e)) /\ UNCHANGED centerVars
    \/ CenterSteps /\ UNCHANGED roomVars
    \/ (\E x \in Sids : MsuAnswers(x)) /\ UNCHANGED vars

ClusterSpec == ClusterInit /\ [][ClusterNext]_clusterVars

-----------------------------------------------------------------------------
\* The composition implements SfuRoom: the center and the relays send an SFU
\* nothing that the open environment of SfuRoom may not send it, so what holds
\* of SfuRoom!Spec with an arbitrary center holds of the cluster.
ImplementsSfuRoom == Spec

\* Nothing is under way between the SFUs and the center.
Quiet ==
    /\ \A x \in Sids : up[x] = <<>> /\ down[x] = <<>> /\ pend[x] = NoSid
    /\ \A s \in Sfus : conn[s] /\ epoch[s] = 1 /\ ~lossy[s] /\ ~ub[s]

\* Once everything sent has arrived, and no write and no connection was ever
\* lost, an SFU the center broadcasts to knows every participant that the center
\* has bound to a session, with every pusher the center has recorded for it.
\* (Not bound: a user who was disconnected or left and pushes again, which the
\* center announces by a newPusher only, and those who do not know the user
\* ignore that.)
ViewAgreement ==
    Quiet =>
        \A s \in Sfus, u \in Users :
            Sid(s) \in reg /\ cusers[u].sid # NoSid /\ ~cusers[u].audience =>
                /\ users[s][u].in
                /\ cusers[u].pushers \subseteq users[s][u].pushers

\* A user's own SFU never takes it for a remote user.
OwnUserStaysLocal ==
    \A w \in Sockets : \A u \in Speaks[w] : ~users[Home[w]][u].remote
=============================================================================
