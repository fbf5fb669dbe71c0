---------------------------- MODULE MediaStreams ----------------------------
(***************************************************************************)
(* The streaming side of the server: MediaStreamManager with the GopCache  *)
(* of each stream, and the RTMP, HTTP-FLV and WebSocket sessions that      *)
(* publish to it and play from it.  All of it runs in one event loop; an   *)
(* action is one callback.  Nothing is assumed of clients: an RTMP session *)
(* may play, publish and send media in any order and under any keys, and a *)
(* remote endpoint may be used again once its connection is closed.        *)
(***************************************************************************)
EXTENDS SequencesExt, FiniteSetsExt, Integers

CONSTANTS
    Keys,        \* stream keys, app/streamname
    Addrs,       \* remote endpoints of RTMP clients, their writer ids
    Rtmp,        \* RtmpSession objects
    Flv,         \* HttpFlvWriter objects
    WsPlay,      \* WsPlaySession objects
    WsPub,       \* WsPublishSession objects
    WsIds,       \* the random parts of the writer ids of WsPlaySessions
    MaxWriters,  \* bound: RtmpWriters one session makes
    MaxPackets,  \* bound: packets of one stream
    None         \* the empty key; no writer id

(* A sequence header stands for the video and the audio one, "inter" for every
   packet that is neither a header nor a key frame, audio included. *)
Types == {"metadata", "seq_hdr", "key", "inter"}
Headers == {"metadata", "seq_hdr"}

RtmpWriters == Rtmp \X (1 .. MaxWriters)
Writers == RtmpWriters \cup Flv \cup WsPlay
WriterIds == Addrs \cup Flv \cup WsIds
StreamKeys == Keys \cup {None}
Sessions == Rtmp \cup Flv \cup WsPlay \cup WsPub

Packets == [n : 1 .. MaxPackets, type : Types]
NoPacket == [n |-> 0, type |-> "none"]

ASSUME StreamsAssumption ==
    /\ MaxWriters \in Nat \ {0} /\ MaxPackets \in Nat
    /\ None \notin Keys \cup Addrs \cup WsIds
    /\ Addrs \cap (Flv \cup WsIds) = {} /\ Flv \cap WsIds = {}
    /\ Rtmp \cap Flv = {} /\ (Rtmp \cup Flv) \cap (WsPlay \cup WsPub) = {}
    /\ WsPlay \cap WsPub = {}
    /\ RtmpWriters \cap (Flv \cup WsPlay) = {}

VARIABLES
    streams,   \* media_streams_map_
    session,   \* the sessions: what they are doing and for which stream
    joined,    \* the packet with which each writer's init_flag_ was set, or 0
    out,       \* what each writer has sent
    fed,       \* the keys to which each session has published media
    headed,    \* the keys for which a sequence header was published, and that
               \* no RTMP publisher has unpublished since
    ub         \* a writer was used whose session was no longer there

vars == <<streams, session, joined, out, fed, headed, ub>>

(***************************************************************************)
(* phase: "none" not yet made, "open", "closed" with the object still      *)
(* there, "gone" destroyed by its server, "replaced" destroyed because its *)
(* remote address was used again.  role and key are what the session was   *)
(* last asked for (is_ready_, publish_flag_ and key_ of RtmpSession), made *)
(* counts the RtmpWriters, id is the writer id.                            *)
(***************************************************************************)
SessionStates ==
    [phase : {"none", "open", "closed", "gone", "replaced"},
     role : {"none", "play", "publish"}, key : StreamKeys,
     made : 0 .. MaxWriters, id : WriterIds \cup {None}]

NewSession == [phase |-> "none", role |-> "none", key |-> None, made |-> 0, id |-> None]

Init ==
    /\ streams = <<>>
    /\ session = [s \in Sessions |-> NewSession]
    /\ joined = [w \in Writers |-> 0]
    /\ out = [w \in Writers |-> <<>>]
    /\ fed = [s \in Sessions |-> {}]
    /\ headed = {}
    /\ ub = FALSE

-----------------------------------------------------------------------------
(* MediaStreamManager and GopCache *)

\* history is all the packets the MediaStream has been given; the code has no
\* such list, the properties do.
NewStream(publisher_exist) ==
    [publisher_exist_ |-> publisher_exist, writer_map_ |-> <<>>,
     metadata_hdr_ |-> NoPacket, seq_hdr_ |-> NoPacket, packet_list |-> <<>>, history |-> <<>>]

\* insert of a std::unordered_map: an entry that is there stays.
Insert(m, k, v) ==
    [x \in DOMAIN m \cup {k} |-> IF x \in DOMAIN m THEN m[x] ELSE v]

Erase(m, ks) == [k \in DOMAIN m \ ks |-> m[k]]

AddPlayer(ss, k, id, w) ==
    LET found == Insert(ss, k, NewStream(FALSE))
    IN  [found EXCEPT ![k].writer_map_ = Insert(@, id, w)]

AddPublisher(ss, k) ==
    [Insert(ss, k, NewStream(TRUE)) EXCEPT ![k].publisher_exist_ = TRUE]

\* The streams among ks that have neither a player nor a publisher.
Deserted(ss, ks) ==
    {k \in ks \cap DOMAIN ss : ss[k].writer_map_ = <<>> /\ ~ss[k].publisher_exist_}

\* RemovePlayer of each of the players ps, pairs of a stream key and a writer id.
RemovePlayers(ss, ps) ==
    LET left == [k \in DOMAIN ss |->
                    [ss[k] EXCEPT !.writer_map_ = Erase(@, {p[2] : p \in {q \in ps : q[1] = k}})]]
    IN  Erase(left, Deserted(left, {p[1] : p \in ps}))

\* Mutant: the stream stays although nobody plays it.
RemovePublishersKeeps(ss, ks) ==
    [k \in DOMAIN ss |->
        IF k \in ks THEN [ss[k] EXCEPT !.publisher_exist_ = FALSE] ELSE ss[k]]

RemovePublishers(ss, ks) ==
    LET left == [k \in DOMAIN ss |->
                    IF k \in ks THEN [ss[k] EXCEPT !.publisher_exist_ = FALSE] ELSE ss[k]]
    IN  Erase(left, Deserted(left, ks))

\* Mutant: a key frame does not begin a new group.
InsertPacketKeepsGop(c, p) ==
    CASE p.type = "metadata" -> [c EXCEPT !.metadata_hdr_ = p]
      [] p.type = "seq_hdr" -> [c EXCEPT !.seq_hdr_ = p]
      [] OTHER -> [c EXCEPT !.packet_list = Append(@, p)]

\* min_gop_ is 1: the list begins again at every key frame.
InsertPacket(c, p) ==
    CASE p.type = "metadata" -> [c EXCEPT !.metadata_hdr_ = p]
      [] p.type = "seq_hdr" -> [c EXCEPT !.seq_hdr_ = p]
      [] p.type = "key" -> [c EXCEPT !.packet_list = <<p>>]
      [] p.type = "inter" -> [c EXCEPT !.packet_list = Append(@, p)]

\* What WritePacket of w sends of the packet p: FLV carries no metadata, and a
\* header that was never set is not written.
Sent(w, p) ==
    IF p = NoPacket \/ (p.type = "metadata" /\ w \notin RtmpWriters) THEN <<>> ELSE <<p>>

\* Mutant: a header is sent whether there is one or not.
WriterGopNoTest(w, c) == <<c.metadata_hdr_, c.seq_hdr_>> \o c.packet_list

\* Mutant: the frames go before the headers.
WriterGopFramesFirst(w, c) ==
    c.packet_list \o Sent(w, c.metadata_hdr_) \o Sent(w, c.seq_hdr_)

\* packet_list has frames only, which every writer sends.
WriterGop(w, c) ==
    Sent(w, c.metadata_hdr_) \o Sent(w, c.seq_hdr_) \o c.packet_list

\* The session a writer writes to: RtmpWriter has one, the others are their own.
Owner(w) == IF w \in RtmpWriters THEN w[1] ELSE w

\* GetKey and GetWriterId: an RtmpWriter has those its session has now.
Entry(w) == <<session[Owner(w)].key, session[Owner(w)].id>>

\* The session of the writer, or the writer itself, was destroyed.
Dangles(w) == session[Owner(w)].phase \in {"gone", "replaced"}

\* A closed connection takes nothing.
Closed(w) == session[Owner(w)].phase = "closed"

\* WritePacket returns an error: WsPlaySession at once, the others only when
\* there is something to write.
Fails(w, ps) == Closed(w) /\ (w \in WsPlay \/ ps # <<>>)

\* The session s publishes a packet to the stream k.
WriterMediaPacket(s, k, type) ==
    LET ss == AddPublisher(streams, k)
        p == [n |-> Len(ss[k].history) + 1, type |-> type]
        stream == [InsertPacket(ss[k], p) EXCEPT !.history = Append(@, p)]
        players == Range(stream.writer_map_)
        given(w) == IF joined[w] # 0 THEN Sent(w, p) ELSE WriterGop(w, stream)
        failed == {w \in players : Fails(w, given(w))}
    IN  /\ p.n <= MaxPackets
        /\ \A w \in players : ~Dangles(w)
        /\ streams' = RemovePlayers([ss EXCEPT ![k] = stream], {Entry(w) : w \in failed})
        /\ joined' = [w \in Writers |-> IF w \in players /\ joined[w] = 0 THEN p.n ELSE joined[w]]
        /\ out' = [w \in Writers |->
                      IF w \in players /\ ~Closed(w) THEN out[w] \o given(w) ELSE out[w]]
        /\ fed' = [fed EXCEPT ![s] = @ \cup {k}]
        /\ headed' = IF type = "seq_hdr" THEN headed \cup {k} ELSE headed
        /\ UNCHANGED <<session, ub>>

\* The packet is for a writer that is no longer there: the behaviour is undefined.
WriterMediaPacketUndefined(k) ==
    /\ k \in DOMAIN streams
    /\ \E w \in Range(streams[k].writer_map_) : Dangles(w)
    /\ ub' = TRUE
    /\ UNCHANGED <<streams, session, joined, out, fed, headed>>

-----------------------------------------------------------------------------
(* RtmpServer and RtmpSession *)

Open(S) == {s \in S : session[s].phase = "open"}

\* TCP keeps the endpoints of open connections apart.
RtmpAccept(s, addr) ==
    /\ session[s].phase = "none"
    /\ \A r \in Open(Rtmp) : session[r].id # addr
    /\ session' = [session EXCEPT ![s].phase = "open", ![s].id = addr]
    /\ UNCHANGED <<streams, joined, out, fed, headed, ub>>

\* HandleRtmpPublishCommand: the stream itself is made by the first packet.
RtmpPublish(s, k) ==
    /\ s \in Open(Rtmp)
    /\ session' = [session EXCEPT ![s].role = "publish", ![s].key = k]
    /\ UNCHANGED <<streams, joined, out, fed, headed, ub>>

\* ReceiveChunkStream after a command of the session s that leaves it playing k
\* makes one more writer.  It goes under the id of the session: a stream that
\* has a writer of that id keeps it.
AddWriter(s, k) ==
    LET n == session[s].made + 1
    IN  /\ n <= MaxWriters
        /\ session' = [session EXCEPT ![s].role = "play", ![s].key = k, ![s].made = n]
        /\ streams' = AddPlayer(streams, k, session[s].id, <<s, n>>)
        /\ UNCHANGED <<joined, out, fed, headed, ub>>

\* HandleRtmpPlayCommand.
RtmpPlay(s, k) == s \in Open(Rtmp) /\ AddWriter(s, k)

\* Any other command of a playing session.
RtmpCommand(s) ==
    /\ s \in Open(Rtmp)
    /\ session[s].role = "play"
    /\ AddWriter(s, session[s].key)

\* Media of any session goes to the stream of its key, the empty one before a
\* command.
RtmpMedia(s, type) ==
    /\ s \in Open(Rtmp)
    /\ \/ WriterMediaPacket(s, session[s].key, type)
       \/ WriterMediaPacketUndefined(session[s].key)

\* The streams that Close of the sessions S unpublishes.
Unpublished(S) == {session[s].key : s \in {r \in S : session[r].role = "publish"}}

\* Close of the sessions S, open so far.
RtmpClosed(S) ==
    LET left == RemovePlayers(streams, {<<session[s].key, session[s].id>> :
                                          s \in {r \in S : session[r].role = "play"}})
    IN  /\ streams' = RemovePublishers(left, Unpublished(S))
        /\ headed' = headed \ Unpublished(S)

\* What the writers of the sessions S sent, and whether they began, is no longer
\* of interest: those still in a stream send nothing.
FreeWriters(S) ==
    /\ joined' = [w \in Writers |-> IF Owner(w) \in S THEN 0 ELSE joined[w]]
    /\ out' = [w \in Writers |-> IF Owner(w) \in S THEN <<>> ELSE out[w]]

\* The sessions S end in the phase given.
End(S, phase) ==
    /\ session' = [s \in Sessions |->
                      IF s \in S THEN [session[s] EXCEPT !.phase = phase] ELSE session[s]]
    /\ FreeWriters(S)
    /\ UNCHANGED <<fed, ub>>

\* OnRead or OnWrite reports an error, or a request is refused.
RtmpClose(s) ==
    /\ s \in Open(Rtmp)
    /\ RtmpClosed({s})
    /\ End({s}, "closed")

\* RtmpServer::OnCheckAlive: the sessions that were silent for too long.
RtmpCheckAlive(dead) ==
    /\ dead # {}
    /\ \A s \in dead : session[s].phase \in {"open", "closed"}
    /\ RtmpClosed(Open(dead))
    /\ End(dead, "gone")

-----------------------------------------------------------------------------
(* HttpFlvServer and HttpFlvWriter *)

\* The key is what stands before ".flv" in the URI, which may be nothing.
HttpFlvHandle(f, k) ==
    /\ session[f].phase = "none"
    /\ session' = [session EXCEPT ![f].phase = "open", ![f].role = "play", ![f].key = k,
                                  ![f].id = f]
    /\ streams' = AddPlayer(streams, k, f, f)
    /\ UNCHANGED <<joined, out, fed, headed, ub>>

\* HttpSession::Close closes the response; the writer finds out when it writes.
HttpFlvClosed(f) ==
    /\ session[f].phase = "open"
    /\ session' = [session EXCEPT ![f].phase = "closed"]
    /\ UNCHANGED <<streams, joined, out, fed, headed, ub>>

\* Mutant: the writer is deleted and the stream keeps it.
HttpFlvCheckAliveLeaves(dead) ==
    /\ dead # {}
    /\ \A f \in dead : session[f].phase \in {"open", "closed"}
    /\ End(dead, "gone")
    /\ UNCHANGED <<streams, headed>>

\* HttpFlvServer::OnCheckAlive: the writers that wrote nothing for too long.
HttpFlvCheckAlive(dead) ==
    /\ dead # {}
    /\ \A f \in dead : session[f].phase \in {"open", "closed"}
    /\ streams' = RemovePlayers(streams, {Entry(f) : f \in dead})
    /\ End(dead, "gone")
    /\ UNCHANGED headed

-----------------------------------------------------------------------------
(* WsStreamServer, WsPublishSession and WsPlaySession *)

\* The session that ws_publish_sessions or ws_play_sessions has under the remote
\* address of a new one, among S: its connection is closed, and the assignment
\* destroys it.  Nothing else is told.
Replaceable(S) == {{}} \cup {{old} : old \in {s \in S : session[s].phase = "closed"}}

\* The session s begins in the role given, and the sessions olds are replaced.
WsBegins(s, k, role, id, olds) ==
    /\ session[s].phase = "none"
    /\ session' = [x \in Sessions |->
           IF x = s THEN [NewSession EXCEPT !.phase = "open", !.role = role, !.key = k, !.id = id]
           ELSE IF x \in olds THEN [session[x] EXCEPT !.phase = "replaced"]
           ELSE session[x]]
    /\ FreeWriters(olds)
    /\ UNCHANGED <<fed, headed, ub>>

OnWSStreamPublish(s, k) ==
    \E olds \in Replaceable(WsPub) :
        WsBegins(s, k, "publish", None, olds) /\ UNCHANGED streams

\* The writer id is random; another player of the stream may have it.
OnWSStreamPlay(s, k, id) ==
    \E olds \in Replaceable(WsPlay) :
        WsBegins(s, k, "play", id, olds) /\ streams' = AddPlayer(streams, k, id, s)

WsMedia(s, type) ==
    /\ s \in Open(WsPub)
    /\ \/ WriterMediaPacket(s, session[s].key, type)
       \/ WriterMediaPacketUndefined(session[s].key)

\* OnClose, or a read error: only closed_ is set.
WsOnClose(s) ==
    /\ session[s].phase = "open"
    /\ session' = [session EXCEPT ![s].phase = "closed"]
    /\ UNCHANGED <<streams, joined, out, fed, headed, ub>>

\* WsStreamServer::OnTimer erases the sessions that are closed or were silent
\* for too long.  A publisher goes without RemovePublisher.
WsOnTimer(silent) ==
    LET dead == silent \cup {s \in WsPlay \cup WsPub : session[s].phase = "closed"}
    IN  /\ silent \subseteq Open(WsPlay \cup WsPub)
        /\ dead # {}
        /\ streams' = RemovePlayers(streams, {Entry(s) : s \in dead \cap WsPlay})
        /\ End(dead, "gone")
        /\ UNCHANGED headed

-----------------------------------------------------------------------------
\* After undefined behaviour nothing is said of the program.
Next ==
    /\ ~ub
    /\ \/ \E s \in Rtmp, addr \in Addrs : RtmpAccept(s, addr)
       \/ \E s \in Rtmp : RtmpCommand(s) \/ RtmpClose(s)
       \/ \E s \in Rtmp, k \in Keys : RtmpPublish(s, k) \/ RtmpPlay(s, k)
       \/ \E s \in Rtmp, type \in Types : RtmpMedia(s, type)
       \/ \E dead \in SUBSET Rtmp : RtmpCheckAlive(dead)
       \/ \E f \in Flv, k \in StreamKeys : HttpFlvHandle(f, k)
       \/ \E f \in Flv : HttpFlvClosed(f)
       \/ \E dead \in SUBSET Flv : HttpFlvCheckAlive(dead)
       \/ \E s \in WsPub, k \in Keys : OnWSStreamPublish(s, k)
       \/ \E s \in WsPlay, k \in Keys, id \in WsIds : OnWSStreamPlay(s, k, id)
       \/ \E s \in WsPub, type \in Types : WsMedia(s, type)
       \/ \E s \in WsPlay \cup WsPub : WsOnClose(s)
       \/ \E silent \in SUBSET (WsPlay \cup WsPub) : WsOnTimer(silent)

Spec == Init /\ [][Next]_vars

-----------------------------------------------------------------------------
(* Properties *)

\* Every variable has its type.
TypeOK ==
    /\ DOMAIN streams \subseteq StreamKeys
    /\ \A k \in DOMAIN streams :
           /\ streams[k].publisher_exist_ \in BOOLEAN
           /\ DOMAIN streams[k].writer_map_ \subseteq WriterIds
           /\ Range(streams[k].writer_map_) \subseteq Writers
           /\ streams[k].metadata_hdr_ \in Packets \cup {NoPacket}
           /\ streams[k].seq_hdr_ \in Packets \cup {NoPacket}
           /\ streams[k].packet_list \in Seq(Packets)
           /\ streams[k].history \in Seq(Packets)
    /\ session \in [Sessions -> SessionStates]
    /\ joined \in [Writers -> 0 .. MaxPackets]
    /\ out \in [Writers -> Seq(Packets)]
    /\ fed \in [Sessions -> SUBSET StreamKeys]
    /\ headed \subseteq StreamKeys
    /\ ub \in BOOLEAN

\* MediaStreamManager keeps raw pointers to writers.  One of them outlives its
\* session in two ways only: an RTMP session was told to publish, or to play
\* another stream, after it had played this one, and Close then removed what it
\* did last; or a WsPlaySession was replaced by one from the same remote address.
\* No other order of closes, time-outs and failed writes leaves one behind.
NoDanglingWriter ==
    \A k \in DOMAIN streams : \A w \in Range(streams[k].writer_map_) :
        LET s == session[Owner(w)]
        IN  Dangles(w) \/ (Closed(w) /\ w \in RtmpWriters) =>
                \/ w \in RtmpWriters /\ (s.role = "publish" \/ s.key # k)
                \/ w \in WsPlay /\ s.phase = "replaced"

\* The frames of stream k, by their places in its history, that its player w is
\* due: those since the last key frame before it joined, or all when no key
\* frame had come, and those since.
Due(k, w) ==
    {h \in DOMAIN streams[k].history :
        /\ streams[k].history[h].type \notin Headers
        /\ \A g \in h + 1 .. joined[w] : streams[k].history[g].type # "key"}

\* A player in a stream has been given every frame that it is due and no other,
\* with none left out, repeated or out of order (WriterGop and the packets after).
PlayersSeeWholeGops ==
    \A k \in DOMAIN streams : \A w \in Range(streams[k].writer_map_) :
        LET frames == {i \in DOMAIN out[w] : out[w][i].type \notin Headers}
        IN  joined[w] # 0 /\ session[Owner(w)].phase = "open" =>
                /\ {out[w][i] : i \in frames} = {streams[k].history[h] : h \in Due(k, w)}
                /\ \A i, j \in frames : i < j => out[w][i].n < out[w][j].n

\* A frame reaches a player only after a sequence header at least as new as the
\* last one given to the MediaStream before the frame; and the MediaStream has
\* been given one, if one was published under its key and no RTMP publisher of
\* the key has closed since.  (When one closes and nobody plays, the stream goes
\* with its headers, although another session may go on publishing.)
HeadersComeFirst ==
    /\ \A k \in DOMAIN streams : \A w \in Range(streams[k].writer_map_) :
           \A i \in DOMAIN out[w], h \in DOMAIN streams[k].history :
               /\ out[w][i].type \notin Headers
               /\ streams[k].history[h].type = "seq_hdr"
               /\ h < out[w][i].n
               => \E j \in 1 .. i - 1 : out[w][j].type = "seq_hdr" /\ out[w][j].n >= h
    /\ \A k \in headed :
           /\ k \in DOMAIN streams
           /\ \E h \in DOMAIN streams[k].history : streams[k].history[h].type = "seq_hdr"

\* Close of the session s takes the mark of a publisher off the stream k.
Unpublishes(s, k) == s \in Rtmp /\ session[s].role = "publish" /\ session[s].key = k

\* A stream that nobody plays is there for a session that published to it and is
\* open, or ended without RemovePublisher: a WebSocket publisher, or an RTMP
\* session last told to play or to publish something else, or told nothing.
\* Whatever else closes and times out, in whatever order, leaves none behind.
StreamsAreReleased ==
    \A k \in DOMAIN streams :
        \/ streams[k].writer_map_ # <<>>
        \/ \E s \in Sessions :
               /\ k \in fed[s]
               /\ session[s].phase = "open" \/ ~Unpublishes(s, k)
=============================================================================
