# RTCPilot: a TLA+ model of the SFU cluster

RTCPilot is a WebRTC selective forwarding unit (SFU, C++ on one libuv loop) and
`pilot_center`, a Python/asyncio service that connects several SFUs into one
room. The same process serves live streams over RTMP, HTTP-FLV and WebSocket.
This directory holds TLA+ modules of the room as it is kept by the SFUs and by
the center, of the link between them, of loss recovery on an RTP hop and of the
streaming side, the TLC configurations that check them, and TLAPS proofs.
Paths below are relative to the repository.

## 1. The system

### Components, their state and their operations

| component | state | operations |
|---|---|---|
| `RoomMgr` (`src/webrtc_room/room_mgr.cpp`) | `rooms_` | dispatch of client requests and center notifications, `GetOrCreateRoom`, 1 s timer (echo to the center, removal of rooms idle for 90 s) |
| `Room` (`src/webrtc_room/room.cpp`) | `users_`, `pusherId2pusher_`, `pusher2pullers_`, `pusherId2recvRelay_`, `pusher_user_id2recvRelay_`, `pusher_user_id2sendRelay_`, `last_alive_ms_` | join, reconnect, push, pull (local and remote), heartbeat, disconnect, release, RTP and key frame forwarding, the handlers of what the center sends, 10 ms timer |
| `RtcUser` (`rtc_user.cpp`) | `resp_cb_` (raw pointer), `pushers_`, `is_remote_`, `audience_`, `last_heartbeat_ms_` | `UpdateHeartbeat`, `IsAlive` (45 s; 65 s without a WebSocket) |
| `WsMessageSession`, `WsMessageServer` (`src/ws_message/`) | `closed_`, `alive_ms_`, room and user id | requests and notifications, close, sweep |
| `WebRtcServer`, `WebRtcSession` | `username2sessions_`, `addr2sessions_`, `alive_ms_`, pushers and pullers | STUN, RTP/RTCP, 35 s timeout, `Close` (calls back into the Room) |
| `RtcRecvRelay`, `RtcSendRelay`, `PortGenerator` | UDP port, target, `push_infos_` | media between SFUs, 40 s timeout |
| WHIP (`whip.cpp`) | none | POST: join and push; DELETE: removes sessions and room |
| `PilotMessageClient` with its `WsProtooClient`s and `WebSocketClient`s | `is_connected_`, `last_connecting_ms_`, `request_id_`, `async_request_cbs_`, `old_clients_` | connect (at most every 10 s), request, notification, response (dropped when 8 s old), close |
| pilot center (`pilot_center/room`, `websocket_protoo`) | `Room._users`, `Room._sessions`, `User` session binding, `participations` | join (waits for the MSU), push, pullRemoteStream, userDisconnect, userLeave, session close |
| MSU registry (`pilot_center/msu`) | registered MSUs, room cache | register, invite on join |
| `RtpSendSession`, `RtpRecvSession`, `NackGenerator`, `RtcpFbNack` | sequence state (`max_seq_`, `cycles_`, `bad_seq_`), `rtx_packet_cache_`, `last_seq_`, `nack_map_` | send and cache, answer a NACK, receive a packet or a retransmission, 10 ms timer |
| `MediaStreamManager`, `GopCache` (`src/utils/av/`) | `media_streams_map_`, `writer_map_` (raw pointers), headers, `packet_list` | add and remove players and publishers, distribute a packet |
| RTMP, HTTP-FLV and WebSocket stream sessions | request, writer, `closed_`, `alive_ms_` | publish, play, media, close, time-outs |
| TCC, voice agent with `FastJitterBuffer`, timers, DTLS/SRTP/ICE, parsers, configuration | | not modelled |

### Interaction

A client speaks JSON over a WebSocket to one SFU and media over UDP. The SFU
tells its other clients directly, and the center by notifications. The center
broadcasts to the sessions of the other SFUs, which create *remote* users. A
pull of a remote user makes a receive relay (a UDP port) and sends
`pullRemoteStream` through the center to the SFU of the pusher, which makes a
send relay to that port.

Media travels over UDP hops: client to SFU, SFU to SFU, SFU to client. On each
hop the receiver asks for what is missing and the sender answers from a cache.

A stream of the streaming side is made by its first player or its first packet;
a publisher's packets are cached from the last key frame on and written to every
player of the stream, a new one getting the headers and the cache first.

### What is hard here

* Each SFU is single threaded, but handlers of clients, UDP peers, five
  independent timers and the center interleave, and each timer uses its own
  deadline (30 s, 35 s, 40 s, 45/65 s, 90 s).
* Objects refer to each other by raw pointers (`RtcUser::resp_cb_`, the Room in
  every `WebRtcSession` and in every pending request).
* One fact is kept in several maps that are cleaned at different moments.
* Messages to the center are dropped while the link is down; answers are
  dropped when late; the center awaits the MSU in the middle of a join.
* A connection to the center that was replaced keeps calling back, and all
  connections share one flag.
* Sequence numbers wrap, and the code compares them in four different ways
  (`UpdateSeq`, `SeqLowerThan`, as integers in loops and map keys, modulo the
  cache size).
* `MediaStreamManager` writes through raw pointers to objects that three timers
  and several error paths destroy.

`PROJECT.json` lists the hazards line by line, each with the property that
covers it or the reason why none does.

## 2. The modules

| module | models |
|---|---|
| `CenterLink` | the link to the center as the SFU sees it (`PilotMessageClient`): sessions `<<sfu, n>>`, the queue of written messages, which may lose a write, the message constructors |
| `SfuRoom` | one room at every SFU with an *arbitrary* center: any notification at any time. Clients, WHIP, media sessions, relays, all timers. Safety and liveness properties |
| `PilotCenter` | the same room at the pilot center |
| `Cluster` | `SfuRoom` with `PilotCenter` as its center and with the send relays of the other SFUs as the source of relayed RTP |
| `MCSfuRoom`, `MCCluster`, `MCMediaStreams` | instances and state constraints for TLC |
| `PilotClient` | `PilotMessageClient` in detail: one state per connection ever made, request ids, callbacks, spacing of attempts. Implements `CenterLink` |
| `LossRecovery` | abstract: what a receiver promises about each packet of a stream |
| `RtpHop` | one stream over one UDP hop: sender, lossy network, receiver, NACKs. Implements `LossRecovery` |
| `MediaStreams` | the streaming side: streams, caches and the sessions of the three protocols |
| `SfuRoomProofs` | type correctness of `SfuRoom`, in which one way `resp_cb_` can dangle, and the lemmas on its actions that the next ones build on |
| `RosterProofs` | clients know the users and the pushers of their room |
| `RoomMapsProofs` | the maps of relays agree, the media maps name live transports |
| `ClusterProofs` | `Cluster` implements `SfuRoom` and inherits its safety |
| `ViewProofs` | the SFUs know what the center knows |
| `PilotClientProofs` | the connection flag, the callbacks of requests, and that `PilotClient` implements `CenterLink` |
| `RtpHopProofs` | the safety properties of a hop, and that it implements `LossRecovery` |
| `MediaStreamsProofs` | the safety properties of the streaming side |

`Cluster` composes `SfuRoom`, `PilotCenter` and `CenterLink`. Three modules are
shown to implement another: `Cluster` implements `SfuRoom` (the center of the
cluster is one of the arbitrary centers), `PilotClient` implements `CenterLink`
(the link the rooms assume), `RtpHop` implements `LossRecovery`.

### State and actions of SfuRoom

Every variable is indexed by the SFU. `room[s]` is the entry of `rooms_` with a
generation number that tells Room objects of the same id apart; `users[s][u]`
is the `RtcUser` record; `pushers`, `pullers`, `recvByUser`, `recvByPusher` and
`sendRelay` are the maps of `Room`; `sess[s][k]` are the `WebRtcSession`s;
`ws[w]` the clients' sockets, and `who[w]` the user that the session of w reports
at its end: every join overwrites it (`SetUserInfo`). `Speaks[w]` are the users
for which the client behind w sends requests; it may join as several of them, in
another room (`HandleJoinRequestElsewhere`; `who[w]` is then no user), and push or
pull as one it never joined as. `told[w]` and `heard[w]` record what the SFU has
written to a client: the users and the pushers it announced and did not
withdraw. An action is a whole handler with its notifications and its messages
to the center; the names are those of the C++ functions.

Time is abstract. A deadline is a flag or a small age (`UserAges`, `RoomIdles`,
`RelayIdles`, `SessionIdles`) that any refresh resets, so timers may expire in
any order relative to each other.

When the code does something C++ leaves undefined, the SFU's flag `ub` is set and
the SFU stops: nothing is claimed of it from there on. There are four such things:
a packet, a key frame request or a close of a media session made with a Room that
was destroyed; a join answer for such a Room; `OnKeyFrameRequest` for a user who
is not there, whether a puller asks or the SFU behind a send relay
(`OnRelayKeyFrameRequest`); and a notification to a `resp_cb_` whose session was
destroyed (`NotifyDestroyed`, which may happen any time from then on). The hazards
list names the places.

A handler takes no time: `Room::OnTimer` reads the clock once per relay entry
(`RtcRecvRelay::IsAlive`), and the deadline of a relay that two entries share is
taken not to pass between the two reads of one scan.

Abstractions: a session number stands for its ICE user name; a pusher is
`(sfu, session, media, user)`; an offer is the set of media that is accepted;
names, SDP, JSON, logs and event logs are left out, and so are text messages,
which keep no state.

### State and actions of PilotCenter

`cusers` (`Room._users`), `reg` (`Room._sessions`), `part`
(`participations`), `pend` (a join waiting for the MSU), `down` (what was
written to an SFU and not yet read). A session reads one message at a time; a
join that waits blocks its own session only (`WsProtooSession.run` awaits
`_on_message`). The response is computed before the wait.

`broadcast_except_user` writes from a task of its own (`create_task`), so a
join response can overtake a notification made just before it. The queue `down`
keeps the order in which they were made. The response already contains what
such a notification says, a user who is known is not added again and pushers
are only added, so the SFU reaches the same state in both orders.

### State and actions of PilotClient

`client[c]` is the state of the c-th `WebSocketClient`; `current` is
`ws_protoo_client_ptr_`, the lower ones are in `old_clients_`. A handshake that
is refused calls `OnClosed` but leaves TCP open, so its end calls `OnClosed`
again; a TCP connect that fails calls nobody. A write while the current client
is still connecting (an old one has set the flag) is lost before the TLS
handshake and is read by the center after it; one to a client that failed is lost.
`lossy` records that a write was lost, here and in `CenterLink`, whose `Send` may
lose what is written at any time while connected. `periods` counts how often
`is_connected_` became true; what is written in one period goes to one client,
which gives the sessions of `CenterLink`: `wire[c][n]` is what was written to
client c in the n-th period and not read yet. The center reads a connection from
its earliest period on, and a broken one loses the end. `told` records the calls of
`OnAsyncRequestResponse`. A note on the source: the comment at
`pilot_message_client.cpp:34` speaks of 60 seconds, the test is for 10.

### State and actions of RtpHop

Packet n carries the number `(Start + n) % Mod`, and `Start` is chosen so that
the numbers wrap. Upstream hands packets over in any order and with gaps.
`snd` and `rcv` are the sequence state of `RtpSession` at both ends, `cache` is
`rtx_packet_cache_` (an index may be overwritten), `nack` is `nack_map_` with the
retry counts. An RTT is abstract: of the entries asked for before, any subset is
due when the timer fires. `Skipped` are the numbers the loop of `UpdateNackList`
visits, whose index is a `uint16_t`: none when a gap crosses the wrap, but those
from 0 on when `last_seq_` was the largest number itself. `InsertBlock` and `GetLostSeqs` are modelled as they
are written: the writer sets bit 16 - d for the number d above the first, the
reader takes bit k for k + 1 above it, and a shift by a negative count is any
bit or none. The split of the sorted list into blocks is given by the numbers
that begin one (`Splits`): each block but the last ends with the first number
more than `BitmapLen` above its first. `since` records what was handed on since
`UpdateSeq` last initialised the receiver's state, which it does for the first
packet and again when two consecutive numbers follow a large jump. The stream
has RTX (without it `ReceiveRtxPacket` is never called).
The first packet of a session is not shown to `NackGenerator`, hence the
exception in `NackSound`.

### State and actions of MediaStreams

`streams` is `media_streams_map_` with `publisher_exist_`, `writer_map_` (from
writer id to writer) and the cache. `session` holds the sessions of all
protocols. Nothing is assumed of clients. An RTMP session has the role and the key
of its last command; it may play, publish and send media in any order and under
any key, media before a command going to the stream of the empty key, and it may
make several `RtmpWriter`s, because every further command of a playing client
makes one. The writers ask their session for key and id (`Entry`), so that what
they are removed from is what the session did last. A remote address may be used
again once its connection is closed: the new WebSocket session then replaces the
old one in the server's map and destroys it (`Replaceable`). The random writer ids
of `WsPlaySession` may collide (`WsIds`). A packet for a writer that is no longer
there sets `ub`, after which nothing is said. Silence is abstract: any session may
have been silent too long.

Four variables are history. `joined` (`init_flag_`, with the packet at which it was
set) and `out` record what was written to whom, `fed` which session published to
which key, `headed` the keys for which a sequence header was published and no RTMP
publisher has closed since; the last two outlive the streams, which are removed
and made again. The list `history` of a stream belongs to the `MediaStream`
object.

## 3. The runs

| run | properties | shows |
|---|---|---|
| `room_roster` | `TypeOK`, `NoDanglingRespCb`, `RosterAgreement` | one SFU, two users, one socket of u1 and one that speaks for both: join, join as another user or in another room, reconnect, close, read error, sweep, time-out, release, removal and re-creation of the room; `resp_cb_` dangles only after a second join |
| `room_media` | `MediaHasTransport`, `PushersHeard` | push, pull, WHIP, STUN, RTP, key frames, session time-outs: the media maps name live transports of this Room object, and clients know every pusher of the others |
| `room_center` | `RelayMapsAgree` | any message of the center at any time; remote pulls, relay time-outs |
| `room_live` | `DesertedRoomRemoved` | under fair timers a deserted room is removed |
| `cluster_view` | `ViewAgreement` | two SFUs, u1 and u3 at one, u2 at the other, and the center, no MSU: everything delivered and nothing lost implies that each SFU has the participants the center has bound to a session, and their pushers |
| `cluster_implements` | `ImplementsSfuRoom` | every step of the composition is a step of `SfuRoom!Spec`, so that the properties checked and proved there carry over |
| `rtp_recovery` | `TypeOK`, `NackSound`, `HighestSeqIsTrue`, `ImplementsLossRecovery`, `NackListDrains` | nothing handed on is asked for again or handed on twice; `cycles_ + max_seq_` is the number of the newest packet since the last (re-)initialisation, across the wrap; requests for a packet are bounded and never resume; when the stream stops `nack_map_` empties |
| `streams` | `TypeOK`, `NoDanglingWriter`, `PlayersSeeWholeGops`, `HeadersComeFirst`, `StreamsAreReleased` | a writer pointer outlives its session in two ways only; a player gets every frame since the last key frame before it joined, once and in order, after the sequence header; a header is lost only when an RTMP publisher closes; a stream stays behind only for a publisher that ended without `RemovePublisher` |
| `pilot_link` | `TypeOK`, `ConnectedMeansOpen`, `AnswersReachTheirCaller`, `ImplementsCenterLink` | the flag is true only with an open connection, answers go to who asked, and the client is a `CenterLink` |
| `room_ghost_user` | `AbsentUserReleased` violated | an absent user is kept alive by packets sent to a puller that was never connected |
| `cluster_echo` | `OwnUserStaysLocal` violated | after a reconnect, a push of the user comes back to its own SFU, which marks it remote |
| `cluster_msu` | `ViewAgreement` violated | a join answer 8 s old is dropped while the center waits up to 10 s |

`PROJECT.json` quotes, for the three violations, the line of the repository
that says otherwise.

Bounds: `MaxSess` sessions, `MaxPort` receive relays and `MaxGen` Room objects
per SFU, `MaxEpoch` connections per SFU and `MaxQueue` messages per direction.
Two users are enough to have one who acts and one who is told; a second socket for
u1 is needed for reconnects, and that it speaks for u2 as well lets it join twice;
`MaxGen` 2 lets a room be removed and
re-created under live sessions; one medium suffices because maps are keyed by
pusher. In `room_media` and `room_center` each client has one user and keeps to
the room (`OneRoom`): who speaks for whom does not matter to the media and relay
maps. In `room_roster` one client has two users and may join another room
(`OnlyW3Strays`: the other client keeps to this one). The cluster runs use state constraints (`MCCluster`): in `cluster_view`
nothing is pulled and no connection or write is lost, because the property only
speaks of such states, and of the three users u1 is the one who is released, comes
back in an answer to u3's join and pushes; in `cluster_implements` one SFU pushes
and the other pulls, and a connection of the pusher's SFU may be lost and remade
when nothing is being pulled.
Each action of the composition occurs in that run. Deadlock is not checked:
the bounded counters run out, and all clients may be gone for good.

`rtp_recovery` scales the constants of the code down in proportion: modulus 16,
`MAX_DROPOUT` 4, `MAX_MISORDER` 3, a cache of 2, a list of 2, 1 retry, 2 bits.
Six packets from number 14 on cross the wrap, one can be a large jump, two can
be missing at once so that the list is trimmed and a block has a bitmap, and the
cache is overwritten before a NACK comes. One loss besides the gaps that
upstream leaves is enough to lose a request or its answer. `streams` has two
streams, of which the second is used by the RTMP session only, and up to three
packets; `MaxTotal` bounds sessions and packets together: two sessions and two
packets, a session that plays what it publishes and three (a header, a key frame
and a frame), three sessions and one packet. One RTMP session suffices to play and
publish in any order, two WebSocket players for one to replace the other or to
have its id. `pilot_link` has three connections (an old one closing and
an old one connecting beside the current) and two requests of two callers.

`PushersHeard` is checked, and proved, without audience members: one who pushes and then
joins again as a participant is announced (`userReConnect`) without its pushers.

Fairness (`Fairness`): the periodic timers of an SFU keep firing, deadlines
pass, and the sweep visits broken sockets. `TimerInner` runs all registered
timers from one libuv timer, so none is starved. Nothing is assumed of clients,
peers or the center. In `RtpHop` the NACK timer, which runs every 10 ms, is
weakly fair, and what the network does not lose arrives; upstream need not send
anything.

Each property has a mutant: a definition with one plausible slip (an
announcement left out, a sweep that does not report, a session destroyed
without `Close`, one of two maps not cleaned, ...), kept beside the definition it
replaces. TLC finds the property violated under it.

## 4. The proofs

Every invariant that a passing run checks is proved for all values of the
constants that satisfy the assumptions below (`PushersHeard` and `ViewAgreement`
under further hypotheses, stated with them), and so are the three refinements.
Each theorem rests on an inductive invariant; the argument is sketched here.

**The room with an arbitrary center** (`SfuRoom!Spec`).

* `SfuRoomProofs!TypeCorrect`: `[]TypeOK`, inductive by itself. The work is in
  the messages: `UpMsgs` describes all that an SFU writes, and `SetToSeq` of a
  set of pushers needs the set to be finite.
* `SfuRoomProofs!RespCbNeverDangles`: `[]NoDanglingRespCb`, inductive together
  with `TypeOK`. A non-null `resp_cb_` belongs to a user who is in the room, is a
  socket that goes to that SFU and has connected, and if the session behind it is
  gone, its last join was not for this user in this room. The last part is what
  the code achieves: the end of a session looks up the user it names,
  `DisconnectUser`, and clears that user's pointer; a user of an earlier join of
  the same session is left with a dangling one, and a notification to it is
  undefined (`NotifyDestroyed`). All other steps satisfy `CbKept`: no user gets a
  socket, and those that keep one stay in the room.
* `RosterProofs!RosterAgreementAlways`: `[]RosterAgreement`, inductive together
  with the two above. A step either changes one user and tells all others of it
  (`Announce`, `Withdraw`), or builds a room from nothing. Two users may have the
  same `resp_cb_`: their client is then told what either is told.
* `RosterProofs!PushersHeardAlways`: `[]PushersHeard` under
  `Audiences \subseteq {FALSE}`, the hypothesis under which the run checks it
  too. `HeardInv` adds that an `RtcUser` lists its own pushers only and that
  nobody is an audience member, so that the answer to a join leaves nobody out.
* `RoomMapsProofs!RelayMapsAgreeAlways` and `!MediaHasTransportAlways`. Both are
  inductive with `TypeOK`: a map entry is made with its counterpart in one
  handler, and every handler that takes one side takes the other. For the media
  maps this includes the generation of the Room: a session made for an earlier
  Room object of the same id is never in the maps of the next one.

**The cluster.** `ClusterProofs!ClusterImplementsSfuRoom`:
`ClusterSpec => ImplementsSfuRoom`. Every message the center writes must be one
that the arbitrary center of `SfuRoom` may write. `CenterTypeOK` says so of
`down` and `pend`; it needs `OpenInv`: a user's pushers are the user's own
(`OwnPushers`), and so are those in the messages on the way up (`UpOwn`), and a
connected SFU has a session (`LinkUp`). `ClusterIsSafe` draws the conclusion for
the four safety properties of the room, which thereby hold with the real center.

**What the SFUs know.** `ViewProofs!ViewAgreementAlways`: `[]ViewAgreement` for
any number of SFUs, users (also several at one SFU), audience members, messages on
their way and Room objects, under three hypotheses on the constants. Each is
needed: without it TLC finds a counterexample, in the run named or in an instance
of a few users:

* no MSU (`cluster_msu`);
* no WHIP user: a WHIP DELETE destroys the room with its users and tells the
  center nothing, so that the SFU's own users stay at the center;
* `OneHome`, a user's clients use one SFU: otherwise a push at s1 of a user bound
  to s2 is not announced to s2, the session `broadcast_except_user` leaves out.

`ViewAgreement` speaks of the participants whom the center has bound to a session.
Of the others it would be false. Let u1 and u3 share s1, and `Room::OnTimer`
release u1 while the answer to u3's join is on its way, which the center computed
before it read the userLeave: `JoinResponseFromPilotCenter` (room.cpp:1463) puts
u1 back as a *remote* user of its own SFU. u1's WebSocket is open; it pushes, the
center makes the user anew without a session (`handle_push_notification`) and
announces the newPusher only. s2, which joined in between, does not know u1 and
ignores it. This takes 20 steps with three users, two SFUs, one socket per user,
and nothing lost; `cluster_view` goes through it. Only a user that was unbound
(userDisconnect, userLeave) and pushes afterwards can go unknown.

The invariant `ViewInv` follows the messages. `Base` holds always: without an MSU
no answer is held back, users of other SFUs are remote, an idle room has nobody
in it, an SFU speaks for its own users only, and a session reports a user its
client speaks for (`WhoSpeaks`). While no connection and no write was lost
(`Steady`, which `ViewAgreement` supposes too) there is `SteadyInv` besides:

* `Unopened`, `Unregistered`: a session that was not opened carries nothing, and
  an SFU the center does not broadcast to knows its own users only;
* `Stories`, what is on its way up: for a user of the SFU, the center's record
  together with the joins, leaves and pushes still to be read, in their order,
  is what the SFU holds. A user the SFU no longer has is not at the center or has
  a leave to come; a pusher the center has or will be told of is in the SFU's
  list, unless a leave comes first;
* `Views`, what is on its way down, for the participants bound to a session
  (`Sure`): what an SFU knows of such a user of another SFU
  together with the newUser, newPusher and answers on their way is at least
  what the center knows. The order matters: a newPusher that is read before the
  user is known is ignored.

When everything is delivered the queues are empty, and `Stories` and `Views`
say what `ViewAgreement` claims.

**The link.** `PilotClientProofs` proves `TypeCorrect` and:

* `ConnectedMeansOpenAlways`. With the types of `client` and `current` it is
  inductive: a client that opens is the witness, every close clears the flag,
  and the one step that ends a client without clearing it (a failed TCP connect)
  ends one that was not open.
* `AnswersReachTheirCallerAlways`. It needs that ids are given out in increasing
  order: `Waiting` (a request that waits has an id below `request_id_` and its
  own caller) and `Answered` (an answered one has such an id too and waits no
  more), so that a new request collides with neither.
* `ClientImplementsCenterLink`. `Carried`: while `is_connected_` is true the
  current client is the only one with unread messages of the period, nothing was
  written in a period to come, and no period has messages on two clients. Each
  step is then one of `LinkMoves` (nothing, connect, close, write, a write that is
  lost, read, loss of the rest), and each of these simulates a step of
  `CenterLink` or a stutter; a write that is lost is a `Send` that is lost, which
  the rooms reckon with. What makes it
  true in the code is that `AsyncConnect` replaces the client only while the
  flag is false, so a period never spans two clients.

**The hop.** In `RtpHopProofs`, sequence numbers wrap and packet numbers do not:
under `HopAssumption` the comparisons of the code order numbers as their packets
are ordered (`SeqNoOrder` and the lemmas on `SeqLowerThan` and `UpdateSeq`).
`HopInv` has three parts. `CountInv`: `base_seq_` and `max_seq_` are the numbers
of the first and the newest packet since the last initialisation and `cycles_`
makes up for the wrap between them. `NackInv`: `last_seq_` is the number of the
newest packet the `NackGenerator` saw, every key of `nack_map_` that of an
earlier one, with a bounded retry count; the numbers that `Skipped` adds after the
largest one satisfy it too. `ReceiverType` holds them together. From
it follow `NackSoundAlways`, `HighestSeqIsTrueAlways` and, each change of a
packet's status being one that `LossRecovery` allows,
`HopImplementsLossRecovery`. `TypeCorrect` adds `SenderInv` for the other end
and the network.

**The streams.** `MediaStreamsProofs` proves `StreamsInv`: besides the types,

* `Registered`: an entry of a `writer_map_` belongs to a session that has its id
  and was told to play. If that session is no longer open, either the sweep has
  still to visit it, or it left the writer behind in one of the two ways that
  `NoDanglingWriter` names;
* `InOneStream`: a writer is in one stream, because a further command of an RTMP
  session makes a further writer;
* `InUse`: every stream has a player or is marked as published; and `Published`:
  a session that fed the stream accounts for the mark, one that is open or whose
  end does not take the mark off;
* `Headed`: a stream whose headers were published, with no RTMP publisher closed
  since, is there with a sequence header in its history;
* `Made`: a session that was not made yet has done nothing.

This gives `TypeCorrect`, `NoDanglingWriterAlways` and `StreamsAreReleasedAlways`.
`HeaderInv` adds that the cache holds the last headers given to the stream, that
what a player was sent begins with them, and that a writer not made yet was sent
nothing (`HeadersComeFirstAlways`, whose second half is `Headed`); `GopInv` that
the cache holds exactly what a player joining now is due, and each player what it
is due (`PlayersSeeWholeGopsAlways`).

**Assumptions.** `LinkAssumption` and `RoomAssumption`: finite sets of SFUs,
users, media and peers; every socket goes to one SFU, `Speaks` gives the users
its client speaks for (any set of users, none or all), and `NoWs` is neither a
socket nor a user.
`ClientAssumption`: the bounds are numbers. `HopAssumption`: the bounds are
numbers, `MAX_MISORDER` is at most `MAX_DROPOUT` and twice that at most the
modulus (1500, 3000 and 65536 in the code), and the stream is shorter than half the modulus: over
more packets a number does not identify its packet, and a packet delayed by half
the modulus is taken for a new one. `StreamsAssumption`: sessions of
different kinds and their writers are different objects, and the writer ids of
different kinds (addresses, FLV sessions, random strings) differ. The bounds on sessions, ports, rooms,
connections and queues are arbitrary numbers.

**Only model-checked.**

* `DesertedRoomRemoved` and `NackListDrains`: liveness under fairness is out of
  reach of TLAPS.
* The three violations, which are counterexamples.

## 5. What is not modelled

See `components` in `PROJECT.json`.

* `FastJitterBuffer` and the voice agent: an external agent, codecs and a
  thread. Two observations from reading: the buffer never starts its own timer,
  and it orders packets by the raw 16-bit number.
* `TccServer` and the sender and receiver reports: statistics that no decision
  of the program depends on. `UpdateSeq`, from which the reports take the
  extended number, is modelled. An observation from reading:
  `RtpSession::GetExpectedPackets` subtracts `bad_seq_` where RFC 3550 subtracts
  `base_seq`.
* `TimerInner`: taken as fair timers.
* The MSU registry beyond the wait of a join for the MSU's answer.
* RTMP handshake, chunks and AMF, FLV, MP4, SDP, STUN, DTLS, SRTP, HTTP and
  WebSocket framing, configuration and logging: byte formats and I/O. Most of
  the lines of the repository are of this kind or vendored (`json.hpp`, the
  headers of OpenSSL, libuv and libsrtp, the MP4 boxes).

## 6. Plan

The plan is carried out: every invariant and every refinement that a passing run
checks has its theorem. The hypotheses of `ViewAgreementAlways`, and the
restriction of `ViewAgreement` to users bound to a session, cannot be dropped
without changing the code (an answer to a join that is repeated or not dropped;
a WHIP DELETE that leaves the other users alone; a push of an unknown user
announced as a newUser as well). The exceptions that `NoDanglingRespCb`,
`NoDanglingWriter`, `HeadersComeFirst` and `StreamsAreReleased` name are what the
code leaves behind; each would go with a line of the code (a `SetUserInfo` that
disconnects the user it overwrites, a command handler that removes the previous
writer or publisher). Should the center change, `ViewProofs` is the place to
begin: `Stories` and `Views` are stated per user and per message.
