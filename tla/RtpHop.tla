------------------------------- MODULE RtpHop -------------------------------
(***************************************************************************)
(* One RTP stream over one UDP hop with loss recovery: RtpSendSession of   *)
(* an RtcSendRelay or a MediaPuller, the network, RtpRecvSession and its   *)
(* NackGenerator of an RtcRecvRelay or a MediaPusher, and the RTCP NACKs   *)
(* that go back.  Packet n of the stream carries the sequence number       *)
(* SeqNo(n).  The network loses and reorders; it duplicates nothing.       *)
(***************************************************************************)
EXTENDS SequencesExt, FiniteSetsExt, Integers

CONSTANTS
    Mod,          \* RTP_SEQ_MOD (2^16)
    MaxDropout,   \* MAX_DROPOUT (3000)
    MaxMisorder,  \* MAX_MISORDER (1500)
    CacheSize,    \* SEND_RTX_CACHE_SIZE (1000)
    RetryMax,     \* NACK_RETRY_MAX (80)
    NackListMax,  \* NACK_LIST_MAX (5000)
    BitmapLen,    \* bits in the bitmap of a NACK block (16)
    Start,        \* the sequence number of packet 0
    MaxPacket,    \* bound: packets of the stream
    MaxFlight,    \* bound: packets in flight, of each kind
    MaxLoss,      \* bound: packets and NACKs the network loses
    None

Packets == 0 .. MaxPacket
SeqNos == 0 .. Mod - 1

\* RtpSession: base_seq_, max_seq_, bad_seq_ and cycles_.
SeqStates == [base : SeqNos, max : SeqNos, bad : 0 .. Mod + 1, cycles : Nat]

ASSUME HopAssumption ==
    /\ Mod \in Nat /\ MaxDropout \in Nat /\ MaxMisorder \in Nat
    /\ 0 < MaxMisorder /\ MaxMisorder <= MaxDropout
    /\ 2 * MaxDropout <= Mod
    /\ CacheSize \in Nat \ {0}
    /\ RetryMax \in Nat /\ NackListMax \in Nat /\ BitmapLen \in Nat
    /\ Start \in SeqNos
    /\ MaxPacket \in Nat
    /\ 2 * (MaxPacket + 1) < Mod
    /\ MaxFlight \in Nat /\ MaxLoss \in Nat
    /\ None \notin Packets \cup SeqNos \cup SeqStates

VARIABLES
    given,    \* the packets handed to the sender
    snd,      \* the sender's RtpSession: sequence state, None before a packet
    cache,    \* rtx_packet_cache_
    rtp,      \* packets in flight
    rtx,      \* retransmissions in flight
    nacks,    \* RTCP NACKs in flight, each a set of blocks
    lost,     \* how much the network has lost
    rcv,      \* the receiver's RtpSession
    last,     \* last_seq_ of NackGenerator, None before init_flag_
    nack,     \* nack_map_: retry counts of the missing sequence numbers
    first,    \* the first packet received
    fwd,      \* the packets handed on to the Room
    since     \* those handed on since rcv was last initialised

senderVars == <<given, snd, cache>>
netVars == <<rtp, rtx, nacks, lost>>
receiverVars == <<rcv, last, nack, first, fwd, since>>
vars == <<senderVars, netVars, receiverVars>>

SeqNo(n) == (Start + n) % Mod

Blocks == [packet_id : SeqNos, lost_bitmap : SUBSET (0 .. BitmapLen - 1)]

Init ==
    /\ given = {} /\ snd = None
    /\ cache = [i \in 0 .. CacheSize - 1 |-> None]
    /\ rtp = {} /\ rtx = {} /\ nacks = {} /\ lost = 0
    /\ rcv = None /\ last = None /\ nack = <<>> /\ first = None
    /\ fwd = {} /\ since = {}

-----------------------------------------------------------------------------
(* RtpSession *)

InitSeq(q) == [base |-> q, max |-> q, bad |-> Mod + 1, cycles |-> 0]

\* How far q is ahead of the highest number, as uint16_t.
Delta(r, q) == (q - r.max) % Mod

LargeJump(r, q) == Delta(r, q) >= MaxDropout /\ Delta(r, q) <= Mod - MaxMisorder

\* UpdateSeq returns false: the first packet after a large jump is discarded.
Discards(r, q) == LargeJump(r, q) /\ q # r.bad

\* Mutant: the wrap is not counted.
UpdateSeqNoCycle(r, q) ==
    IF Delta(r, q) < MaxDropout THEN [r EXCEPT !.max = q]
    ELSE IF ~LargeJump(r, q) THEN r
    ELSE IF q = r.bad THEN InitSeq(q)
    ELSE [r EXCEPT !.bad = (q + 1) % Mod]

UpdateSeq(r, q) ==
    IF Delta(r, q) < MaxDropout
    THEN [r EXCEPT !.max = q, !.cycles = IF q < r.max THEN @ + Mod ELSE @]
    ELSE IF ~LargeJump(r, q) THEN r
    ELSE IF q = r.bad THEN InitSeq(q)
    ELSE [r EXCEPT !.bad = (q + 1) % Mod]

-----------------------------------------------------------------------------
(* RtcpFbNack *)

\* InsertSeqList begins a block with each of the numbers heads of the sorted list
\* qs: with the lowest, and with the one behind a block's last number, which is
\* the first more than BitmapLen away.
BlockFrom(qs, heads, h) == {q \in qs : q >= h /\ \A g \in heads : g > h => g > q}

Splits(qs, heads) ==
    /\ Min(qs) \in heads
    /\ \A h \in heads :
           LET end == Max(BlockFrom(qs, heads, h))
           IN  /\ \A q \in BlockFrom(qs, heads, h) \ {end} : q - h <= BitmapLen
               /\ end - h > BitmapLen \/ end = Max(qs)

\* InsertBlock.  A number more than BitmapLen above the first one shifts by a
\* negative count, which C++ leaves undefined: some bit or none, stray.
InsertBlock(h, report_seqs, stray) ==
    [packet_id |-> h,
     lost_bitmap |->
         {BitmapLen - (q - h) : q \in {x \in report_seqs \ {h} : x - h <= BitmapLen}}
             \cup UNION {stray : q \in {x \in report_seqs : x - h > BitmapLen}}]

InsertSeqList(qs, heads, stray) ==
    {InsertBlock(h, BlockFrom(qs, heads, h), stray) : h \in heads}

\* GetLostSeqs: bit k stands for packet_id + 1 + k.
GetLostSeqs(blocks) ==
    UNION {{b.packet_id} \cup
               {(b.packet_id + 1 + k) % Mod : k \in b.lost_bitmap} : b \in blocks}

-----------------------------------------------------------------------------
(* The sending end *)

\* SendRtpPacket and StoreRtxPacket: upstream hands over packet n, in any order
\* and with gaps of its own.
SendRtpPacket(n) ==
    LET q == SeqNo(n)
        discarded == snd # None /\ Discards(snd, q)
    IN  /\ n \notin given
        /\ Cardinality(rtp) < MaxFlight
        /\ given' = given \cup {n}
        /\ snd' = IF snd = None THEN InitSeq(q) ELSE UpdateSeq(snd, q)
        /\ cache' = IF discarded THEN cache ELSE [cache EXCEPT ![q % CacheSize] = n]
        /\ rtp' = IF discarded THEN rtp ELSE rtp \cup {n}
        /\ UNCHANGED <<rtx, nacks, lost, receiverVars>>

\* The packet the cache still has under the number q.
Cached(q) == {n \in {cache[q % CacheSize]} \ {None} : SeqNo(n) = q}

\* RecvRtcpFbNack and RetransmitRtxPackets.
RecvRtcpFbNack(k) ==
    /\ k \in nacks
    /\ nacks' = nacks \ {k}
    /\ rtx' = rtx \cup UNION {Cached(q) : q \in GetLostSeqs(k)}
    /\ UNCHANGED <<senderVars, rtp, lost, receiverVars>>

-----------------------------------------------------------------------------
(* NackGenerator *)

SeqLowerThan(p, q) ==
    \/ p > q /\ p - q > (Mod - 1) \div 2
    \/ p < q /\ q - p <= (Mod - 1) \div 2

\* nack_map_ with the numbers qs added.
Missing(qs) ==
    [q \in DOMAIN nack \cup qs |-> IF q \in DOMAIN nack THEN nack[q] ELSE 0]

\* The numbers skipped when q is the new highest: uint16_t key_seq runs from
\* last_seq_ + 1, which is 0 when last_seq_ is Mod - 1, up to q.  There is none
\* when the gap crosses the wrap further on.
Skipped(q) == ((last + 1) % Mod) .. (q - 1)

\* Mutant: a number that arrives is not taken off the list.
UpdateNackListKeeps(q) ==
    IF last = None \/ q = last \/ SeqLowerThan(q, last) THEN nack
    ELSE Missing(Skipped(q))

UpdateNackList(q) ==
    IF last = None \/ q = last THEN nack
    ELSE IF SeqLowerThan(q, last) THEN Restrict(nack, DOMAIN nack \ {q})
    ELSE Missing(Skipped(q))

\* Mutant: an older packet moves the generator back.
NextLastAlways(q) == q

NextLast(q) == IF last # None /\ SeqLowerThan(q, last) THEN last ELSE q

\* The lowest keys go when the list is too long.
Trim(f) ==
    Restrict(f, {q \in DOMAIN f :
                     Cardinality({p \in DOMAIN f : p > q}) < NackListMax})

\* Mutant: a number is asked for as long as it is missing.
KeptForEver == DOMAIN nack

Kept == {q \in DOMAIN nack : nack[q] <= RetryMax}

\* Mutant: requests are not counted.
NackOnTimerNoCount ==
    /\ Kept # {}
    /\ nack' = Trim([q \in Kept |-> nack[q]])
    /\ \E heads \in SUBSET Kept :
           Splits(Kept, heads) /\ nacks' = nacks \cup {InsertSeqList(Kept, heads, {})}
    /\ Cardinality(nacks') <= MaxFlight
    /\ UNCHANGED <<senderVars, rtp, rtx, lost, rcv, last, first, fwd, since>>

\* OnTimer: what was asked for too often is given up; of the rest, what is due
\* is asked for.  An entry is due an RTT after it was last asked for, a new one
\* at once.
NackOnTimer ==
    \E due \in SUBSET Kept, stray \in {{}} \cup {{k} : k \in 0 .. BitmapLen - 1} :
        /\ {q \in Kept : nack[q] = 0} \subseteq due
        /\ nack # <<>>
        /\ nack' = Trim([q \in Kept |-> IF q \in due THEN nack[q] + 1 ELSE nack[q]])
        /\ IF due = {} THEN nacks' = nacks
           ELSE \E heads \in SUBSET due :
                    /\ Splits(due, heads)
                    /\ nacks' = nacks \cup {InsertSeqList(due, heads, stray)}
        /\ Cardinality(nacks') <= MaxFlight
        /\ UNCHANGED <<senderVars, rtp, rtx, lost, rcv, last, first, fwd, since>>

-----------------------------------------------------------------------------
(* The receiving end *)

\* ReceiveRtpPacket and the forwarding by its caller.  The first packet is not
\* shown to the NackGenerator.
Accept(n) ==
    LET q == SeqNo(n)
    IN  IF rcv = None
        THEN /\ rcv' = InitSeq(q)
             /\ first' = n
             /\ fwd' = fwd \cup {n}
             /\ since' = {n}
             /\ UNCHANGED <<last, nack>>
        ELSE /\ rcv' = UpdateSeq(rcv, q)
             /\ IF Discards(rcv, q)
                THEN UNCHANGED <<last, nack, fwd, since>>
                ELSE /\ last' = NextLast(q)
                     /\ nack' = UpdateNackList(q)
                     /\ fwd' = fwd \cup {n}
                     /\ since' = IF LargeJump(rcv, q) THEN {n} ELSE since \cup {n}
             /\ UNCHANGED first

ReceiveRtpPacket(n) ==
    /\ n \in rtp
    /\ rtp' = rtp \ {n}
    /\ Accept(n)
    /\ UNCHANGED <<senderVars, rtx, nacks, lost>>

IsInNackList(q) == q \in DOMAIN nack

\* ReceiveRtxPacket: what is not on the list is a repetition and is dropped.
ReceiveRtxPacket(n) ==
    /\ n \in rtx
    /\ rtx' = rtx \ {n}
    /\ IF IsInNackList(SeqNo(n)) THEN Accept(n) ELSE UNCHANGED receiverVars
    /\ UNCHANGED <<senderVars, rtp, nacks, lost>>

-----------------------------------------------------------------------------
\* UDP loses a packet, a retransmission or a NACK.
Lose ==
    /\ lost < MaxLoss
    /\ lost' = lost + 1
    /\ \/ \E n \in rtp : rtp' = rtp \ {n} /\ UNCHANGED <<rtx, nacks>>
       \/ \E n \in rtx : rtx' = rtx \ {n} /\ UNCHANGED <<rtp, nacks>>
       \/ \E k \in nacks : nacks' = nacks \ {k} /\ UNCHANGED <<rtp, rtx>>
    /\ UNCHANGED <<senderVars, receiverVars>>

Next ==
    \/ \E n \in Packets :
           SendRtpPacket(n) \/ ReceiveRtpPacket(n) \/ ReceiveRtxPacket(n)
    \/ \E k \in nacks : RecvRtcpFbNack(k)
    \/ NackOnTimer
    \/ Lose

Spec == Init /\ [][Next]_vars

\* The NACK timer runs every 10 ms; what the network does not lose arrives.
Fairness ==
    /\ WF_vars(NackOnTimer)
    /\ WF_vars(\E k \in nacks : RecvRtcpFbNack(k))
    /\ WF_vars(\E n \in Packets : ReceiveRtpPacket(n))
    /\ WF_vars(\E n \in Packets : ReceiveRtxPacket(n))

FairSpec == Spec /\ Fairness
-----------------------------------------------------------------------------
\* Every variable has its type; in particular no number is asked for more than
\* RetryMax + 1 times (NACK_RETRY_MAX in OnTimer).
TypeOK ==
    /\ given \subseteq Packets
    /\ snd \in SeqStates \cup {None}
    /\ cache \in [0 .. CacheSize - 1 -> Packets \cup {None}]
    /\ rtp \subseteq Packets
    /\ rtx \subseteq Packets
    /\ nacks \subseteq SUBSET Blocks
    /\ lost \in 0 .. MaxLoss
    /\ rcv \in SeqStates \cup {None}
    /\ last \in SeqNos \cup {None}
    /\ DOMAIN nack \subseteq SeqNos
    /\ \A q \in DOMAIN nack : nack[q] \in 0 .. RetryMax + 1
    /\ first \in Packets \cup {None}
    /\ fwd \subseteq Packets
    /\ since \subseteq Packets

\* nack_map_ never holds the number of a packet already handed on, so nothing is
\* asked for, and no retransmission is handed on, a second time.  The first
\* packet of the session is the exception: NackGenerator never saw it, and takes
\* it for lost when the second packet is an older one.
NackSound == \A n \in fwd \ {first} : SeqNo(n) \notin DOMAIN nack

\* The extended highest sequence number that receiver reports carry
\* (cycles_ + max_seq_) is as far from base_seq_ as the newest packet handed on
\* is from the one that base_seq_ stands for, across the wrap of the sequence
\* number and any reordering, counted from the last (re-)synchronisation.
HighestSeqIsTrue ==
    rcv # None =>
        \E b \in since :
            /\ rcv.base = SeqNo(b)
            /\ rcv.cycles + rcv.max - rcv.base = Max(since) - b

\* What became of a packet, as the receiver's state shows it.
StatusOf(n) ==
    CASE n = first -> "delivered"
      [] n # first /\ SeqNo(n) \in DOMAIN nack -> "missing"
      [] n # first /\ SeqNo(n) \notin DOMAIN nack /\ n \in fwd -> "delivered"
      [] OTHER -> IF last # None /\ SeqLowerThan(SeqNo(n), last) THEN "passed"
                  ELSE "ahead"

Recovery == INSTANCE LossRecovery WITH
    MaxAsks <- RetryMax + 1,
    status <- [n \in Packets |-> StatusOf(n)],
    asked <- [n \in Packets |-> IF StatusOf(n) = "missing" THEN nack[SeqNo(n)] ELSE 0]

\* The hop implements LossRecovery: whatever is lost or reordered, each packet
\* is asked for at most RetryMax + 1 times in all, and never after it was handed
\* on, given up or passed over.
ImplementsLossRecovery == Recovery!Spec

\* When the stream stops, nack_map_ empties: no number is asked for for ever,
\* each arrives or is given up.
NackListDrains == <>[](nack = <<>>)
=============================================================================
