---------------------------- MODULE RtpHopProofs ----------------------------
(***************************************************************************)
(* Proofs about RtpHop.  Sequence numbers wrap, packet numbers do not: the *)
(* argument is that last_seq_, max_seq_ and the keys of nack_map_ are the  *)
(* numbers of packets, and that within the window the 16-bit comparisons   *)
(* of the code order them as the packets are ordered.                      *)
(***************************************************************************)
EXTENDS RtpHop, TLAPS

-----------------------------------------------------------------------------
(* Sequence numbers *)

\* The sequence number of a packet wraps at most once.
LEMMA SeqNoValue ==
    ASSUME NEW n \in Packets
    PROVE  /\ SeqNo(n) = IF Start + n < Mod THEN Start + n ELSE Start + n - Mod
           /\ SeqNo(n) \in SeqNos /\ SeqNo(n) \in Int /\ n \in Int
<1>1. /\ n \in Int /\ 0 <= n /\ n < Mod /\ Start \in Int /\ 0 <= Start /\ Start < Mod
      /\ Mod \in Int
  BY HopAssumption DEF Packets, SeqNos
<1>2. CASE Start + n < Mod
  BY <1>1, <1>2 DEF SeqNo, SeqNos
<1>3. CASE ~(Start + n < Mod)
  BY <1>1, <1>3 DEF SeqNo, SeqNos
<1> QED
  BY <1>1, <1>2, <1>3

\* Within the window two packets have different sequence numbers, and those of
\* a later one is as far ahead as the packet is, the wrap taken off.
LEMMA SeqNoOrder ==
    ASSUME NEW m \in Packets, NEW n \in Packets
    PROVE  /\ SeqNo(m) = SeqNo(n) => m = n
           /\ m <= n => \/ SeqNo(m) <= SeqNo(n) /\ SeqNo(n) - SeqNo(m) = n - m
                        \/ SeqNo(n) < SeqNo(m) /\ SeqNo(n) - SeqNo(m) = n - m - Mod
<1>1. /\ m \in Int /\ n \in Int /\ Mod \in Int /\ Start \in Int
      /\ 0 <= m /\ 0 <= n /\ m < Mod /\ n < Mod
  BY HopAssumption DEF Packets, SeqNos
<1> QED
  BY <1>1, SeqNoValue

\* SeqLowerThan orders the numbers of packets as the packets are ordered.
LEMMA SeqLowerThanOrder ==
    ASSUME NEW m \in Packets, NEW n \in Packets
    PROVE  SeqLowerThan(SeqNo(m), SeqNo(n)) <=> m < n
<1> DEFINE H == (Mod - 1) \div 2
           p == SeqNo(m)
           q == SeqNo(n)
<1>1. /\ m \in Int /\ n \in Int /\ Mod \in Int /\ MaxPacket \in Int
      /\ 0 <= m /\ 0 <= n /\ m <= MaxPacket /\ n <= MaxPacket
      /\ 2 * (MaxPacket + 1) < Mod
  BY HopAssumption DEF Packets
<1>2. H \in Int /\ 2 * H <= Mod - 1 /\ Mod - 1 < 2 * H + 2
  BY <1>1
<1>3. p \in Int /\ q \in Int /\ p \in SeqNos /\ q \in SeqNos
  BY SeqNoValue
<1>4. /\ m <= n => \/ p <= q /\ q - p = n - m
                   \/ q < p /\ q - p = n - m - Mod
      /\ n <= m => \/ q <= p /\ p - q = m - n
                   \/ p < q /\ p - q = m - n - Mod
  BY SeqNoOrder
<1>5. SeqLowerThan(p, q) <=> (p > q /\ p - q > H) \/ (p < q /\ q - p <= H)
  BY DEF SeqLowerThan
<1> HIDE DEF H, p, q
<1>6. SeqLowerThan(p, q) <=> m < n
  <2>1. CASE m < n
    BY <1>1, <1>2, <1>3, <1>4, <1>5, <2>1
  <2>2. CASE n <= m
    BY <1>1, <1>2, <1>3, <1>4, <1>5, <2>2
  <2> QED
    BY <1>1, <2>1, <2>2
<1> QED
  BY <1>6 DEF p, q

\* How far the number of a packet is ahead of that of another.
LEMMA DeltaValue ==
    ASSUME NEW t \in Packets, NEW n \in Packets, NEW r, r.max = SeqNo(t)
    PROVE  /\ Delta(r, SeqNo(n)) = IF t <= n THEN n - t ELSE n - t + Mod
           /\ t <= n => ~(Delta(r, SeqNo(n)) > Mod - MaxMisorder)
           /\ n < t => ~(Delta(r, SeqNo(n)) < MaxDropout)
<1> DEFINE p == SeqNo(t)
           q == SeqNo(n)
<1>1. /\ t \in Int /\ n \in Int /\ Mod \in Int /\ MaxPacket \in Int
      /\ 0 <= t /\ 0 <= n /\ t <= MaxPacket /\ n <= MaxPacket
      /\ 2 * (MaxPacket + 1) < Mod
      /\ MaxMisorder \in Int /\ MaxDropout \in Int
      /\ MaxMisorder <= MaxDropout /\ 2 * MaxDropout <= Mod
  BY HopAssumption DEF Packets
<1>2. p \in Int /\ q \in Int /\ 0 <= p /\ p < Mod /\ 0 <= q /\ q < Mod
  BY <1>1, SeqNoValue DEF SeqNos
<1>3. /\ t <= n => \/ p <= q /\ q - p = n - t
                   \/ q < p /\ q - p = n - t - Mod
      /\ n <= t => \/ q <= p /\ p - q = t - n
                   \/ p < q /\ p - q = t - n - Mod
  BY SeqNoOrder
<1>4. Delta(r, q) = (q - p) % Mod
  BY DEF Delta
<1> HIDE DEF p, q
<1>5. (q - p) % Mod = IF q >= p THEN q - p ELSE q - p + Mod
  <2>1. CASE q >= p
    BY <1>1, <1>2, <2>1
  <2>2. CASE q < p
    BY <1>1, <1>2, <2>2
  <2> QED
    BY <1>2, <2>1, <2>2
<1>6. Delta(r, q) = IF t <= n THEN n - t ELSE n - t + Mod
  <2>1. CASE t <= n
    BY <1>1, <1>2, <1>3, <1>4, <1>5, <2>1
  <2>2. CASE n < t
    BY <1>1, <1>2, <1>3, <1>4, <1>5, <2>2
  <2> QED
    BY <1>1, <2>1, <2>2
<1> QED
  BY <1>1, <1>6 DEF q

-----------------------------------------------------------------------------
(* The receiver's RtpSession *)

ReceiverType ==
    /\ rcv \in SeqStates \cup {None}
    /\ fwd \subseteq Packets /\ since \subseteq Packets
    /\ rcv = None => first = None /\ fwd = {} /\ last = None
    /\ rcv # None => first \in fwd

\* base_seq_ is the number of the packet b, max_seq_ that of the newest one, t,
\* and cycles_ makes up for the wrap between them.
Counted(b, t) ==
    /\ b \in since /\ t \in since /\ \A n \in since : n <= t
    /\ rcv.base = SeqNo(b) /\ rcv.max = SeqNo(t)
    /\ rcv.cycles + rcv.max - rcv.base = t - b

CountInv == rcv # None => \E b, t : Counted(b, t)

\* Init of RtpSession.
LEMMA InitSeqType ==
    ASSUME NEW n \in Packets
    PROVE  /\ InitSeq(SeqNo(n)) \in SeqStates
           /\ InitSeq(SeqNo(n)).base = SeqNo(n) /\ InitSeq(SeqNo(n)).max = SeqNo(n)
           /\ InitSeq(SeqNo(n)).cycles = 0
<1>1. SeqNo(n) \in SeqNos /\ Mod + 1 \in 0 .. Mod + 1
  BY SeqNoValue, HopAssumption
<1> QED
  BY <1>1 DEF InitSeq, SeqStates

\* What UpdateSeq makes of the number of packet n, t being the newest so far: it
\* keeps pace with a newer one, counting the wrap, starts over from one that
\* confirms a large jump, and else keeps its counters.
LEMMA UpdateSeqDoes ==
    ASSUME NEW r \in SeqStates, NEW t \in Packets, NEW n \in Packets, r.max = SeqNo(t)
    PROVE  LET u == UpdateSeq(r, SeqNo(n))
           IN  /\ u \in SeqStates
               /\ \/ /\ ~LargeJump(r, SeqNo(n)) /\ t <= n
                     /\ u.base = r.base /\ u.max = SeqNo(n)
                     /\ u.cycles + u.max = r.cycles + r.max + (n - t)
                  \/ /\ ~LargeJump(r, SeqNo(n)) /\ n < t
                     /\ u = r
                  \/ /\ LargeJump(r, SeqNo(n)) /\ ~Discards(r, SeqNo(n))
                     /\ u = InitSeq(SeqNo(n))
                  \/ /\ Discards(r, SeqNo(n))
                     /\ u.base = r.base /\ u.max = r.max /\ u.cycles = r.cycles
<1> DEFINE q == SeqNo(n)
           p == SeqNo(t)
           d == Delta(r, q)
           v == [r EXCEPT !.max = q, !.cycles = IF q < r.max THEN @ + Mod ELSE @]
           x == [r EXCEPT !.bad = (q + 1) % Mod]
<1>1. /\ t \in Int /\ n \in Int /\ Mod \in Nat /\ 0 < Mod
      /\ MaxMisorder \in Int /\ MaxDropout \in Int
  BY HopAssumption DEF Packets
<1>2. q \in SeqNos /\ p \in SeqNos /\ q \in Int /\ p \in Int
  BY SeqNoValue
<1>3. /\ t <= n => ~(d > Mod - MaxMisorder)
      /\ n < t => ~(d < MaxDropout)
      /\ d \in Int
  BY <1>1, DeltaValue
<1>4. t <= n => \/ p <= q /\ q - p = n - t
                \/ q < p /\ q - p = n - t - Mod
  BY SeqNoOrder
<1>5. r.cycles \in Nat /\ r.bad \in 0 .. Mod + 1 /\ r.base \in SeqNos
  BY DEF SeqStates
<1>6. /\ v \in SeqStates /\ v.base = r.base /\ v.max = q
      /\ v.cycles = IF q < p THEN r.cycles + Mod ELSE r.cycles
  <2> DEFINE c == IF q < p THEN r.cycles + Mod ELSE r.cycles
  <2>1. c \in Nat
    BY <1>1, <1>2, <1>5
  <2>2. v = [r EXCEPT !.max = q, !.cycles = c]
    OBVIOUS
  <2> HIDE DEF c
  <2>3. [r EXCEPT !.max = q, !.cycles = c] \in SeqStates
    BY <1>2, <2>1 DEF SeqStates
  <2>4. v.base = r.base /\ v.max = q /\ v.cycles = c
    BY <2>2 DEF SeqStates
  <2> QED
    BY <2>2, <2>3, <2>4 DEF c
<1>7. x \in SeqStates /\ x.base = r.base /\ x.max = r.max /\ x.cycles = r.cycles
  <2>1. (q + 1) % Mod \in 0 .. Mod + 1
    <3>1. q \in 0 .. Mod - 1
      BY <1>2 DEF SeqNos
    <3> HIDE DEF q
    <3>2. CASE q + 1 < Mod
      BY <1>1, <3>1, <3>2
    <3>3. CASE q + 1 = Mod
      BY <1>1, <3>1, <3>3
    <3> QED
      BY <1>1, <3>1, <3>2, <3>3
  <2> QED
    BY <1>5, <2>1 DEF SeqStates
<1>8. UpdateSeq(r, q) = IF d < MaxDropout THEN v ELSE IF ~LargeJump(r, q) THEN r
                        ELSE IF q = r.bad THEN InitSeq(q) ELSE x
  BY DEF UpdateSeq
<1>9. /\ LargeJump(r, q) <=> d >= MaxDropout /\ d <= Mod - MaxMisorder
      /\ Discards(r, q) <=> LargeJump(r, q) /\ q # r.bad
  BY DEF LargeJump, Discards
<1>10. InitSeq(q) \in SeqStates
  BY InitSeqType
<1>11. r.max = p
  OBVIOUS
<1> HIDE DEF p, d, v, x, q
<1>12. CASE d < MaxDropout
  <2>1. t <= n /\ ~LargeJump(r, q) /\ UpdateSeq(r, q) = v
    BY <1>1, <1>3, <1>8, <1>9, <1>12
  <2>2. v.cycles + v.max = r.cycles + r.max + (n - t)
    BY <1>1, <1>2, <1>4, <1>5, <1>6, <1>11, <2>1
  <2> QED
    BY <1>6, <2>1, <2>2 DEF q
<1>13. CASE ~(d < MaxDropout) /\ ~LargeJump(r, q)
  <2>1. n < t /\ UpdateSeq(r, q) = r
    BY <1>1, <1>3, <1>8, <1>9, <1>13
  <2> QED
    BY <1>13, <2>1 DEF q
<1>14. CASE LargeJump(r, q) /\ q = r.bad
  <2>1. UpdateSeq(r, q) = InitSeq(q) /\ ~Discards(r, q)
    BY <1>1, <1>3, <1>8, <1>9, <1>14
  <2> QED
    BY <1>10, <1>14, <2>1 DEF q
<1>15. CASE LargeJump(r, q) /\ q # r.bad
  <2>1. UpdateSeq(r, q) = x /\ Discards(r, q)
    BY <1>1, <1>3, <1>8, <1>9, <1>15
  <2> QED
    BY <1>7, <2>1 DEF q
<1> QED
  BY <1>12, <1>13, <1>14, <1>15

\* A packet that is received keeps the counters true.
LEMMA AcceptCounts ==
    ASSUME ReceiverType, CountInv, NEW n \in Packets, Accept(n)
    PROVE  rcv' \in SeqStates /\ rcv' # None /\ since' \subseteq Packets /\ CountInv'
<1> DEFINE q == SeqNo(n)
<1>1. CASE rcv = None
  <2>1. rcv' = InitSeq(q) /\ since' = {n}
    BY <1>1 DEF Accept
  <2>2. rcv' \in SeqStates /\ rcv'.base = q /\ rcv'.max = q /\ rcv'.cycles = 0
    BY <2>1, InitSeqType
  <2>3. q \in Int /\ n \in Int
    BY SeqNoValue
  <2>4. Counted(n, n)'
    BY <2>1, <2>2, <2>3 DEF Counted, SeqNo
  <2> QED
    BY <2>1, <2>2, <2>4, HopAssumption DEF CountInv
<1>2. CASE rcv # None
  <2>1. PICK b, t : Counted(b, t)
    BY <1>2 DEF CountInv
  <2>2. /\ b \in Packets /\ t \in Packets /\ rcv \in SeqStates
        /\ b \in since /\ t \in since /\ \A m \in since : m <= t
        /\ rcv.base = SeqNo(b) /\ rcv.max = SeqNo(t)
        /\ rcv.cycles + rcv.max - rcv.base = t - b
    BY <1>2, <2>1 DEF Counted, ReceiverType
  <2>3. /\ rcv' = UpdateSeq(rcv, q)
        /\ since' = IF Discards(rcv, q) THEN since
                    ELSE IF LargeJump(rcv, q) THEN {n} ELSE since \cup {n}
    BY <1>2 DEF Accept
  <2> DEFINE LJ == LargeJump(rcv, q)
             DC == Discards(rcv, q)
  <2>4. /\ rcv' \in SeqStates
        /\ \/ /\ ~LJ /\ t <= n
              /\ rcv'.base = rcv.base /\ rcv'.max = q
              /\ rcv'.cycles + rcv'.max = rcv.cycles + rcv.max + (n - t)
           \/ ~LJ /\ n < t /\ rcv' = rcv
           \/ LJ /\ ~DC /\ rcv' = InitSeq(q)
           \/ DC /\ rcv'.base = rcv.base /\ rcv'.max = rcv.max /\ rcv'.cycles = rcv.cycles
    BY <2>2, <2>3, UpdateSeqDoes
  <2>5. DC => LJ
    BY DEF Discards
  <2>6. /\ q \in Int /\ n \in Int /\ t \in Int /\ b \in Int /\ rcv.cycles \in Int
        /\ rcv.max \in Int /\ rcv.base \in Int /\ rcv'.cycles \in Int /\ rcv'.max \in Int
        /\ \A m \in since : m \in Int
    BY <2>2, <2>4, SeqNoValue, HopAssumption DEF SeqStates, SeqNos, ReceiverType, Packets
  <2>7. \A m : SeqNo(m)' = SeqNo(m)
    BY DEF SeqNo
  <2> HIDE DEF LJ, DC, q
  <2>8. \E x, y : Counted(x, y)'
    <3>1. CASE /\ ~LJ /\ t <= n
               /\ rcv'.base = rcv.base /\ rcv'.max = q
               /\ rcv'.cycles + rcv'.max = rcv.cycles + rcv.max + (n - t)
      <4>1. since' = since \cup {n}
        BY <2>3, <2>5, <3>1 DEF LJ, DC
      <4>2. \A m \in since' : m <= n
        BY <2>2, <2>6, <3>1, <4>1
      <4>3. rcv'.cycles + rcv'.max - rcv'.base = n - b
        <5> DEFINE c == rcv.cycles + rcv.max
                   d == rcv'.cycles + rcv'.max
        <5>1. c \in Int /\ d \in Int /\ c - rcv.base = t - b /\ d = c + (n - t)
          BY <2>2, <2>6, <3>1
        <5> HIDE DEF c, d
        <5>2. d - rcv.base = n - b
          BY <2>6, <5>1
        <5> QED
          BY <2>6, <3>1, <5>1, <5>2 DEF d
      <4>4. Counted(b, n)'
        BY <2>2, <2>7, <3>1, <4>1, <4>2, <4>3 DEF Counted, q
      <4> QED
        BY <4>4
    <3>2. CASE ~LJ /\ n < t /\ rcv' = rcv
      <4>1. since' = since \cup {n}
        BY <2>3, <2>5, <3>2 DEF LJ, DC
      <4>2. \A m \in since' : m <= t
        BY <2>2, <2>6, <3>2, <4>1
      <4>3. Counted(b, t)'
        BY <2>2, <2>7, <3>2, <4>1, <4>2 DEF Counted
      <4> QED
        BY <4>3
    <3>3. CASE LJ /\ ~DC /\ rcv' = InitSeq(q)
      <4>1. since' = {n}
        BY <2>3, <3>3 DEF LJ, DC
      <4>2. rcv'.base = q /\ rcv'.max = q /\ rcv'.cycles = 0
        BY <3>3, InitSeqType DEF q
      <4>3. rcv'.cycles + rcv'.max - rcv'.base = n - n
        BY <2>6, <4>2
      <4>4. \A m \in since' : m <= n
        BY <2>6, <4>1
      <4>5. Counted(n, n)'
        BY <2>7, <4>1, <4>2, <4>3, <4>4 DEF Counted, q
      <4> QED
        BY <4>5
    <3>4. CASE DC /\ rcv'.base = rcv.base /\ rcv'.max = rcv.max /\ rcv'.cycles = rcv.cycles
      <4>1. since' = since
        BY <2>3, <3>4 DEF DC
      <4>2. Counted(b, t)'
        BY <2>2, <2>7, <3>4, <4>1 DEF Counted
      <4> QED
        BY <4>2
    <3> QED
      BY <2>4, <3>1, <3>2, <3>3, <3>4
  <2>9. since' \subseteq Packets
    BY <2>3 DEF ReceiverType
  <2> QED
    BY <2>4, <2>8, <2>9, HopAssumption DEF CountInv
<1> QED
  BY <1>1, <1>2

-----------------------------------------------------------------------------
(* NackGenerator *)

\* last_seq_ is the number of the packet t, the newest one NackGenerator was
\* shown, and every number in nack_map_ is that of an older packet.
NackedBefore(t) ==
    /\ t \in fwd /\ last = SeqNo(t) /\ \A n \in fwd \ {first} : n <= t
    /\ \A q \in DOMAIN nack : \E j \in Packets : q = SeqNo(j) /\ j < t

NackInv ==
    /\ last = None => DOMAIN nack = {} /\ fwd \subseteq {first}
    /\ last # None => \E t : NackedBefore(t)
    /\ \A q \in DOMAIN nack : nack[q] \in 0 .. RetryMax + 1
    /\ NackSound

HopInv == ReceiverType /\ CountInv /\ NackInv

\* A number d ahead of that of t, across the wrap or not, is that of the packet
\* d after t.
LEMMA NumberBetween ==
    ASSUME NEW t \in Packets, NEW n \in Packets, NEW d \in Int, 0 < d, d < n - t,
           NEW q \in Int, 0 <= q, q < Mod,
           q = SeqNo(t) + d \/ q = SeqNo(t) + d - Mod
    PROVE  \E j \in Packets : q = SeqNo(j) /\ t < j /\ j < n
<1>1. /\ t \in Int /\ n \in Int /\ Mod \in Int /\ MaxPacket \in Int
      /\ 0 <= t /\ t <= MaxPacket /\ 0 <= n /\ n <= MaxPacket /\ MaxPacket < Mod
  BY HopAssumption DEF Packets, SeqNos
<1> DEFINE j == t + d
<1>2. j \in Packets /\ t < j /\ j < n /\ j \in Int /\ j - t = d
  BY <1>1 DEF Packets
<1> HIDE DEF j
<1>3. SeqNo(j) - SeqNo(t) = j - t \/ SeqNo(j) - SeqNo(t) = j - t - Mod
  BY <1>1, <1>2, SeqNoOrder
<1>4. /\ SeqNo(j) \in Int /\ 0 <= SeqNo(j) /\ SeqNo(j) < Mod
      /\ SeqNo(t) \in Int
  BY <1>1, <1>2, SeqNoValue DEF SeqNos
<1>5. SeqNo(j) = q
  BY <1>1, <1>2, <1>3, <1>4
<1> QED
  BY <1>2, <1>5

\* The numbers UpdateNackList adds are those of packets between t and n.
LEMMA SkippedNumbers ==
    ASSUME NEW t \in Packets, NEW n \in Packets, t < n,
           NEW q \in ((SeqNo(t) + 1) % Mod) .. (SeqNo(n) - 1)
    PROVE  \E j \in Packets : q = SeqNo(j) /\ t < j /\ j < n
<1>1. /\ t \in Int /\ n \in Int /\ Mod \in Int /\ MaxPacket \in Int /\ Start \in Int
      /\ 0 <= t /\ t <= MaxPacket /\ 0 <= n /\ n <= MaxPacket
      /\ 0 <= Start /\ Start < Mod /\ MaxPacket < Mod /\ 0 < Mod
  BY HopAssumption DEF Packets, SeqNos
<1>2. /\ SeqNo(t) \in Int /\ 0 <= SeqNo(t) /\ SeqNo(t) < Mod
      /\ SeqNo(n) \in Int /\ 0 <= SeqNo(n) /\ SeqNo(n) < Mod
  BY <1>1, SeqNoValue DEF SeqNos
<1>3. SeqNo(n) - SeqNo(t) = n - t \/ SeqNo(n) - SeqNo(t) = n - t - Mod
  BY <1>1, SeqNoOrder
\* How far q is ahead of the number of t, across the wrap or not.
<1>4. \E d \in Int : /\ 0 < d /\ d < n - t /\ q \in Int /\ 0 <= q /\ q < Mod
                     /\ q = SeqNo(t) + d \/ q = SeqNo(t) + d - Mod
  <2>1. CASE SeqNo(t) + 1 < Mod
    <3>1. (SeqNo(t) + 1) % Mod = SeqNo(t) + 1
      BY <1>1, <1>2, <2>1
    <3>2. q \in Int /\ SeqNo(t) < q /\ q < SeqNo(n)
      BY <1>1, <1>2, <3>1
    <3>3. q - SeqNo(t) \in Int /\ 0 < q - SeqNo(t) /\ q - SeqNo(t) < n - t
      BY <1>1, <1>2, <1>3, <3>2
    <3>4. q = SeqNo(t) + (q - SeqNo(t)) /\ 0 <= q /\ q < Mod
      BY <1>1, <1>2, <3>2
    <3> QED
      BY <3>2, <3>3, <3>4
  <2>2. CASE SeqNo(t) = Mod - 1
    <3>1. (SeqNo(t) + 1) % Mod = 0
      BY <1>1, <1>2, <2>2
    <3>2. q \in Int /\ 0 <= q /\ q < SeqNo(n)
      BY <1>1, <1>2, <3>1
    <3>3. q + 1 \in Int /\ 0 < q + 1 /\ q + 1 < n - t
      BY <1>1, <1>2, <1>3, <2>2, <3>2
    <3>4. q = SeqNo(t) + (q + 1) - Mod /\ q < Mod
      BY <1>1, <1>2, <2>2, <3>2
    <3> QED
      BY <3>2, <3>3, <3>4
  <2> QED
    BY <1>1, <1>2, <2>1, <2>2
<1> QED
  BY <1>4, NumberBetween

\* What the packet n, shown to NackGenerator, does to its list, the newest
\* packet shown before being t.
LEMMA UpdateNackListDoes ==
    ASSUME NEW n \in Packets, NEW t \in Packets, last = SeqNo(t)
    PROVE  /\ NextLast(SeqNo(n)) = SeqNo(IF t <= n THEN n ELSE t)
           /\ n = t => UpdateNackList(SeqNo(n)) = nack
           /\ n < t => UpdateNackList(SeqNo(n)) = Restrict(nack, DOMAIN nack \ {SeqNo(n)})
           /\ t < n => UpdateNackList(SeqNo(n)) = Missing(((SeqNo(t) + 1) % Mod) .. (SeqNo(n) - 1))
<1>1. last # None
  BY SeqNoValue, HopAssumption
<1>2. /\ SeqLowerThan(SeqNo(n), last) <=> n < t
      /\ SeqNo(n) = last <=> n = t
      /\ n \in Int /\ t \in Int
  BY SeqLowerThanOrder, SeqNoOrder, SeqNoValue
<1> QED
  BY <1>1, <1>2 DEF NextLast, UpdateNackList, Skipped

\* The packet n is handed on, and NackGenerator is shown it.
Taken(n) ==
    /\ last' = NextLast(SeqNo(n))
    /\ nack' = UpdateNackList(SeqNo(n))
    /\ fwd' = fwd \cup {n}

\* A packet shown to NackGenerator is not on its list afterwards, and neither is
\* any other that was handed on.
LEMMA TakenKeeps ==
    ASSUME ReceiverType, NackInv, rcv # None, NEW n \in Packets, Taken(n), first' = first
    PROVE  NackInv'
<1> DEFINE q == SeqNo(n)
<1>1. \A m : SeqNo(m)' = SeqNo(m)
  BY DEF SeqNo
<1>2. q \in SeqNos /\ n \in Int /\ q # None
  BY SeqNoValue, HopAssumption
<1>3. 0 \in 0 .. RetryMax + 1
  BY HopAssumption
<1>4. CASE last = None
  <2>1. last' = q /\ nack' = nack /\ DOMAIN nack = {} /\ fwd' \subseteq {first, n} /\ n \in fwd'
    BY <1>4 DEF Taken, NextLast, UpdateNackList, NackInv
  <2>2. NackedBefore(n)'
    BY <1>1, <1>2, <2>1 DEF NackedBefore
  <2> QED
    BY <1>2, <2>1, <2>2 DEF NackInv, NackSound
<1>5. CASE last # None
  <2>1. PICK t : NackedBefore(t)
    BY <1>5 DEF NackInv
  <2>2. /\ t \in Packets /\ t \in fwd /\ last = SeqNo(t) /\ t \in Int
        /\ \A m \in fwd \ {first} : m <= t
        /\ \A x \in DOMAIN nack : \E j \in Packets : x = SeqNo(j) /\ j < t
        /\ \A m \in fwd : m \in Packets /\ m \in Int
    BY <2>1, SeqNoValue DEF NackedBefore, ReceiverType
  <2>3. /\ last' = SeqNo(IF t <= n THEN n ELSE t)
        /\ n = t => nack' = nack
        /\ n < t => nack' = Restrict(nack, DOMAIN nack \ {q})
        /\ t < n => nack' = Missing(((SeqNo(t) + 1) % Mod) .. (q - 1))
        /\ fwd' = fwd \cup {n}
    BY <2>2, UpdateNackListDoes DEF Taken
  <2>4. last' # None
    BY <1>2, <2>2, <2>3, SeqNoValue, HopAssumption
  <2>5. \A m \in fwd \ {first} : SeqNo(m) \notin DOMAIN nack
    BY DEF NackInv, NackSound
  <2>6. \A x \in DOMAIN nack : nack[x] \in 0 .. RetryMax + 1
    BY DEF NackInv
  <2>7. CASE n = t
    <3>1. NackedBefore(t)'
      BY <1>1, <2>2, <2>3, <2>7 DEF NackedBefore
    <3>2. q \notin DOMAIN nack
      BY <2>2, <2>7, SeqNoOrder
    <3>3. NackSound'
      BY <1>1, <2>3, <2>5, <2>7, <3>2 DEF NackSound
    <3> QED
      BY <2>3, <2>4, <2>6, <2>7, <3>1, <3>3 DEF NackInv
  <2>8. CASE n < t
    <3>1. DOMAIN nack' = DOMAIN nack \ {q} /\ \A x \in DOMAIN nack' : nack'[x] = nack[x]
      BY <2>3, <2>8 DEF Restrict
    <3>2. last' = SeqNo(t) /\ \A m \in fwd' \ {first} : m <= t
      BY <1>2, <2>2, <2>3, <2>8
    <3>3. NackedBefore(t)'
      BY <1>1, <2>2, <2>3, <3>1, <3>2 DEF NackedBefore
    <3>4. NackSound'
      BY <1>1, <2>3, <2>5, <3>1 DEF NackSound
    <3>5. \A x \in DOMAIN nack' : nack'[x] \in 0 .. RetryMax + 1
      BY <2>6, <3>1
    <3> QED
      BY <2>4, <3>3, <3>4, <3>5 DEF NackInv
  <2>9. CASE t < n
    <3> DEFINE qs == ((SeqNo(t) + 1) % Mod) .. (q - 1)
    <3>1. /\ DOMAIN nack' = DOMAIN nack \cup qs
          /\ \A x \in DOMAIN nack' : nack'[x] = IF x \in DOMAIN nack THEN nack[x] ELSE 0
      BY <2>3, <2>9 DEF Missing
    <3>2. \A x \in qs : \E j \in Packets : x = SeqNo(j) /\ t < j /\ j < n
      BY <2>2, <2>9, SkippedNumbers
    <3> HIDE DEF qs
    <3>3. last' = q /\ \A m \in fwd' \ {first} : m <= n
      BY <1>2, <2>2, <2>3, <2>9
    <3>4. \A x \in DOMAIN nack' : \E j \in Packets : x = SeqNo(j) /\ j < n
      <4>1. \A j \in Packets : j < t => j < n
        BY <1>2, <2>2, <2>9, SeqNoValue
      <4> QED
        BY <2>2, <3>1, <3>2, <4>1
    <3>5. NackedBefore(n)'
      BY <1>1, <2>3, <3>3, <3>4 DEF NackedBefore
    <3>6. ASSUME NEW m \in fwd' \ {first} PROVE SeqNo(m) \notin DOMAIN nack'
      <4>1. CASE m = n
        <5>1. \A j \in Packets : j < n => SeqNo(j) # SeqNo(n)
          BY <1>2, SeqNoOrder, SeqNoValue
        <5> QED
          BY <3>4, <4>1, <5>1
      <4>2. CASE m # n
        <5>1. m \in fwd \ {first} /\ m <= t /\ m \in Packets /\ m \in Int
          BY <2>2, <2>3, <4>2
        <5>2. \A j \in Packets : t < j => SeqNo(j) # SeqNo(m)
          BY <2>2, <5>1, SeqNoOrder, SeqNoValue
        <5> QED
          BY <2>5, <3>1, <3>2, <5>1, <5>2
      <4> QED
        BY <4>1, <4>2
    <3>7. NackSound'
      BY <1>1, <3>6 DEF NackSound
    <3>8. \A x \in DOMAIN nack' : nack'[x] \in 0 .. RetryMax + 1
      BY <1>3, <2>6, <3>1
    <3> QED
      BY <2>4, <3>5, <3>7, <3>8 DEF NackInv
  <2> QED
    BY <1>2, <2>2, <2>7, <2>8, <2>9
<1> QED
  BY <1>4, <1>5

\* The ways a packet is received: as the first, handed on, or discarded.
LEMMA AcceptWays ==
    ASSUME NEW n, Accept(n)
    PROVE  \/ /\ rcv = None /\ first' = n /\ fwd' = fwd \cup {n} /\ UNCHANGED <<last, nack>>
           \/ rcv # None /\ Taken(n) /\ first' = first
           \/ rcv # None /\ UNCHANGED <<last, nack, first, fwd>>
BY DEF Accept, Taken

\* A packet that is received, over RTP or as a retransmission.
LEMMA AcceptKeeps ==
    ASSUME HopInv, NEW n \in Packets, Accept(n)
    PROVE  HopInv'
<1>1. /\ rcv' \in SeqStates /\ rcv' # None /\ since' \subseteq Packets /\ CountInv'
  BY AcceptCounts DEF HopInv
<1>2. ReceiverType'
  BY <1>1, AcceptWays DEF HopInv, ReceiverType, Taken
<1>3. NackInv'
  <2>1. CASE /\ rcv = None /\ first' = n /\ fwd' = fwd \cup {n}
             /\ UNCHANGED <<last, nack>>
    BY <2>1 DEF HopInv, ReceiverType, NackInv, NackSound
  <2>2. CASE rcv # None /\ Taken(n) /\ first' = first
    BY <2>2, TakenKeeps DEF HopInv
  <2>3. CASE UNCHANGED <<last, nack, first, fwd>>
    BY <2>3 DEF HopInv, NackInv, NackedBefore, NackSound, SeqNo
  <2> QED
    BY <2>1, <2>2, <2>3, AcceptWays
<1> QED
  BY <1>1, <1>2, <1>3 DEF HopInv

\* OnTimer drops numbers and counts requests, none more than RetryMax + 1 times.
LEMMA TimerCounts ==
    ASSUME HopInv, NackOnTimer
    PROVE  /\ UNCHANGED <<rcv, last, first, fwd, since>>
           /\ DOMAIN nack' \subseteq DOMAIN nack
           /\ \A q \in DOMAIN nack' :
                  nack'[q] \in {nack[q], nack[q] + 1} /\ nack'[q] \in 0 .. RetryMax + 1
<1>1. PICK due \in SUBSET Kept :
          /\ nack' = Trim([q \in Kept |-> IF q \in due THEN nack[q] + 1 ELSE nack[q]])
          /\ UNCHANGED <<rcv, last, first, fwd, since>>
  BY DEF NackOnTimer
<1> DEFINE f == [q \in Kept |-> IF q \in due THEN nack[q] + 1 ELSE nack[q]]
<1>2. DOMAIN f = Kept /\ \A q \in Kept : f[q] \in {nack[q], nack[q] + 1}
  OBVIOUS
<1>3. \A q \in Kept : q \in DOMAIN nack /\ nack[q] \in 0 .. RetryMax + 1 /\ nack[q] <= RetryMax
  BY DEF Kept, HopInv, NackInv
<1>4. \A q \in Kept : nack[q] \in 0 .. RetryMax + 1 /\ nack[q] + 1 \in 0 .. RetryMax + 1
  BY <1>3, HopAssumption
<1> HIDE DEF f
<1>5. DOMAIN Trim(f) \subseteq DOMAIN f /\ \A q \in DOMAIN Trim(f) : Trim(f)[q] = f[q]
  BY DEF Trim, Restrict
<1>6. nack' = Trim(f)
  BY <1>1 DEF f
<1> QED
  BY <1>1, <1>2, <1>3, <1>4, <1>5, <1>6

\* The timer keeps the list sound.
LEMMA TimerKeeps ==
    ASSUME HopInv, NackOnTimer
    PROVE  HopInv'
<1>1. /\ UNCHANGED <<rcv, last, first, fwd, since>>
      /\ DOMAIN nack' \subseteq DOMAIN nack
      /\ \A q \in DOMAIN nack' : nack'[q] \in 0 .. RetryMax + 1
  BY TimerCounts
<1>2. ReceiverType' /\ CountInv'
  BY <1>1 DEF HopInv, ReceiverType, CountInv, Counted, SeqNo
<1>3. last' # None => \E t : NackedBefore(t)'
  BY <1>1 DEF HopInv, NackInv, NackedBefore, SeqNo
<1>4. NackSound'
  BY <1>1 DEF HopInv, NackInv, NackSound, SeqNo
<1>5. last' = None => DOMAIN nack' = {} /\ fwd' \subseteq {first'}
  BY <1>1 DEF HopInv, NackInv
<1> QED
  BY <1>1, <1>2, <1>3, <1>4, <1>5 DEF HopInv, NackInv

\* The steps of the receiver are receptions and the timer.
LEMMA KindsOfSteps ==
    ASSUME [Next]_vars
    PROVE  \/ \E n \in Packets : Accept(n)
           \/ NackOnTimer
           \/ UNCHANGED receiverVars
<1>1. ASSUME NEW n \in Packets, SendRtpPacket(n) PROVE UNCHANGED receiverVars
  BY <1>1 DEF SendRtpPacket
<1>2. ASSUME NEW n \in Packets, ReceiveRtpPacket(n) PROVE Accept(n)
  BY <1>2 DEF ReceiveRtpPacket
<1>3. ASSUME NEW n \in Packets, ReceiveRtxPacket(n) PROVE Accept(n) \/ UNCHANGED receiverVars
  BY <1>3 DEF ReceiveRtxPacket
<1>4. ASSUME NEW k \in nacks, RecvRtcpFbNack(k) PROVE UNCHANGED receiverVars
  BY <1>4 DEF RecvRtcpFbNack
<1>5. ASSUME Lose PROVE UNCHANGED receiverVars
  BY <1>5 DEF Lose
<1>6. ASSUME UNCHANGED vars PROVE UNCHANGED receiverVars
  BY <1>6 DEF vars
<1> QED
  BY <1>1, <1>2, <1>3, <1>4, <1>5, <1>6 DEF Next

\* The receiver is consistent at the start and after every step.
LEMMA HopAlways == Spec => []HopInv
<1>1. Init => HopInv
  <2> SUFFICES ASSUME Init PROVE HopInv
    OBVIOUS
  <2>1. DOMAIN nack = {}
    BY DEF Init
  <2> QED
    BY <2>1 DEF Init, HopInv, ReceiverType, CountInv, NackInv, NackSound
<1>2. HopInv /\ [Next]_vars => HopInv'
  <2> SUFFICES ASSUME HopInv, [Next]_vars PROVE HopInv'
    OBVIOUS
  <2>1. CASE UNCHANGED receiverVars
    <3>1. UNCHANGED <<rcv, last, nack, first, fwd, since>>
      BY <2>1 DEF receiverVars
    <3>2. ReceiverType' /\ CountInv'
      BY <3>1 DEF HopInv, ReceiverType, CountInv, Counted, SeqNo
    <3>3. NackInv'
      BY <3>1 DEF HopInv, NackInv, NackedBefore, NackSound, SeqNo
    <3> QED
      BY <3>2, <3>3 DEF HopInv
  <2> QED
    BY <2>1, KindsOfSteps, AcceptKeeps, TimerKeeps
<1> QED
  BY <1>1, <1>2, PTL DEF Spec

\* nack_map_ never holds the number of a packet that was handed on, whatever the
\* network loses and reorders and wherever the sequence number wraps.
THEOREM NackSoundAlways == Spec => []NackSound
<1>1. HopInv => NackSound
  BY DEF HopInv, NackInv
<1> QED
  BY <1>1, HopAlways, PTL

\* The extended highest sequence number of the receiver reports is true, across
\* the wrap, any reordering, and re-synchronisations.
THEOREM HighestSeqIsTrueAlways == Spec => []HighestSeqIsTrue
<1>1. HopInv => HighestSeqIsTrue
  <2> SUFFICES ASSUME HopInv, rcv # None
               PROVE  \E b \in since : /\ rcv.base = SeqNo(b)
                                       /\ rcv.cycles + rcv.max - rcv.base = Max(since) - b
    BY DEF HighestSeqIsTrue
  <2>1. PICK b, t : Counted(b, t)
    BY DEF HopInv, CountInv
  <2>2. \A n \in since : n \in Int
    BY DEF HopInv, ReceiverType, Packets
  <2>3. t \in since /\ \A n \in since : t >= n
    BY <2>1, <2>2 DEF Counted
  <2>4. Max(since) \in since /\ \A n \in since : Max(since) >= n
    BY <2>3 DEF Max
  <2>5. Max(since) = t
    BY <2>2, <2>3, <2>4
  <2> QED
    BY <2>1, <2>5 DEF Counted
<1> QED
  BY <1>1, HopAlways, PTL

-----------------------------------------------------------------------------
(* The hop implements LossRecovery *)

Asked(n) == IF StatusOf(n) = "missing" THEN nack[SeqNo(n)] ELSE 0

\* Packet n is older than the newest one NackGenerator was shown.
Older(n) == last # None /\ SeqLowerThan(SeqNo(n), last)

Listed(n) == SeqNo(n) \in DOMAIN nack

\* The four cases of StatusOf, one behind the other.
StatusIs(n, f, listed, handed, older, status) ==
    status = IF n = f THEN "delivered"
             ELSE IF listed THEN "missing"
             ELSE IF handed THEN "delivered"
             ELSE IF older THEN "passed" ELSE "ahead"

\* StatusOf before and after a step.
LEMMA StatusValue ==
    ASSUME NEW n
    PROVE  /\ StatusIs(n, first, Listed(n), n \in fwd, Older(n), StatusOf(n))
           /\ StatusIs(n, first', Listed(n)', n \in fwd', Older(n)', StatusOf(n)')
BY DEF StatusIs, StatusOf, Listed, Older, SeqNo, SeqLowerThan

\* What a step may do to packet m: the steps LossRecovery allows.
Goes(m) == Recovery!Moved(StatusOf(m), StatusOf(m)', Asked(m), Asked(m)')

\* The step hands on no packet but n.
HandsOn(n) == \A m \in Packets :
                  StatusOf(m)' = "delivered" /\ StatusOf(m) # "delivered" => m = n

\* The list has older packets only, and once shown a packet NackGenerator never
\* again takes it, or an older one, for one to come.
LEMMA ListedIsOlder ==
    ASSUME HopInv, NEW m \in Packets
    PROVE  /\ Listed(m) => Older(m)
           /\ m \in fwd /\ m # first => ~Listed(m) /\ last # None
<1>1. ASSUME Listed(m) PROVE Older(m)
  <2>1. last # None
    BY <1>1 DEF HopInv, NackInv, Listed
  <2>2. PICK t : NackedBefore(t)
    BY <2>1 DEF HopInv, NackInv
  <2>3. t \in Packets /\ last = SeqNo(t)
    BY <2>2 DEF NackedBefore, HopInv, ReceiverType
  <2>4. PICK j \in Packets : SeqNo(m) = SeqNo(j) /\ j < t
    BY <1>1, <2>2 DEF NackedBefore, Listed
  <2>5. m = j
    BY <2>4, SeqNoOrder
  <2> QED
    BY <2>1, <2>3, <2>4, <2>5, SeqLowerThanOrder DEF Older
<1>2. m \in fwd /\ m # first => ~Listed(m) /\ last # None
  BY DEF HopInv, NackInv, NackSound, Listed
<1> QED
  BY <1>1, <1>2

\* The first packet: all the others stay ahead.
LEMMA FirstMoves ==
    ASSUME HopInv, NEW n \in Packets, rcv = None, first' = n, fwd' = fwd \cup {n},
           UNCHANGED <<last, nack>>
    PROVE  HandsOn(n) /\ \A m \in Packets : Goes(m)
<1>1. first = None /\ fwd = {} /\ last = None /\ DOMAIN nack = {}
  BY DEF HopInv, ReceiverType, NackInv
<1>2. ASSUME NEW m \in Packets
      PROVE  /\ StatusOf(m) = "ahead" /\ Asked(m) = 0 /\ Asked(m)' = 0
             /\ StatusOf(m)' = IF m = n THEN "delivered" ELSE "ahead"
  <2>1. m # first /\ ~Listed(m) /\ ~Listed(m)' /\ ~Older(m) /\ ~Older(m)' /\ m \notin fwd
    BY <1>1, HopAssumption DEF Listed, Older
  <2>2. StatusOf(m) = "ahead" /\ StatusOf(m)' = IF m = n THEN "delivered" ELSE "ahead"
    BY <1>1, <2>1, StatusValue DEF StatusIs
  <2> QED
    BY <2>2 DEF Asked
<1> QED
  BY <1>2 DEF HandsOn, Goes, Recovery!Moved, Recovery!Moves

\* A packet handed on is delivered, and those it skips become missing or are
\* passed over.
LEMMA TakenMoves ==
    ASSUME HopInv, HopInv', NEW n \in Packets, rcv # None, Taken(n), first' = first
    PROVE  HandsOn(n) /\ \A m \in Packets : Goes(m)
<1>1. \A m : SeqNo(m)' = SeqNo(m)
  BY DEF SeqNo
<1>2. n \in fwd' /\ \A m : m # n => (m \in fwd' <=> m \in fwd)
  BY DEF Taken
<1>3. n # first => ~Listed(n)'
  BY <1>1, <1>2 DEF HopInv, NackInv, NackSound, Listed
<1>4. ASSUME NEW m \in Packets, m # n, m # first
      PROVE  /\ Listed(m) => Listed(m)' /\ nack'[SeqNo(m)] = nack[SeqNo(m)]
             /\ Listed(m)' /\ ~Listed(m) => ~Older(m) /\ m \notin fwd /\ nack'[SeqNo(m)] = 0
             /\ Older(m) => Older(m)'
  <2>1. CASE last = None
    BY <1>1, <2>1 DEF Taken, UpdateNackList, Listed, Older, HopInv, NackInv
  <2>2. CASE last # None
    <3>1. PICK t : NackedBefore(t)
      BY <2>2 DEF HopInv, NackInv
    <3>2. /\ t \in Packets /\ last = SeqNo(t) /\ t \in Int /\ n \in Int /\ m \in Int
          /\ \A x \in fwd \ {first} : x <= t
      BY <3>1, SeqNoValue DEF NackedBefore, HopInv, ReceiverType
    <3>3. Older(m) <=> m < t
      BY <2>2, <3>2, SeqLowerThanOrder DEF Older
    <3>4. SeqNo(m) # SeqNo(n)
      BY <1>4, SeqNoOrder
    <3>5. /\ last' = SeqNo(IF t <= n THEN n ELSE t)
          /\ n = t => nack' = nack
          /\ n < t => nack' = Restrict(nack, DOMAIN nack \ {SeqNo(n)})
          /\ t < n => nack' = Missing(((SeqNo(t) + 1) % Mod) .. (SeqNo(n) - 1))
      BY <3>2, UpdateNackListDoes DEF Taken
    <3>6. Older(m) => Older(m)'
      <4>1. PICK u \in Packets : last' = SeqNo(u) /\ t <= u
        BY <3>2, <3>5
      <4>2. last' # None
        BY <4>1, SeqNoValue, HopAssumption
      <4>3. SeqLowerThan(SeqNo(m), last') <=> m < u
        BY <4>1, SeqLowerThanOrder
      <4>4. u \in Int
        BY <4>1, SeqNoValue
      <4>5. Older(m)' <=> m < u
        BY <1>1, <4>2, <4>3 DEF Older, SeqLowerThan
      <4> QED
        BY <3>2, <3>3, <4>1, <4>4, <4>5
    <3>7. /\ Listed(m) => Listed(m)' /\ nack'[SeqNo(m)] = nack[SeqNo(m)]
          /\ Listed(m)' /\ ~Listed(m) =>
                 t < n /\ SeqNo(m) \in ((SeqNo(t) + 1) % Mod) .. (SeqNo(n) - 1) /\ nack'[SeqNo(m)] = 0
      <4>1. CASE n = t
        BY <1>1, <3>5, <4>1 DEF Listed
      <4>2. CASE n < t
        BY <1>1, <3>4, <3>5, <4>2 DEF Listed, Restrict
      <4>3. CASE t < n
        BY <1>1, <3>5, <4>3 DEF Listed, Missing
      <4> QED
        BY <3>2, <4>1, <4>2, <4>3
    <3>8. ASSUME Listed(m)', ~Listed(m) PROVE ~Older(m) /\ m \notin fwd
      <4>1. t < n /\ SeqNo(m) \in ((SeqNo(t) + 1) % Mod) .. (SeqNo(n) - 1)
        BY <3>7, <3>8
      <4>2. PICK j \in Packets : SeqNo(m) = SeqNo(j) /\ t < j /\ j < n
        BY <3>2, <4>1, SkippedNumbers
      <4>3. m = j
        BY <4>2, SeqNoOrder
      <4> QED
        BY <1>4, <3>2, <3>3, <4>2, <4>3
    <3> QED
      BY <3>6, <3>7, <3>8
  <2> QED
    BY <2>1, <2>2
<1>5. ASSUME NEW m \in Packets
      PROVE  Goes(m) /\ (StatusOf(m)' = "delivered" /\ StatusOf(m) # "delivered" => m = n)
  <2>1. CASE m = first
    <3>1. StatusOf(m) = "delivered" /\ StatusOf(m)' = "delivered"
      BY <2>1, StatusValue DEF StatusIs
    <3> QED
      BY <3>1 DEF Goes, Asked, Recovery!Moved
  <2>2. CASE m # first /\ m = n
    <3>1. StatusOf(m)' = "delivered" /\ StatusOf(m) \in {"missing", "delivered", "passed", "ahead"}
      BY <1>2, <1>3, <2>2, StatusValue DEF StatusIs
    <3> QED
      BY <2>2, <3>1 DEF Goes, Asked, Recovery!Moved, Recovery!Moves
  <2>3. CASE m # first /\ m # n
    <3>1. /\ StatusOf(m) = IF Listed(m) THEN "missing" ELSE IF m \in fwd THEN "delivered"
                           ELSE IF Older(m) THEN "passed" ELSE "ahead"
          /\ StatusOf(m)' = IF Listed(m)' THEN "missing" ELSE IF m \in fwd THEN "delivered"
                            ELSE IF Older(m)' THEN "passed" ELSE "ahead"
      BY <1>2, <2>3, StatusValue DEF StatusIs
    <3>2. /\ Listed(m) => Listed(m)' /\ nack'[SeqNo(m)] = nack[SeqNo(m)]
          /\ Listed(m)' /\ ~Listed(m) => ~Older(m) /\ m \notin fwd /\ nack'[SeqNo(m)] = 0
          /\ Older(m) => Older(m)'
      BY <1>4, <2>3
    <3>3. CASE Listed(m)
      <4>1. /\ StatusOf(m) = "missing" /\ StatusOf(m)' = "missing"
            /\ Asked(m) = nack[SeqNo(m)] /\ Asked(m)' = nack[SeqNo(m)]
        BY <1>1, <3>1, <3>2, <3>3 DEF Asked
      <4> QED
        BY <4>1 DEF Goes, Recovery!Moved
    <3>4. CASE ~Listed(m) /\ Listed(m)'
      <4>1. StatusOf(m) = "ahead" /\ StatusOf(m)' = "missing" /\ Asked(m)' = 0
        BY <1>1, <3>1, <3>2, <3>4 DEF Asked
      <4> QED
        BY <4>1 DEF Goes, Recovery!Moved, Recovery!Moves
    <3>5. CASE ~Listed(m) /\ ~Listed(m)'
      <4>1. /\ Asked(m)' = 0 /\ StatusOf(m) # "missing"
            /\ \/ StatusOf(m)' = StatusOf(m)
               \/ StatusOf(m) = "ahead" /\ StatusOf(m)' = "passed"
        BY <3>1, <3>2, <3>5 DEF Asked
      <4> QED
        BY <4>1 DEF Goes, Recovery!Moved, Recovery!Moves
    <3> QED
      BY <3>3, <3>4, <3>5
  <2> QED
    BY <2>1, <2>2, <2>3
<1> QED
  BY <1>5 DEF HandsOn

\* The timer asks for what is missing, and passes over what it gives up.
LEMMA TimerMoves ==
    ASSUME HopInv, NackOnTimer
    PROVE  \A m \in Packets : Goes(m) /\ (StatusOf(m)' = "delivered" => StatusOf(m) = "delivered")
<1>1. \A m : SeqNo(m)' = SeqNo(m)
  BY DEF SeqNo
<1>2. /\ UNCHANGED <<last, first, fwd>> /\ DOMAIN nack' \subseteq DOMAIN nack
      /\ \A q \in DOMAIN nack' : nack'[q] \in {nack[q], nack[q] + 1}
  BY TimerCounts
<1> SUFFICES ASSUME NEW m \in Packets
             PROVE  Goes(m) /\ (StatusOf(m)' = "delivered" => StatusOf(m) = "delivered")
  OBVIOUS
<1>3. /\ Listed(m)' => Listed(m) /\ nack'[SeqNo(m)] \in {nack[SeqNo(m)], nack[SeqNo(m)] + 1}
      /\ Older(m)' <=> Older(m)
  BY <1>1, <1>2 DEF Listed, Older, SeqLowerThan
<1>4. (Listed(m) => Older(m)) /\ (m \in fwd /\ m # first => ~Listed(m))
  BY ListedIsOlder
<1>5. CASE m = first
  <2>1. StatusOf(m) = "delivered" /\ StatusOf(m)' = "delivered"
    BY <1>2, <1>5, StatusValue DEF StatusIs
  <2> QED
    BY <2>1 DEF Goes, Asked, Recovery!Moved
<1>6. CASE m # first
  <2>1. /\ StatusOf(m) = IF Listed(m) THEN "missing" ELSE IF m \in fwd THEN "delivered"
                         ELSE IF Older(m) THEN "passed" ELSE "ahead"
        /\ StatusOf(m)' = IF Listed(m)' THEN "missing" ELSE IF m \in fwd THEN "delivered"
                          ELSE IF Older(m) THEN "passed" ELSE "ahead"
    BY <1>2, <1>3, <1>6, StatusValue DEF StatusIs
  <2>2. CASE Listed(m)'
    <3>1. /\ StatusOf(m) = "missing" /\ StatusOf(m)' = "missing"
          /\ Asked(m) = nack[SeqNo(m)] /\ Asked(m)' = nack'[SeqNo(m)]
      BY <1>1, <1>3, <2>1, <2>2 DEF Asked
    <3> QED
      BY <1>3, <2>2, <3>1 DEF Goes, Recovery!Moved
  <2>3. CASE Listed(m) /\ ~Listed(m)'
    <3>1. StatusOf(m) = "missing" /\ StatusOf(m)' = "passed" /\ Asked(m)' = 0
      BY <1>4, <1>6, <2>1, <2>3 DEF Asked
    <3> QED
      BY <3>1 DEF Goes, Recovery!Moved, Recovery!Moves
  <2>4. CASE ~Listed(m) /\ ~Listed(m)'
    <3>1. StatusOf(m)' = StatusOf(m) /\ Asked(m)' = 0 /\ StatusOf(m) # "missing"
      BY <2>1, <2>4 DEF Asked
    <3> QED
      BY <3>1 DEF Goes, Recovery!Moved
  <2> QED
    BY <1>3, <2>2, <2>3, <2>4
<1> QED
  BY <1>5, <1>6

StatusTyped ==
    \A m \in Packets : StatusOf(m) \in Recovery!Statuses /\ Asked(m) \in 0 .. RetryMax + 1

\* The statuses and the counts have the types LossRecovery gives them.
LEMMA StatusType == HopInv => StatusTyped
<1> SUFFICES ASSUME HopInv, NEW m \in Packets
             PROVE  StatusOf(m) \in Recovery!Statuses /\ Asked(m) \in 0 .. RetryMax + 1
  BY DEF StatusTyped
<1>1. StatusOf(m) \in Recovery!Statuses /\ (StatusOf(m) = "missing" => Listed(m))
  BY StatusValue DEF StatusIs, Recovery!Statuses
<1>2. 0 \in 0 .. RetryMax + 1
  BY HopAssumption
<1> QED
  BY <1>1, <1>2 DEF Asked, Listed, HopInv, NackInv

\* Each step of the hop is a step of LossRecovery or changes nothing of it.
LEMMA RecoveryStep ==
    ASSUME HopInv, HopInv', [Next]_vars
    PROVE  [Recovery!Next]_(Recovery!hopVars)
<1>1. ASSUME NEW n, HandsOn(n), \A m \in Packets : Goes(m)
      PROVE  Recovery!Next
  <2>1. \A m \in Packets : StatusOf(m)' \in Recovery!Statuses /\ Asked(m)' \in 0 .. RetryMax + 1
    <3>1. StatusTyped'
      BY StatusType, PTL
    <3> QED
      BY <3>1 DEF StatusTyped, Recovery!Statuses
  <2> QED
    BY <1>1, <2>1 DEF Recovery!Next, Goes, HandsOn, Asked
<1>2. ASSUME NEW n \in Packets, Accept(n) PROVE [Recovery!Next]_(Recovery!hopVars)
  <2>1. CASE UNCHANGED <<last, nack, first, fwd>>
    BY <2>1 DEF Recovery!hopVars, StatusOf, SeqNo, SeqLowerThan
  <2> QED
    BY <1>1, <1>2, <2>1, AcceptWays, FirstMoves, TakenMoves
<1>3. CASE NackOnTimer
  BY <1>1, <1>3, TimerMoves DEF HandsOn
<1>4. CASE UNCHANGED receiverVars
  BY <1>4 DEF receiverVars, Recovery!hopVars, StatusOf, SeqNo, SeqLowerThan
<1> QED
  BY <1>2, <1>3, <1>4, KindsOfSteps

\* The hop implements LossRecovery: each packet is asked for at most RetryMax + 1
\* times in all, and never after it was handed on, given up or passed over.
THEOREM HopImplementsLossRecovery == Spec => ImplementsLossRecovery
<1>1. Init => Recovery!Init
  <2> SUFFICES ASSUME Init PROVE Recovery!Init
    OBVIOUS
  <2>1. DOMAIN nack = {} /\ last = None /\ first = None /\ fwd = {}
    BY DEF Init
  <2>2. \A m \in Packets : StatusOf(m) = "ahead"
    BY <2>1, HopAssumption DEF StatusOf
  <2> QED
    BY <2>2 DEF Recovery!Init
<1>2. HopInv /\ HopInv' /\ [Next]_vars => [Recovery!Next]_(Recovery!hopVars)
  BY RecoveryStep
<1> QED
  BY <1>1, <1>2, HopAlways, PTL DEF Spec, ImplementsLossRecovery, Recovery!Spec

-----------------------------------------------------------------------------
(* The sender, the network and the types *)

\* The sender's counters are those of a packet; what is in its cache and on the
\* network are packets and NACKs.
SenderInv ==
    /\ given \subseteq Packets
    /\ snd = None \/ (snd \in SeqStates /\ \E t \in Packets : snd.max = SeqNo(t))
    /\ cache \in [0 .. CacheSize - 1 -> Packets \cup {None}]
    /\ rtp \subseteq Packets /\ rtx \subseteq Packets
    /\ nacks \subseteq SUBSET Blocks
    /\ lost \in 0 .. MaxLoss

\* InsertBlock sets bits of the bitmap only.
LEMMA InsertBlockType ==
    ASSUME NEW h \in SeqNos, NEW qs \in SUBSET SeqNos, \A q \in qs : q >= h,
           NEW stray \in SUBSET (0 .. BitmapLen - 1)
    PROVE  InsertBlock(h, qs, stray) \in Blocks
<1> DEFINE near == {x \in qs \ {h} : x - h <= BitmapLen}
           bits == {BitmapLen - (q - h) : q \in near}
           odd == UNION {stray : q \in {x \in qs : x - h > BitmapLen}}
<1>1. h \in Int /\ BitmapLen \in Nat /\ \A q \in qs : q \in Int
  BY HopAssumption DEF SeqNos
<1>2. \A q \in near : BitmapLen - (q - h) \in 0 .. BitmapLen - 1
  BY <1>1
<1>3. bits \subseteq 0 .. BitmapLen - 1
  BY <1>2
<1>4. odd \subseteq 0 .. BitmapLen - 1
  OBVIOUS
<1>5. InsertBlock(h, qs, stray) = [packet_id |-> h, lost_bitmap |-> bits \cup odd]
  BY DEF InsertBlock
<1> HIDE DEF bits, odd
<1> QED
  BY <1>3, <1>4, <1>5 DEF Blocks

LEMMA InsertSeqListType ==
    ASSUME NEW due \in SUBSET SeqNos, NEW heads \in SUBSET due,
           NEW stray \in SUBSET (0 .. BitmapLen - 1)
    PROVE  InsertSeqList(due, heads, stray) \in SUBSET Blocks
<1>1. ASSUME NEW h \in heads
      PROVE  InsertBlock(h, BlockFrom(due, heads, h), stray) \in Blocks
  <2>1. /\ h \in SeqNos /\ BlockFrom(due, heads, h) \in SUBSET SeqNos
        /\ \A q \in BlockFrom(due, heads, h) : q >= h
    BY DEF BlockFrom
  <2> QED
    BY <2>1, InsertBlockType
<1> QED
  BY <1>1 DEF InsertSeqList

\* The places of the retransmission cache.
LEMMA CachePlace ==
    ASSUME NEW q \in Nat
    PROVE  q % CacheSize \in 0 .. CacheSize - 1
BY HopAssumption

\* What the cache has for the NACK of a receiver are packets.
LEMMA CachedType ==
    ASSUME cache \in [0 .. CacheSize - 1 -> Packets \cup {None}],
           NEW k \in SUBSET Blocks, NEW q \in GetLostSeqs(k)
    PROVE  Cached(q) \subseteq Packets
<1>1. q \in Nat
  <2>1. PICK b \in k : q \in {b.packet_id} \cup
                                 {(b.packet_id + 1 + i) % Mod : i \in b.lost_bitmap}
    BY DEF GetLostSeqs
  <2>2. /\ b.packet_id \in Nat /\ b.lost_bitmap \subseteq Nat /\ Mod \in Nat /\ 0 < Mod
    BY HopAssumption DEF Blocks, SeqNos
  <2>3. \A i \in b.lost_bitmap : (b.packet_id + 1 + i) % Mod \in Nat
    <3>1. ASSUME NEW x \in Nat PROVE x % Mod \in Nat
      BY <2>2
    <3>2. \A i \in b.lost_bitmap : b.packet_id + 1 + i \in Nat
      BY <2>2
    <3> QED
      BY <3>1, <3>2
  <2> QED
    BY <2>1, <2>2, <2>3
<1>2. cache[q % CacheSize] \in Packets \cup {None}
  BY <1>1, CachePlace
<1> QED
  BY <1>2 DEF Cached

LEMMA SenderStep ==
    ASSUME HopInv, SenderInv, [Next]_vars
    PROVE  SenderInv'
<1>1. ASSUME NEW n \in Packets, SendRtpPacket(n) PROVE SenderInv'
  <2> DEFINE q == SeqNo(n)
  <2>1. snd' = None \/ (snd' \in SeqStates /\ \E t \in Packets : snd'.max = SeqNo(t))
    <3>1. CASE snd = None
      <4>1. snd' = InitSeq(q)
        BY <1>1, <3>1 DEF SendRtpPacket
      <4> QED
        BY <4>1, InitSeqType
    <3>2. CASE snd # None
      <4>1. snd' = UpdateSeq(snd, q)
        BY <1>1, <3>2 DEF SendRtpPacket
      <4>2. PICK t \in Packets : snd \in SeqStates /\ snd.max = SeqNo(t)
        BY <3>2 DEF SenderInv
      <4> DEFINE u == UpdateSeq(snd, q)
      <4>3. /\ u \in SeqStates
            /\ u.max = SeqNo(n) \/ u.max = SeqNo(t) \/ u = InitSeq(SeqNo(n))
        BY <4>2, UpdateSeqDoes
      <4>4. u.max = SeqNo(n) \/ u.max = SeqNo(t)
        BY <4>3, InitSeqType
      <4> QED
        BY <4>1, <4>3, <4>4
    <3> QED
      BY <3>1, <3>2
  <2>2. cache' \in [0 .. CacheSize - 1 -> Packets \cup {None}]
    BY <1>1 DEF SendRtpPacket, SenderInv
  <2>3. /\ given' = given \cup {n} /\ rtp' \subseteq rtp \cup {n}
        /\ UNCHANGED <<rtx, nacks, lost>>
    BY <1>1 DEF SendRtpPacket
  <2> QED
    BY <2>1, <2>2, <2>3 DEF SenderInv
<1>2. ASSUME NEW k \in nacks, RecvRtcpFbNack(k) PROVE SenderInv'
  <2>1. /\ nacks' \subseteq nacks /\ UNCHANGED <<given, snd, cache, rtp, lost>>
        /\ rtx' = rtx \cup UNION {Cached(q) : q \in GetLostSeqs(k)}
    BY <1>2 DEF RecvRtcpFbNack, senderVars
  <2>2. \A q \in GetLostSeqs(k) : Cached(q) \subseteq Packets
    BY CachedType DEF SenderInv
  <2>3. rtx' \subseteq Packets
    BY <2>1, <2>2 DEF SenderInv
  <2> QED
    BY <2>1, <2>3 DEF SenderInv
<1>3. CASE NackOnTimer
  <2>1. Kept \subseteq SeqNos
    BY SeqNoValue DEF Kept, HopInv, NackInv, NackedBefore
  <2>2. PICK due \in SUBSET Kept, stray \in {{}} \cup {{k} : k \in 0 .. BitmapLen - 1} :
            \/ nacks' = nacks
            \/ \E heads \in SUBSET due :
                   nacks' = nacks \cup {InsertSeqList(due, heads, stray)}
    BY <1>3 DEF NackOnTimer
  <2>3. due \in SUBSET SeqNos /\ stray \in SUBSET (0 .. BitmapLen - 1)
    BY <2>1
  <2>4. nacks' \subseteq SUBSET Blocks
    BY <2>2, <2>3, InsertSeqListType DEF SenderInv
  <2>5. UNCHANGED <<given, snd, cache, rtp, rtx, lost>>
    BY <1>3 DEF NackOnTimer, senderVars
  <2> QED
    BY <2>4, <2>5 DEF SenderInv
<1>4. ASSUME NEW n \in Packets, ReceiveRtpPacket(n) \/ ReceiveRtxPacket(n) PROVE SenderInv'
  <2>1. /\ rtp' \subseteq rtp /\ rtx' \subseteq rtx
        /\ UNCHANGED <<given, snd, cache, nacks, lost>>
    BY <1>4 DEF ReceiveRtpPacket, ReceiveRtxPacket, senderVars
  <2> QED
    BY <2>1 DEF SenderInv
<1>5. CASE Lose
  <2>1. /\ rtp' \subseteq rtp /\ rtx' \subseteq rtx /\ nacks' \subseteq nacks
        /\ lost < MaxLoss /\ lost' = lost + 1 /\ UNCHANGED <<given, snd, cache>>
    BY <1>5 DEF Lose, senderVars
  <2>2. lost' \in 0 .. MaxLoss
    BY <2>1, HopAssumption DEF SenderInv
  <2> QED
    BY <2>1, <2>2 DEF SenderInv
<1>6. CASE UNCHANGED vars
  BY <1>6 DEF vars, senderVars, netVars, SenderInv
<1> QED
  BY <1>1, <1>2, <1>3, <1>4, <1>5, <1>6 DEF Next

\* Every variable of the two ends and of the network keeps its type: the sender
\* answers with packets it was given, and a NACK's bits stay in its bitmap.
THEOREM TypeCorrect == Spec => []TypeOK
<1>1. Init => SenderInv
  BY HopAssumption DEF Init, SenderInv
<1>2. HopInv /\ SenderInv /\ [Next]_vars => SenderInv'
  BY SenderStep
<1>3. HopInv /\ SenderInv => TypeOK
  <2> SUFFICES ASSUME HopInv, SenderInv PROVE TypeOK
    OBVIOUS
  <2>1. /\ rcv \in SeqStates \cup {None} /\ fwd \subseteq Packets /\ since \subseteq Packets
        /\ first \in Packets \cup {None}
    BY DEF HopInv, ReceiverType
  <2>2. last \in SeqNos \cup {None} /\ DOMAIN nack \subseteq SeqNos
    BY <2>1, SeqNoValue DEF HopInv, NackInv, NackedBefore
  <2>3. \A q \in DOMAIN nack : nack[q] \in 0 .. RetryMax + 1
    BY DEF HopInv, NackInv
  <2> QED
    BY <2>1, <2>2, <2>3 DEF SenderInv, TypeOK
<1> QED
  BY <1>1, <1>2, <1>3, HopAlways, PTL DEF Spec
=============================================================================
