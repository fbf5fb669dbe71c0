------------------------- MODULE MediaStreamsProofs -------------------------
(***************************************************************************)
(* Proofs about MediaStreams, for any number of streams, sessions, writers *)
(* and packets: the types, in which two ways alone the manager keeps a     *)
(* writer that is gone, which sessions alone leave a stream behind, that a *)
(* frame reaches a player only after its sequence header, and that a       *)
(* player gets whole groups of pictures.                                   *)
(***************************************************************************)
EXTENDS MediaStreams, TLAPS

WriterMaps == UNION {[ids -> Writers] : ids \in SUBSET WriterIds}

StreamStates ==
    [publisher_exist_ : BOOLEAN, writer_map_ : WriterMaps,
     metadata_hdr_ : Packets \cup {NoPacket}, seq_hdr_ : Packets \cup {NoPacket},
     packet_list : Seq(Packets), history : Seq(Packets)]

StreamMaps == UNION {[ks -> StreamStates] : ks \in SUBSET StreamKeys}

TypeInv ==
    /\ streams \in StreamMaps
    /\ session \in [Sessions -> SessionStates]
    /\ joined \in [Writers -> 0 .. MaxPackets]
    /\ out \in [Writers -> Seq(Packets)]
    /\ fed \in [Sessions -> SUBSET StreamKeys]
    /\ headed \subseteq StreamKeys
    /\ ub \in BOOLEAN

-----------------------------------------------------------------------------
(* The maps of the manager *)

\* A writer map is a function from writer ids to writers.
LEMMA WriterMapDef ==
    ASSUME NEW m
    PROVE  m \in WriterMaps <=>
               /\ m = [x \in DOMAIN m |-> m[x]]
               /\ DOMAIN m \subseteq WriterIds
               /\ \A x \in DOMAIN m : m[x] \in Writers
BY DEF WriterMaps

\* A map of streams is a function from keys to streams.
LEMMA StreamMapDef ==
    ASSUME NEW ss
    PROVE  ss \in StreamMaps <=>
               /\ ss = [x \in DOMAIN ss |-> ss[x]]
               /\ DOMAIN ss \subseteq StreamKeys
               /\ \A x \in DOMAIN ss : ss[x] \in StreamStates
BY DEF StreamMaps

\* A writer map without entries is the empty function.
LEMMA EmptyMap ==
    ASSUME NEW m \in WriterMaps
    PROVE  m = <<>> <=> DOMAIN m = {}
<1>1. m = [x \in DOMAIN m |-> m[x]]
  BY WriterMapDef
<1>2. DOMAIN <<>> = {}
  OBVIOUS
<1>3. ASSUME DOMAIN m = {} PROVE m = <<>>
  BY <1>1, <1>3
<1> QED
  BY <1>2, <1>3

\* insert of a writer.
LEMMA InsertWriter ==
    ASSUME NEW m \in WriterMaps, NEW id \in WriterIds, NEW w \in Writers
    PROVE  /\ Insert(m, id, w) \in WriterMaps
           /\ DOMAIN Insert(m, id, w) = DOMAIN m \cup {id}
           /\ \A x \in DOMAIN Insert(m, id, w) :
                  \/ x \in DOMAIN m /\ Insert(m, id, w)[x] = m[x]
                  \/ x = id /\ Insert(m, id, w)[x] = w
<1>1. /\ DOMAIN Insert(m, id, w) = DOMAIN m \cup {id}
      /\ \A x \in DOMAIN m : Insert(m, id, w)[x] = m[x]
      /\ id \notin DOMAIN m => Insert(m, id, w)[id] = w
  BY DEF Insert
<1>2. Insert(m, id, w) = [x \in DOMAIN Insert(m, id, w) |-> Insert(m, id, w)[x]]
  BY DEF Insert
<1> QED
  BY <1>1, <1>2, WriterMapDef

\* erase of writers.
LEMMA EraseWriters ==
    ASSUME NEW m \in WriterMaps, NEW ids
    PROVE  /\ Erase(m, ids) \in WriterMaps
           /\ DOMAIN Erase(m, ids) = DOMAIN m \ ids
           /\ \A x \in DOMAIN Erase(m, ids) : Erase(m, ids)[x] = m[x]
<1>1. /\ DOMAIN Erase(m, ids) = DOMAIN m \ ids
      /\ \A x \in DOMAIN m \ ids : Erase(m, ids)[x] = m[x]
      /\ Erase(m, ids) = [x \in DOMAIN Erase(m, ids) |-> Erase(m, ids)[x]]
  BY DEF Erase
<1> QED
  BY <1>1, WriterMapDef

\* A new stream has no players and no packets.
LEMMA NewStreamType ==
    ASSUME NEW b \in BOOLEAN
    PROVE  /\ NewStream(b) \in StreamStates
           /\ NewStream(b).publisher_exist_ = b
           /\ NewStream(b).writer_map_ = <<>>
           /\ NewStream(b).seq_hdr_ = NoPacket /\ NewStream(b).metadata_hdr_ = NoPacket
           /\ NewStream(b).packet_list = <<>> /\ NewStream(b).history = <<>>
<1>1. <<>> \in WriterMaps
  <2>1. <<>> \in [{} -> Writers]
    OBVIOUS
  <2> QED
    BY <2>1 DEF WriterMaps
<1>2. <<>> \in Seq(Packets)
  OBVIOUS
<1> QED
  BY <1>1, <1>2 DEF NewStream, StreamStates

\* insert of a new stream.
LEMMA InsertStream ==
    ASSUME NEW ss \in StreamMaps, NEW k \in StreamKeys, NEW b \in BOOLEAN
    PROVE  /\ Insert(ss, k, NewStream(b)) \in StreamMaps
           /\ DOMAIN Insert(ss, k, NewStream(b)) = DOMAIN ss \cup {k}
           /\ \A x \in DOMAIN ss : Insert(ss, k, NewStream(b))[x] = ss[x]
           /\ k \notin DOMAIN ss => Insert(ss, k, NewStream(b))[k] = NewStream(b)
<1>1. /\ DOMAIN Insert(ss, k, NewStream(b)) = DOMAIN ss \cup {k}
      /\ \A x \in DOMAIN ss : Insert(ss, k, NewStream(b))[x] = ss[x]
      /\ k \notin DOMAIN ss => Insert(ss, k, NewStream(b))[k] = NewStream(b)
      /\ Insert(ss, k, NewStream(b)) =
             [x \in DOMAIN Insert(ss, k, NewStream(b)) |-> Insert(ss, k, NewStream(b))[x]]
  BY DEF Insert
<1>2. \A x \in DOMAIN Insert(ss, k, NewStream(b)) :
          Insert(ss, k, NewStream(b))[x] \in StreamStates
  BY <1>1, NewStreamType, StreamMapDef
<1> QED
  BY <1>1, <1>2, StreamMapDef

\* The streams a and b have been given the same packets.
SameMedia(a, b) ==
    /\ a.metadata_hdr_ = b.metadata_hdr_ /\ a.seq_hdr_ = b.seq_hdr_
    /\ a.packet_list = b.packet_list /\ a.history = b.history

\* The streams r are the streams ss with the writer w under id in stream k,
\* unless the id is taken.
PlayerAdded(ss, k, id, w, r) ==
    /\ r \in StreamMaps
    /\ DOMAIN r = DOMAIN ss \cup {k}
    /\ \A x \in DOMAIN ss :
           /\ SameMedia(r[x], ss[x])
           /\ r[x].publisher_exist_ = ss[x].publisher_exist_
           /\ DOMAIN ss[x].writer_map_ \subseteq DOMAIN r[x].writer_map_
    /\ k \notin DOMAIN ss => SameMedia(r[k], NewStream(FALSE)) /\ ~r[k].publisher_exist_
    /\ id \in DOMAIN r[k].writer_map_
    /\ \A x \in DOMAIN r : \A i \in DOMAIN r[x].writer_map_ :
           \/ /\ x \in DOMAIN ss /\ i \in DOMAIN ss[x].writer_map_
              /\ r[x].writer_map_[i] = ss[x].writer_map_[i]
           \/ x = k /\ i = id /\ r[x].writer_map_[i] = w

\* AddPlayer finds or makes the stream, and keeps the writer that has the id.
LEMMA AddPlayerDoes ==
    ASSUME NEW ss \in StreamMaps, NEW k \in StreamKeys, NEW id \in WriterIds, NEW w \in Writers
    PROVE  PlayerAdded(ss, k, id, w, AddPlayer(ss, k, id, w))
<1> DEFINE f == Insert(ss, k, NewStream(FALSE))
           m == Insert(f[k].writer_map_, id, w)
           r == AddPlayer(ss, k, id, w)
<1>1. /\ f \in StreamMaps /\ DOMAIN f = DOMAIN ss \cup {k}
      /\ \A x \in DOMAIN ss : f[x] = ss[x]
      /\ k \notin DOMAIN ss => f[k] = NewStream(FALSE)
  BY InsertStream
<1>2. f[k] \in StreamStates
  BY <1>1, StreamMapDef
<1>3. f[k].writer_map_ \in WriterMaps
  BY <1>2 DEF StreamStates
<1>4. /\ m \in WriterMaps /\ DOMAIN m = DOMAIN f[k].writer_map_ \cup {id}
      /\ \A x \in DOMAIN m : \/ x \in DOMAIN f[k].writer_map_ /\ m[x] = f[k].writer_map_[x]
                             \/ x = id /\ m[x] = w
  BY <1>3, InsertWriter
<1>5. r = [f EXCEPT ![k] = [f[k] EXCEPT !.writer_map_ = m]]
  BY DEF AddPlayer
<1>6. f = [x \in DOMAIN f |-> f[x]] /\ DOMAIN f \subseteq StreamKeys
      /\ \A x \in DOMAIN f : f[x] \in StreamStates
  BY <1>1, StreamMapDef
<1> HIDE DEF f, m, r
<1>7. /\ r = [x \in DOMAIN r |-> r[x]] /\ DOMAIN r = DOMAIN f
      /\ \A x \in DOMAIN f : x # k => r[x] = f[x]
      /\ r[k] = [f[k] EXCEPT !.writer_map_ = m]
  BY <1>1, <1>5, <1>6
<1>8. /\ r[k] \in StreamStates /\ r[k].writer_map_ = m /\ SameMedia(r[k], f[k])
      /\ r[k].publisher_exist_ = f[k].publisher_exist_
  BY <1>2, <1>4, <1>7 DEF StreamStates, SameMedia
<1>9. r \in StreamMaps
  BY <1>6, <1>7, <1>8, StreamMapDef
<1>10. \A x \in DOMAIN ss :
           /\ SameMedia(r[x], ss[x])
           /\ r[x].publisher_exist_ = ss[x].publisher_exist_
           /\ DOMAIN ss[x].writer_map_ \subseteq DOMAIN r[x].writer_map_
  BY <1>1, <1>4, <1>7, <1>8 DEF SameMedia
<1>11. k \notin DOMAIN ss => SameMedia(r[k], NewStream(FALSE)) /\ ~r[k].publisher_exist_
  BY <1>1, <1>8, NewStreamType DEF SameMedia
<1>12. ASSUME NEW x \in DOMAIN r, NEW i \in DOMAIN r[x].writer_map_
       PROVE  \/ /\ x \in DOMAIN ss /\ i \in DOMAIN ss[x].writer_map_
                 /\ r[x].writer_map_[i] = ss[x].writer_map_[i]
              \/ x = k /\ i = id /\ r[x].writer_map_[i] = w
  <2>1. CASE x # k
    BY <2>1, <1>1, <1>7
  <2>2. CASE x = k /\ k \in DOMAIN ss
    BY <2>2, <1>1, <1>4, <1>8
  <2>3. CASE x = k /\ k \notin DOMAIN ss
    <3>1. DOMAIN f[k].writer_map_ = {}
      BY <2>3, <1>1, <1>3, NewStreamType, EmptyMap
    <3> QED
      BY <2>3, <3>1, <1>4, <1>8
  <2> QED
    BY <2>1, <2>2, <2>3
<1> QED
  BY <1>1, <1>4, <1>7, <1>8, <1>9, <1>10, <1>11, <1>12 DEF r, PlayerAdded

\* AddPublisher makes the stream when there is none, and marks it published.
LEMMA AddPublisherDoes ==
    ASSUME NEW ss \in StreamMaps, NEW k \in StreamKeys
    PROVE  LET r == AddPublisher(ss, k)
           IN  /\ r \in StreamMaps
               /\ DOMAIN r = DOMAIN ss \cup {k}
               /\ \A x \in DOMAIN ss :
                      SameMedia(r[x], ss[x]) /\ r[x].writer_map_ = ss[x].writer_map_
               /\ \A x \in DOMAIN ss : x # k => r[x] = ss[x]
               /\ k \notin DOMAIN ss =>
                      SameMedia(r[k], NewStream(TRUE)) /\ r[k].writer_map_ = <<>>
               /\ r[k].publisher_exist_
<1> DEFINE f == Insert(ss, k, NewStream(TRUE))
           r == AddPublisher(ss, k)
<1>1. /\ f \in StreamMaps /\ DOMAIN f = DOMAIN ss \cup {k}
      /\ \A x \in DOMAIN ss : f[x] = ss[x]
      /\ k \notin DOMAIN ss => f[k] = NewStream(TRUE)
  BY InsertStream
<1>2. f = [x \in DOMAIN f |-> f[x]] /\ DOMAIN f \subseteq StreamKeys
      /\ \A x \in DOMAIN f : f[x] \in StreamStates
  BY <1>1, StreamMapDef
<1>3. r = [f EXCEPT ![k] = [f[k] EXCEPT !.publisher_exist_ = TRUE]]
  BY DEF AddPublisher
<1> HIDE DEF f, r
<1>4. /\ r = [x \in DOMAIN r |-> r[x]] /\ DOMAIN r = DOMAIN f
      /\ \A x \in DOMAIN f : x # k => r[x] = f[x]
      /\ r[k] = [f[k] EXCEPT !.publisher_exist_ = TRUE]
  BY <1>1, <1>2, <1>3
<1>5. f[k] \in StreamStates
  BY <1>1, <1>2
<1>6. /\ r[k] \in StreamStates /\ SameMedia(r[k], f[k]) /\ r[k].publisher_exist_
      /\ r[k].writer_map_ = f[k].writer_map_
  BY <1>4, <1>5 DEF StreamStates, SameMedia
<1>7. r \in StreamMaps
  BY <1>2, <1>4, <1>6, StreamMapDef
<1>8. \A x \in DOMAIN ss : SameMedia(r[x], ss[x]) /\ r[x].writer_map_ = ss[x].writer_map_
  BY <1>1, <1>4, <1>6 DEF SameMedia
<1>9. k \notin DOMAIN ss => SameMedia(r[k], NewStream(TRUE)) /\ r[k].writer_map_ = <<>>
  BY <1>1, <1>6, NewStreamType DEF SameMedia
<1> QED
  BY <1>1, <1>4, <1>6, <1>7, <1>8, <1>9 DEF r

\* Every stream is played or published.
InUse(ss) ==
    \A k \in DOMAIN ss : DOMAIN ss[k].writer_map_ # {} \/ ss[k].publisher_exist_

\* RemovePlayer takes the named writers out, and the streams nobody uses.
LEMMA RemovePlayersDoes ==
    ASSUME NEW ss \in StreamMaps, NEW ps
    PROVE  LET r == RemovePlayers(ss, ps)
           IN  /\ r \in StreamMaps
               /\ DOMAIN r \subseteq DOMAIN ss
               /\ \A x \in DOMAIN r :
                      /\ SameMedia(r[x], ss[x])
                      /\ r[x].publisher_exist_ = ss[x].publisher_exist_
                      /\ DOMAIN r[x].writer_map_ \subseteq DOMAIN ss[x].writer_map_
                      /\ \A i \in DOMAIN r[x].writer_map_ :
                             /\ r[x].writer_map_[i] = ss[x].writer_map_[i]
                             /\ <<x, i>> \notin ps
               /\ \A x \in DOMAIN ss : ss[x].publisher_exist_ => x \in DOMAIN r
               /\ InUse(ss) => InUse(r)
<1> DEFINE gone(k) == {p[2] : p \in {q \in ps : q[1] = k}}
           left == [k \in DOMAIN ss |->
                       [ss[k] EXCEPT !.writer_map_ = Erase(@, gone(k))]]
           keys == {p[1] : p \in ps}
           r == RemovePlayers(ss, ps)
<1>1. /\ ss = [x \in DOMAIN ss |-> ss[x]] /\ DOMAIN ss \subseteq StreamKeys
      /\ \A x \in DOMAIN ss : ss[x] \in StreamStates
  BY StreamMapDef
<1>2. \A x \in DOMAIN ss : \A i : <<x, i>> \in ps => i \in gone(x)
  OBVIOUS
<1>3. \A x \in DOMAIN ss : x \notin keys => gone(x) = {}
  OBVIOUS
<1>4. r = Erase(left, Deserted(left, keys))
  BY DEF RemovePlayers
<1>5. ASSUME NEW x \in DOMAIN ss
      PROVE  /\ left[x] \in StreamStates
             /\ SameMedia(left[x], ss[x])
             /\ left[x].publisher_exist_ = ss[x].publisher_exist_
             /\ left[x].writer_map_ \in WriterMaps
             /\ DOMAIN left[x].writer_map_ = DOMAIN ss[x].writer_map_ \ gone(x)
             /\ \A i \in DOMAIN left[x].writer_map_ :
                    left[x].writer_map_[i] = ss[x].writer_map_[i]
  <2> HIDE DEF gone
  <2>1. ss[x].writer_map_ \in WriterMaps
    BY <1>1 DEF StreamStates
  <2> DEFINE e == Erase(ss[x].writer_map_, gone(x))
  <2>2. /\ e \in WriterMaps
        /\ DOMAIN e = DOMAIN ss[x].writer_map_ \ gone(x)
        /\ \A i \in DOMAIN e : e[i] = ss[x].writer_map_[i]
    BY <2>1, EraseWriters
  <2>3. left[x] = [ss[x] EXCEPT !.writer_map_ = e]
    OBVIOUS
  <2> HIDE DEF e, left
  <2>4. /\ left[x] \in StreamStates /\ left[x].writer_map_ = e
        /\ SameMedia(left[x], ss[x])
        /\ left[x].publisher_exist_ = ss[x].publisher_exist_
    BY <1>1, <2>2, <2>3 DEF StreamStates, SameMedia
  <2> QED
    BY <2>2, <2>4
<1>6. DOMAIN left = DOMAIN ss
  OBVIOUS
<1> HIDE DEF left, keys, gone
<1>7. /\ DOMAIN r = DOMAIN ss \ Deserted(left, keys)
      /\ \A x \in DOMAIN r : r[x] = left[x]
      /\ r = [x \in DOMAIN r |-> r[x]]
  BY <1>4, <1>6 DEF Erase
<1>8. r \in StreamMaps
  BY <1>1, <1>5, <1>7, StreamMapDef
<1>9. ASSUME InUse(ss), NEW x \in DOMAIN r
      PROVE  DOMAIN r[x].writer_map_ # {} \/ r[x].publisher_exist_
  <2>1. CASE x \in keys
    BY <2>1, <1>5, <1>6, <1>7, EmptyMap DEF Deserted
  <2>2. CASE x \notin keys
    BY <2>2, <1>3, <1>5, <1>7, <1>9 DEF InUse
  <2> QED
    BY <2>1, <2>2
<1>10. \A x \in DOMAIN ss : ss[x].publisher_exist_ => x \in DOMAIN r
  BY <1>5, <1>7 DEF Deserted
<1> QED
  BY <1>2, <1>5, <1>7, <1>8, <1>9, <1>10 DEF InUse, r

\* RemovePublisher marks the streams unpublished and erases those nobody plays.
LEMMA RemovePublishersDoes ==
    ASSUME NEW ss \in StreamMaps, NEW ks
    PROVE  LET r == RemovePublishers(ss, ks)
           IN  /\ r \in StreamMaps
               /\ DOMAIN r \subseteq DOMAIN ss
               /\ \A x \in DOMAIN r :
                      /\ SameMedia(r[x], ss[x])
                      /\ r[x].writer_map_ = ss[x].writer_map_
                      /\ r[x].publisher_exist_ = (ss[x].publisher_exist_ /\ x \notin ks)
               /\ \A x \in DOMAIN ss \ ks : x \in DOMAIN r
               /\ InUse(ss) => InUse(r)
<1> DEFINE left == [k \in DOMAIN ss |->
                       IF k \in ks THEN [ss[k] EXCEPT !.publisher_exist_ = FALSE] ELSE ss[k]]
           r == RemovePublishers(ss, ks)
<1>1. /\ ss = [x \in DOMAIN ss |-> ss[x]] /\ DOMAIN ss \subseteq StreamKeys
      /\ \A x \in DOMAIN ss : ss[x] \in StreamStates
  BY StreamMapDef
<1>2. ASSUME NEW x \in DOMAIN ss
      PROVE  /\ left[x] \in StreamStates
             /\ SameMedia(left[x], ss[x])
             /\ left[x].writer_map_ = ss[x].writer_map_
             /\ left[x].publisher_exist_ = (ss[x].publisher_exist_ /\ x \notin ks)
             /\ left[x].writer_map_ \in WriterMaps
  <2>1. CASE x \in ks
    <3>1. left[x] = [ss[x] EXCEPT !.publisher_exist_ = FALSE]
      BY <2>1
    <3> HIDE DEF left
    <3> QED
      BY <1>1, <2>1, <3>1 DEF StreamStates, SameMedia
  <2>2. CASE x \notin ks
    <3>1. left[x] = ss[x]
      BY <2>2
    <3> HIDE DEF left
    <3> QED
      BY <1>1, <2>2, <3>1 DEF StreamStates, SameMedia
  <2> QED
    BY <2>1, <2>2
<1>3. r = Erase(left, Deserted(left, ks))
  BY DEF RemovePublishers
<1>4. DOMAIN left = DOMAIN ss
  OBVIOUS
<1> HIDE DEF left
<1>5. /\ DOMAIN r = DOMAIN ss \ Deserted(left, ks)
      /\ \A x \in DOMAIN r : r[x] = left[x]
      /\ r = [x \in DOMAIN r |-> r[x]]
  BY <1>3, <1>4 DEF Erase
<1>6. r \in StreamMaps
  BY <1>1, <1>2, <1>5, StreamMapDef
<1>7. ASSUME InUse(ss), NEW x \in DOMAIN r
      PROVE  DOMAIN r[x].writer_map_ # {} \/ r[x].publisher_exist_
  <2>1. CASE x \in ks
    BY <2>1, <1>2, <1>4, <1>5, EmptyMap DEF Deserted
  <2>2. CASE x \notin ks
    BY <2>2, <1>2, <1>5, <1>7 DEF InUse
  <2> QED
    BY <2>1, <2>2
<1>8. \A x \in DOMAIN ss \ ks : x \in DOMAIN r
  BY <1>5 DEF Deserted
<1> QED
  BY <1>2, <1>5, <1>6, <1>7, <1>8 DEF InUse, r

-----------------------------------------------------------------------------
(* A packet of a publisher *)

\* What a packet does to the cache of its stream.
LEMMA InsertPacketDoes ==
    ASSUME NEW c \in StreamStates, NEW p \in Packets
    PROVE  LET s == [InsertPacket(c, p) EXCEPT !.history = Append(@, p)]
           IN  /\ s \in StreamStates
               /\ s.writer_map_ = c.writer_map_
               /\ s.publisher_exist_ = c.publisher_exist_
               /\ s.history = Append(c.history, p)
               /\ s.metadata_hdr_ = IF p.type = "metadata" THEN p ELSE c.metadata_hdr_
               /\ s.seq_hdr_ = IF p.type = "seq_hdr" THEN p ELSE c.seq_hdr_
               /\ p.type = "key" => s.packet_list = <<p>>
               /\ p.type = "inter" => s.packet_list = Append(c.packet_list, p)
               /\ p.type \in Headers => s.packet_list = c.packet_list
<1>1. p.type \in Types
  BY DEF Packets
<1>2. Append(c.history, p) \in Seq(Packets)
  BY DEF StreamStates
<1>3. CASE p.type = "metadata"
  <2>1. InsertPacket(c, p) = [c EXCEPT !.metadata_hdr_ = p]
    BY <1>3 DEF InsertPacket
  <2> QED
    BY <1>2, <1>3, <2>1 DEF StreamStates, Headers
<1>4. CASE p.type = "seq_hdr"
  <2>1. InsertPacket(c, p) = [c EXCEPT !.seq_hdr_ = p]
    BY <1>4 DEF InsertPacket
  <2> QED
    BY <1>2, <1>4, <2>1 DEF StreamStates, Headers
<1>5. CASE p.type = "key"
  <2>1. InsertPacket(c, p) = [c EXCEPT !.packet_list = <<p>>]
    BY <1>5 DEF InsertPacket
  <2>2. <<p>> \in Seq(Packets)
    OBVIOUS
  <2> QED
    BY <1>2, <1>5, <2>1, <2>2 DEF StreamStates, Headers
<1>6. CASE p.type = "inter"
  <2>1. InsertPacket(c, p) = [c EXCEPT !.packet_list = Append(@, p)]
    BY <1>6 DEF InsertPacket
  <2>2. Append(c.packet_list, p) \in Seq(Packets)
    BY DEF StreamStates
  <2> QED
    BY <1>2, <1>6, <2>1, <2>2 DEF StreamStates, Headers
<1> QED
  BY <1>1, <1>3, <1>4, <1>5, <1>6 DEF Types

\* What is sent of one packet is that packet or nothing.
LEMMA SentType ==
    ASSUME NEW w, NEW p \in Packets \cup {NoPacket}
    PROVE  /\ Sent(w, p) \in Seq(Packets)
           /\ Sent(w, p) = <<>> \/ (p # NoPacket /\ Sent(w, p) = <<p>>)
<1>1. CASE Sent(w, p) = <<>>
  BY <1>1
<1>2. CASE p # NoPacket /\ Sent(w, p) = <<p>>
  BY <1>2
<1> QED
  BY <1>1, <1>2 DEF Sent

\* What WriterGop gives is a sequence of packets: no header that does not exist.
LEMMA GopType ==
    ASSUME NEW w, NEW c \in StreamStates
    PROVE  WriterGop(w, c) \in Seq(Packets)
<1>1. /\ Sent(w, c.metadata_hdr_) \in Seq(Packets)
      /\ Sent(w, c.seq_hdr_) \in Seq(Packets)
      /\ c.packet_list \in Seq(Packets)
  BY SentType DEF StreamStates
<1> QED
  BY <1>1 DEF WriterGop

\* The stream as WriterMediaPacket finds or makes it.
Found(k) == IF k \in DOMAIN streams THEN streams[k] ELSE NewStream(TRUE)

Given(w, p, s) == IF joined[w] # 0 THEN Sent(w, p) ELSE WriterGop(w, s)

\* Stream k has become s with the packet p, and each of its players has been
\* given p, or the whole cache when it had been given nothing.
MediaStep(k, type, p, s) ==
    /\ p \in Packets /\ p.type = type /\ p.n = Len(Found(k).history) + 1
    /\ s \in StreamStates
    /\ s.writer_map_ = Found(k).writer_map_
    /\ s.history = Append(Found(k).history, p)
    /\ s.metadata_hdr_ = IF type = "metadata" THEN p ELSE Found(k).metadata_hdr_
    /\ s.seq_hdr_ = IF type = "seq_hdr" THEN p ELSE Found(k).seq_hdr_
    /\ type = "key" => s.packet_list = <<p>>
    /\ type = "inter" => s.packet_list = Append(Found(k).packet_list, p)
    /\ type \in Headers => s.packet_list = Found(k).packet_list
    /\ streams' \in StreamMaps
    /\ DOMAIN streams' \subseteq DOMAIN streams \cup {k}
    /\ k \in DOMAIN streams' /\ SameMedia(streams'[k], s) /\ streams'[k].publisher_exist_
    /\ \A x \in DOMAIN streams : streams[x].publisher_exist_ => x \in DOMAIN streams'
    /\ \A x \in DOMAIN streams' \ {k} :
           /\ SameMedia(streams'[x], streams[x])
           /\ streams'[x].publisher_exist_ = streams[x].publisher_exist_
    /\ \A x \in DOMAIN streams' : \A i \in DOMAIN streams'[x].writer_map_ :
           /\ x \in DOMAIN streams /\ i \in DOMAIN streams[x].writer_map_
           /\ streams'[x].writer_map_[i] = streams[x].writer_map_[i]
    /\ InUse(streams) => InUse(streams')
    /\ \A w \in Range(s.writer_map_) : ~Dangles(w)
    /\ joined' = [w \in Writers |->
                     IF w \in Range(s.writer_map_) /\ joined[w] = 0 THEN p.n ELSE joined[w]]
    /\ out' = [w \in Writers |->
                  IF w \in Range(s.writer_map_) /\ ~Closed(w)
                  THEN out[w] \o Given(w, p, s) ELSE out[w]]
    /\ session' = session

\* WriterMediaPacket caches the packet and gives it to the players of its stream.
LEMMA WriterMediaPacketDoes ==
    ASSUME TypeInv, NEW from, NEW k \in StreamKeys, NEW type \in Types,
           WriterMediaPacket(from, k, type)
    PROVE  \E p, s : MediaStep(k, type, p, s)
<1> DEFINE ss == AddPublisher(streams, k)
           p == [n |-> Len(ss[k].history) + 1, type |-> type]
           s == [InsertPacket(ss[k], p) EXCEPT !.history = Append(@, p)]
           failed == {w \in Range(s.writer_map_) : Fails(w, Given(w, p, s))}
           ps == {Entry(w) : w \in failed}
           tt == [ss EXCEPT ![k] = s]
<1>1. streams \in StreamMaps
  BY DEF TypeInv
<1>2. /\ ss \in StreamMaps /\ DOMAIN ss = DOMAIN streams \cup {k}
      /\ SameMedia(ss[k], Found(k)) /\ ss[k].writer_map_ = Found(k).writer_map_
      /\ ss[k].publisher_exist_
      /\ \A x \in DOMAIN streams \ {k} : ss[x] = streams[x]
  BY <1>1, AddPublisherDoes, NewStreamType DEF Found
<1>3. /\ p.n <= MaxPackets
      /\ streams' = RemovePlayers(tt, ps)
      /\ \A w \in Range(s.writer_map_) : ~Dangles(w)
      /\ joined' = [w \in Writers |->
                     IF w \in Range(s.writer_map_) /\ joined[w] = 0 THEN p.n ELSE joined[w]]
      /\ out' = [w \in Writers |->
                    IF w \in Range(s.writer_map_) /\ ~Closed(w)
                    THEN out[w] \o Given(w, p, s) ELSE out[w]]
      /\ session' = session
  BY DEF WriterMediaPacket, Given
<1> HIDE DEF ss
<1>4. ss = [x \in DOMAIN ss |-> ss[x]] /\ DOMAIN ss \subseteq StreamKeys
      /\ \A x \in DOMAIN ss : ss[x] \in StreamStates
  BY <1>2, StreamMapDef
<1>5. ss[k] \in StreamStates /\ ss[k].history \in Seq(Packets)
  BY <1>2, <1>4 DEF StreamStates
<1>6. p \in Packets /\ p.type = type /\ p.n = Len(Found(k).history) + 1
  BY <1>2, <1>3, <1>5, StreamsAssumption DEF Packets, SameMedia
<1> HIDE DEF p
<1>7. /\ s \in StreamStates
      /\ s.writer_map_ = Found(k).writer_map_
      /\ s.publisher_exist_ = ss[k].publisher_exist_
      /\ s.history = Append(Found(k).history, p)
      /\ s.metadata_hdr_ = IF type = "metadata" THEN p ELSE Found(k).metadata_hdr_
      /\ s.seq_hdr_ = IF type = "seq_hdr" THEN p ELSE Found(k).seq_hdr_
      /\ type = "key" => s.packet_list = <<p>>
      /\ type = "inter" => s.packet_list = Append(Found(k).packet_list, p)
      /\ type \in Headers => s.packet_list = Found(k).packet_list
  <2>1. /\ s \in StreamStates
        /\ s.writer_map_ = ss[k].writer_map_
        /\ s.publisher_exist_ = ss[k].publisher_exist_
        /\ s.history = Append(ss[k].history, p)
        /\ s.metadata_hdr_ = IF p.type = "metadata" THEN p ELSE ss[k].metadata_hdr_
        /\ s.seq_hdr_ = IF p.type = "seq_hdr" THEN p ELSE ss[k].seq_hdr_
        /\ p.type = "key" => s.packet_list = <<p>>
        /\ p.type = "inter" => s.packet_list = Append(ss[k].packet_list, p)
        /\ p.type \in Headers => s.packet_list = ss[k].packet_list
    BY <1>5, <1>6, InsertPacketDoes
  <2> HIDE DEF s
  <2> QED
    BY <1>2, <1>6, <2>1 DEF SameMedia
<1> HIDE DEF s
<1>8. /\ DOMAIN tt = DOMAIN ss /\ tt[k] = s
      /\ \A x \in DOMAIN ss \ {k} : tt[x] = ss[x]
      /\ tt = [x \in DOMAIN tt |-> tt[x]]
  BY <1>2, <1>4
<1>9. tt \in StreamMaps
  BY <1>4, <1>7, <1>8, StreamMapDef
<1> HIDE DEF tt, ps, failed
<1>11. /\ streams' \in StreamMaps
       /\ DOMAIN streams' \subseteq DOMAIN tt
       /\ \A x \in DOMAIN streams' :
              /\ SameMedia(streams'[x], tt[x])
              /\ streams'[x].publisher_exist_ = tt[x].publisher_exist_
              /\ DOMAIN streams'[x].writer_map_ \subseteq DOMAIN tt[x].writer_map_
              /\ \A i \in DOMAIN streams'[x].writer_map_ :
                     streams'[x].writer_map_[i] = tt[x].writer_map_[i]
       /\ \A x \in DOMAIN tt : tt[x].publisher_exist_ => x \in DOMAIN streams'
       /\ InUse(tt) => InUse(streams')
  <2> DEFINE r == RemovePlayers(tt, ps)
  <2>1. /\ r \in StreamMaps
        /\ DOMAIN r \subseteq DOMAIN tt
        /\ \A x \in DOMAIN r :
               /\ SameMedia(r[x], tt[x])
               /\ r[x].publisher_exist_ = tt[x].publisher_exist_
               /\ DOMAIN r[x].writer_map_ \subseteq DOMAIN tt[x].writer_map_
               /\ \A i \in DOMAIN r[x].writer_map_ :
                      /\ r[x].writer_map_[i] = tt[x].writer_map_[i]
                      /\ <<x, i>> \notin ps
        /\ \A x \in DOMAIN tt : tt[x].publisher_exist_ => x \in DOMAIN r
        /\ InUse(tt) => InUse(r)
    BY <1>9, RemovePlayersDoes
  <2>2. streams' = r
    BY <1>3
  <2> HIDE DEF r
  <2> QED
    BY <2>1, <2>2
<1>12. ASSUME NEW x \in DOMAIN streams', NEW i \in DOMAIN streams'[x].writer_map_
       PROVE  /\ x \in DOMAIN streams /\ i \in DOMAIN streams[x].writer_map_
              /\ streams'[x].writer_map_[i] = streams[x].writer_map_[i]
  <2>1. CASE x # k
    BY <2>1, <1>2, <1>8, <1>11
  <2>2. CASE x = k
    <3>1. i \in DOMAIN Found(k).writer_map_
          /\ streams'[x].writer_map_[i] = Found(k).writer_map_[i]
      BY <2>2, <1>7, <1>8, <1>11
    <3>2. k \notin DOMAIN streams => DOMAIN Found(k).writer_map_ = {}
      <4>1. NewStream(TRUE).writer_map_ = <<>>
        BY NewStreamType
      <4>2. DOMAIN <<>> = {}
        OBVIOUS
      <4> QED
        BY <4>1, <4>2 DEF Found
    <3> QED
      BY <2>2, <3>1, <3>2 DEF Found
  <2> QED
    BY <2>1, <2>2
<1>13. InUse(streams) => InUse(tt)
  BY <1>2, <1>7, <1>8 DEF InUse
<1>14. \A x \in DOMAIN streams' \ {k} :
           /\ SameMedia(streams'[x], streams[x])
           /\ streams'[x].publisher_exist_ = streams[x].publisher_exist_
  BY <1>2, <1>8, <1>11
<1>15. DOMAIN streams' \subseteq DOMAIN streams \cup {k}
  BY <1>2, <1>8, <1>11
<1>16. k \in DOMAIN streams' /\ SameMedia(streams'[k], s) /\ streams'[k].publisher_exist_
  BY <1>2, <1>7, <1>8, <1>11
<1>17. \A x \in DOMAIN streams : streams[x].publisher_exist_ => x \in DOMAIN streams'
  BY <1>2, <1>8, <1>11, <1>16
<1>18. MediaStep(k, type, p, s)
  BY <1>3, <1>6, <1>7, <1>11, <1>12, <1>13, <1>14, <1>15, <1>16, <1>17 DEF MediaStep
<1> QED
  BY <1>18
-----------------------------------------------------------------------------
(* Who is in the maps *)

\* A writer that was not made yet.
Unborn(w) ==
    IF w \in RtmpWriters THEN w[2] > session[w[1]].made ELSE session[w].phase = "none"

\* The writer w in the stream k under id: its session has that id.  A session
\* that is not open left it behind, or has yet to take it out.
Holds(k, id, w) ==
    LET s == session[Owner(w)]
    IN  /\ id = s.id /\ s.phase # "none" /\ s.role # "none" /\ ~Unborn(w)
        /\ w \in RtmpWriters => s.phase = "open" \/ s.role = "publish" \/ s.key # k
        /\ w \notin RtmpWriters =>
               /\ s.key = k
               /\ s.phase \in {"open", "closed"} \/ (w \in WsPlay /\ s.phase = "replaced")

Registered ==
    \A k \in DOMAIN streams : \A id \in DOMAIN streams[k].writer_map_ :
        Holds(k, id, streams[k].writer_map_[id])

\* A writer is in one stream only.
InOneStream ==
    \A k, x \in DOMAIN streams :
        \A id \in DOMAIN streams[k].writer_map_, i \in DOMAIN streams[x].writer_map_ :
            streams[k].writer_map_[id] = streams[x].writer_map_[i] => k = x

\* The session s accounts for the mark of a publisher on the stream k.
Marks(s, k) == k \in fed[s] /\ (session[s].phase = "open" \/ ~Unpublishes(s, k))

Published ==
    \A k \in DOMAIN streams : streams[k].publisher_exist_ => \E s \in Sessions : Marks(s, k)

\* A stream whose headers were published has one.
Headed ==
    \A k \in headed :
        /\ k \in DOMAIN streams /\ streams[k].publisher_exist_
        /\ \E h \in DOMAIN streams[k].history : streams[k].history[h].type = "seq_hdr"

\* A session that was not made yet has done nothing, and an RtmpSession has the
\* id of its remote endpoint.
Made ==
    \A s \in Sessions :
        /\ session[s].phase = "none" => session[s] = NewSession
        /\ session[s].phase # "none" /\ s \in Rtmp => session[s].id \in Addrs

StreamsInv ==
    /\ TypeInv /\ Registered /\ InOneStream /\ InUse(streams)
    /\ Published /\ Headed /\ Made

\* The owner of a writer is a session, and an RtmpSession if it is an RtmpWriter.
LEMMA OwnerType ==
    ASSUME NEW w \in Writers
    PROVE  /\ Owner(w) \in Sessions /\ Owner(w) \notin WsPub
           /\ Owner(w) \in Rtmp <=> w \in RtmpWriters
           /\ w \notin RtmpWriters => Owner(w) = w
           /\ w \in RtmpWriters => Owner(w) = w[1] /\ w[2] \in Nat
BY StreamsAssumption DEF Writers, RtmpWriters, Owner, Sessions

\* The writers of the manager's streams are writers.
LEMMA EntryType ==
    ASSUME TypeInv, NEW k \in DOMAIN streams, NEW id \in DOMAIN streams[k].writer_map_
    PROVE  /\ k \in StreamKeys /\ id \in WriterIds
           /\ streams[k].writer_map_[id] \in Writers
<1>1. k \in StreamKeys /\ streams[k] \in StreamStates
  BY StreamMapDef DEF TypeInv
<1>2. streams[k].writer_map_ \in WriterMaps
  BY <1>1 DEF StreamStates
<1> QED
  BY <1>1, <1>2, WriterMapDef

\* What a session is, but for its phase.
SameBut(a, b) == a.role = b.role /\ a.key = b.key /\ a.made = b.made /\ a.id = b.id

\* What a step without media does to the session x, when the sessions D end.
Moved(x, D) ==
    \/ x \notin D /\ session'[x] = session[x]
    \/ /\ x \notin D /\ session[x].phase = "none" /\ session'[x].phase = "open"
       /\ x \in Rtmp => session'[x].id \in Addrs
    \/ /\ x \notin D /\ x \in Rtmp
       /\ session[x].phase = "open" /\ session'[x].phase = "open"
       /\ session'[x].id = session[x].id /\ session'[x].role # "none"
       /\ session[x].made <= session'[x].made
    \/ /\ SameBut(session'[x], session[x])
       /\ \/ x \notin D /\ x \notin Rtmp
             /\ session[x].phase = "open" /\ session'[x].phase = "closed"
          \/ x \in D /\ x \in Rtmp /\ session[x].phase \in {"open", "closed"}
             /\ session'[x].phase \in {"closed", "gone"}
          \/ x \in D /\ x \notin Rtmp /\ session[x].phase \in {"open", "closed"}
             /\ session'[x].phase \in {"gone", "replaced"}

\* The writer under i in the stream x was there before; if its session ends, it
\* is one that the session leaves behind.
Stays(x, i, D) ==
    /\ x \in DOMAIN streams /\ i \in DOMAIN streams[x].writer_map_
    /\ streams'[x].writer_map_[i] = streams[x].writer_map_[i]
    /\ SameMedia(streams'[x], streams[x])
    /\ LET o == Owner(streams[x].writer_map_[i])
       IN  o \in D =>
               /\ o \in Rtmp /\ session[o].phase = "open" =>
                      session[o].role # "play" \/ session[o].key # x
               /\ o \notin Rtmp => o \in WsPlay /\ session'[o].phase = "replaced"

\* The writer w has just been made for the stream x.
Comes(x, i, w) ==
    /\ w \in Writers /\ Unborn(w)
    /\ LET s == session'[Owner(w)]
       IN  /\ s.phase = "open" /\ s.role = "play" /\ s.key = x /\ s.id = i
           /\ w \in RtmpWriters => w[2] <= s.made

\* A step without media, with which the sessions D end.
Silent(D) ==
    /\ D \in SUBSET Sessions
    /\ session' \in [Sessions -> SessionStates]
    /\ \A x \in Sessions : Moved(x, D)
    /\ FreeWriters(D)
    /\ UNCHANGED <<fed, ub>>
    /\ streams' \in StreamMaps /\ InUse(streams')
    /\ \A x \in DOMAIN streams' :
           \/ x \in DOMAIN streams /\ SameMedia(streams'[x], streams[x])
           \/ SameMedia(streams'[x], NewStream(FALSE))
    /\ \A x \in DOMAIN streams' : \A i \in DOMAIN streams'[x].writer_map_ :
           Stays(x, i, D) \/ Comes(x, i, streams'[x].writer_map_[i])
    /\ \A x \in DOMAIN streams' : streams'[x].publisher_exist_ =>
           /\ x \in DOMAIN streams /\ streams[x].publisher_exist_
           /\ \A d \in D : session[d].phase = "open" => ~Unpublishes(d, x)
    /\ headed' \subseteq headed
    /\ \A x \in headed' \cap DOMAIN streams : streams[x].publisher_exist_ =>
           /\ x \in DOMAIN streams' /\ streams'[x].publisher_exist_
           /\ SameMedia(streams'[x], streams[x])

\* The writers of the sessions D are freed.
LEMMA FreeWritersType ==
    ASSUME TypeInv, NEW D, FreeWriters(D)
    PROVE  /\ joined' \in [Writers -> 0 .. MaxPackets]
           /\ out' \in [Writers -> Seq(Packets)]
<1>1. 0 \in 0 .. MaxPackets
  BY StreamsAssumption
<1>2. <<>> \in Seq(Packets)
  OBVIOUS
<1>3. joined' \in [Writers -> 0 .. MaxPackets]
  BY <1>1 DEF TypeInv, FreeWriters
<1>4. out' \in [Writers -> Seq(Packets)]
  BY <1>2 DEF TypeInv, FreeWriters
<1> QED
  BY <1>3, <1>4

\* Holds in the state after the step.
HoldsNext(k, id, w) ==
    LET s == session'[Owner(w)]
    IN  /\ id = s.id /\ s.phase # "none" /\ s.role # "none"
        /\ ~IF w \in RtmpWriters THEN w[2] > session'[w[1]].made
                                 ELSE session'[w].phase = "none"
        /\ w \in RtmpWriters => s.phase = "open" \/ s.role = "publish" \/ s.key # k
        /\ w \notin RtmpWriters =>
               /\ s.key = k
               /\ s.phase \in {"open", "closed"} \/ (w \in WsPlay /\ s.phase = "replaced")

\* A writer that is in a stream stays accounted for.
LEMMA StaysHolds ==
    ASSUME StreamsInv, NEW D, Silent(D), NEW x \in DOMAIN streams',
           NEW i \in DOMAIN streams'[x].writer_map_, Stays(x, i, D)
    PROVE  HoldsNext(x, i, streams'[x].writer_map_[i])
<1> DEFINE w == streams[x].writer_map_[i]
           o == Owner(w)
<1>1. /\ x \in DOMAIN streams /\ i \in DOMAIN streams[x].writer_map_
      /\ streams'[x].writer_map_[i] = w
      /\ o \in D =>
             /\ o \in Rtmp /\ session[o].phase = "open" =>
                    session[o].role # "play" \/ session[o].key # x
             /\ o \notin Rtmp => o \in WsPlay /\ session'[o].phase = "replaced"
  BY DEF Stays
<1>2. w \in Writers
  BY <1>1, EntryType DEF StreamsInv
<1>3. Holds(x, i, w)
  BY <1>1 DEF StreamsInv, Registered
<1> HIDE DEF w
<1>4. /\ o \in Sessions /\ (o \in Rtmp <=> w \in RtmpWriters)
      /\ w \notin RtmpWriters => o = w
      /\ w \in RtmpWriters => o = w[1] /\ w[2] \in Nat
  BY <1>2, OwnerType
<1>5. /\ i = session[o].id /\ session[o].phase # "none" /\ session[o].role # "none"
      /\ w \in RtmpWriters => ~(w[2] > session[o].made)
      /\ w \in RtmpWriters =>
             session[o].phase = "open" \/ session[o].role = "publish" \/ session[o].key # x
      /\ w \notin RtmpWriters =>
             /\ session[o].key = x
             /\ \/ session[o].phase \in {"open", "closed"}
                \/ (w \in WsPlay /\ session[o].phase = "replaced")
  BY <1>3, <1>4 DEF Holds, Unborn
<1>6. Moved(o, D) /\ session[o] \in SessionStates /\ session'[o] \in SessionStates
  BY <1>4 DEF Silent, StreamsInv, TypeInv
<1>7. /\ session[o].made \in Nat /\ session'[o].made \in Nat
      /\ session[o].role \in {"none", "play", "publish"}
  BY <1>6, StreamsAssumption DEF SessionStates
<1> HIDE DEF o
<1>8. /\ i = session'[o].id /\ session'[o].phase # "none" /\ session'[o].role # "none"
      /\ w \in RtmpWriters => ~(w[2] > session'[o].made)
      /\ w \in RtmpWriters =>
             session'[o].phase = "open" \/ session'[o].role = "publish" \/ session'[o].key # x
      /\ w \notin RtmpWriters =>
             /\ session'[o].key = x
             /\ \/ session'[o].phase \in {"open", "closed"}
                \/ (w \in WsPlay /\ session'[o].phase = "replaced")
  <2>1. CASE o \notin D /\ session'[o] = session[o]
    BY <1>5, <2>1
  <2>2. CASE /\ o \notin D /\ o \in Rtmp
             /\ session[o].phase = "open" /\ session'[o].phase = "open"
             /\ session'[o].id = session[o].id /\ session'[o].role # "none"
             /\ session[o].made <= session'[o].made
    BY <1>4, <1>5, <1>7, <2>2
  <2>3. CASE SameBut(session'[o], session[o]) /\ o \notin D /\ o \notin Rtmp
             /\ session[o].phase = "open" /\ session'[o].phase = "closed"
    BY <1>4, <1>5, <2>3 DEF SameBut
  <2>4. CASE SameBut(session'[o], session[o]) /\ o \in D /\ o \in Rtmp
             /\ session'[o].phase \in {"closed", "gone"}
    BY <1>1, <1>4, <1>5, <1>7, <2>4 DEF SameBut, o, w
  <2>5. CASE SameBut(session'[o], session[o]) /\ o \in D /\ o \notin Rtmp
             /\ session'[o].phase \in {"gone", "replaced"}
    BY <1>1, <1>4, <1>5, <2>5 DEF SameBut, o, w
  <2> QED
    BY <1>5, <1>6, <2>1, <2>2, <2>3, <2>4, <2>5 DEF Moved
<1> QED
  BY <1>1, <1>4, <1>8 DEF HoldsNext, o, w

\* A writer that has just been made is accounted for.
LEMMA ComesHolds ==
    ASSUME StreamsInv, NEW D, Silent(D), NEW x, NEW i, NEW w, Comes(x, i, w)
    PROVE  HoldsNext(x, i, w)
<1>1. w \in Writers
  BY DEF Comes
<1>2. /\ Owner(w) \in Sessions
      /\ w \notin RtmpWriters => Owner(w) = w
      /\ w \in RtmpWriters => Owner(w) = w[1] /\ w[2] \in Nat
  BY <1>1, OwnerType
<1>3. session'[Owner(w)].made \in Nat
  <2>1. session'[Owner(w)] \in SessionStates
    BY <1>2 DEF Silent
  <2> QED
    BY <2>1, StreamsAssumption DEF SessionStates
<1> QED
  BY <1>2, <1>3 DEF Comes, HoldsNext

\* A step without media keeps the maps and the sessions together.
LEMMA SilentKeeps ==
    ASSUME StreamsInv, NEW D, Silent(D)
    PROVE  StreamsInv'
<1>1. TypeInv'
  BY FreeWritersType DEF StreamsInv, TypeInv, Silent
<1>2. \A x \in DOMAIN streams' : \A i \in DOMAIN streams'[x].writer_map_ :
          Stays(x, i, D) \/ Comes(x, i, streams'[x].writer_map_[i])
  BY DEF Silent
<1>3. Registered'
  <2>1. \A x \in DOMAIN streams' : \A i \in DOMAIN streams'[x].writer_map_ :
            HoldsNext(x, i, streams'[x].writer_map_[i])
    BY <1>2, StaysHolds, ComesHolds
  <2> QED
    BY <2>1 DEF HoldsNext, Registered, Holds, Unborn
<1>4. InOneStream'
  <2>1. ASSUME NEW k \in DOMAIN streams', NEW x \in DOMAIN streams',
               NEW id \in DOMAIN streams'[k].writer_map_,
               NEW i \in DOMAIN streams'[x].writer_map_,
               streams'[k].writer_map_[id] = streams'[x].writer_map_[i]
        PROVE  k = x
    <3> DEFINE w == streams'[k].writer_map_[id]
    <3>1. ASSUME NEW y \in DOMAIN streams', NEW n \in DOMAIN streams'[y].writer_map_,
                 Stays(y, n, D)
          PROVE  ~Unborn(streams'[y].writer_map_[n])
      BY <3>1 DEF Stays, StreamsInv, Registered, Holds
    <3>2. CASE Stays(k, id, D) /\ Stays(x, i, D)
      BY <2>1, <3>2 DEF Stays, StreamsInv, InOneStream
    <3>3. CASE Comes(k, id, w) /\ Comes(x, i, w)
      BY <3>3 DEF Comes
    <3>4. CASE Stays(k, id, D) /\ Comes(x, i, w)
      BY <3>1, <3>4 DEF Comes
    <3>5. CASE Comes(k, id, w) /\ Stays(x, i, D)
      BY <2>1, <3>1, <3>5 DEF Comes
    <3> QED
      BY <1>2, <2>1, <3>2, <3>3, <3>4, <3>5
  <2> QED
    BY <2>1 DEF InOneStream
<1>5. InUse(streams)'
  BY DEF Silent, InUse
<1>6. Published'
  <2>1. ASSUME NEW x \in DOMAIN streams', streams'[x].publisher_exist_
        PROVE  \E s \in Sessions :
                   /\ x \in fed'[s]
                   /\ \/ session'[s].phase = "open"
                      \/ ~(s \in Rtmp /\ session'[s].role = "publish" /\ session'[s].key = x)
    <3>1. /\ x \in DOMAIN streams /\ streams[x].publisher_exist_
          /\ \A d \in D : session[d].phase = "open" => ~Unpublishes(d, x)
      BY <2>1 DEF Silent
    <3>2. PICK s \in Sessions : Marks(s, x)
      BY <3>1 DEF StreamsInv, Published
    <3>3. x \in fed'[s]
      BY <3>2 DEF Marks, Silent
    <3>4. Moved(s, D)
      BY DEF Silent
    <3>5. ASSUME session'[s].phase # "open", s \in Rtmp PROVE ~Unpublishes(s, x)
      BY <3>1, <3>2, <3>4, <3>5 DEF Marks, Moved
    <3>6. s \in Rtmp /\ session'[s].phase # "open" =>
              session'[s].role = session[s].role /\ session'[s].key = session[s].key
      BY <3>4 DEF Moved, SameBut
    <3> QED
      BY <3>3, <3>5, <3>6 DEF Unpublishes
  <2> QED
    BY <2>1 DEF Published, Marks, Unpublishes
<1>7. Headed'
  <2>1. ASSUME NEW x \in headed'
        PROVE  /\ x \in DOMAIN streams' /\ streams'[x].publisher_exist_
               /\ \E h \in DOMAIN streams'[x].history : streams'[x].history[h].type = "seq_hdr"
    <3>1. /\ x \in DOMAIN streams /\ streams[x].publisher_exist_
          /\ \E h \in DOMAIN streams[x].history : streams[x].history[h].type = "seq_hdr"
      BY DEF Silent, StreamsInv, Headed
    <3> QED
      BY <3>1 DEF Silent, SameMedia
  <2> QED
    BY <2>1 DEF Headed
<1>8. Made'
  <2>1. ASSUME NEW s \in Sessions
        PROVE  /\ session'[s].phase = "none" => session'[s] = NewSession
               /\ session'[s].phase # "none" /\ s \in Rtmp => session'[s].id \in Addrs
    <3>1. Moved(s, D)
      BY DEF Silent
    <3>2. /\ session[s].phase = "none" => session[s] = NewSession
          /\ session[s].phase # "none" /\ s \in Rtmp => session[s].id \in Addrs
      BY DEF StreamsInv, Made
    <3> QED
      BY <3>1, <3>2 DEF Moved, SameBut
  <2> QED
    BY <2>1 DEF Made
<1> QED
  BY <1>1, <1>3, <1>4, <1>5, <1>6, <1>7, <1>8 DEF StreamsInv

\* A publisher's packet.
LEMMA MediaKeeps ==
    ASSUME StreamsInv, NEW from \in Sessions, session[from].phase = "open",
           NEW k \in StreamKeys, NEW type \in Types, WriterMediaPacket(from, k, type)
    PROVE  StreamsInv'
<1>1. PICK p, s : MediaStep(k, type, p, s)
  BY WriterMediaPacketDoes DEF StreamsInv
<1>2. /\ fed' = [fed EXCEPT ![from] = @ \cup {k}] /\ ub' = ub
      /\ headed' = IF type = "seq_hdr" THEN headed \cup {k} ELSE headed
  BY DEF WriterMediaPacket
<1>3. /\ fed' \in [Sessions -> SUBSET StreamKeys]
      /\ k \in fed'[from] /\ \A x \in Sessions : fed[x] \subseteq fed'[x]
  BY <1>2 DEF StreamsInv, TypeInv
<1>4. TypeInv'
  <2>1. joined' \in [Writers -> 0 .. MaxPackets]
    <3>1. p.n \in 0 .. MaxPackets
      BY <1>1, StreamsAssumption DEF MediaStep, Packets
    <3> QED
      BY <1>1, <3>1 DEF MediaStep, StreamsInv, TypeInv
  <2>2. \A w \in Writers : Given(w, p, s) \in Seq(Packets)
    BY <1>1, GopType, SentType DEF MediaStep, Given
  <2>3. \A w \in Writers : out[w] \o Given(w, p, s) \in Seq(Packets)
    BY <2>2 DEF StreamsInv, TypeInv
  <2>4. out' \in [Writers -> Seq(Packets)]
    BY <1>1, <2>3 DEF MediaStep, StreamsInv, TypeInv
  <2> QED
    BY <1>1, <1>2, <1>3, <2>1, <2>4 DEF MediaStep, StreamsInv, TypeInv
<1>5. Registered' /\ InOneStream'
  BY <1>1 DEF MediaStep, StreamsInv, Registered, InOneStream, Holds, Unborn
<1>6. InUse(streams)'
  BY <1>1 DEF MediaStep, StreamsInv
<1>7. Published'
  <2>1. \A x \in DOMAIN streams' : x # k =>
            x \in DOMAIN streams /\ streams'[x].publisher_exist_ = streams[x].publisher_exist_
    BY <1>1 DEF MediaStep
  <2>2. session' = session
    BY <1>1 DEF MediaStep
  <2> QED
    BY <1>3, <2>1, <2>2 DEF StreamsInv, Published, Marks, Unpublishes
<1>8. Headed'
  <2>1. ASSUME NEW x \in headed'
        PROVE  /\ x \in DOMAIN streams' /\ streams'[x].publisher_exist_
               /\ \E h \in DOMAIN streams'[x].history : streams'[x].history[h].type = "seq_hdr"
    <3>1. x \in headed => /\ x \in DOMAIN streams /\ streams[x].publisher_exist_
                          /\ \E h \in DOMAIN streams[x].history :
                                 streams[x].history[h].type = "seq_hdr"
      BY DEF StreamsInv, Headed
    <3>2. CASE x # k
      <4>1. x \in headed
        BY <1>2, <3>2
      <4> QED
        BY <1>1, <3>1, <3>2, <4>1 DEF MediaStep, SameMedia
    <3>3. CASE x = k
      <4>1. /\ k \in DOMAIN streams' /\ streams'[k].publisher_exist_
            /\ streams'[k].history = Append(Found(k).history, p) /\ p.type = type
        BY <1>1 DEF MediaStep, SameMedia
      <4>2. Found(k).history \in Seq(Packets)
        <5>1. k \in DOMAIN streams => streams[k] \in StreamStates
          BY StreamMapDef DEF StreamsInv, TypeInv
        <5> QED
          BY <5>1, NewStreamType DEF Found, StreamStates
      <4>3. p \in Packets
        BY <1>1 DEF MediaStep
      <4> DEFINE c == Found(k).history
                 n == Len(c)
      <4>4. /\ n + 1 \in DOMAIN Append(c, p) /\ Append(c, p)[n + 1] = p
            /\ \A h \in DOMAIN c : h \in DOMAIN Append(c, p) /\ Append(c, p)[h] = c[h]
        BY <4>2, <4>3
      <4>5. CASE type = "seq_hdr"
        BY <3>3, <4>1, <4>4, <4>5
      <4>6. CASE type # "seq_hdr"
        <5>1. k \in headed
          BY <1>2, <3>3, <4>6
        <5>2. \E h \in DOMAIN c : c[h].type = "seq_hdr"
          BY <3>1, <3>3, <5>1 DEF Found
        <5> QED
          BY <3>3, <4>1, <4>4, <5>2
      <4> QED
        BY <4>5, <4>6
    <3> QED
      BY <3>2, <3>3
  <2> QED
    BY <2>1 DEF Headed
<1>9. Made'
  BY <1>1 DEF MediaStep, StreamsInv, Made
<1> QED
  BY <1>4, <1>5, <1>6, <1>7, <1>8, <1>9 DEF StreamsInv

-----------------------------------------------------------------------------
(* Every step is a packet or a silent step *)

\* Nobody's writers are freed.
LEMMA NoneFreed ==
    ASSUME TypeInv, UNCHANGED <<joined, out>>
    PROVE  FreeWriters({})
BY DEF TypeInv, FreeWriters

\* Sessions change and the streams do not.
LEMMA SessionsOnly ==
    ASSUME StreamsInv, NEW D \in SUBSET WsPub, session' \in [Sessions -> SessionStates],
           \A x \in Sessions : Moved(x, D), FreeWriters(D),
           UNCHANGED <<streams, fed, headed, ub>>
    PROVE  Silent(D)
<1>1. D \in SUBSET Sessions /\ D \cap Rtmp = {}
  BY StreamsAssumption DEF Sessions
<1>2. streams' \in StreamMaps /\ InUse(streams')
  BY DEF StreamsInv, TypeInv
<1>3. \A x : SameMedia(streams'[x], streams[x])
  BY DEF SameMedia
<1>4. ASSUME NEW x \in DOMAIN streams, NEW i \in DOMAIN streams[x].writer_map_
      PROVE  Stays(x, i, D)
  <2>1. Owner(streams[x].writer_map_[i]) \notin D
    BY EntryType, OwnerType DEF StreamsInv
  <2> QED
    BY <1>3, <2>1 DEF Stays
<1>5. \A d \in D : \A x : ~Unpublishes(d, x)
  BY <1>1 DEF Unpublishes
<1> QED
  BY <1>1, <1>2, <1>3, <1>4, <1>5 DEF Silent

\* A writer is made and added, and the sessions D are replaced.
LEMMA WriterAdded ==
    ASSUME StreamsInv, NEW D \in SUBSET WsPlay, session' \in [Sessions -> SessionStates],
           \A x \in Sessions : Moved(x, D), \A d \in D : session'[d].phase = "replaced",
           FreeWriters(D), UNCHANGED <<fed, headed, ub>>,
           NEW k \in StreamKeys, NEW id \in WriterIds, NEW w, Comes(k, id, w),
           streams' = AddPlayer(streams, k, id, w)
    PROVE  Silent(D)
<1>1. D \in SUBSET Sessions /\ D \cap Rtmp = {}
  BY StreamsAssumption DEF Sessions
<1>2. streams \in StreamMaps /\ w \in Writers /\ InUse(streams)
  BY DEF StreamsInv, TypeInv, Comes
<1>3. PlayerAdded(streams, k, id, w, streams')
  BY <1>2, AddPlayerDoes
<1>4. /\ streams' \in StreamMaps
      /\ DOMAIN streams' = DOMAIN streams \cup {k}
      /\ \A x \in DOMAIN streams :
             /\ SameMedia(streams'[x], streams[x])
             /\ streams'[x].publisher_exist_ = streams[x].publisher_exist_
             /\ DOMAIN streams[x].writer_map_ \subseteq DOMAIN streams'[x].writer_map_
      /\ k \notin DOMAIN streams =>
             SameMedia(streams'[k], NewStream(FALSE)) /\ ~streams'[k].publisher_exist_
      /\ id \in DOMAIN streams'[k].writer_map_
      /\ \A x \in DOMAIN streams' : \A i \in DOMAIN streams'[x].writer_map_ :
             \/ /\ x \in DOMAIN streams /\ i \in DOMAIN streams[x].writer_map_
                /\ streams'[x].writer_map_[i] = streams[x].writer_map_[i]
             \/ x = k /\ i = id /\ streams'[x].writer_map_[i] = w
  BY <1>3 DEF PlayerAdded
<1>5. InUse(streams')
  <2>1. \A x \in DOMAIN streams' : x # k => x \in DOMAIN streams
    BY <1>4
  <2> QED
    BY <1>2, <1>4, <2>1 DEF InUse
<1>6. ASSUME NEW x \in DOMAIN streams', NEW i \in DOMAIN streams'[x].writer_map_
      PROVE  Stays(x, i, D) \/ Comes(x, i, streams'[x].writer_map_[i])
  <2>1. CASE /\ x \in DOMAIN streams /\ i \in DOMAIN streams[x].writer_map_
             /\ streams'[x].writer_map_[i] = streams[x].writer_map_[i]
    <3>1. Stays(x, i, D)
      BY <1>1, <1>4, <2>1 DEF Stays
    <3> QED
      BY <3>1
  <2>2. CASE x = k /\ i = id /\ streams'[x].writer_map_[i] = w
    BY <2>2
  <2> QED
    BY <1>4, <2>1, <2>2
<1>7. \A d \in D : \A x : ~Unpublishes(d, x)
  BY <1>1 DEF Unpublishes
<1>8. /\ \A x \in DOMAIN streams' :
             \/ x \in DOMAIN streams /\ SameMedia(streams'[x], streams[x])
             \/ SameMedia(streams'[x], NewStream(FALSE))
      /\ \A x \in DOMAIN streams' : streams'[x].publisher_exist_ =>
             x \in DOMAIN streams /\ streams[x].publisher_exist_
  BY <1>4
<1> QED
  BY <1>1, <1>4, <1>5, <1>6, <1>7, <1>8 DEF Silent

\* The sessions D end, all in the same phase.
LEMMA EndMoves ==
    ASSUME StreamsInv, NEW D \in SUBSET Sessions,
           \A d \in D : session[d].phase \in {"open", "closed"},
           NEW phase \in {"closed", "gone"}, phase = "closed" => D \subseteq Rtmp,
           End(D, phase)
    PROVE  /\ session' \in [Sessions -> SessionStates]
           /\ \A x \in Sessions : Moved(x, D)
           /\ \A d \in D : session'[d].phase = phase
           /\ FreeWriters(D) /\ UNCHANGED <<fed, ub>>
<1>1. \A s \in Sessions : session[s] \in SessionStates
  BY DEF StreamsInv, TypeInv
<1> DEFINE new(s) == [session[s] EXCEPT !.phase = phase]
<1>2. /\ session' = [s \in Sessions |-> IF s \in D THEN new(s) ELSE session[s]]
      /\ FreeWriters(D) /\ UNCHANGED <<fed, ub>>
  BY DEF End
<1>3. \A s \in Sessions : /\ new(s) \in SessionStates /\ new(s).phase = phase
                          /\ SameBut(new(s), session[s])
  BY <1>1 DEF SessionStates, SameBut
<1> HIDE DEF new
<1>4. /\ \A x \in D : session'[x] = new(x)
      /\ \A x \in Sessions \ D : session'[x] = session[x]
      /\ session' \in [Sessions -> SessionStates]
  BY <1>1, <1>2, <1>3
<1>5. ASSUME NEW x \in Sessions PROVE Moved(x, D)
  <2>1. CASE x \notin D
    BY <1>4, <2>1 DEF Moved
  <2>2. CASE x \in D
    BY <1>3, <1>4, <2>2 DEF Moved
  <2> QED
    BY <2>1, <2>2
<1> QED
  BY <1>2, <1>3, <1>4, <1>5

\* The sessions D, none of them RTMP, are destroyed and their players taken out.
LEMMA PlayersLeave ==
    ASSUME StreamsInv, NEW D \in SUBSET (Sessions \ Rtmp),
           \A d \in D : session[d].phase \in {"open", "closed"}, End(D, "gone"),
           NEW ps, \A d \in D \ WsPub : <<session[d].key, session[d].id>> \in ps,
           streams' = RemovePlayers(streams, ps), UNCHANGED headed
    PROVE  Silent(D)
<1>1. D \in SUBSET Sessions
  OBVIOUS
<1>2. /\ session' \in [Sessions -> SessionStates]
      /\ \A x \in Sessions : Moved(x, D)
      /\ FreeWriters(D) /\ UNCHANGED <<fed, ub>>
  BY <1>1, EndMoves
<1>3. streams \in StreamMaps /\ InUse(streams)
  BY DEF StreamsInv, TypeInv
<1> DEFINE r == RemovePlayers(streams, ps)
<1>4. /\ r \in StreamMaps
      /\ DOMAIN r \subseteq DOMAIN streams
      /\ \A x \in DOMAIN r :
             /\ SameMedia(r[x], streams[x])
             /\ r[x].publisher_exist_ = streams[x].publisher_exist_
             /\ DOMAIN r[x].writer_map_ \subseteq DOMAIN streams[x].writer_map_
             /\ \A i \in DOMAIN r[x].writer_map_ :
                    /\ r[x].writer_map_[i] = streams[x].writer_map_[i]
                    /\ <<x, i>> \notin ps
      /\ \A x \in DOMAIN streams : streams[x].publisher_exist_ => x \in DOMAIN r
      /\ InUse(r)
  BY <1>3, RemovePlayersDoes
<1>5. streams' = r
  OBVIOUS
<1> HIDE DEF r
<1>6. ASSUME NEW x \in DOMAIN streams', NEW i \in DOMAIN streams'[x].writer_map_
      PROVE  Stays(x, i, D)
  <2> DEFINE w == streams[x].writer_map_[i]
  <2>1. /\ x \in DOMAIN streams /\ i \in DOMAIN streams[x].writer_map_
        /\ streams'[x].writer_map_[i] = w /\ <<x, i>> \notin ps
        /\ SameMedia(streams'[x], streams[x])
    BY <1>4, <1>5
  <2>2. w \in Writers /\ Holds(x, i, w)
    BY <2>1, EntryType DEF StreamsInv, Registered
  <2> HIDE DEF w
  <2>3. ASSUME Owner(w) \in D PROVE FALSE
    <3>1. w \notin RtmpWriters /\ Owner(w) \notin WsPub
      BY <2>2, <2>3, OwnerType
    <3>2. session[Owner(w)].key = x /\ session[Owner(w)].id = i
      BY <2>2, <3>1 DEF Holds
    <3> QED
      BY <2>1, <2>3, <3>1, <3>2
  <2> QED
    BY <2>1, <2>3 DEF Stays, w
<1>7. \A d \in D : \A x : ~Unpublishes(d, x)
  BY DEF Unpublishes
<1> QED
  BY <1>1, <1>2, <1>4, <1>5, <1>6, <1>7 DEF Silent

\* RTMP sessions are closed: each takes out what it did last.
LEMMA RtmpLeave ==
    ASSUME StreamsInv, NEW D \in SUBSET Rtmp,
           \A d \in D : session[d].phase \in {"open", "closed"},
           NEW phase \in {"closed", "gone"}, End(D, phase), RtmpClosed(Open(D))
    PROVE  Silent(D)
<1>1. D \in SUBSET Sessions
  BY DEF Sessions
<1>2. /\ session' \in [Sessions -> SessionStates]
      /\ \A x \in Sessions : Moved(x, D)
      /\ FreeWriters(D) /\ UNCHANGED <<fed, ub>>
  BY <1>1, EndMoves
<1>3. streams \in StreamMaps /\ InUse(streams)
  BY DEF StreamsInv, TypeInv
<1> DEFINE ps == {<<session[s].key, session[s].id>> :
                     s \in {r \in Open(D) : session[r].role = "play"}}
           ks == Unpublished(Open(D))
           q == RemovePlayers(streams, ps)
           r == RemovePublishers(q, ks)
<1>4. streams' = r /\ headed' = headed \ ks
  BY DEF RtmpClosed
<1>5. \A d \in D : session[d].phase = "open" /\ session[d].role = "play" =>
          <<session[d].key, session[d].id>> \in ps
  BY DEF Open
<1>6. \A d \in D : session[d].phase = "open" /\ session[d].role = "publish" =>
          session[d].key \in ks
  BY DEF Open, Unpublished
<1> HIDE DEF ps, ks
<1>7. /\ q \in StreamMaps
      /\ DOMAIN q \subseteq DOMAIN streams
      /\ \A x \in DOMAIN q :
             /\ SameMedia(q[x], streams[x])
             /\ q[x].publisher_exist_ = streams[x].publisher_exist_
             /\ DOMAIN q[x].writer_map_ \subseteq DOMAIN streams[x].writer_map_
             /\ \A i \in DOMAIN q[x].writer_map_ :
                    /\ q[x].writer_map_[i] = streams[x].writer_map_[i]
                    /\ <<x, i>> \notin ps
      /\ \A x \in DOMAIN streams : streams[x].publisher_exist_ => x \in DOMAIN q
      /\ InUse(q)
  BY <1>3, RemovePlayersDoes
<1> HIDE DEF q
<1>8. /\ r \in StreamMaps
      /\ DOMAIN r \subseteq DOMAIN q
      /\ \A x \in DOMAIN r :
             /\ SameMedia(r[x], q[x])
             /\ r[x].writer_map_ = q[x].writer_map_
             /\ r[x].publisher_exist_ = (q[x].publisher_exist_ /\ x \notin ks)
      /\ \A x \in DOMAIN q \ ks : x \in DOMAIN r
      /\ InUse(r)
  BY <1>7, RemovePublishersDoes
<1> HIDE DEF r
<1>9. \A x \in DOMAIN r : x \in DOMAIN streams /\ SameMedia(r[x], streams[x])
  BY <1>7, <1>8 DEF SameMedia
<1>10. ASSUME NEW x \in DOMAIN streams', NEW i \in DOMAIN streams'[x].writer_map_
       PROVE  Stays(x, i, D)
  <2> DEFINE w == streams[x].writer_map_[i]
  <2>1. /\ x \in DOMAIN streams /\ i \in DOMAIN streams[x].writer_map_
        /\ streams'[x].writer_map_[i] = w /\ <<x, i>> \notin ps
        /\ SameMedia(streams'[x], streams[x])
    BY <1>4, <1>7, <1>8, <1>9
  <2>2. w \in Writers /\ session[Owner(w)].id = i
    BY <2>1, EntryType DEF StreamsInv, Registered, Holds
  <2> HIDE DEF w
  <2>3. ASSUME Owner(w) \in D, session[Owner(w)].phase = "open"
        PROVE  session[Owner(w)].role # "play" \/ session[Owner(w)].key # x
    BY <1>5, <2>1, <2>2, <2>3
  <2>4. Owner(w) \in D => Owner(w) \in Rtmp
    OBVIOUS
  <2> QED
    BY <2>1, <2>3, <2>4 DEF Stays, w
<1>11. ASSUME NEW x \in DOMAIN streams', streams'[x].publisher_exist_
       PROVE  /\ x \in DOMAIN streams /\ streams[x].publisher_exist_
              /\ \A d \in D : session[d].phase = "open" => ~Unpublishes(d, x)
  BY <1>4, <1>6, <1>7, <1>8, <1>11 DEF Unpublishes
<1>12. ASSUME NEW x \in headed' \cap DOMAIN streams, streams[x].publisher_exist_
       PROVE  /\ x \in DOMAIN streams' /\ streams'[x].publisher_exist_
              /\ SameMedia(streams'[x], streams[x])
  BY <1>4, <1>7, <1>8, <1>9, <1>12
<1> QED
  BY <1>1, <1>2, <1>4, <1>8, <1>9, <1>10, <1>11, <1>12 DEF Silent

\* One session changes alone.
LEMMA OneMoves ==
    ASSUME StreamsInv, NEW s \in Sessions, NEW new \in SessionStates,
           session' = [session EXCEPT ![s] = new]
    PROVE  /\ session' \in [Sessions -> SessionStates] /\ session'[s] = new
           /\ Moved(s, {}) => \A x \in Sessions : Moved(x, {})
<1>1. session \in [Sessions -> SessionStates]
  BY DEF StreamsInv, TypeInv
<1>2. /\ session' \in [Sessions -> SessionStates] /\ session'[s] = new
      /\ \A x \in Sessions \ {s} : session'[x] = session[x]
  BY <1>1
<1>3. \A x \in Sessions \ {s} : Moved(x, {})
  BY <1>2 DEF Moved
<1> QED
  BY <1>2, <1>3

\* An RTMP connection is accepted.
LEMMA RtmpAcceptStep ==
    ASSUME StreamsInv, NEW s \in Rtmp, NEW addr \in Addrs, RtmpAccept(s, addr)
    PROVE  \E D : Silent(D)
<1>1. s \in Sessions /\ session[s] \in SessionStates /\ {} \in SUBSET WsPub
  BY DEF StreamsInv, TypeInv, Sessions
<1> DEFINE new == [session[s] EXCEPT !.phase = "open", !.id = addr]
<1>2. /\ UNCHANGED <<joined, out>> /\ UNCHANGED <<streams, fed, headed, ub>>
      /\ session' = [session EXCEPT ![s] = new] /\ session[s].phase = "none"
  BY DEF RtmpAccept
<1>3. FreeWriters({})
  BY <1>2, NoneFreed DEF StreamsInv
<1>4. new \in SessionStates /\ new.phase = "open" /\ new.id = addr
  BY <1>1 DEF SessionStates, WriterIds
<1> HIDE DEF new
<1>5. session' \in [Sessions -> SessionStates] /\ \A x \in Sessions : Moved(x, {})
  BY <1>1, <1>2, <1>4, OneMoves DEF Moved
<1> QED
  BY <1>1, <1>2, <1>3, <1>5, SessionsOnly

\* An RTMP session is told to publish.
LEMMA RtmpPublishStep ==
    ASSUME StreamsInv, NEW s \in Rtmp, NEW k \in Keys, RtmpPublish(s, k)
    PROVE  \E D : Silent(D)
<1>1. s \in Sessions /\ session[s] \in SessionStates /\ {} \in SUBSET WsPub
  BY DEF StreamsInv, TypeInv, Sessions
<1> DEFINE new == [session[s] EXCEPT !.role = "publish", !.key = k]
<1>2. /\ UNCHANGED <<joined, out>> /\ UNCHANGED <<streams, fed, headed, ub>>
      /\ session' = [session EXCEPT ![s] = new] /\ session[s].phase = "open"
  BY DEF RtmpPublish, Open
<1>3. FreeWriters({})
  BY <1>2, NoneFreed DEF StreamsInv
<1>4. /\ new \in SessionStates /\ new.phase = session[s].phase
      /\ new.id = session[s].id /\ new.made = session[s].made /\ new.role = "publish"
  BY <1>1 DEF SessionStates, StreamKeys
<1>5. session[s].made <= session[s].made
  BY <1>1, StreamsAssumption DEF SessionStates
<1> HIDE DEF new
<1>6. session' \in [Sessions -> SessionStates] /\ \A x \in Sessions : Moved(x, {})
  BY <1>1, <1>2, <1>4, <1>5, OneMoves DEF Moved
<1> QED
  BY <1>1, <1>2, <1>3, <1>6, SessionsOnly

\* The connections that close without a word to the manager.
LEMMA HangUpSteps ==
    ASSUME StreamsInv, NEW s \in Flv \cup WsPlay \cup WsPub, HttpFlvClosed(s) \/ WsOnClose(s)
    PROVE  \E D : Silent(D)
<1>1. s \in Sessions /\ s \notin Rtmp /\ session[s] \in SessionStates /\ {} \in SUBSET WsPub
  BY StreamsAssumption DEF StreamsInv, TypeInv, Sessions
<1>2. /\ UNCHANGED <<joined, out>> /\ UNCHANGED <<streams, fed, headed, ub>>
      /\ session' = [session EXCEPT ![s].phase = "closed"] /\ session[s].phase = "open"
  BY DEF HttpFlvClosed, WsOnClose
<1>3. FreeWriters({})
  BY <1>2, NoneFreed DEF StreamsInv
<1> DEFINE new == [session[s] EXCEPT !.phase = "closed"]
<1>4. new \in SessionStates /\ new.phase = "closed" /\ SameBut(new, session[s])
  BY <1>1 DEF SessionStates, SameBut
<1>5. session' = [session EXCEPT ![s] = new]
  BY <1>2
<1> HIDE DEF new
<1>6. session' \in [Sessions -> SessionStates] /\ \A x \in Sessions : Moved(x, {})
  BY <1>1, <1>2, <1>4, <1>5, OneMoves DEF Moved
<1> QED
  BY <1>1, <1>2, <1>3, <1>6, SessionsOnly

\* The sessions that begin over WebSocket, and those they replace.
LEMMA WsBeginsMoves ==
    ASSUME StreamsInv, NEW S \in {WsPlay, WsPub}, NEW s \in S, NEW k \in Keys,
           NEW role \in {"play", "publish"}, NEW id \in WsIds \cup {None},
           NEW olds \in Replaceable(S), WsBegins(s, k, role, id, olds)
    PROVE  /\ olds \in SUBSET S
           /\ session' \in [Sessions -> SessionStates]
           /\ \A x \in Sessions : Moved(x, olds)
           /\ \A x \in olds : session'[x].phase = "replaced"
           /\ FreeWriters(olds) /\ UNCHANGED <<fed, headed, ub>>
           /\ session[s].phase = "none"
           /\ session'[s].phase = "open" /\ session'[s].role = role
           /\ session'[s].key = k /\ session'[s].id = id
<1> DEFINE first == [NewSession EXCEPT !.phase = "open", !.role = role, !.key = k, !.id = id]
           new(x) == [session[x] EXCEPT !.phase = "replaced"]
<1>1. S \in SUBSET Sessions /\ S \cap Rtmp = {} /\ s \in Sessions
  BY StreamsAssumption DEF Sessions
<1>2. olds \in SUBSET S /\ \A x \in olds : session[x].phase = "closed"
  BY DEF Replaceable
<1>3. /\ session[s].phase = "none" /\ FreeWriters(olds) /\ UNCHANGED <<fed, headed, ub>>
      /\ session' = [x \in Sessions |-> IF x = s THEN first
                                        ELSE IF x \in olds THEN new(x) ELSE session[x]]
  BY DEF WsBegins
<1>4. /\ first \in SessionStates /\ first.phase = "open" /\ first.role = role
      /\ first.key = k /\ first.id = id
  <2>1. 0 \in 0 .. MaxWriters /\ k \in StreamKeys /\ id \in WriterIds \cup {None}
    BY StreamsAssumption DEF WriterIds, StreamKeys
  <2>2. role \in {"none", "play", "publish"}
    OBVIOUS
  <2> QED
    BY <2>1, <2>2 DEF NewSession, SessionStates
<1>5. \A x \in Sessions : session[x] \in SessionStates
  BY DEF StreamsInv, TypeInv
<1>6. \A x \in Sessions : /\ new(x) \in SessionStates /\ new(x).phase = "replaced"
                          /\ SameBut(new(x), session[x])
  BY <1>5 DEF SessionStates, SameBut
<1>7. s \notin olds
  BY <1>2, <1>3
<1> HIDE DEF first, new
<1>8. /\ session'[s] = first
      /\ \A x \in olds : session'[x] = new(x)
      /\ \A x \in Sessions : x # s /\ x \notin olds => session'[x] = session[x]
      /\ session' \in [Sessions -> SessionStates]
  BY <1>1, <1>2, <1>3, <1>4, <1>5, <1>6, <1>7
<1>9. ASSUME NEW x \in Sessions PROVE Moved(x, olds)
  <2>1. CASE x = s
    BY <1>1, <1>3, <1>4, <1>7, <1>8, <2>1 DEF Moved
  <2>2. CASE x \in olds
    <3>1. session[x].phase = "closed" /\ x \notin Rtmp
      BY <1>1, <1>2, <2>2
    <3> QED
      BY <1>6, <1>8, <2>2, <3>1 DEF Moved
  <2>3. CASE x # s /\ x \notin olds
    BY <1>8, <2>3 DEF Moved
  <2> QED
    BY <2>1, <2>2, <2>3
<1> QED
  BY <1>1, <1>2, <1>3, <1>4, <1>6, <1>8, <1>9

\* A publisher begins over WebSocket.
LEMMA WsPublishStep ==
    ASSUME StreamsInv, NEW s \in WsPub, NEW k \in Keys, OnWSStreamPublish(s, k)
    PROVE  \E D : Silent(D)
<1>1. PICK olds \in Replaceable(WsPub) :
          WsBegins(s, k, "publish", None, olds) /\ UNCHANGED streams
  BY DEF OnWSStreamPublish
<1>2. /\ olds \in SUBSET WsPub
      /\ session' \in [Sessions -> SessionStates]
      /\ \A x \in Sessions : Moved(x, olds)
      /\ FreeWriters(olds) /\ UNCHANGED <<fed, headed, ub>>
  BY <1>1, WsBeginsMoves
<1> QED
  BY <1>1, <1>2, SessionsOnly

\* A player begins over WebSocket.
LEMMA WsPlayStep ==
    ASSUME StreamsInv, NEW s \in WsPlay, NEW k \in Keys, NEW id \in WsIds,
           OnWSStreamPlay(s, k, id)
    PROVE  \E D : Silent(D)
<1>1. PICK olds \in Replaceable(WsPlay) :
          /\ WsBegins(s, k, "play", id, olds)
          /\ streams' = AddPlayer(streams, k, id, s)
  BY DEF OnWSStreamPlay
<1>2. /\ olds \in SUBSET WsPlay
      /\ session' \in [Sessions -> SessionStates]
      /\ \A x \in Sessions : Moved(x, olds)
      /\ \A x \in olds : session'[x].phase = "replaced"
      /\ FreeWriters(olds) /\ UNCHANGED <<fed, headed, ub>>
      /\ session[s].phase = "none"
      /\ session'[s].phase = "open" /\ session'[s].role = "play"
      /\ session'[s].key = k /\ session'[s].id = id
  BY <1>1, WsBeginsMoves
<1>3. /\ s \in Writers /\ s \notin RtmpWriters /\ Owner(s) = s
      /\ id \in WriterIds /\ k \in StreamKeys
  BY StreamsAssumption DEF Writers, Owner, WriterIds, StreamKeys
<1>4. Comes(k, id, s)
  BY <1>2, <1>3 DEF Comes, Unborn
<1> QED
  BY <1>1, <1>2, <1>3, <1>4, WriterAdded

\* A request to play over HTTP.
LEMMA FlvPlayStep ==
    ASSUME StreamsInv, NEW f \in Flv, NEW k \in StreamKeys, HttpFlvHandle(f, k)
    PROVE  \E D : Silent(D)
<1>1. /\ f \in Sessions /\ f \notin Rtmp /\ session[f] \in SessionStates
      /\ f \in Writers /\ f \notin RtmpWriters /\ Owner(f) = f
      /\ f \in WriterIds /\ {} \in SUBSET WsPlay
  BY StreamsAssumption DEF StreamsInv, TypeInv, Sessions, Writers, Owner, WriterIds
<1> DEFINE new == [session[f] EXCEPT !.phase = "open", !.role = "play", !.key = k, !.id = f]
<1>2. /\ new \in SessionStates /\ new.phase = "open" /\ new.role = "play"
      /\ new.key = k /\ new.id = f
  BY <1>1 DEF SessionStates
<1>3. /\ session' = [session EXCEPT ![f] = new] /\ session[f].phase = "none"
      /\ streams' = AddPlayer(streams, k, f, f)
      /\ UNCHANGED <<joined, out>> /\ UNCHANGED <<fed, headed, ub>>
  BY DEF HttpFlvHandle
<1> HIDE DEF new
<1>4. FreeWriters({})
  BY <1>3, NoneFreed DEF StreamsInv
<1>5. /\ session' \in [Sessions -> SessionStates] /\ session'[f] = new
      /\ \A x \in Sessions : Moved(x, {})
  BY <1>1, <1>2, <1>3, OneMoves DEF Moved
<1>6. Comes(k, f, f)
  BY <1>1, <1>2, <1>3, <1>5 DEF Comes, Unborn
<1> QED
  BY <1>1, <1>3, <1>4, <1>5, <1>6, WriterAdded

\* One more writer of an RTMP session.
LEMMA RtmpPlayStep ==
    ASSUME StreamsInv, NEW s \in Rtmp, NEW k \in StreamKeys, s \in Open(Rtmp), AddWriter(s, k)
    PROVE  \E D : Silent(D)
<1> DEFINE n == session[s].made + 1
           w == <<s, n>>
           id == session[s].id
           new == [session[s] EXCEPT !.role = "play", !.key = k, !.made = n]
<1>1. /\ s \in Sessions /\ session[s] \in SessionStates /\ session[s].phase = "open"
      /\ {} \in SUBSET WsPlay
  BY DEF StreamsInv, TypeInv, Sessions, Open
<1>2. /\ n <= MaxWriters /\ streams' = AddPlayer(streams, k, id, w)
      /\ session' = [session EXCEPT ![s] = new]
      /\ UNCHANGED <<joined, out>> /\ UNCHANGED <<fed, headed, ub>>
  BY DEF AddWriter
<1>3. session[s].made \in Nat /\ n \in 1 .. MaxWriters /\ n \in 0 .. MaxWriters
  BY <1>1, <1>2, StreamsAssumption DEF SessionStates
<1>4. id \in WriterIds
  BY <1>1 DEF StreamsInv, Made, WriterIds
<1>5. w \in RtmpWriters /\ w \in Writers /\ Owner(w) = s /\ w[1] = s /\ w[2] = n
  BY <1>3 DEF RtmpWriters, Writers, Owner
<1>6. Unborn(w) /\ session[s].made <= n /\ n <= n
  BY <1>3, <1>5 DEF Unborn
<1> HIDE DEF n
<1>7. /\ new \in SessionStates /\ new.phase = "open" /\ new.role = "play" /\ new.key = k
      /\ new.made = n /\ new.id = id
  BY <1>1, <1>3 DEF SessionStates
<1>8. FreeWriters({})
  BY <1>2, NoneFreed DEF StreamsInv
<1> HIDE DEF new, w, id
<1>9. /\ session' \in [Sessions -> SessionStates] /\ session'[s] = new
      /\ Moved(s, {}) => \A x \in Sessions : Moved(x, {})
  BY <1>1, <1>2, <1>7, OneMoves
<1>10. Moved(s, {})
  BY <1>1, <1>6, <1>7, <1>9 DEF Moved, id
<1>11. Comes(k, id, w)
  BY <1>5, <1>6, <1>7, <1>9 DEF Comes
<1> QED
  BY <1>1, <1>2, <1>4, <1>8, <1>9, <1>10, <1>11, WriterAdded

\* The sessions that close, time out or are swept.
LEMMA LeaveSteps ==
    ASSUME StreamsInv,
           \/ \E s \in Rtmp : RtmpClose(s)
           \/ \E dead \in SUBSET Rtmp : RtmpCheckAlive(dead)
           \/ \E dead \in SUBSET Flv : HttpFlvCheckAlive(dead)
           \/ \E silent \in SUBSET (WsPlay \cup WsPub) : WsOnTimer(silent)
    PROVE  \E D : Silent(D)
<1>1. ASSUME NEW s \in Rtmp, RtmpClose(s) PROVE Silent({s})
  <2>1. {s} \in SUBSET Rtmp /\ Open({s}) = {s} /\ session[s].phase = "open"
        /\ RtmpClosed({s}) /\ End({s}, "closed")
    BY <1>1 DEF RtmpClose, Open
  <2> QED
    BY <2>1, RtmpLeave
<1>2. ASSUME NEW dead \in SUBSET Rtmp, RtmpCheckAlive(dead) PROVE Silent(dead)
  BY <1>2, RtmpLeave DEF RtmpCheckAlive
<1>3. ASSUME NEW dead \in SUBSET Flv, HttpFlvCheckAlive(dead) PROVE Silent(dead)
  <2> DEFINE ps == {Entry(f) : f \in dead}
  <2>1. dead \in SUBSET (Sessions \ Rtmp) /\ \A f \in dead : Owner(f) = f
    BY StreamsAssumption DEF Sessions, Owner
  <2>2. \A d \in dead : <<session[d].key, session[d].id>> \in ps
    BY <2>1 DEF Entry
  <2>3. /\ streams' = RemovePlayers(streams, ps) /\ End(dead, "gone") /\ UNCHANGED headed
        /\ \A f \in dead : session[f].phase \in {"open", "closed"}
    BY <1>3 DEF HttpFlvCheckAlive
  <2> HIDE DEF ps
  <2> QED
    BY <2>1, <2>2, <2>3, PlayersLeave
<1>4. ASSUME NEW silent \in SUBSET (WsPlay \cup WsPub), WsOnTimer(silent) PROVE \E D : Silent(D)
  <2> DEFINE dead == silent \cup {s \in WsPlay \cup WsPub : session[s].phase = "closed"}
             ps == {Entry(s) : s \in dead \cap WsPlay}
  <2>1. /\ dead \in SUBSET (Sessions \ Rtmp) /\ dead \subseteq WsPlay \cup WsPub
        /\ \A s \in dead \cap WsPlay : Owner(s) = s
    BY StreamsAssumption DEF Sessions, Owner
  <2>2. \A d \in dead \ WsPub : <<session[d].key, session[d].id>> \in ps
    BY <2>1 DEF Entry
  <2>3. /\ streams' = RemovePlayers(streams, ps) /\ End(dead, "gone") /\ UNCHANGED headed
        /\ silent \subseteq Open(WsPlay \cup WsPub)
    BY <1>4 DEF WsOnTimer
  <2>4. \A d \in dead : session[d].phase \in {"open", "closed"}
    BY <2>3 DEF Open
  <2> HIDE DEF ps, dead
  <2>5. Silent(dead)
    BY <2>1, <2>2, <2>3, <2>4, PlayersLeave
  <2> QED
    BY <2>5
<1> QED
  BY <1>1, <1>2, <1>3, <1>4

\* A packet that is published.
Publishes ==
    \E from \in Sessions, k \in StreamKeys, type \in Types :
        session[from].phase = "open" /\ WriterMediaPacket(from, k, type)

\* The behaviour became undefined.
Undefines == ub' = TRUE /\ UNCHANGED <<streams, session, joined, out, fed, headed>>

\* The packets of the publishers.
LEMMA MediaSteps ==
    ASSUME StreamsInv,
           \/ \E s \in Rtmp, type \in Types : RtmpMedia(s, type)
           \/ \E s \in WsPub, type \in Types : WsMedia(s, type)
    PROVE  Publishes \/ Undefines
<1>1. \A s \in Sessions : session[s].key \in StreamKeys
  BY DEF StreamsInv, TypeInv, SessionStates
<1>2. ASSUME NEW s \in Rtmp \cup WsPub, session[s].phase = "open", NEW type \in Types,
             \/ WriterMediaPacket(s, session[s].key, type)
             \/ WriterMediaPacketUndefined(session[s].key)
      PROVE  Publishes \/ Undefines
  <2>1. s \in Sessions
    BY DEF Sessions
  <2>2. CASE WriterMediaPacket(s, session[s].key, type)
    BY <1>1, <1>2, <2>1, <2>2 DEF Publishes
  <2>3. CASE WriterMediaPacketUndefined(session[s].key)
    BY <2>3 DEF WriterMediaPacketUndefined, Undefines
  <2> QED
    BY <1>2, <2>2, <2>3
<1> QED
  BY <1>2 DEF RtmpMedia, WsMedia, Open

\* Every step of the streaming side is one of three kinds.
LEMMA KindsOfSteps ==
    ASSUME StreamsInv, Next
    PROVE  Publishes \/ Undefines \/ \E D : Silent(D)
<1>1. ASSUME NEW s \in Rtmp, RtmpCommand(s) PROVE \E D : Silent(D)
  <2>1. session[s].key \in StreamKeys
    BY DEF StreamsInv, TypeInv, SessionStates, Sessions
  <2> QED
    BY <1>1, <2>1, RtmpPlayStep DEF RtmpCommand
<1>2. ASSUME NEW s \in Rtmp, NEW k \in Keys, RtmpPlay(s, k) PROVE \E D : Silent(D)
  BY <1>2, RtmpPlayStep DEF RtmpPlay, StreamKeys
<1>3. \/ \E s \in Rtmp, addr \in Addrs : RtmpAccept(s, addr)
      \/ \E s \in Rtmp, k \in Keys : RtmpPublish(s, k)
      \/ \E s \in Rtmp : RtmpCommand(s)
      \/ \E s \in Rtmp, k \in Keys : RtmpPlay(s, k)
      \/ \E f \in Flv, k \in StreamKeys : HttpFlvHandle(f, k)
      \/ \E s \in Flv \cup WsPlay \cup WsPub : HttpFlvClosed(s) \/ WsOnClose(s)
      \/ \E s \in WsPub, k \in Keys : OnWSStreamPublish(s, k)
      \/ \E s \in WsPlay, k \in Keys, id \in WsIds : OnWSStreamPlay(s, k, id)
      \/ \/ \E s \in Rtmp : RtmpClose(s)
         \/ \E dead \in SUBSET Rtmp : RtmpCheckAlive(dead)
         \/ \E dead \in SUBSET Flv : HttpFlvCheckAlive(dead)
         \/ \E silent \in SUBSET (WsPlay \cup WsPub) : WsOnTimer(silent)
      \/ \/ \E s \in Rtmp, type \in Types : RtmpMedia(s, type)
         \/ \E s \in WsPub, type \in Types : WsMedia(s, type)
  BY Zenon DEF Next
<1> QED
  BY <1>1, <1>2, <1>3, RtmpAcceptStep, RtmpPublishStep, HangUpSteps, WsPublishStep,
     WsPlayStep, FlvPlayStep, LeaveSteps, MediaSteps, Zenon

\* Every step of the streaming side keeps the maps and the sessions together.
LEMMA StreamsStep ==
    ASSUME StreamsInv, [Next]_vars
    PROVE  StreamsInv'
<1> USE DEF StreamsInv, TypeInv, Registered, Holds, Unborn, InOneStream, InUse, Published,
            Marks, Unpublishes, Headed, Made
<1>1. CASE Publishes
  BY <1>1, MediaKeeps, Zenon DEF Publishes
<1>2. CASE \E D : Silent(D)
  BY <1>2, SilentKeeps, Zenon
<1>3. CASE Undefines
  BY <1>3 DEF Undefines
<1>4. CASE UNCHANGED vars
  BY <1>4 DEF vars
<1> QED
  BY <1>1, <1>2, <1>3, <1>4, KindsOfSteps, Zenon

\* Nothing is published or played at the start.
LEMMA StreamsInit ==
    ASSUME Init
    PROVE  StreamsInv
<1>1. streams \in StreamMaps /\ DOMAIN streams = {}
  <2>1. streams \in [{} -> StreamStates]
    BY DEF Init
  <2> QED
    BY <2>1 DEF StreamMaps
<1>2. NewSession \in SessionStates /\ NewSession.phase = "none"
  BY StreamsAssumption DEF NewSession, SessionStates, StreamKeys
<1>3. session \in [Sessions -> SessionStates]
  BY <1>2 DEF Init
<1>4. 0 \in 0 .. MaxPackets /\ <<>> \in Seq(Packets)
  BY StreamsAssumption
<1>5. TypeInv
  BY <1>1, <1>3, <1>4 DEF Init, TypeInv
<1>6. Registered /\ InOneStream /\ InUse(streams) /\ Published
  BY <1>1 DEF Registered, InOneStream, InUse, Published
<1>7. Headed /\ Made
  BY <1>2 DEF Init, Headed, Made
<1> QED
  BY <1>5, <1>6, <1>7 DEF StreamsInv

\* The properties below all rest on this.
LEMMA StreamsAlways == Spec => []StreamsInv
<1>1. Init => StreamsInv
  BY StreamsInit
<1>2. StreamsInv /\ [Next]_vars => StreamsInv'
  BY StreamsStep
<1> QED
  BY <1>1, <1>2, PTL DEF Spec

\* The variables have their types, whatever is published and played: no header
\* or frame that does not exist is ever sent to a player.
THEOREM TypeCorrect == Spec => []TypeOK
<1>1. ASSUME StreamsInv PROVE TypeOK
  <2>1. DOMAIN streams \subseteq StreamKeys
        /\ \A k \in DOMAIN streams : streams[k] \in StreamStates
    BY <1>1, StreamMapDef DEF StreamsInv, TypeInv
  <2>2. ASSUME NEW k \in DOMAIN streams
        PROVE  /\ streams[k].publisher_exist_ \in BOOLEAN
               /\ DOMAIN streams[k].writer_map_ \subseteq WriterIds
               /\ Range(streams[k].writer_map_) \subseteq Writers
               /\ streams[k].metadata_hdr_ \in Packets \cup {NoPacket}
               /\ streams[k].seq_hdr_ \in Packets \cup {NoPacket}
               /\ streams[k].packet_list \in Seq(Packets)
               /\ streams[k].history \in Seq(Packets)
    <3>1. streams[k].writer_map_ \in WriterMaps
      BY <2>1 DEF StreamStates
    <3>2. /\ DOMAIN streams[k].writer_map_ \subseteq WriterIds
          /\ Range(streams[k].writer_map_) \subseteq Writers
      BY <3>1, WriterMapDef DEF Range
    <3> QED
      BY <2>1, <3>2 DEF StreamStates
  <2> QED
    BY <1>1, <2>1, <2>2 DEF TypeOK, StreamsInv, TypeInv
<1> QED
  BY <1>1, StreamsAlways, PTL

\* MediaStreamManager holds a writer whose session is gone, or an RtmpWriter of a
\* closed session, in the two cases that NoDanglingWriter names and in no other,
\* also when ids collide, sessions close twice or a sweep meets a closed
\* connection.
THEOREM NoDanglingWriterAlways == Spec => []NoDanglingWriter
<1>1. ASSUME StreamsInv PROVE NoDanglingWriter
  <2>1. ASSUME NEW k \in DOMAIN streams, NEW w \in Range(streams[k].writer_map_)
        PROVE  LET s == session[Owner(w)]
               IN  Dangles(w) \/ (Closed(w) /\ w \in RtmpWriters) =>
                       \/ w \in RtmpWriters /\ (s.role = "publish" \/ s.key # k)
                       \/ w \in WsPlay /\ s.phase = "replaced"
    <3>1. PICK id \in DOMAIN streams[k].writer_map_ : w = streams[k].writer_map_[id]
      BY DEF Range
    <3>2. Holds(k, id, w)
      BY <1>1, <3>1 DEF StreamsInv, Registered
    <3> QED
      BY <3>2 DEF Holds, Dangles, Closed
  <2> QED
    BY <2>1 DEF NoDanglingWriter
<1> QED
  BY <1>1, StreamsAlways, PTL

\* A stream that nobody plays is there for a session that published to it and is
\* open, or that ended without RemovePublisher, as StreamsAreReleased names them.
THEOREM StreamsAreReleasedAlways == Spec => []StreamsAreReleased
<1>1. ASSUME StreamsInv PROVE StreamsAreReleased
  <2>1. \A k \in DOMAIN streams :
            DOMAIN streams[k].writer_map_ # {} \/ streams[k].publisher_exist_
    BY <1>1 DEF StreamsInv, InUse
  <2>2. DOMAIN <<>> = {}
    OBVIOUS
  <2>3. \A k \in DOMAIN streams :
            DOMAIN streams[k].writer_map_ # {} => streams[k].writer_map_ # <<>>
    BY <2>2
  <2> QED
    BY <1>1, <2>1, <2>3 DEF StreamsInv, Published, Marks, StreamsAreReleased
<1> QED
  BY <1>1, StreamsAlways, PTL

-----------------------------------------------------------------------------
(* Sequence headers come first *)

\* The cache c knows the last sequence header of its stream, and has frames only
\* in packet_list; none of its packets is newer than the history.
CacheInv(c) ==
    /\ \A h \in DOMAIN c.history : c.history[h].n = h
    /\ c.seq_hdr_ # NoPacket =>
           c.seq_hdr_.type = "seq_hdr" /\ c.seq_hdr_.n <= Len(c.history)
    /\ c.metadata_hdr_ # NoPacket =>
           c.metadata_hdr_.type = "metadata" /\ c.metadata_hdr_.n <= Len(c.history)
    /\ \A h \in DOMAIN c.history :
           c.history[h].type = "seq_hdr" => c.seq_hdr_ # NoPacket /\ c.seq_hdr_.n >= h
    /\ \A i \in DOMAIN c.packet_list :
           c.packet_list[i].type \notin Headers /\ c.packet_list[i].n <= Len(c.history)

\* The sequence ps holds a sequence header at least as new as h, before place i.
HeaderBefore(ps, i, h) == \E j \in 1 .. i - 1 : ps[j].type = "seq_hdr" /\ ps[j].n >= h

\* The sequence ps of packets of the stream c has its headers in front.
InOrder(ps, c) ==
    /\ \A i \in DOMAIN ps : ps[i].n <= Len(c.history)
    /\ \A i \in DOMAIN ps, h \in DOMAIN c.history :
           /\ ps[i].type \notin Headers
           /\ c.history[h].type = "seq_hdr"
           /\ h < ps[i].n
           => HeaderBefore(ps, i, h)

\* The sequence ps has all the sequence headers a frame to come will need.
UpToDate(ps, c) ==
    \A h \in DOMAIN c.history :
        c.history[h].type = "seq_hdr" => HeaderBefore(ps, Len(ps) + 1, h)

\* The session of the writer is open.
Live(w) == session[Owner(w)].phase = "open"

\* What the player w of the stream c has been sent.
PlayerInv(w, c) ==
    /\ joined[w] = 0 => out[w] = <<>>
    /\ InOrder(out[w], c)
    /\ joined[w] # 0 /\ Live(w) => UpToDate(out[w], c)

\* A writer that was not made yet has been sent nothing.
Fresh == \A w \in Writers : Unborn(w) => joined[w] = 0 /\ out[w] = <<>>

HeaderInv ==
    /\ \A k \in DOMAIN streams :
           /\ CacheInv(streams[k])
           /\ \A i \in DOMAIN streams[k].writer_map_ :
                  PlayerInv(streams[k].writer_map_[i], streams[k])
    /\ Fresh

\* The cache of a new stream.
LEMMA NewCache ==
    ASSUME NEW b \in BOOLEAN, NEW c, SameMedia(c, NewStream(b))
    PROVE  CacheInv(c) /\ c.history = <<>>
<1>1. /\ c.seq_hdr_ = NoPacket /\ c.metadata_hdr_ = NoPacket
      /\ c.packet_list = <<>> /\ c.history = <<>>
  BY NewStreamType DEF SameMedia
<1>2. DOMAIN <<>> = {}
  OBVIOUS
<1> QED
  BY <1>1, <1>2 DEF CacheInv

\* The invariants of a stream are about its media only.
LEMMA SameMediaSame ==
    ASSUME NEW a, NEW b, SameMedia(a, b)
    PROVE  /\ CacheInv(b) => CacheInv(a)
           /\ \A ps : InOrder(ps, b) => InOrder(ps, a)
           /\ \A ps : UpToDate(ps, b) => UpToDate(ps, a)
BY DEF SameMedia, CacheInv, InOrder, UpToDate

\* A packet keeps the cache as it should be.
LEMMA CacheGrows ==
    ASSUME NEW k \in StreamKeys, NEW type \in Types, NEW p, NEW s, MediaStep(k, type, p, s),
           Found(k) \in StreamStates, CacheInv(Found(k))
    PROVE  /\ CacheInv(s)
           /\ Len(s.history) = Len(Found(k).history) + 1
           /\ p.n = Len(s.history)
           /\ DOMAIN s.history = DOMAIN Found(k).history \cup {p.n}
           /\ s.history[p.n] = p
           /\ \A h \in DOMAIN Found(k).history :
                  s.history[h] = Found(k).history[h] /\ h < p.n
<1> DEFINE c == Found(k)
           n == Len(c.history)
<1>1. c.history \in Seq(Packets) /\ c.packet_list \in Seq(Packets) /\ p \in Packets
  BY DEF StreamStates, MediaStep
<1>2. s.history = Append(c.history, p) /\ p.n = n + 1 /\ p.type = type
  BY DEF MediaStep
<1>3. /\ Len(s.history) = n + 1 /\ DOMAIN s.history = DOMAIN c.history \cup {n + 1}
      /\ s.history[n + 1] = p /\ n \in Nat
      /\ \A h \in DOMAIN c.history : s.history[h] = c.history[h] /\ h < n + 1 /\ h \in Nat
  BY <1>1, <1>2
<1>4. p # NoPacket
  BY <1>1 DEF Packets, NoPacket
<1>5. /\ s.metadata_hdr_ = IF type = "metadata" THEN p ELSE c.metadata_hdr_
      /\ s.seq_hdr_ = IF type = "seq_hdr" THEN p ELSE c.seq_hdr_
      /\ c.metadata_hdr_ \in Packets \cup {NoPacket} /\ c.seq_hdr_ \in Packets \cup {NoPacket}
  BY DEF MediaStep, StreamStates
<1>6. \A q \in Packets : q.n \in Nat
  BY StreamsAssumption DEF Packets
<1>7. /\ \A h \in DOMAIN c.history : c.history[h].n = h
      /\ c.seq_hdr_ # NoPacket => c.seq_hdr_.type = "seq_hdr" /\ c.seq_hdr_.n <= n
      /\ c.metadata_hdr_ # NoPacket =>
             c.metadata_hdr_.type = "metadata" /\ c.metadata_hdr_.n <= n
      /\ \A h \in DOMAIN c.history :
             c.history[h].type = "seq_hdr" => c.seq_hdr_ # NoPacket /\ c.seq_hdr_.n >= h
      /\ \A i \in DOMAIN c.packet_list :
             c.packet_list[i].type \notin Headers /\ c.packet_list[i].n <= n
  BY DEF CacheInv
<1> HIDE DEF n, c
<1>8. \A h \in DOMAIN s.history : s.history[h].n = h
  BY <1>2, <1>3, <1>7
<1>9. s.seq_hdr_ # NoPacket =>
          s.seq_hdr_.type = "seq_hdr" /\ s.seq_hdr_.n <= Len(s.history)
  BY <1>2, <1>3, <1>5, <1>6, <1>7
<1>10. s.metadata_hdr_ # NoPacket =>
           s.metadata_hdr_.type = "metadata" /\ s.metadata_hdr_.n <= Len(s.history)
  BY <1>2, <1>3, <1>5, <1>6, <1>7
<1>11. \A h \in DOMAIN s.history :
           s.history[h].type = "seq_hdr" => s.seq_hdr_ # NoPacket /\ s.seq_hdr_.n >= h
  BY <1>2, <1>3, <1>4, <1>5, <1>7
<1>12. ASSUME NEW i \in DOMAIN s.packet_list
       PROVE  s.packet_list[i].type \notin Headers /\ s.packet_list[i].n <= Len(s.history)
  <2>1. \A j \in DOMAIN c.packet_list : c.packet_list[j].n <= Len(s.history)
    <3>1. \A j \in DOMAIN c.packet_list : c.packet_list[j] \in Packets
      BY <1>1
    <3> QED
      BY <1>3, <1>6, <1>7, <3>1
  <2>2. CASE type = "key"
    <3>1. s.packet_list = <<p>>
      BY <2>2 DEF MediaStep
    <3> QED
      BY <1>2, <1>3, <2>2, <3>1 DEF Headers
  <2>3. CASE type = "inter"
    <3>1. s.packet_list = Append(c.packet_list, p)
      BY <2>3 DEF MediaStep, c
    <3>2. \/ i \in DOMAIN c.packet_list /\ s.packet_list[i] = c.packet_list[i]
          \/ s.packet_list[i] = p
      BY <1>1, <3>1
    <3> QED
      BY <1>2, <1>3, <1>7, <2>1, <2>3, <3>2 DEF Headers
  <2>4. CASE type \in Headers
    BY <1>7, <2>1, <2>4 DEF MediaStep, c
  <2> QED
    BY <2>2, <2>3, <2>4 DEF Types, Headers
<1>13. CacheInv(s)
  BY <1>8, <1>9, <1>10, <1>11, <1>12 DEF CacheInv
<1> QED
  BY <1>2, <1>3, <1>13 DEF c, n

\* The whole cache has its headers in front, and all that are needed.
LEMMA GopInOrder ==
    ASSUME NEW w, NEW c \in StreamStates, CacheInv(c)
    PROVE  InOrder(WriterGop(w, c), c) /\ UpToDate(WriterGop(w, c), c)
<1> DEFINE A == Sent(w, c.metadata_hdr_)
           B == Sent(w, c.seq_hdr_)
           L == c.packet_list
           g == WriterGop(w, c)
<1>1. /\ A \in Seq(Packets) /\ B \in Seq(Packets) /\ L \in Seq(Packets)
      /\ A = <<>> \/ (c.metadata_hdr_ # NoPacket /\ A = <<c.metadata_hdr_>>)
      /\ B = <<>> \/ (c.seq_hdr_ # NoPacket /\ B = <<c.seq_hdr_>>)
  BY SentType DEF StreamStates
<1>2. \A h \in DOMAIN c.history : c.history[h].type = "seq_hdr" =>
          B = <<c.seq_hdr_>> /\ c.seq_hdr_.n >= h
  BY DEF CacheInv, Sent
<1>3. g = (A \o B) \o L
  BY DEF WriterGop
<1>4. /\ \A i \in DOMAIN A : A[i].type \in Headers /\ A[i].n <= Len(c.history)
      /\ \A i \in DOMAIN B : B[i].type = "seq_hdr" /\ B[i].n <= Len(c.history)
      /\ \A i \in DOMAIN L : L[i].type \notin Headers /\ L[i].n <= Len(c.history)
  BY <1>1 DEF CacheInv, Headers
<1>5. c.history \in Seq(Packets)
  BY DEF StreamStates
<1> HIDE DEF A, B, L, g
<1>6. A \o B \in Seq(Packets) /\ Len(A) \in Nat /\ Len(B) \in Nat /\ Len(L) \in Nat
  BY <1>1
<1>7. /\ g \in Seq(Packets) /\ Len(g) = Len(A) + Len(B) + Len(L)
      /\ \A i \in 1 .. Len(A) : g[i] = A[i]
      /\ \A i \in 1 .. Len(B) : g[Len(A) + i] = B[i]
      /\ \A i \in 1 .. Len(L) : g[Len(A) + Len(B) + i] = L[i]
  <2>1. /\ Len(A \o B) = Len(A) + Len(B)
        /\ \A i \in 1 .. Len(A) : (A \o B)[i] = A[i]
        /\ \A i \in 1 .. Len(B) : (A \o B)[Len(A) + i] = B[i]
    BY <1>1
  <2> DEFINE P == A \o B
  <2>2. P \in Seq(Packets) /\ g = P \o L
    BY <1>3, <1>6
  <2> HIDE DEF P
  <2>3. /\ g \in Seq(Packets) /\ Len(g) = Len(P) + Len(L)
        /\ \A i \in 1 .. Len(P) : g[i] = P[i]
        /\ \A i \in 1 .. Len(L) : g[Len(P) + i] = L[i]
    BY <1>1, <2>2
  <2>4. /\ Len(P) = Len(A) + Len(B)
        /\ \A i \in 1 .. Len(A) : P[i] = A[i]
        /\ \A i \in 1 .. Len(B) : P[Len(A) + i] = B[i]
    BY <2>1 DEF P
  <2>5. \A i \in 1 .. Len(A) : i \in 1 .. Len(P)
    BY <1>6, <2>4
  <2>6. \A i \in 1 .. Len(B) : Len(A) + i \in 1 .. Len(P)
    BY <1>6, <2>4
  <2> QED
    BY <2>3, <2>4, <2>5, <2>6
<1>8. /\ DOMAIN A = 1 .. Len(A) /\ DOMAIN B = 1 .. Len(B) /\ DOMAIN L = 1 .. Len(L)
      /\ DOMAIN g = 1 .. Len(g)
  BY <1>1, <1>7
<1>9. ASSUME NEW i \in DOMAIN g
      PROVE  /\ g[i].n <= Len(c.history)
             /\ g[i].type \notin Headers => i > Len(A) + Len(B)
  <2>1. CASE i <= Len(A)
    BY <1>4, <1>6, <1>7, <1>8, <2>1
  <2>2. CASE i > Len(A) /\ i <= Len(A) + Len(B)
    <3>1. i - Len(A) \in 1 .. Len(B) /\ i = Len(A) + (i - Len(A))
      BY <1>6, <1>8, <2>2
    <3>2. g[i] = B[i - Len(A)]
      BY <1>7, <3>1
    <3> QED
      BY <1>4, <1>8, <3>1, <3>2 DEF Headers
  <2>3. CASE i > Len(A) + Len(B)
    <3>1. /\ i - (Len(A) + Len(B)) \in 1 .. Len(L)
          /\ i = Len(A) + Len(B) + (i - (Len(A) + Len(B)))
      BY <1>6, <1>7, <1>8, <2>3
    <3>2. g[i] = L[i - (Len(A) + Len(B))]
      BY <1>7, <3>1
    <3> QED
      BY <1>4, <1>8, <2>3, <3>1, <3>2
  <2> QED
    BY <1>6, <1>8, <2>1, <2>2, <2>3
<1>10. ASSUME NEW h \in DOMAIN c.history, c.history[h].type = "seq_hdr",
              NEW i \in Nat, i > Len(A) + Len(B)
       PROVE  HeaderBefore(g, i, h)
  <2>1. B = <<c.seq_hdr_>> /\ c.seq_hdr_.n >= h
    BY <1>2, <1>10
  <2>2. Len(B) = 1 /\ B[1] = c.seq_hdr_
    BY <2>1
  <2>3. g[Len(A) + 1] = c.seq_hdr_ /\ c.seq_hdr_.type = "seq_hdr"
    BY <1>4, <1>7, <1>8, <2>2
  <2>4. Len(A) + 1 \in 1 .. i - 1
    BY <1>6, <1>10, <2>2
  <2> QED
    BY <2>1, <2>3, <2>4 DEF HeaderBefore
<1>11. InOrder(g, c)
  <2>1. ASSUME NEW i \in DOMAIN g, NEW h \in DOMAIN c.history,
               g[i].type \notin Headers, c.history[h].type = "seq_hdr"
        PROVE  HeaderBefore(g, i, h)
    <3>1. i \in Nat /\ i > Len(A) + Len(B)
      BY <1>8, <1>9, <2>1
    <3> QED
      BY <1>10, <2>1, <3>1
  <2> QED
    BY <1>9, <2>1 DEF InOrder
<1>12. UpToDate(g, c)
  <2>1. Len(g) + 1 \in Nat /\ Len(g) + 1 > Len(A) + Len(B)
    BY <1>6, <1>7
  <2> QED
    BY <1>10, <2>1 DEF UpToDate
<1> QED
  BY <1>11, <1>12 DEF g

\* The same of the player w, in the state after the step.
PlayerNext(w, c) ==
    /\ joined'[w] = 0 => out'[w] = <<>>
    /\ InOrder(out'[w], c)
    /\ joined'[w] # 0 /\ session'[Owner(w)].phase = "open" => UpToDate(out'[w], c)

\* The player w has been sent nothing more, and its session goes on or ends.
KeptPlayer(w) ==
    /\ joined'[w] = joined[w] /\ out'[w] = out[w]
    /\ session'[Owner(w)].phase = "open" => Live(w)

\* The player w is made with the step, or freed, and has been sent nothing.
Newcomer(w) == joined'[w] = 0 /\ out'[w] = <<>>

\* A step that sends nothing: every stream has the media it had or is new, and
\* every player was in the stream before or has been sent nothing.
SilentStep ==
    /\ Fresh'
    /\ \A x \in DOMAIN streams' :
           \/ x \in DOMAIN streams /\ SameMedia(streams'[x], streams[x])
           \/ SameMedia(streams'[x], NewStream(FALSE))
    /\ \A x \in DOMAIN streams' : \A i \in DOMAIN streams'[x].writer_map_ :
           \/ /\ x \in DOMAIN streams /\ i \in DOMAIN streams[x].writer_map_
              /\ streams'[x].writer_map_[i] = streams[x].writer_map_[i]
              /\ KeptPlayer(streams[x].writer_map_[i])
              /\ SameMedia(streams'[x], streams[x])
           \/ Newcomer(streams'[x].writer_map_[i])

LEMMA NothingSent ==
    ASSUME HeaderInv, SilentStep
    PROVE  HeaderInv'
<1>1. ASSUME NEW x \in DOMAIN streams' PROVE CacheInv(streams'[x])
  BY SameMediaSame, NewCache DEF HeaderInv, SilentStep
<1>2. ASSUME NEW x \in DOMAIN streams', NEW i \in DOMAIN streams'[x].writer_map_
      PROVE  PlayerNext(streams'[x].writer_map_[i], streams'[x])
  <2> DEFINE w == streams'[x].writer_map_[i]
  <2>1. CASE /\ x \in DOMAIN streams /\ i \in DOMAIN streams[x].writer_map_
             /\ w = streams[x].writer_map_[i] /\ KeptPlayer(streams[x].writer_map_[i])
             /\ SameMedia(streams'[x], streams[x])
    <3>1. PlayerInv(w, streams[x])
      BY <2>1 DEF HeaderInv
    <3>2. KeptPlayer(w)
      BY <2>1
    <3> HIDE DEF w
    <3>3. /\ InOrder(out[w], streams[x]) => InOrder(out[w], streams'[x])
          /\ UpToDate(out[w], streams[x]) => UpToDate(out[w], streams'[x])
      BY <2>1, SameMediaSame
    <3> QED
      BY <3>1, <3>2, <3>3 DEF PlayerInv, PlayerNext, KeptPlayer, w
  <2>2. CASE Newcomer(w)
    <3>1. DOMAIN <<>> = {}
      OBVIOUS
    <3> HIDE DEF w
    <3>2. PlayerNext(w, streams'[x])
      BY <2>2, <3>1 DEF Newcomer, PlayerNext, InOrder
    <3> QED
      BY <3>2 DEF w
  <2> QED
    BY <2>1, <2>2 DEF SilentStep
<1>3. \A x \in DOMAIN streams' : \A i \in DOMAIN streams'[x].writer_map_ :
          PlayerInv(streams[x].writer_map_[i], streams[x])'
  BY <1>2 DEF PlayerNext, PlayerInv, Live
<1>4. \A x \in DOMAIN streams' : CacheInv(streams[x])'
  BY <1>1
<1> QED
  BY <1>3, <1>4 DEF HeaderInv, SilentStep

\* A step without media sends nothing.
LEMMA SilentSends ==
    ASSUME StreamsInv, HeaderInv, NEW D, Silent(D)
    PROVE  SilentStep
<1>1. \A w \in Writers : /\ Owner(w) \in D => joined'[w] = 0 /\ out'[w] = <<>>
                         /\ Owner(w) \notin D => joined'[w] = joined[w] /\ out'[w] = out[w]
  BY DEF Silent, FreeWriters
<1>2. ASSUME NEW w \in Writers, Unborn(w)' PROVE joined'[w] = 0 /\ out'[w] = <<>>
  <2>1. CASE Owner(w) \in D
    BY <1>1, <2>1
  <2>2. CASE Owner(w) \notin D
    <3>1. /\ Owner(w) \in Sessions
          /\ w \notin RtmpWriters => Owner(w) = w
          /\ w \in RtmpWriters => Owner(w) = w[1] /\ w[2] \in Nat
      BY OwnerType
    <3>2. /\ Moved(Owner(w), D)
          /\ session[Owner(w)] \in SessionStates /\ session'[Owner(w)] \in SessionStates
          /\ session[Owner(w)].phase = "none" => session[Owner(w)] = NewSession
      BY <3>1 DEF Silent, StreamsInv, TypeInv, Made
    <3>3. session[Owner(w)].made \in Nat /\ session'[Owner(w)].made \in Nat
      BY <3>2, StreamsAssumption DEF SessionStates
    <3>4. CASE w \in RtmpWriters
      <4>1. w[2] > session'[Owner(w)].made
        BY <1>2, <3>1, <3>4 DEF Unborn
      <4>2. session[Owner(w)].made <= session'[Owner(w)].made
        BY <2>2, <3>2, <3>3 DEF Moved, SameBut, NewSession
      <4>3. Unborn(w)
        BY <3>1, <3>3, <3>4, <4>1, <4>2 DEF Unborn
      <4> QED
        BY <1>1, <2>2, <4>3 DEF HeaderInv, Fresh
    <3>5. CASE w \notin RtmpWriters
      <4>1. Unborn(w)
        BY <1>2, <2>2, <3>1, <3>2, <3>5 DEF Unborn, Moved
      <4> QED
        BY <1>1, <2>2, <4>1 DEF HeaderInv, Fresh
    <3> QED
      BY <3>4, <3>5
  <2> QED
    BY <2>1, <2>2
<1>3. Fresh'
  BY <1>2 DEF Fresh
<1>4. ASSUME NEW x \in DOMAIN streams', NEW i \in DOMAIN streams'[x].writer_map_
      PROVE  \/ /\ x \in DOMAIN streams /\ i \in DOMAIN streams[x].writer_map_
                /\ streams'[x].writer_map_[i] = streams[x].writer_map_[i]
                /\ KeptPlayer(streams[x].writer_map_[i])
                /\ SameMedia(streams'[x], streams[x])
             \/ Newcomer(streams'[x].writer_map_[i])
  <2>1. CASE Stays(x, i, D)
    <3> DEFINE w == streams[x].writer_map_[i]
    <3>1. /\ x \in DOMAIN streams /\ i \in DOMAIN streams[x].writer_map_
          /\ streams'[x].writer_map_[i] = w /\ SameMedia(streams'[x], streams[x])
      BY <2>1 DEF Stays
    <3>2. w \in Writers /\ session[Owner(w)].phase # "none"
      BY <3>1, EntryType DEF StreamsInv, Registered, Holds
    <3> HIDE DEF w
    <3>3. CASE Owner(w) \in D
      BY <1>1, <3>1, <3>2, <3>3 DEF Newcomer
    <3>4. CASE Owner(w) \notin D
      <4>1. Moved(Owner(w), D)
        BY <3>2, OwnerType DEF Silent
      <4>2. session'[Owner(w)].phase = "open" => Live(w)
        BY <3>2, <3>4, <4>1 DEF Moved, Live
      <4>3. KeptPlayer(w)
        BY <1>1, <3>2, <3>4, <4>2 DEF KeptPlayer
      <4> QED
        BY <3>1, <4>3 DEF w
    <3> QED
      BY <3>3, <3>4
  <2>2. CASE Comes(x, i, streams'[x].writer_map_[i])
    <3> DEFINE w == streams'[x].writer_map_[i]
    <3>1. w \in Writers /\ Unborn(w)
      BY <2>2 DEF Comes
    <3>2. joined[w] = 0 /\ out[w] = <<>>
      BY <3>1 DEF HeaderInv, Fresh
    <3> HIDE DEF w
    <3>3. Newcomer(w)
      BY <1>1, <3>1, <3>2 DEF Newcomer
    <3> QED
      BY <3>3 DEF w
  <2> QED
    BY <2>1, <2>2 DEF Silent
<1>5. \A x \in DOMAIN streams' :
          \/ x \in DOMAIN streams /\ SameMedia(streams'[x], streams[x])
          \/ SameMedia(streams'[x], NewStream(FALSE))
  BY DEF Silent
<1> QED
  BY <1>3, <1>4, <1>5 DEF SilentStep

\* What a player was sent before the packet p is as it should be after p too.
LEMMA OldSentInOrder ==
    ASSUME NEW k \in StreamKeys, NEW type \in Types, NEW p, NEW s, MediaStep(k, type, p, s),
           Found(k) \in StreamStates, CacheInv(Found(k)),
           NEW ps \in Seq(Packets), InOrder(ps, Found(k))
    PROVE  /\ InOrder(ps, s)
           /\ type # "seq_hdr" /\ UpToDate(ps, Found(k)) => UpToDate(ps, s)
<1>1. /\ Len(s.history) = Len(Found(k).history) + 1
      /\ p.n = Len(s.history)
      /\ DOMAIN s.history = DOMAIN Found(k).history \cup {p.n}
      /\ s.history[p.n] = p
      /\ \A h \in DOMAIN Found(k).history :
             s.history[h] = Found(k).history[h] /\ h < p.n
  BY CacheGrows
<1>2. Len(Found(k).history) \in Nat /\ p.type = type
  BY DEF MediaStep, StreamStates
<1>3. \A i \in DOMAIN ps : ps[i].n \in Nat /\ ps[i].n <= Len(Found(k).history)
  <2>1. \A i \in DOMAIN ps : ps[i] \in Packets
    OBVIOUS
  <2> QED
    BY <2>1 DEF InOrder, Packets
<1>4. \A i \in DOMAIN ps : ps[i].n < p.n /\ ps[i].n <= Len(s.history) /\ ~(p.n < ps[i].n)
  BY <1>1, <1>2, <1>3
<1>5. InOrder(ps, s)
  BY <1>1, <1>4 DEF InOrder
<1>6. type # "seq_hdr" /\ UpToDate(ps, Found(k)) => UpToDate(ps, s)
  BY <1>1, <1>2 DEF UpToDate
<1> QED
  BY <1>5, <1>6

\* A player that had all the headers is sent the packet p behind them.
LEMMA NextSentInOrder ==
    ASSUME NEW k \in StreamKeys, NEW type \in Types, NEW p, NEW s, MediaStep(k, type, p, s),
           Found(k) \in StreamStates, CacheInv(Found(k)),
           NEW ps \in Seq(Packets), InOrder(ps, Found(k)), UpToDate(ps, Found(k))
    PROVE  InOrder(ps \o <<p>>, s) /\ UpToDate(ps \o <<p>>, s)
<1> DEFINE q == ps \o <<p>>
           c == Found(k)
<1>1. /\ Len(s.history) = Len(c.history) + 1
      /\ p.n = Len(s.history)
      /\ DOMAIN s.history = DOMAIN c.history \cup {p.n}
      /\ s.history[p.n] = p
      /\ \A h \in DOMAIN c.history : s.history[h] = c.history[h] /\ h < p.n
  BY CacheGrows
<1>2. p \in Packets /\ Len(c.history) \in Nat /\ p.type = type /\ p.n \in Nat
  BY StreamsAssumption DEF MediaStep, StreamStates, Packets
<1>3. /\ Len(q) = Len(ps) + 1 /\ Len(ps) \in Nat
      /\ DOMAIN q = 1 .. Len(ps) + 1 /\ DOMAIN ps = 1 .. Len(ps)
      /\ \A i \in 1 .. Len(ps) : q[i] = ps[i]
      /\ q[Len(ps) + 1] = p
  BY <1>2
<1>4. InOrder(ps, s)
  BY OldSentInOrder
<1>5. UpToDate(ps, c)
  OBVIOUS
<1> HIDE DEF q, c
<1>6. ASSUME NEW i \in 1 .. Len(ps) + 1, NEW j \in 1 .. Len(q) + 1, i <= j, NEW h,
             HeaderBefore(ps, i, h)
      PROVE  HeaderBefore(q, j, h)
  <2>1. PICK m \in 1 .. i - 1 : ps[m].type = "seq_hdr" /\ ps[m].n >= h
    BY <1>6 DEF HeaderBefore
  <2>2. m \in 1 .. j - 1 /\ m \in 1 .. Len(ps)
    BY <1>3, <1>6
  <2>3. q[m] = ps[m]
    BY <1>3, <2>2
  <2> QED
    BY <2>1, <2>2, <2>3 DEF HeaderBefore
<1>7. ASSUME NEW i \in DOMAIN q PROVE q[i].n <= Len(s.history)
  <2>1. CASE i = Len(ps) + 1
    BY <1>1, <1>2, <1>3, <2>1
  <2>2. CASE i \in 1 .. Len(ps)
    BY <1>3, <1>4, <2>2 DEF InOrder
  <2> QED
    BY <1>3, <2>1, <2>2
<1>8. ASSUME NEW h \in DOMAIN s.history, s.history[h].type = "seq_hdr", h < p.n
      PROVE  HeaderBefore(ps, Len(ps) + 1, h)
  <2>1. h \in DOMAIN c.history /\ c.history[h].type = "seq_hdr"
    BY <1>1, <1>2, <1>8
  <2> QED
    BY <1>5, <2>1 DEF UpToDate
<1>9. ASSUME NEW i \in DOMAIN q, NEW h \in DOMAIN s.history,
             q[i].type \notin Headers, s.history[h].type = "seq_hdr", h < q[i].n
      PROVE  HeaderBefore(q, i, h)
  <2>1. CASE i = Len(ps) + 1
    <3>1. HeaderBefore(ps, Len(ps) + 1, h)
      BY <1>3, <1>8, <1>9, <2>1
    <3>2. i \in 1 .. Len(ps) + 1 /\ i \in 1 .. Len(q) + 1 /\ i <= i
      BY <1>3, <2>1
    <3> QED
      BY <1>6, <2>1, <3>1, <3>2
  <2>2. CASE i \in 1 .. Len(ps)
    <3>1. HeaderBefore(ps, i, h)
      BY <1>3, <1>4, <1>9, <2>2 DEF InOrder
    <3>2. i \in 1 .. Len(ps) + 1 /\ i \in 1 .. Len(q) + 1 /\ i <= i
      BY <1>3, <2>2
    <3> QED
      BY <1>6, <3>1, <3>2
  <2> QED
    BY <1>3, <2>1, <2>2
<1>10. InOrder(q, s)
  BY <1>7, <1>9 DEF InOrder
<1>11. ASSUME NEW h \in DOMAIN s.history, s.history[h].type = "seq_hdr"
       PROVE  HeaderBefore(q, Len(q) + 1, h)
  <2>1. CASE h = p.n
    <3>1. Len(ps) + 1 \in 1 .. (Len(q) + 1) - 1
      BY <1>3
    <3> QED
      BY <1>1, <1>2, <1>3, <1>11, <2>1, <3>1 DEF HeaderBefore
  <2>2. CASE h # p.n
    <3>1. h < p.n
      BY <1>1, <1>2, <2>2
    <3>2. HeaderBefore(ps, Len(ps) + 1, h)
      BY <1>8, <1>11, <3>1
    <3>3. /\ Len(ps) + 1 \in 1 .. Len(ps) + 1 /\ Len(q) + 1 \in 1 .. Len(q) + 1
          /\ Len(ps) + 1 <= Len(q) + 1
      BY <1>3
    <3> QED
      BY <1>6, <3>2, <3>3
  <2> QED
    BY <2>1, <2>2
<1>12. UpToDate(q, s)
  BY <1>11 DEF UpToDate
<1> QED
  BY <1>10, <1>12 DEF q

\* What the player w of the stream k has been sent when the packet p is through.
LEMMA PlayerGiven ==
    ASSUME NEW k \in StreamKeys, NEW type \in Types, NEW p, NEW s, MediaStep(k, type, p, s),
           Found(k) \in StreamStates, CacheInv(Found(k)), NEW w \in Writers,
           w \in Range(s.writer_map_), out[w] \in Seq(Packets), PlayerInv(w, Found(k)),
           Live(w) \/ Closed(w)
    PROVE  PlayerNext(w, s)
<1>1. /\ joined'[w] = IF joined[w] = 0 THEN p.n ELSE joined[w]
      /\ out'[w] = IF Closed(w) THEN out[w] ELSE out[w] \o Given(w, p, s)
      /\ session' = session /\ p.n # 0 /\ p \in Packets /\ s \in StreamStates
      /\ p.type = type
  BY DEF MediaStep, Packets
<1>2. joined'[w] # 0
  BY <1>1
<1>3. CacheInv(s)
  BY CacheGrows
<1>4. /\ InOrder(out[w], s)
      /\ type # "seq_hdr" /\ UpToDate(out[w], Found(k)) => UpToDate(out[w], s)
  BY OldSentInOrder DEF PlayerInv
<1>5. InOrder(out'[w], s) /\ (Live(w) => UpToDate(out'[w], s))
  <2>1. CASE Closed(w)
    BY <1>1, <1>4, <2>1 DEF Live, Closed
  <2>2. CASE ~Closed(w) /\ joined[w] = 0
    <3>1. out[w] = <<>> /\ Given(w, p, s) = WriterGop(w, s)
      BY <2>2 DEF PlayerInv, Given
    <3>2. WriterGop(w, s) \in Seq(Packets)
      BY <1>1, GopType
    <3>3. out'[w] = WriterGop(w, s)
      BY <1>1, <2>2, <3>1, <3>2
    <3>4. InOrder(WriterGop(w, s), s) /\ UpToDate(WriterGop(w, s), s)
      BY <1>1, <1>3, GopInOrder
    <3> QED
      BY <3>3, <3>4
  <2>3. CASE ~Closed(w) /\ joined[w] # 0
    <3>1. out'[w] = out[w] \o Sent(w, p)
      BY <1>1, <2>3 DEF Given
    <3>2. UpToDate(out[w], Found(k)) /\ InOrder(out[w], Found(k))
      BY <2>3 DEF PlayerInv, Live
    <3>3. CASE Sent(w, p) = <<p>>
      <4>1. InOrder(out[w] \o <<p>>, s) /\ UpToDate(out[w] \o <<p>>, s)
        BY <3>2, NextSentInOrder
      <4> QED
        BY <3>1, <3>3, <4>1
    <3>4. CASE Sent(w, p) # <<p>>
      <4>1. Sent(w, p) = <<>> /\ type = "metadata"
        <5>1. p # NoPacket
          BY <1>1 DEF NoPacket
        <5> QED
          BY <1>1, <3>4, <5>1 DEF Sent
      <4>2. out'[w] = out[w]
        BY <3>1, <4>1
      <4> QED
        BY <1>4, <3>2, <4>1, <4>2
    <3> QED
      BY <3>3, <3>4
  <2> QED
    BY <2>1, <2>2, <2>3
<1> QED
  BY <1>1, <1>2, <1>5 DEF PlayerNext, Live

\* A writer in a stream has been made: it is open, closed or no longer there.
LEMMA MayWrite ==
    ASSUME StreamsInv, NEW x \in DOMAIN streams, NEW i \in DOMAIN streams[x].writer_map_
    PROVE  LET w == streams[x].writer_map_[i] IN Live(w) \/ Closed(w) \/ Dangles(w)
<1> DEFINE w == streams[x].writer_map_[i]
<1>1. w \in Writers /\ session[Owner(w)].phase # "none"
  BY EntryType DEF StreamsInv, Registered, Holds
<1>2. session[Owner(w)] \in SessionStates
  BY <1>1, OwnerType DEF StreamsInv, TypeInv
<1> QED
  BY <1>1, <1>2 DEF SessionStates, Live, Closed, Dangles

\* A packet of a publisher goes to the players of its stream and to no other.
LEMMA MediaHeaders ==
    ASSUME StreamsInv, HeaderInv, NEW from, NEW k \in StreamKeys, NEW type \in Types,
           WriterMediaPacket(from, k, type)
    PROVE  HeaderInv'
<1>1. PICK p, s : MediaStep(k, type, p, s)
  BY WriterMediaPacketDoes DEF StreamsInv
<1>2. Found(k) \in StreamStates /\ CacheInv(Found(k))
  <2>1. CASE k \in DOMAIN streams
    <3>1. streams[k] \in StreamStates
      BY <2>1, StreamMapDef DEF StreamsInv, TypeInv
    <3> QED
      BY <2>1, <3>1 DEF Found, HeaderInv
  <2>2. CASE k \notin DOMAIN streams
    <3>1. SameMedia(NewStream(TRUE), NewStream(TRUE))
      BY DEF SameMedia
    <3> QED
      BY <2>2, <3>1, NewStreamType, NewCache DEF Found
  <2> QED
    BY <2>1, <2>2
<1>3. CacheInv(s)
  BY <1>1, <1>2, CacheGrows
<1>4. \A x \in DOMAIN streams' : CacheInv(streams'[x])
  <2>1. CacheInv(streams'[k])
    BY <1>1, <1>3, SameMediaSame DEF MediaStep
  <2>2. ASSUME NEW x \in DOMAIN streams' \ {k} PROVE CacheInv(streams'[x])
    <3>1. x \in DOMAIN streams /\ SameMedia(streams'[x], streams[x])
      BY <1>1 DEF MediaStep
    <3> QED
      BY <3>1, SameMediaSame DEF HeaderInv
  <2> QED
    BY <2>1, <2>2
<1>5. /\ s.writer_map_ = Found(k).writer_map_
      /\ DOMAIN Found(k).writer_map_ # {} => k \in DOMAIN streams /\ Found(k) = streams[k]
  <2>1. NewStream(TRUE).writer_map_ = <<>>
    BY NewStreamType
  <2>2. DOMAIN <<>> = {}
    OBVIOUS
  <2> QED
    BY <1>1, <2>1, <2>2 DEF MediaStep, Found
<1>6. ASSUME NEW x \in DOMAIN streams', NEW i \in DOMAIN streams'[x].writer_map_
      PROVE  PlayerNext(streams'[x].writer_map_[i], streams'[x])
  <2> DEFINE w == streams[x].writer_map_[i]
  <2>1. /\ x \in DOMAIN streams /\ i \in DOMAIN streams[x].writer_map_
        /\ streams'[x].writer_map_[i] = w
    BY <1>1 DEF MediaStep
  <2>2. w \in Writers /\ out[w] \in Seq(Packets)
    <3>1. w \in Writers
      BY <2>1, EntryType DEF StreamsInv
    <3> QED
      BY <3>1 DEF StreamsInv, TypeInv
  <2>3. PlayerInv(w, streams[x])
    BY <2>1 DEF HeaderInv
  <2>4. Live(w) \/ Closed(w) \/ Dangles(w)
    BY <2>1, <2>2, MayWrite
  <2>5. w \in Range(streams[x].writer_map_)
    BY <2>1 DEF Range
  <2> HIDE DEF w
  <2>6. CASE x = k
    <3>1. Found(k) = streams[x] /\ SameMedia(streams'[x], s)
      BY <1>1, <2>1, <2>6 DEF Found, MediaStep
    <3>2. w \in Range(s.writer_map_) /\ (Live(w) \/ Closed(w))
      BY <1>1, <1>5, <2>4, <2>5, <3>1 DEF MediaStep
    <3>3. PlayerNext(w, s)
      BY <1>1, <1>2, <2>2, <2>3, <3>1, <3>2, PlayerGiven
    <3>4. /\ InOrder(out'[w], s) => InOrder(out'[w], streams'[x])
          /\ UpToDate(out'[w], s) => UpToDate(out'[w], streams'[x])
      BY <3>1, SameMediaSame
    <3> QED
      BY <2>1, <3>3, <3>4 DEF PlayerNext
  <2>7. CASE x # k
    <3>1. w \notin Range(s.writer_map_)
      <4>1. ASSUME w \in Range(s.writer_map_) PROVE FALSE
        <5>1. PICK j \in DOMAIN Found(k).writer_map_ : w = Found(k).writer_map_[j]
          BY <1>5, <4>1 DEF Range
        <5>2. k \in DOMAIN streams /\ Found(k) = streams[k]
          BY <1>5, <5>1
        <5> QED
          BY <2>1, <2>7, <5>1, <5>2 DEF StreamsInv, InOneStream, w
      <4> QED
        BY <4>1
    <3>2. /\ joined'[w] = joined[w] /\ out'[w] = out[w] /\ session' = session
          /\ SameMedia(streams'[x], streams[x])
      BY <1>1, <2>2, <2>7, <3>1 DEF MediaStep
    <3>3. /\ InOrder(out[w], streams[x]) => InOrder(out[w], streams'[x])
          /\ UpToDate(out[w], streams[x]) => UpToDate(out[w], streams'[x])
      BY <3>2, SameMediaSame
    <3> QED
      BY <2>1, <2>3, <3>2, <3>3 DEF PlayerNext, PlayerInv, Live
  <2> QED
    BY <2>6, <2>7
<1>7. \A x \in DOMAIN streams' : \A i \in DOMAIN streams'[x].writer_map_ :
          PlayerInv(streams[x].writer_map_[i], streams[x])'
  BY <1>6 DEF PlayerNext, PlayerInv, Live
<1>8. \A x \in DOMAIN streams' : CacheInv(streams[x])'
  BY <1>4
<1>9. Fresh'
  <2>1. ASSUME NEW w \in Writers, Unborn(w) PROVE w \notin Range(s.writer_map_)
    <3>1. ASSUME w \in Range(s.writer_map_) PROVE FALSE
      <4>1. PICK j \in DOMAIN Found(k).writer_map_ : w = Found(k).writer_map_[j]
        BY <1>5, <3>1 DEF Range
      <4>2. k \in DOMAIN streams /\ Found(k) = streams[k]
        BY <1>5, <4>1
      <4> QED
        BY <2>1, <4>1, <4>2 DEF StreamsInv, Registered, Holds
    <3> QED
      BY <3>1
  <2>2. \A w \in Writers : w \notin Range(s.writer_map_) =>
            joined'[w] = joined[w] /\ out'[w] = out[w]
    BY <1>1 DEF MediaStep
  <2>3. \A w \in Writers : Unborn(w)' => Unborn(w)
    BY <1>1 DEF MediaStep, Unborn
  <2> QED
    BY <2>1, <2>2, <2>3 DEF HeaderInv, Fresh
<1> QED
  BY <1>7, <1>8, <1>9 DEF HeaderInv

\* Nothing was sent before the first stream.
LEMMA HeaderInit ==
    ASSUME Init
    PROVE  HeaderInv
<1>1. DOMAIN streams = {}
  BY DEF Init
<1>2. Fresh
  BY DEF Init, Fresh
<1> QED
  BY <1>1, <1>2 DEF HeaderInv

\* Every step keeps the headers in front.
LEMMA HeaderStep ==
    ASSUME StreamsInv, StreamsInv', HeaderInv, [Next]_vars
    PROVE  HeaderInv'
<1>1. CASE Publishes
  BY <1>1, MediaHeaders, Zenon DEF Publishes
<1>2. CASE \E D : Silent(D)
  BY <1>2, SilentSends, NothingSent, Zenon
<1>3. CASE Undefines
  BY <1>3 DEF Undefines, HeaderInv, Fresh, PlayerInv, Unborn, Live
<1>4. CASE UNCHANGED vars
  BY <1>4 DEF vars, HeaderInv, Fresh, PlayerInv, Unborn, Live
<1> QED
  BY <1>1, <1>2, <1>3, <1>4, KindsOfSteps, Zenon

\* A frame reaches a player only behind a sequence header at least as new as the
\* last one given to the MediaStream before the frame, and the MediaStream has the
\* header published under its key until an RTMP publisher of the key closes,
\* whatever the order in which sessions publish, play, fail, close and time out.
THEOREM HeadersComeFirstAlways == Spec => []HeadersComeFirst
<1>1. Init => HeaderInv
  BY HeaderInit
<1>2. StreamsInv /\ StreamsInv' /\ HeaderInv /\ [Next]_vars => HeaderInv'
  BY HeaderStep
<1>3. StreamsInv /\ HeaderInv => HeadersComeFirst
  <2> SUFFICES ASSUME StreamsInv, HeaderInv, NEW k \in DOMAIN streams,
                      NEW w \in Range(streams[k].writer_map_)
               PROVE  InOrder(out[w], streams[k])
    BY DEF HeadersComeFirst, InOrder, HeaderBefore, StreamsInv, Headed
  <2>1. PICK i \in DOMAIN streams[k].writer_map_ : w = streams[k].writer_map_[i]
    BY DEF Range
  <2> QED
    BY <2>1 DEF HeaderInv, PlayerInv
<1> QED
  BY <1>1, <1>2, <1>3, StreamsAlways, PTL DEF Spec

-----------------------------------------------------------------------------
(* Whole groups of pictures *)

\* The places of the frames of ps, and the frames.
FramePlaces(ps) == {i \in DOMAIN ps : ps[i].type \notin Headers}

FramesOf(ps) == {ps[i] : i \in FramePlaces(ps)}

\* The frames come in the order in which they were published.
Rising(ps) == \A i, j \in FramePlaces(ps) : i < j => ps[i].n < ps[j].n

\* The frames of the stream c that a player who joined with packet j is due.
DueOf(c, j) ==
    {h \in DOMAIN c.history :
        /\ c.history[h].type \notin Headers
        /\ \A g \in h + 1 .. j : c.history[g].type # "key"}

DueFrames(c, j) == {c.history[h] : h \in DueOf(c, j)}

\* The sequence ps has all of them, no other, once each and in order.
Whole(ps, c, j) == FramesOf(ps) = DueFrames(c, j) /\ Rising(ps)

\* A player that joined has been sent what it is due, unless its session is over.
PlayerWhole(w, c) ==
    /\ joined[w] <= Len(c.history)
    /\ joined[w] # 0 /\ Live(w) => Whole(out[w], c, joined[w])

\* The cache has what a player is due that joins now.
GopInv ==
    \A k \in DOMAIN streams :
        /\ Whole(streams[k].packet_list, streams[k], Len(streams[k].history))
        /\ \A i \in DOMAIN streams[k].writer_map_ :
               PlayerWhole(streams[k].writer_map_[i], streams[k])

\* The frames S and the packet p, if that is a frame.
WithPacket(S, p) == S \cup (IF p.type \in Headers THEN {} ELSE {p})

\* One packet more at the end of a sequence.
LEMMA AppendFrames ==
    ASSUME NEW ps \in Seq(Packets), NEW p \in Packets,
           \A i \in DOMAIN ps : ps[i].n < p.n, Rising(ps)
    PROVE  /\ FramesOf(ps \o <<p>>) = WithPacket(FramesOf(ps), p)
           /\ Rising(ps \o <<p>>)
<1> DEFINE q == ps \o <<p>>
           N == Len(ps)
<1>1. /\ N \in Nat /\ DOMAIN ps = 1 .. N /\ DOMAIN q = 1 .. N + 1
      /\ \A i \in 1 .. N : q[i] = ps[i]
      /\ q[N + 1] = p
  OBVIOUS
<1> HIDE DEF q, N
<1>2. /\ \A i \in DOMAIN q : i \in DOMAIN ps \/ i = N + 1
      /\ \A i \in DOMAIN ps : i \in DOMAIN q /\ q[i] = ps[i] /\ i < N + 1 /\ i # N + 1
      /\ N + 1 \in DOMAIN q
  BY <1>1
<1>3. FramePlaces(q) = FramePlaces(ps) \cup (IF p.type \in Headers THEN {} ELSE {N + 1})
  BY <1>1, <1>2 DEF FramePlaces
<1>4. FramesOf(q) = FramesOf(ps) \cup (IF p.type \in Headers THEN {} ELSE {p})
  <2>1. \A i \in FramePlaces(ps) : q[i] = ps[i]
    BY <1>2 DEF FramePlaces
  <2> QED
    BY <1>1, <1>3, <2>1 DEF FramesOf
<1>5. ASSUME NEW i \in FramePlaces(q), NEW j \in FramePlaces(q), i < j
      PROVE  q[i].n < q[j].n
  <2>1. i \in DOMAIN q /\ j \in DOMAIN q /\ i \in Nat /\ j \in Nat
    BY <1>1 DEF FramePlaces
  <2>2. i # N + 1
    BY <1>1, <1>5, <2>1
  <2>3. i \in FramePlaces(ps) /\ i \in DOMAIN ps /\ q[i] = ps[i]
    BY <1>2, <2>1, <2>2 DEF FramePlaces
  <2>4. CASE j = N + 1
    BY <1>1, <2>3, <2>4
  <2>5. CASE j # N + 1
    <3>1. j \in FramePlaces(ps) /\ q[j] = ps[j]
      BY <1>2, <2>1, <2>5 DEF FramePlaces
    <3> QED
      BY <1>5, <2>3, <3>1 DEF Rising
  <2> QED
    BY <2>4, <2>5
<1>6. Rising(q)
  BY <1>5 DEF Rising
<1> QED
  BY <1>4, <1>6 DEF q, WithPacket

\* Headers in front of a sequence add no frame to it.
LEMMA HeadersInFront ==
    ASSUME NEW a \in Seq(Packets), NEW l \in Seq(Packets),
           \A i \in DOMAIN a : a[i].type \in Headers, Rising(l)
    PROVE  FramesOf(a \o l) = FramesOf(l) /\ Rising(a \o l)
<1> DEFINE q == a \o l
           M == Len(a)
           N == Len(l)
<1>1. /\ M \in Nat /\ N \in Nat
      /\ DOMAIN a = 1 .. M /\ DOMAIN l = 1 .. N /\ DOMAIN q = 1 .. M + N
      /\ \A i \in 1 .. M : q[i] = a[i]
      /\ \A i \in 1 .. N : q[M + i] = l[i]
  OBVIOUS
<1> HIDE DEF q, M, N
<1>2. ASSUME NEW i \in FramePlaces(q)
      PROVE  i - M \in FramePlaces(l) /\ q[i] = l[i - M] /\ i \in Nat
  <2>1. i \in 1 .. M + N /\ q[i].type \notin Headers
    BY <1>1 DEF FramePlaces
  <2>2. ~(i \in 1 .. M)
    BY <1>1, <2>1
  <2>3. i - M \in 1 .. N /\ i = M + (i - M)
    BY <1>1, <2>1, <2>2
  <2>4. q[i] = l[i - M]
    BY <1>1, <2>3
  <2> QED
    BY <1>1, <2>1, <2>3, <2>4 DEF FramePlaces
<1>3. ASSUME NEW i \in FramePlaces(l)
      PROVE  M + i \in FramePlaces(q) /\ q[M + i] = l[i]
  <2>1. i \in 1 .. N /\ l[i].type \notin Headers
    BY <1>1 DEF FramePlaces
  <2>2. M + i \in 1 .. M + N /\ q[M + i] = l[i]
    BY <1>1, <2>1
  <2> QED
    BY <1>1, <2>1, <2>2 DEF FramePlaces
<1>4. FramesOf(q) = FramesOf(l)
  BY <1>2, <1>3 DEF FramesOf
<1>5. ASSUME NEW i \in FramePlaces(q), NEW j \in FramePlaces(q), i < j
      PROVE  q[i].n < q[j].n
  <2>1. i - M < j - M
    BY <1>1, <1>2, <1>5
  <2> QED
    BY <1>2, <2>1 DEF Rising
<1>6. Rising(q)
  BY <1>5 DEF Rising
<1> QED
  BY <1>4, <1>6 DEF q

\* The whole cache has the frames of packet_list.
LEMMA GopWhole ==
    ASSUME NEW w, NEW c \in StreamStates, CacheInv(c), NEW j, Whole(c.packet_list, c, j)
    PROVE  Whole(WriterGop(w, c), c, j)
<1> DEFINE A == Sent(w, c.metadata_hdr_)
           B == Sent(w, c.seq_hdr_)
           H == A \o B
           L == c.packet_list
<1>1. /\ A \in Seq(Packets) /\ B \in Seq(Packets) /\ L \in Seq(Packets)
      /\ A = <<>> \/ (c.metadata_hdr_ # NoPacket /\ A = <<c.metadata_hdr_>>)
      /\ B = <<>> \/ (c.seq_hdr_ # NoPacket /\ B = <<c.seq_hdr_>>)
  BY SentType DEF StreamStates
<1>2. /\ \A i \in DOMAIN A : A[i].type \in Headers
      /\ \A i \in DOMAIN B : B[i].type \in Headers
  BY <1>1 DEF CacheInv, Headers
<1>3. WriterGop(w, c) = H \o L
  BY DEF WriterGop
<1> HIDE DEF A, B
<1>4. H \in Seq(Packets) /\ \A i \in DOMAIN H : H[i].type \in Headers
  <2>1. /\ Len(A) \in Nat /\ Len(B) \in Nat /\ DOMAIN H = 1 .. Len(A) + Len(B)
        /\ DOMAIN A = 1 .. Len(A) /\ DOMAIN B = 1 .. Len(B)
        /\ \A i \in 1 .. Len(A) : H[i] = A[i]
        /\ \A i \in Len(A) + 1 .. Len(A) + Len(B) : H[i] = B[i - Len(A)]
        /\ H \in Seq(Packets)
    BY <1>1
  <2> HIDE DEF H
  <2>2. ASSUME NEW i \in DOMAIN H PROVE H[i].type \in Headers
    <3>1. CASE i \in 1 .. Len(A)
      BY <1>2, <2>1, <3>1
    <3>2. CASE ~(i \in 1 .. Len(A))
      <4>1. i \in Len(A) + 1 .. Len(A) + Len(B) /\ i - Len(A) \in DOMAIN B
        BY <2>1, <3>2
      <4> QED
        BY <1>2, <2>1, <4>1
    <3> QED
      BY <3>1, <3>2
  <2> QED
    BY <2>1, <2>2
<1> HIDE DEF H, L
<1>5. FramesOf(L) = DueFrames(c, j) /\ Rising(L)
  BY DEF Whole, L
<1>6. FramesOf(H \o L) = FramesOf(L) /\ Rising(H \o L)
  BY <1>1, <1>4, <1>5, HeadersInFront
<1> QED
  BY <1>3, <1>5, <1>6 DEF Whole

\* What a player is due when the packet p is through: p as well, if it is a
\* frame; one that joins with p, no key frame, is due as much as one before it.
LEMMA DueGrows ==
    ASSUME NEW k \in StreamKeys, NEW type \in Types, NEW p, NEW s, MediaStep(k, type, p, s),
           Found(k) \in StreamStates, CacheInv(Found(k))
    PROVE  /\ \A j \in 0 .. Len(Found(k).history) :
                  DueFrames(s, j) = WithPacket(DueFrames(Found(k), j), p)
           /\ type # "key" => DueFrames(s, p.n) = DueFrames(s, Len(Found(k).history))
<1> DEFINE c == Found(k)
           n == Len(c.history)
<1>1. /\ p.n = n + 1 /\ p.type = type /\ s.history[n + 1] = p
      /\ DOMAIN s.history = DOMAIN c.history \cup {n + 1}
      /\ \A h \in DOMAIN c.history : s.history[h] = c.history[h]
  BY CacheGrows DEF MediaStep
<1>2. n \in Nat /\ DOMAIN c.history = 1 .. n
  BY DEF StreamStates
<1> HIDE DEF c, n
<1>3. ASSUME NEW j \in 0 .. n
      PROVE  DueOf(s, j) = DueOf(c, j) \cup (IF type \in Headers THEN {} ELSE {n + 1})
  <2>1. ASSUME NEW h \in 1 .. n PROVE h \in DueOf(s, j) <=> h \in DueOf(c, j)
    <3>1. \A g \in h + 1 .. j : g \in 1 .. n
      BY <1>2, <1>3
    <3>2. \A g \in h + 1 .. j : s.history[g] = c.history[g]
      BY <1>1, <1>2, <3>1
    <3> QED
      BY <1>1, <1>2, <3>2 DEF DueOf
  <2>2. n + 1 \in DueOf(s, j) <=> type \notin Headers
    <3>1. (n + 1) + 1 .. j = {}
      BY <1>2, <1>3
    <3> QED
      BY <1>1, <3>1 DEF DueOf
  <2>3. DueOf(s, j) \subseteq 1 .. n \cup {n + 1} /\ DueOf(c, j) \subseteq 1 .. n
    BY <1>1, <1>2 DEF DueOf
  <2>4. n + 1 \notin 1 .. n
    BY <1>2
  <2> QED
    BY <2>1, <2>2, <2>3, <2>4
<1>4. ASSUME NEW j \in 0 .. n
      PROVE  DueFrames(s, j) = WithPacket(DueFrames(c, j), p)
  <2>1. \A h \in DueOf(c, j) : s.history[h] = c.history[h]
    BY <1>1 DEF DueOf
  <2> QED
    BY <1>1, <1>3, <2>1 DEF DueFrames, WithPacket
<1>5. ASSUME type # "key" PROVE DueFrames(s, n + 1) = DueFrames(s, n)
  <2>1. ASSUME NEW h \in DOMAIN s.history
        PROVE  (\A g \in h + 1 .. n + 1 : s.history[g].type # "key")
                   <=> (\A g \in h + 1 .. n : s.history[g].type # "key")
    <3>1. h \in Nat
      BY <1>1, <1>2
    <3>2. \A g \in h + 1 .. n : g \in h + 1 .. n + 1
      BY <1>2, <3>1
    <3>3. \A g \in h + 1 .. n + 1 : g \in h + 1 .. n \/ g = n + 1
      BY <1>2, <3>1
    <3>4. s.history[n + 1].type # "key"
      BY <1>1, <1>5
    <3> QED
      BY <3>2, <3>3, <3>4
  <2>2. DueOf(s, n + 1) = DueOf(s, n)
    BY <2>1 DEF DueOf
  <2> QED
    BY <2>2 DEF DueFrames
<1> QED
  BY <1>1, <1>4, <1>5 DEF c, n

\* A player that joins with a key frame is due that frame alone.
LEMMA KeyStarts ==
    ASSUME NEW k \in StreamKeys, NEW p, NEW s, MediaStep(k, "key", p, s),
           Found(k) \in StreamStates, CacheInv(Found(k))
    PROVE  Whole(s.packet_list, s, p.n)
<1> DEFINE c == Found(k)
           n == Len(c.history)
<1>1. /\ p.n = n + 1 /\ p.type = "key" /\ s.history[n + 1] = p
      /\ DOMAIN s.history = DOMAIN c.history \cup {n + 1}
      /\ \A h \in DOMAIN c.history : s.history[h] = c.history[h]
  <2>1. "key" \in Types
    BY DEF Types
  <2> QED
    BY <2>1, CacheGrows DEF MediaStep
<1>2. n \in Nat /\ DOMAIN c.history = 1 .. n
  BY DEF StreamStates
<1>3. s.packet_list = <<p>>
  BY DEF MediaStep
<1> HIDE DEF c, n
<1>4. ASSUME NEW h \in DOMAIN c.history PROVE h \notin DueOf(s, n + 1)
  <2>1. n + 1 \in h + 1 .. n + 1
    BY <1>2
  <2> QED
    BY <1>1, <2>1 DEF DueOf
<1>5. n + 1 \in DueOf(s, n + 1)
  <2>1. (n + 1) + 1 .. n + 1 = {}
    BY <1>2
  <2> QED
    BY <1>1, <2>1 DEF DueOf, Headers
<1>6. DueOf(s, n + 1) \subseteq DOMAIN c.history \cup {n + 1}
  BY <1>1 DEF DueOf
<1>7. DueOf(s, n + 1) = {n + 1}
  BY <1>4, <1>5, <1>6
<1>8. DueFrames(s, n + 1) = {p}
  BY <1>1, <1>7 DEF DueFrames
<1>9. DOMAIN <<p>> = {1} /\ <<p>>[1] = p
  OBVIOUS
<1>10. FramePlaces(<<p>>) = {1}
  BY <1>1, <1>9 DEF FramePlaces, Headers
<1>11. FramesOf(<<p>>) = {p} /\ Rising(<<p>>)
  BY <1>9, <1>10 DEF FramesOf, Rising
<1> QED
  BY <1>1, <1>3, <1>8, <1>11 DEF Whole

\* A sequence that had all the frames that were due has them all with p behind.
LEMMA NextSentWhole ==
    ASSUME NEW k \in StreamKeys, NEW type \in Types, NEW p, NEW s, MediaStep(k, type, p, s),
           Found(k) \in StreamStates, CacheInv(Found(k)),
           NEW ps \in Seq(Packets), \A i \in DOMAIN ps : ps[i].n <= Len(Found(k).history),
           NEW j \in 0 .. Len(Found(k).history), Whole(ps, Found(k), j)
    PROVE  /\ Whole(ps \o <<p>>, s, j)
           /\ type \in Headers => Whole(ps, s, j)
<1>1. p \in Packets /\ p.n = Len(Found(k).history) + 1 /\ p.type = type
  BY DEF MediaStep
<1>2. \A i \in DOMAIN ps : ps[i].n < p.n
  <2>1. \A i \in DOMAIN ps : ps[i] \in Packets
    OBVIOUS
  <2>2. \A i \in DOMAIN ps : ps[i].n \in Nat
    BY <2>1 DEF Packets
  <2>3. Len(Found(k).history) \in Nat
    BY DEF StreamStates
  <2> QED
    BY <1>1, <2>2, <2>3
<1>3. Rising(ps) /\ FramesOf(ps) = DueFrames(Found(k), j)
  BY DEF Whole
<1>4. FramesOf(ps \o <<p>>) = WithPacket(FramesOf(ps), p) /\ Rising(ps \o <<p>>)
  BY <1>1, <1>2, <1>3, AppendFrames
<1>5. DueFrames(s, j) = WithPacket(DueFrames(Found(k), j), p)
  BY DueGrows
<1>6. type \in Headers => DueFrames(s, j) = FramesOf(ps)
  BY <1>1, <1>3, <1>5 DEF WithPacket
<1> QED
  BY <1>3, <1>4, <1>5, <1>6 DEF Whole

\* The cache has what a player is due that joins with the packet p.
LEMMA CacheWholeGrows ==
    ASSUME NEW k \in StreamKeys, NEW type \in Types, NEW p, NEW s, MediaStep(k, type, p, s),
           Found(k) \in StreamStates, CacheInv(Found(k)),
           Whole(Found(k).packet_list, Found(k), Len(Found(k).history))
    PROVE  Whole(s.packet_list, s, Len(s.history))
<1> DEFINE n == Len(Found(k).history)
           l == Found(k).packet_list
<1>1. l \in Seq(Packets) /\ n \in Nat /\ n \in 0 .. n /\ p \in Packets /\ p.type = type
  BY DEF StreamStates, MediaStep
<1>2. \A i \in DOMAIN l : l[i].n <= n
  BY DEF CacheInv
<1>3. Len(s.history) = p.n
  BY CacheGrows
<1>4. CASE type = "key"
  <2>1. MediaStep(k, "key", p, s)
    BY <1>4
  <2> QED
    BY <1>3, <2>1, KeyStarts
<1>5. CASE type # "key"
  <2>1. DueFrames(s, p.n) = DueFrames(s, n)
    BY <1>5, DueGrows
  <2>2. /\ Whole(l \o <<p>>, s, n)
        /\ type \in Headers => Whole(l, s, n)
    BY <1>1, <1>2, NextSentWhole
  <2>3. Append(l, p) = l \o <<p>>
    BY <1>1
  <2>4. Whole(s.packet_list, s, n)
    <3>1. CASE type = "inter"
      BY <2>2, <2>3, <3>1 DEF MediaStep
    <3>2. CASE type \in Headers
      BY <2>2, <3>2 DEF MediaStep
    <3> QED
      BY <1>5, <3>1, <3>2 DEF Types, Headers
  <2> QED
    BY <1>3, <2>1, <2>4 DEF Whole
<1> QED
  BY <1>4, <1>5

\* The same of the player w, in the state after the step.
PlayerWholeNext(w, c) ==
    /\ joined'[w] <= Len(c.history)
    /\ joined'[w] # 0 /\ session'[Owner(w)].phase = "open" =>
           Whole(out'[w], c, joined'[w])

\* What the player w of the stream k has been sent when the packet p is through.
LEMMA PlayerGivenWhole ==
    ASSUME NEW k \in StreamKeys, NEW type \in Types, NEW p, NEW s, MediaStep(k, type, p, s),
           Found(k) \in StreamStates, CacheInv(Found(k)),
           Whole(Found(k).packet_list, Found(k), Len(Found(k).history)),
           NEW w \in Writers, w \in Range(s.writer_map_), out[w] \in Seq(Packets),
           joined[w] \in Nat, PlayerInv(w, Found(k)), PlayerWhole(w, Found(k))
    PROVE  PlayerWholeNext(w, s)
<1> DEFINE n == Len(Found(k).history)
<1>1. /\ joined'[w] = IF joined[w] = 0 THEN p.n ELSE joined[w]
      /\ out'[w] = IF Closed(w) THEN out[w] ELSE out[w] \o Given(w, p, s)
      /\ session' = session /\ p \in Packets /\ p.type = type /\ s \in StreamStates
  BY DEF MediaStep
<1>2. Len(s.history) = n + 1 /\ p.n = n + 1 /\ n \in Nat /\ CacheInv(s)
  <2>1. n \in Nat
    BY DEF StreamStates
  <2> QED
    BY <2>1, CacheGrows
<1>3. joined[w] \in 0 .. n
  BY <1>2 DEF PlayerWhole
<1>4. joined'[w] <= Len(s.history)
  BY <1>1, <1>2, <1>3
<1>5. ASSUME Live(w), ~Closed(w) PROVE Whole(out'[w], s, joined'[w])
  <2>1. CASE joined[w] = 0
    <3>1. out[w] = <<>> /\ Given(w, p, s) = WriterGop(w, s)
      BY <2>1 DEF PlayerInv, Given
    <3>2. WriterGop(w, s) \in Seq(Packets)
      BY <1>1, GopType
    <3>3. out'[w] = WriterGop(w, s) /\ joined'[w] = Len(s.history)
      BY <1>1, <1>2, <1>5, <2>1, <3>1, <3>2
    <3>4. Whole(s.packet_list, s, Len(s.history))
      BY CacheWholeGrows
    <3>5. Whole(WriterGop(w, s), s, Len(s.history))
      BY <1>1, <1>2, <3>4, GopWhole
    <3> QED
      BY <3>3, <3>5
  <2>2. CASE joined[w] # 0
    <3>1. out'[w] = out[w] \o Sent(w, p) /\ joined'[w] = joined[w]
      BY <1>1, <1>5, <2>2 DEF Given
    <3>2. Whole(out[w], Found(k), joined[w])
      BY <1>5, <2>2 DEF PlayerWhole
    <3>3. \A i \in DOMAIN out[w] : out[w][i].n <= n
      BY DEF PlayerInv, InOrder
    <3>4. /\ Whole(out[w] \o <<p>>, s, joined[w])
          /\ type \in Headers => Whole(out[w], s, joined[w])
      BY <1>3, <3>2, <3>3, NextSentWhole
    <3>5. CASE Sent(w, p) = <<p>>
      BY <3>1, <3>4, <3>5
    <3>6. CASE Sent(w, p) # <<p>>
      <4>1. Sent(w, p) = <<>> /\ type = "metadata"
        <5>1. p # NoPacket
          BY <1>1 DEF NoPacket, Packets
        <5> QED
          BY <1>1, <3>6, <5>1 DEF Sent
      <4>2. out'[w] = out[w]
        BY <3>1, <4>1
      <4> QED
        BY <3>1, <3>4, <4>1, <4>2 DEF Headers
    <3> QED
      BY <3>5, <3>6
  <2> QED
    BY <2>1, <2>2
<1>6. Live(w) => ~Closed(w)
  BY DEF Live, Closed
<1> QED
  BY <1>1, <1>4, <1>5, <1>6 DEF PlayerWholeNext, Live

\* The media of a stream decide what is due in it.
LEMMA SameMediaWhole ==
    ASSUME NEW a, NEW b, SameMedia(a, b)
    PROVE  /\ \A ps, j : Whole(ps, b, j) => Whole(ps, a, j)
           /\ a.history = b.history /\ a.packet_list = b.packet_list
<1>1. a.history = b.history /\ a.packet_list = b.packet_list
  BY DEF SameMedia
<1>2. \A j : DueFrames(a, j) = DueFrames(b, j)
  BY <1>1 DEF DueFrames, DueOf
<1> QED
  BY <1>1, <1>2 DEF Whole

\* Nothing is due in a new stream, and nothing cached.
LEMMA NewWhole ==
    ASSUME NEW b \in BOOLEAN, NEW c, SameMedia(c, NewStream(b))
    PROVE  Whole(c.packet_list, c, Len(c.history)) /\ Len(c.history) = 0
<1>1. c.packet_list = <<>> /\ c.history = <<>>
  BY NewStreamType DEF SameMedia
<1>2. DOMAIN <<>> = {} /\ Len(<<>>) = 0
  OBVIOUS
<1>3. DueOf(c, 0) = {} /\ FramePlaces(<<>>) = {}
  BY <1>1, <1>2 DEF DueOf, FramePlaces
<1> QED
  BY <1>1, <1>2, <1>3 DEF Whole, DueFrames, FramesOf, Rising

\* A step that sends nothing changes nothing of what is due.
LEMMA NothingDue ==
    ASSUME StreamsInv, StreamsInv', GopInv, SilentStep
    PROVE  GopInv'
<1>1. ASSUME NEW x \in DOMAIN streams'
      PROVE  Whole(streams'[x].packet_list, streams'[x], Len(streams'[x].history))
  <2>1. CASE x \in DOMAIN streams /\ SameMedia(streams'[x], streams[x])
    <3>1. Whole(streams[x].packet_list, streams[x], Len(streams[x].history))
      BY <2>1 DEF GopInv
    <3> QED
      BY <2>1, <3>1, SameMediaWhole
  <2>2. CASE SameMedia(streams'[x], NewStream(FALSE))
    BY <2>2, NewWhole
  <2> QED
    BY <2>1, <2>2 DEF SilentStep
<1>2. ASSUME NEW x \in DOMAIN streams', NEW i \in DOMAIN streams'[x].writer_map_
      PROVE  PlayerWholeNext(streams'[x].writer_map_[i], streams'[x])
  <2> DEFINE w == streams'[x].writer_map_[i]
  <2>1. CASE /\ x \in DOMAIN streams /\ i \in DOMAIN streams[x].writer_map_
             /\ w = streams[x].writer_map_[i] /\ KeptPlayer(streams[x].writer_map_[i])
             /\ SameMedia(streams'[x], streams[x])
    <3>1. PlayerWhole(w, streams[x])
      BY <2>1 DEF GopInv
    <3>2. KeptPlayer(w)
      BY <2>1
    <3> HIDE DEF w
    <3>3. /\ streams'[x].history = streams[x].history
          /\ \A j : Whole(out[w], streams[x], j) => Whole(out[w], streams'[x], j)
      BY <2>1, SameMediaWhole
    <3>4. PlayerWholeNext(w, streams'[x])
      BY <3>1, <3>2, <3>3 DEF PlayerWhole, PlayerWholeNext, KeptPlayer
    <3> QED
      BY <3>4 DEF w
  <2>2. CASE Newcomer(w)
    <3>1. streams'[x].history \in Seq(Packets)
      <4>1. streams' \in StreamMaps
        BY DEF StreamsInv, TypeInv
      <4>2. streams'[x] \in StreamStates
        BY <4>1, StreamMapDef
      <4> QED
        BY <4>2 DEF StreamStates
    <3>2. Len(streams'[x].history) \in Nat
      BY <3>1
    <3> HIDE DEF w
    <3>3. PlayerWholeNext(w, streams'[x])
      BY <2>2, <3>2 DEF Newcomer, PlayerWholeNext
    <3> QED
      BY <3>3 DEF w
  <2> QED
    BY <2>1, <2>2 DEF SilentStep
<1>3. \A x \in DOMAIN streams' : \A i \in DOMAIN streams'[x].writer_map_ :
          PlayerWhole(streams[x].writer_map_[i], streams[x])'
  BY <1>2 DEF PlayerWholeNext, PlayerWhole, Live
<1> QED
  BY <1>1, <1>3 DEF GopInv

\* A packet of a publisher is due to the players of its stream and to no other.
LEMMA MediaWhole ==
    ASSUME StreamsInv, HeaderInv, GopInv, NEW from, NEW k \in StreamKeys,
           NEW type \in Types, WriterMediaPacket(from, k, type)
    PROVE  GopInv'
<1>1. PICK p, s : MediaStep(k, type, p, s)
  BY WriterMediaPacketDoes DEF StreamsInv
<1>2. /\ Found(k) \in StreamStates /\ CacheInv(Found(k))
      /\ Whole(Found(k).packet_list, Found(k), Len(Found(k).history))
  <2>1. CASE k \in DOMAIN streams
    <3>1. streams[k] \in StreamStates
      BY <2>1, StreamMapDef DEF StreamsInv, TypeInv
    <3> QED
      BY <2>1, <3>1 DEF Found, HeaderInv, GopInv
  <2>2. CASE k \notin DOMAIN streams
    <3>1. SameMedia(NewStream(TRUE), NewStream(TRUE))
      BY DEF SameMedia
    <3> QED
      BY <2>2, <3>1, NewStreamType, NewCache, NewWhole DEF Found
  <2> QED
    BY <2>1, <2>2
<1>3. Whole(s.packet_list, s, Len(s.history))
  BY <1>1, <1>2, CacheWholeGrows
<1>4. ASSUME NEW x \in DOMAIN streams'
      PROVE  Whole(streams'[x].packet_list, streams'[x], Len(streams'[x].history))
  <2>1. CASE x = k
    <3>1. SameMedia(streams'[x], s)
      BY <1>1, <2>1 DEF MediaStep
    <3> QED
      BY <1>3, <3>1, SameMediaWhole
  <2>2. CASE x # k
    <3>1. x \in DOMAIN streams /\ SameMedia(streams'[x], streams[x])
      BY <1>1, <2>2 DEF MediaStep
    <3>2. Whole(streams[x].packet_list, streams[x], Len(streams[x].history))
      BY <3>1 DEF GopInv
    <3> QED
      BY <3>1, <3>2, SameMediaWhole
  <2> QED
    BY <2>1, <2>2
<1>5. /\ s.writer_map_ = Found(k).writer_map_
      /\ DOMAIN Found(k).writer_map_ # {} => k \in DOMAIN streams /\ Found(k) = streams[k]
  <2>1. NewStream(TRUE).writer_map_ = <<>>
    BY NewStreamType
  <2>2. DOMAIN <<>> = {}
    OBVIOUS
  <2> QED
    BY <1>1, <2>1, <2>2 DEF MediaStep, Found
<1>6. ASSUME NEW x \in DOMAIN streams', NEW i \in DOMAIN streams'[x].writer_map_
      PROVE  PlayerWholeNext(streams'[x].writer_map_[i], streams'[x])
  <2> DEFINE w == streams[x].writer_map_[i]
  <2>1. /\ x \in DOMAIN streams /\ i \in DOMAIN streams[x].writer_map_
        /\ streams'[x].writer_map_[i] = w
    BY <1>1 DEF MediaStep
  <2>2. w \in Writers /\ out[w] \in Seq(Packets) /\ joined[w] \in Nat
    <3>1. w \in Writers
      BY <2>1, EntryType DEF StreamsInv
    <3> QED
      BY <3>1 DEF StreamsInv, TypeInv
  <2>3. PlayerInv(w, streams[x]) /\ PlayerWhole(w, streams[x])
    BY <2>1 DEF HeaderInv, GopInv
  <2>5. w \in Range(streams[x].writer_map_)
    BY <2>1 DEF Range
  <2> HIDE DEF w
  <2>6. CASE x = k
    <3>1. Found(k) = streams[x] /\ SameMedia(streams'[x], s)
      BY <1>1, <2>1, <2>6 DEF Found, MediaStep
    <3>2. w \in Range(s.writer_map_)
      BY <1>5, <2>5, <3>1
    <3>3. PlayerWholeNext(w, s)
      BY <1>1, <1>2, <2>2, <2>3, <3>1, <3>2, PlayerGivenWhole
    <3>4. /\ streams'[x].history = s.history
          /\ \A j : Whole(out'[w], s, j) => Whole(out'[w], streams'[x], j)
      BY <3>1, SameMediaWhole
    <3> QED
      BY <2>1, <3>3, <3>4 DEF PlayerWholeNext
  <2>7. CASE x # k
    <3>1. ASSUME w \in Range(s.writer_map_) PROVE FALSE
      <4>1. PICK j \in DOMAIN Found(k).writer_map_ : w = Found(k).writer_map_[j]
        BY <1>5, <3>1 DEF Range
      <4>2. k \in DOMAIN streams /\ Found(k) = streams[k]
        BY <1>5, <4>1
      <4> QED
        BY <2>1, <2>7, <4>1, <4>2 DEF StreamsInv, InOneStream, w
    <3>2. /\ joined'[w] = joined[w] /\ out'[w] = out[w] /\ session' = session
          /\ SameMedia(streams'[x], streams[x])
      BY <1>1, <2>2, <2>7, <3>1 DEF MediaStep
    <3>3. /\ streams'[x].history = streams[x].history
          /\ \A j : Whole(out[w], streams[x], j) => Whole(out[w], streams'[x], j)
      BY <3>2, SameMediaWhole
    <3> QED
      BY <2>1, <2>3, <3>2, <3>3 DEF PlayerWholeNext, PlayerWhole, Live
  <2> QED
    BY <2>6, <2>7
<1>7. \A x \in DOMAIN streams' : \A i \in DOMAIN streams'[x].writer_map_ :
          PlayerWhole(streams[x].writer_map_[i], streams[x])'
  BY <1>6 DEF PlayerWholeNext, PlayerWhole, Live
<1> QED
  BY <1>4, <1>7 DEF GopInv

\* Every step keeps the groups whole.
LEMMA GopStep ==
    ASSUME StreamsInv, StreamsInv', HeaderInv, GopInv, [Next]_vars
    PROVE  GopInv'
<1>1. CASE Publishes
  BY <1>1, MediaWhole, Zenon DEF Publishes
<1>2. CASE \E D : Silent(D)
  BY <1>2, SilentSends, NothingDue, Zenon
<1>3. CASE Undefines
  BY <1>3 DEF Undefines, GopInv, PlayerWhole, Live
<1>4. CASE UNCHANGED vars
  BY <1>4 DEF vars, GopInv, PlayerWhole, Live
<1> QED
  BY <1>1, <1>2, <1>3, <1>4, KindsOfSteps, Zenon

\* A player in a stream has been sent every frame since the last key frame before
\* it joined, each once and in order, and no other, whatever sessions publish to
\* the stream, play it, fail, close and time out meanwhile.
THEOREM PlayersSeeWholeGopsAlways == Spec => []PlayersSeeWholeGops
<1>1. Init => HeaderInv /\ GopInv
  <2>1. Init => DOMAIN streams = {}
    BY DEF Init
  <2> QED
    BY <2>1, HeaderInit DEF GopInv
<1>2. StreamsInv /\ StreamsInv' /\ HeaderInv /\ GopInv /\ [Next]_vars =>
          HeaderInv' /\ GopInv'
  BY HeaderStep, GopStep
<1>3. StreamsInv /\ GopInv => PlayersSeeWholeGops
  <2> SUFFICES ASSUME StreamsInv, GopInv, NEW k \in DOMAIN streams,
                      NEW w \in Range(streams[k].writer_map_),
                      joined[w] # 0, session[Owner(w)].phase = "open"
               PROVE  Whole(out[w], streams[k], joined[w])
    BY DEF PlayersSeeWholeGops, Due, Whole, FramesOf, FramePlaces, DueFrames, DueOf, Rising
  <2>1. PICK i \in DOMAIN streams[k].writer_map_ : w = streams[k].writer_map_[i]
    BY DEF Range
  <2> QED
    BY <2>1 DEF GopInv, PlayerWhole, Live
<1> QED
  BY <1>1, <1>2, <1>3, StreamsAlways, PTL DEF Spec
=============================================================================
