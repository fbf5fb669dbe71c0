----------------------------- MODULE ViewProofs -----------------------------
(***************************************************************************)
(* What the SFUs know of each other's users: ViewAgreement, as long as no  *)
(* write and no connection to the center was lost.                         *)
(***************************************************************************)
EXTENDS ClusterProofs

\* A client of user u connects to SFU s.
At(s, u) == \E w \in Sockets : Home[w] = s /\ u \in Speaks[w]

\* All clients of a user connect to one SFU.
OneHome == \A v, w \in Sockets : Speaks[v] \cap Speaks[w] # {} => Home[v] = Home[w]

-----------------------------------------------------------------------------
(* Queues *)

\* A message of B is among those before place n of q.
Some(q, B, n) == \E k \in 1 .. n - 1 : q[k] \in B

\* Before place n, every message of A has one of B behind it.
Undone(q, A, B, n) ==
    \A j \in 1 .. n - 1 : q[j] \in A => \E k \in j + 1 .. n - 1 : q[k] \in B

LEMMA TailPlaces ==
    ASSUME NEW S, NEW q \in Seq(S), q # <<>>
    PROVE  /\ Len(q) \in Nat \ {0}
           /\ Tail(q) \in Seq(S)
           /\ Len(Tail(q)) = Len(q) - 1
           /\ Head(q) = q[1]
           /\ \A i \in 1 .. Len(q) - 1 : Tail(q)[i] = q[i + 1]
OBVIOUS

LEMMA SomeTail ==
    ASSUME NEW S, NEW q \in Seq(S), q # <<>>, NEW B, NEW n \in 1 .. Len(q),
           Some(q, B, n + 1)
    PROVE  Head(q) \in B \/ Some(Tail(q), B, n)
<1>1. PICK k \in 1 .. n : q[k] \in B
  BY TailPlaces DEF Some
<1>2. CASE k = 1
  BY <1>1, <1>2, TailPlaces
<1>3. CASE k # 1
  <2>1. k - 1 \in 1 .. n - 1 /\ k - 1 \in 1 .. Len(q) - 1 /\ k - 1 + 1 = k
    BY <1>1, <1>3, TailPlaces
  <2>2. Tail(q)[k - 1] = q[k]
    BY <2>1, TailPlaces
  <2> QED
    BY <1>1, <2>1, <2>2 DEF Some
<1> QED
  BY <1>2, <1>3

LEMMA UndoneTail ==
    ASSUME NEW S, NEW q \in Seq(S), q # <<>>, NEW A, NEW B, NEW n \in 1 .. Len(q),
           Undone(q, A, B, n + 1)
    PROVE  /\ Undone(Tail(q), A, B, n)
           /\ Head(q) \in A => Some(Tail(q), B, n)
<1>1. ASSUME NEW j \in 0 .. n - 1, q[j + 1] \in A
      PROVE  \E k \in j + 1 .. n - 1 : Tail(q)[k] \in B
  <2>1. j + 1 \in 1 .. n + 1 - 1
    BY <1>1, TailPlaces
  <2>2. PICK k \in j + 2 .. n : q[k] \in B
    BY <1>1, <2>1, TailPlaces DEF Undone
  <2>3. k - 1 \in j + 1 .. n - 1 /\ k - 1 \in 1 .. Len(q) - 1 /\ k - 1 + 1 = k
    BY <1>1, <2>2, TailPlaces
  <2>4. Tail(q)[k - 1] = q[k]
    BY <2>3, TailPlaces
  <2> QED
    BY <2>2, <2>3, <2>4
<1>2. ASSUME NEW j \in 1 .. n - 1, Tail(q)[j] \in A
      PROVE  \E k \in j + 1 .. n - 1 : Tail(q)[k] \in B
  <2>1. j \in 1 .. Len(q) - 1 /\ j \in 0 .. n - 1
    BY <1>2, TailPlaces
  <2>2. q[j + 1] \in A
    BY <1>2, <2>1, TailPlaces
  <2> QED
    BY <1>1, <2>1, <2>2
<1>3. ASSUME Head(q) \in A PROVE Some(Tail(q), B, n)
  <2>1. 0 \in 0 .. n - 1 /\ q[0 + 1] \in A
    BY <1>3, TailPlaces
  <2>2. \E k \in 0 + 1 .. n - 1 : Tail(q)[k] \in B
    BY <1>1, <2>1
  <2> QED
    BY <2>2 DEF Some
<1> QED
  BY <1>2, <1>3 DEF Undone

LEMMA ConcatPlaces ==
    ASSUME NEW S, NEW q \in Seq(S), NEW ms \in Seq(S)
    PROVE  /\ q \o ms \in Seq(S)
           /\ Len(q) \in Nat /\ Len(ms) \in Nat
           /\ Len(q \o ms) = Len(q) + Len(ms)
           /\ \A i \in 1 .. Len(q) : (q \o ms)[i] = q[i]
           /\ \A i \in 1 .. Len(ms) : (q \o ms)[Len(q) + i] = ms[i]
OBVIOUS

\* What lies before a place of q does not change when q grows.
LEMMA ConcatPrefix ==
    ASSUME NEW S, NEW q \in Seq(S), NEW ms \in Seq(S), NEW A, NEW B, NEW n \in 1 .. Len(q) + 1
    PROVE  /\ Some(q \o ms, B, n) <=> Some(q, B, n)
           /\ Undone(q \o ms, A, B, n) <=> Undone(q, A, B, n)
<1> DEFINE z == q \o ms
<1>1. n \in Nat /\ \A i \in 1 .. n - 1 : i \in 1 .. Len(q) /\ z[i] = q[i]
  BY ConcatPlaces
<1> HIDE DEF z
<1>2. Some(z, B, n) <=> Some(q, B, n)
  BY <1>1 DEF Some
<1>3. \A j \in 1 .. n - 1 : \A k \in j + 1 .. n - 1 : k \in 1 .. n - 1
  BY <1>1
<1>4. Undone(z, A, B, n) <=> Undone(q, A, B, n)
  BY <1>1, <1>3 DEF Undone
<1> QED
  BY <1>2, <1>4 DEF z

\* The whole of a queue that has grown.
LEMMA ConcatEnd ==
    ASSUME NEW S, NEW q \in Seq(S), NEW ms \in Seq(S), NEW A, NEW B
    PROVE  /\ Some(q, B, Len(q) + 1) => Some(q \o ms, B, Len(q \o ms) + 1)
           /\ (\E i \in 1 .. Len(ms) : ms[i] \in B) => Some(q \o ms, B, Len(q \o ms) + 1)
           /\ /\ \A i \in 1 .. Len(ms) : ms[i] \notin A
              /\ Undone(q, A, B, Len(q) + 1) \/ \E i \in 1 .. Len(ms) : ms[i] \in B
              => Undone(q \o ms, A, B, Len(q \o ms) + 1)
<1> DEFINE z == q \o ms
           n == Len(z) + 1
<1>1. /\ Len(q) \in Nat /\ Len(ms) \in Nat /\ Len(z) = Len(q) + Len(ms)
      /\ \A i \in 1 .. Len(q) : z[i] = q[i]
      /\ \A i \in 1 .. Len(ms) : z[Len(q) + i] = ms[i]
  BY ConcatPlaces
<1> HIDE DEF z
<1>2. n = Len(q) + Len(ms) + 1
  BY <1>1
<1>3. ASSUME Some(q, B, Len(q) + 1) PROVE Some(z, B, n)
  BY <1>1, <1>2, <1>3 DEF Some
<1>4. ASSUME NEW i \in 1 .. Len(ms), ms[i] \in B
      PROVE  /\ Some(z, B, n)
             /\ Len(q) + i \in 1 .. n - 1 /\ z[Len(q) + i] \in B
  BY <1>1, <1>2, <1>4 DEF Some
<1>5. ASSUME \A i \in 1 .. Len(ms) : ms[i] \notin A, NEW j \in 1 .. n - 1, z[j] \in A
      PROVE  j \in 1 .. Len(q) /\ q[j] \in A
  <2>1. j \in 1 .. Len(q) \/ (j - Len(q) \in 1 .. Len(ms) /\ Len(q) + (j - Len(q)) = j)
    BY <1>1, <1>2
  <2>2. ~(j - Len(q) \in 1 .. Len(ms) /\ Len(q) + (j - Len(q)) = j)
    BY <1>1, <1>5
  <2> QED
    BY <1>1, <1>5, <2>1, <2>2
<1>6. ASSUME \A i \in 1 .. Len(ms) : ms[i] \notin A, Undone(q, A, B, Len(q) + 1)
      PROVE  Undone(z, A, B, n)
  <2>1. ASSUME NEW j \in 1 .. n - 1, z[j] \in A PROVE \E k \in j + 1 .. n - 1 : z[k] \in B
    <3>1. j \in 1 .. Len(q) + 1 - 1 /\ q[j] \in A
      BY <1>1, <1>5, <1>6, <2>1
    <3>2. PICK k \in j + 1 .. Len(q) : q[k] \in B
      BY <1>1, <1>6, <3>1 DEF Undone
    <3>3. k \in j + 1 .. n - 1 /\ z[k] \in B
      BY <1>1, <1>2, <3>1, <3>2
    <3> QED
      BY <3>3
  <2> QED
    BY <2>1 DEF Undone
<1>7. ASSUME \A i \in 1 .. Len(ms) : ms[i] \notin A, NEW i \in 1 .. Len(ms), ms[i] \in B
      PROVE  Undone(z, A, B, n)
  <2>1. ASSUME NEW j \in 1 .. n - 1, z[j] \in A PROVE \E k \in j + 1 .. n - 1 : z[k] \in B
    <3>1. j \in 1 .. Len(q)
      BY <1>5, <1>7, <2>1
    <3>2. Len(q) + i \in j + 1 .. n - 1 /\ z[Len(q) + i] \in B
      BY <1>1, <1>2, <1>4, <1>7, <3>1
    <3> QED
      BY <3>2
  <2> QED
    BY <2>1 DEF Undone
<1> QED
  BY <1>3, <1>4, <1>6, <1>7 DEF z

-----------------------------------------------------------------------------
(* What an SFU has written about a user of its own *)

JoinsOf(u) == {m \in OwnMsgs : m.method = "join" /\ m.user = u}
PushesOf(u) == {m \in OwnMsgs : m.method = "push" /\ m.user = u}
LeavesOf(u) == {m \in OwnMsgs : m.method = "userLeave" /\ m.user = u}
MovesOf(u) == JoinsOf(u) \cup PushesOf(u) \cup LeavesOf(u)

\* Once the center, which holds c for u, has handled what is before place n of
\* q, it does not have u.
Away(q, u, c, n) ==
    /\ c.in => Some(q, LeavesOf(u), n)
    /\ Undone(q, JoinsOf(u) \cup PushesOf(u), LeavesOf(u), n)

\* What the center holds of u's pushers, and what it still will be told of them,
\* is listed by the RtcUser r, unless u is to leave first.
Listed(q, u, r, c) ==
    /\ Some(q, LeavesOf(u), Len(q) + 1) \/ c.pushers \subseteq r.pushers
    /\ \A i \in 1 .. Len(q) : q[i] \in PushesOf(u) =>
           \/ \E k \in i + 1 .. Len(q) : q[k] \in LeavesOf(u)
           \/ q[i].pushers \subseteq r.pushers

\* q holds what the SFU that has the RtcUser r for u has written, the center
\* holds c for u.
StoryOf(q, u, r, c) ==
    /\ \A i \in 1 .. Len(q) : q[i] \in JoinsOf(u) => Away(q, u, c, i)
    /\ ~r.in => Away(q, u, c, Len(q) + 1)
    /\ Listed(q, u, r, c)

LEMMA MovesDisjoint ==
    ASSUME NEW u
    PROVE  /\ JoinsOf(u) \cap PushesOf(u) = {}
           /\ JoinsOf(u) \cap LeavesOf(u) = {}
           /\ PushesOf(u) \cap LeavesOf(u) = {}
BY DEF JoinsOf, PushesOf, LeavesOf

\* The center has read the first message.
LEMMA AwayTail ==
    ASSUME NEW q \in Seq(OwnMsgs), q # <<>>, NEW u, NEW c, NEW d, NEW n \in 1 .. Len(q),
           Away(q, u, c, n + 1),
           \/ Head(q) \in JoinsOf(u) \cup PushesOf(u)
           \/ Head(q) \in LeavesOf(u) /\ ~d.in
           \/ Head(q) \notin MovesOf(u) /\ (d.in => c.in)
    PROVE  Away(Tail(q), u, d, n)
<1> DEFINE A == JoinsOf(u) \cup PushesOf(u)
           B == LeavesOf(u)
<1>1. /\ Undone(Tail(q), A, B, n)
      /\ Head(q) \in A => Some(Tail(q), B, n)
  BY UndoneTail DEF Away
<1>2. c.in => Head(q) \in B \/ Some(Tail(q), B, n)
  BY SomeTail DEF Away
<1> QED
  BY <1>1, <1>2 DEF Away, MovesOf

\* What the center's reading of the first message does to its user u.
ReadsOf(m, u, c, d) ==
    \/ m \in JoinsOf(u) /\ d.in /\ d.pushers = {}
    \/ m \in PushesOf(u) /\ d.in /\ d.pushers = c.pushers \cup m.pushers
    \/ m \in LeavesOf(u) /\ ~d.in /\ d.pushers = {}
    \/ m \notin MovesOf(u) /\ d.in = c.in /\ d.pushers = c.pushers

LEMMA StoryRead ==
    ASSUME NEW q \in Seq(OwnMsgs), q # <<>>, NEW u, NEW r, NEW c, NEW d,
           StoryOf(q, u, r, c), ReadsOf(Head(q), u, c, d)
    PROVE  StoryOf(Tail(q), u, r, d)
<1> DEFINE t == Tail(q)
<1>1. /\ Len(q) \in Nat \ {0} /\ Len(t) = Len(q) - 1 /\ Head(q) = q[1]
      /\ \A i \in 1 .. Len(q) - 1 : t[i] = q[i + 1]
  BY TailPlaces
<1>2. \A i \in 1 .. Len(t) : i \in 1 .. Len(q) /\ i + 1 \in 1 .. Len(q) /\ t[i] = q[i + 1]
  BY <1>1
<1>3. Len(t) + 1 \in 1 .. Len(q) /\ Len(t) + 1 + 1 = Len(q) + 1
  BY <1>1
<1>4. \/ Head(q) \in JoinsOf(u) \cup PushesOf(u)
      \/ Head(q) \in LeavesOf(u) /\ ~d.in
      \/ Head(q) \notin MovesOf(u) /\ (d.in => c.in)
  BY DEF ReadsOf
<1> HIDE DEF t
<1>6. ASSUME NEW n \in 1 .. Len(q), Away(q, u, c, n + 1) PROVE Away(t, u, d, n)
  BY <1>4, <1>6, AwayTail DEF t
<1>8. ASSUME NEW i \in 1 .. Len(t), t[i] \in JoinsOf(u) PROVE Away(t, u, d, i)
  BY <1>2, <1>6, <1>8 DEF StoryOf
<1>11. ~r.in => Away(t, u, d, Len(t) + 1)
  BY <1>3, <1>6 DEF StoryOf
<1>12. ASSUME NEW i \in 1 .. Len(q) - 1, \E k \in i + 2 .. Len(q) : q[k] \in LeavesOf(u)
       PROVE  \E k \in i + 1 .. Len(t) : t[k] \in LeavesOf(u)
  <2>1. PICK k \in i + 2 .. Len(q) : q[k] \in LeavesOf(u)
    BY <1>12
  <2>2. k - 1 \in i + 1 .. Len(t) /\ k - 1 \in 1 .. Len(q) - 1 /\ k - 1 + 1 = k
    BY <1>1, <2>1
  <2> QED
    BY <1>1, <2>1, <2>2
<1>13. ASSUME NEW i \in 1 .. Len(t), t[i] \in PushesOf(u)
       PROVE  \/ \E k \in i + 1 .. Len(t) : t[k] \in LeavesOf(u)
              \/ t[i].pushers \subseteq r.pushers
  <2>1. i \in 1 .. Len(q) - 1 /\ i + 1 \in 1 .. Len(q) /\ t[i] = q[i + 1] /\ i + 1 + 1 = i + 2
    BY <1>1, <1>2
  <2>2. \/ \E k \in i + 2 .. Len(q) : q[k] \in LeavesOf(u)
        \/ q[i + 1].pushers \subseteq r.pushers
    BY <1>13, <2>1 DEF StoryOf, Listed
  <2> QED
    BY <1>12, <2>1, <2>2
<1>14. Some(t, LeavesOf(u), Len(t) + 1) \/ d.pushers \subseteq r.pushers
  <2>1. Some(q, LeavesOf(u), Len(q) + 1) =>
            Head(q) \in LeavesOf(u) \/ Some(t, LeavesOf(u), Len(t) + 1)
    BY <1>3, SomeTail DEF t
  <2>2. CASE Head(q) \in PushesOf(u)
    <3>1. d.pushers = c.pushers \cup Head(q).pushers
      BY <2>2, MovesDisjoint DEF ReadsOf, MovesOf
    <3>2. 1 \in 1 .. Len(q) /\ q[1] \in PushesOf(u)
      BY <1>1, <2>2
    <3>3. \/ \E k \in 1 + 1 .. Len(q) : q[k] \in LeavesOf(u)
          \/ q[1].pushers \subseteq r.pushers
      BY <3>2 DEF StoryOf, Listed
    <3>4. (\E k \in 1 + 1 .. Len(q) : q[k] \in LeavesOf(u)) => Some(q, LeavesOf(u), Len(q) + 1)
      BY <1>1 DEF Some
    <3>5. Head(q) \notin LeavesOf(u)
      BY <2>2, MovesDisjoint
    <3>6. Some(q, LeavesOf(u), Len(q) + 1) \/ c.pushers \subseteq r.pushers
      BY DEF StoryOf, Listed
    <3> QED
      BY <1>1, <2>1, <3>1, <3>3, <3>4, <3>5, <3>6
  <2>3. CASE Head(q) \notin MovesOf(u)
    <3>1. d.pushers = c.pushers /\ Head(q) \notin LeavesOf(u)
      BY <2>3 DEF ReadsOf, MovesOf
    <3>2. Some(q, LeavesOf(u), Len(q) + 1) \/ c.pushers \subseteq r.pushers
      BY DEF StoryOf, Listed
    <3> QED
      BY <2>1, <3>1, <3>2
  <2>4. CASE Head(q) \in JoinsOf(u) \cup LeavesOf(u)
    <3>1. d.pushers = {}
      BY <2>4, MovesDisjoint DEF ReadsOf, MovesOf
    <3> QED
      BY <3>1
  <2> QED
    BY <2>2, <2>3, <2>4 DEF MovesOf
<1>15. StoryOf(t, u, r, d)
  BY <1>8, <1>11, <1>13, <1>14 DEF StoryOf, Listed
<1> QED
  BY <1>15 DEF t

\* The RtcUser r2 lists what r lists.
Grows(r, r2) == r.pushers \subseteq r2.pushers

\* What an SFU does to its RtcUser of u, r before and r2 after, while it writes ms.
StaysOf(ms, u, r, r2) ==
    /\ r2.in = r.in
    /\ r.in => Grows(r, r2)
    /\ \A i \in 1 .. Len(ms) : ms[i] \notin MovesOf(u)
EntersOf(ms, u, r, r2) ==
    ~r.in /\ r2.in /\ \E m \in JoinsOf(u) : ms = <<m>>
PublishesOf(ms, u, r, r2) ==
    /\ r.in /\ r2.in /\ Grows(r, r2)
    /\ \E m \in PushesOf(u) : ms = <<m>> /\ m.pushers \subseteq r2.pushers
DepartsOf(ms, u, r, r2) ==
    /\ r.in /\ ~r2.in
    /\ \E i \in 1 .. Len(ms) : ms[i] \in LeavesOf(u)
    /\ \A i \in 1 .. Len(ms) : ms[i] \notin JoinsOf(u) \cup PushesOf(u)

LEMMA PrefixStories ==
    ASSUME NEW q \in Seq(OwnMsgs), NEW ms \in Seq(OwnMsgs), NEW u, NEW c,
           NEW n \in 1 .. Len(q) + 1
    PROVE  Away(q \o ms, u, c, n) <=> Away(q, u, c, n)
<1>1. \A A, B : /\ Some(q \o ms, B, n) <=> Some(q, B, n)
                /\ Undone(q \o ms, A, B, n) <=> Undone(q, A, B, n)
  BY ConcatPrefix
<1> QED
  BY <1>1, Zenon DEF Away

\* The center will not have u: it makes no difference what the RtcUser lists.
LEMMA AwayPushers ==
    ASSUME NEW q \in Seq(OwnMsgs), NEW u, NEW r, NEW c, ~c.in => c.pushers = {},
           Away(q, u, c, Len(q) + 1)
    PROVE  Listed(q, u, r, c)
<1>1. Len(q) \in Nat /\ Len(q) + 1 - 1 = Len(q)
  OBVIOUS
<1>2. Some(q, LeavesOf(u), Len(q) + 1) \/ c.pushers \subseteq r.pushers
  BY DEF Away
<1>3. ASSUME NEW i \in 1 .. Len(q), q[i] \in PushesOf(u)
      PROVE  \E k \in i + 1 .. Len(q) : q[k] \in LeavesOf(u)
  BY <1>1, <1>3 DEF Away, Undone
<1> QED
  BY <1>2, <1>3 DEF Listed

\* The places of a story that has grown by ms.
LEMMA WrittenPlaces ==
    ASSUME NEW q \in Seq(OwnMsgs), NEW ms \in Seq(OwnMsgs), NEW u, NEW r, NEW r2, NEW c,
           StoryOf(q, u, r, c), NEW z, z = q \o ms,
           \A i \in 1 .. Len(ms) : ms[i] \in JoinsOf(u) => Len(ms) = 1 /\ ~r.in
    PROVE  \A i \in 1 .. Len(z) : z[i] \in JoinsOf(u) => Away(z, u, c, i)
<1>1. /\ Len(q) \in Nat /\ Len(ms) \in Nat /\ Len(z) = Len(q) + Len(ms)
      /\ \A i \in 1 .. Len(q) : z[i] = q[i]
      /\ \A i \in 1 .. Len(ms) : z[Len(q) + i] = ms[i]
  BY ConcatPlaces
<1>2. \A n \in 1 .. Len(q) + 1 : Away(z, u, c, n) <=> Away(q, u, c, n)
  BY PrefixStories
<1>3. ASSUME NEW i \in 1 .. Len(z), i \notin 1 .. Len(q)
      PROVE  i - Len(q) \in 1 .. Len(ms) /\ z[i] = ms[i - Len(q)] /\ (Len(ms) = 1 => i = Len(q) + 1)
  <2>1. i - Len(q) \in 1 .. Len(ms) /\ Len(q) + (i - Len(q)) = i
    BY <1>1, <1>3
  <2> QED
    BY <1>1, <2>1
<1>4. ASSUME NEW i \in 1 .. Len(z), z[i] \in JoinsOf(u) PROVE Away(z, u, c, i)
  <2>1. CASE i \in 1 .. Len(q)
    <3>1. i \in 1 .. Len(q) + 1 /\ Away(q, u, c, i)
      BY <1>1, <1>4, <2>1 DEF StoryOf
    <3> QED
      BY <1>2, <3>1
  <2>2. CASE i \notin 1 .. Len(q)
    <3>1. i = Len(q) + 1 /\ ~r.in
      BY <1>3, <1>4, <2>2
    <3>2. Away(q, u, c, i) /\ i \in 1 .. Len(q) + 1
      BY <1>1, <3>1 DEF StoryOf
    <3> QED
      BY <1>2, <3>2
  <2> QED
    BY <2>1, <2>2
<1> QED
  BY <1>4

\* The RtcUser that stays keeps what it lists.
LEMMA KeptPushers ==
    ASSUME NEW q \in Seq(OwnMsgs), NEW ms \in Seq(OwnMsgs), NEW u, NEW r, NEW r2, NEW c,
           StoryOf(q, u, r, c), NEW z, z = q \o ms, Grows(r, r2),
           \A i \in 1 .. Len(ms) : ms[i] \in PushesOf(u) => ms[i].pushers \subseteq r2.pushers
    PROVE  Listed(z, u, r2, c)
<1>1. /\ Len(q) \in Nat /\ Len(ms) \in Nat /\ Len(z) = Len(q) + Len(ms)
      /\ \A i \in 1 .. Len(q) : z[i] = q[i]
      /\ \A i \in 1 .. Len(ms) : z[Len(q) + i] = ms[i]
  BY ConcatPlaces
<1>2. Some(q, LeavesOf(u), Len(q) + 1) => Some(z, LeavesOf(u), Len(z) + 1)
  BY ConcatEnd
<1>3. Some(z, LeavesOf(u), Len(z) + 1) \/ c.pushers \subseteq r2.pushers
  BY <1>2 DEF StoryOf, Listed, Grows
<1>4. ASSUME NEW i \in 1 .. Len(z), z[i] \in PushesOf(u)
      PROVE  \/ \E k \in i + 1 .. Len(z) : z[k] \in LeavesOf(u)
             \/ z[i].pushers \subseteq r2.pushers
  <2>1. CASE i \in 1 .. Len(q)
    <3>1. z[i] = q[i]
      BY <1>1, <2>1
    <3>2. \/ \E k \in i + 1 .. Len(q) : q[k] \in LeavesOf(u)
          \/ q[i].pushers \subseteq r.pushers
      BY <1>4, <2>1, <3>1 DEF StoryOf, Listed
    <3>3. \A k \in i + 1 .. Len(q) : k \in i + 1 .. Len(z) /\ z[k] = q[k]
      BY <1>1, <2>1
    <3> QED
      BY <3>1, <3>2, <3>3 DEF Grows
  <2>2. CASE i \notin 1 .. Len(q)
    <3>1. i - Len(q) \in 1 .. Len(ms) /\ Len(q) + (i - Len(q)) = i
      BY <1>1, <2>2
    <3> QED
      BY <1>1, <1>4, <3>1
  <2> QED
    BY <2>1, <2>2
<1> QED
  BY <1>3, <1>4 DEF Listed

LEMMA StoryStays ==
    ASSUME NEW q \in Seq(OwnMsgs), NEW ms \in Seq(OwnMsgs), NEW u, NEW r, NEW r2, NEW c,
           ~c.in => c.pushers = {}, StoryOf(q, u, r, c), StaysOf(ms, u, r, r2)
    PROVE  StoryOf(q \o ms, u, r2, c)
<1> DEFINE z == q \o ms
<1>1. \A i \in 1 .. Len(ms) : /\ ms[i] \notin JoinsOf(u)
                              /\ ms[i] \notin PushesOf(u)
                              /\ ms[i] \notin LeavesOf(u)
                              /\ ms[i] \notin JoinsOf(u) \cup PushesOf(u)
  BY DEF StaysOf, MovesOf
<1>2. z \in Seq(OwnMsgs)
  BY ConcatPlaces
<1>3. \A A, B : /\ Some(q, B, Len(q) + 1) => Some(z, B, Len(z) + 1)
                /\ /\ \A i \in 1 .. Len(ms) : ms[i] \notin A
                   /\ Undone(q, A, B, Len(q) + 1)
                   => Undone(z, A, B, Len(z) + 1)
  BY ConcatEnd
<1> HIDE DEF z
<1>4. \A i \in 1 .. Len(z) : z[i] \in JoinsOf(u) => Away(z, u, c, i)
  BY <1>1, WrittenPlaces DEF z
<1>6. Away(q, u, c, Len(q) + 1) => Away(z, u, c, Len(z) + 1)
  BY <1>1, <1>3 DEF Away
<1>7. ~r2.in => Away(z, u, c, Len(z) + 1)
  BY <1>6 DEF StoryOf, StaysOf
<1>8. Listed(z, u, r2, c)
  <2>1. CASE r.in
    <3>1. Grows(r, r2)
      BY <2>1 DEF StaysOf
    <3>2. z = q \o ms /\ \A i \in 1 .. Len(ms) :
              ms[i] \in PushesOf(u) => ms[i].pushers \subseteq r2.pushers
      BY <1>1 DEF z
    <3> QED
      BY <3>1, <3>2, KeptPushers
  <2>2. CASE ~r.in
    <3>1. Away(z, u, c, Len(z) + 1)
      BY <1>7, <2>2 DEF StaysOf
    <3> QED
      BY <1>2, <3>1, AwayPushers
  <2> QED
    BY <2>1, <2>2
<1>9. StoryOf(z, u, r2, c)
  BY <1>4, <1>7, <1>8 DEF StoryOf
<1> QED
  BY <1>9 DEF z

LEMMA StoryEnters ==
    ASSUME NEW q \in Seq(OwnMsgs), NEW ms \in Seq(OwnMsgs), NEW u, NEW r, NEW r2, NEW c,
           ~c.in => c.pushers = {}, StoryOf(q, u, r, c), EntersOf(ms, u, r, r2)
    PROVE  StoryOf(q \o ms, u, r2, c)
<1> DEFINE z == q \o ms
<1>1. PICK m \in JoinsOf(u) : ms = <<m>>
  BY DEF EntersOf
<1>2. Len(ms) = 1 /\ ms[1] = m /\ m \notin PushesOf(u) /\ m \notin LeavesOf(u)
  BY <1>1, MovesDisjoint
<1>3. ~r.in /\ r2.in
  BY DEF EntersOf
<1>4. /\ Len(q) \in Nat /\ Len(z) = Len(q) + 1 /\ z[Len(q) + 1] = m
      /\ \A i \in 1 .. Len(q) : z[i] = q[i]
  <2>1. Len(q \o ms) = Len(q) + Len(ms) /\ Len(q) \in Nat
    BY ConcatPlaces
  <2>2. \A i \in 1 .. Len(ms) : (q \o ms)[Len(q) + i] = ms[i]
    BY ConcatPlaces
  <2>3. \A i \in 1 .. Len(q) : z[i] = q[i]
    BY ConcatPlaces
  <2> QED
    BY <1>2, <2>1, <2>2, <2>3
<1>5. \A i \in 1 .. Len(z) : z[i] \in JoinsOf(u) => Away(z, u, c, i)
  <2>1. \A i \in 1 .. Len(ms) : ms[i] \in JoinsOf(u) => Len(ms) = 1 /\ ~r.in
    BY <1>2, <1>3
  <2>2. z = q \o ms
    OBVIOUS
  <2> HIDE DEF z
  <2> QED
    BY <2>1, <2>2, WrittenPlaces
<1>7. Away(q, u, c, Len(q) + 1)
  BY <1>3 DEF StoryOf
<1>8. /\ Some(q, LeavesOf(u), Len(q) + 1) \/ c.pushers \subseteq r2.pushers
      /\ Some(q, LeavesOf(u), Len(q) + 1) => Some(z, LeavesOf(u), Len(z) + 1)
  BY <1>7, ConcatEnd DEF Away
<1> HIDE DEF z
<1>9. ASSUME NEW i \in 1 .. Len(z), z[i] \in PushesOf(u)
      PROVE  \E k \in i + 1 .. Len(z) : z[k] \in LeavesOf(u)
  <2>1. i \in 1 .. Len(q) + 1 - 1 /\ q[i] \in JoinsOf(u) \cup PushesOf(u)
    BY <1>2, <1>4, <1>9
  <2>2. PICK k \in i + 1 .. Len(q) + 1 - 1 : q[k] \in LeavesOf(u)
    BY <1>7, <2>1 DEF Away, Undone
  <2>3. k \in i + 1 .. Len(z) /\ z[k] = q[k]
    BY <1>4, <2>1, <2>2
  <2> QED
    BY <2>2, <2>3
<1>10. StoryOf(z, u, r2, c)
  BY <1>3, <1>5, <1>8, <1>9 DEF StoryOf, Listed
<1> QED
  BY <1>10 DEF z

LEMMA StoryPublishes ==
    ASSUME NEW q \in Seq(OwnMsgs), NEW ms \in Seq(OwnMsgs), NEW u, NEW r, NEW r2, NEW c,
           StoryOf(q, u, r, c), PublishesOf(ms, u, r, r2)
    PROVE  StoryOf(q \o ms, u, r2, c)
<1> DEFINE z == q \o ms
<1>1. PICK m \in PushesOf(u) : ms = <<m>> /\ m.pushers \subseteq r2.pushers
  BY DEF PublishesOf
<1>2. Len(ms) = 1 /\ ms[1] = m /\ m \notin JoinsOf(u) /\ m \notin LeavesOf(u)
  BY <1>1, MovesDisjoint
<1>3. r.in /\ r2.in /\ Grows(r, r2)
  BY DEF PublishesOf
<1>4. \A i \in 1 .. Len(z) : z[i] \in JoinsOf(u) => Away(z, u, c, i)
  <2>1. \A i \in 1 .. Len(ms) : ms[i] \in JoinsOf(u) => Len(ms) = 1 /\ ~r.in
    BY <1>2, <1>3
  <2>2. z = q \o ms
    OBVIOUS
  <2> HIDE DEF z
  <2> QED
    BY <2>1, <2>2, WrittenPlaces
<1>6. \A i \in 1 .. Len(ms) : ms[i] \in PushesOf(u) => ms[i].pushers \subseteq r2.pushers
  BY <1>1, <1>2
<1>7. Listed(z, u, r2, c)
  <2>1. z = q \o ms
    OBVIOUS
  <2> HIDE DEF z
  <2> QED
    BY <1>3, <1>6, <2>1, KeptPushers
<1> HIDE DEF z
<1>8. StoryOf(z, u, r2, c)
  BY <1>3, <1>4, <1>7 DEF StoryOf
<1> QED
  BY <1>8 DEF z

LEMMA StoryDeparts ==
    ASSUME NEW q \in Seq(OwnMsgs), NEW ms \in Seq(OwnMsgs), NEW u, NEW r, NEW r2, NEW c,
           ~c.in => c.pushers = {}, StoryOf(q, u, r, c), DepartsOf(ms, u, r, r2)
    PROVE  StoryOf(q \o ms, u, r2, c)
<1> DEFINE z == q \o ms
<1>1. /\ r.in /\ ~r2.in
      /\ \E i \in 1 .. Len(ms) : ms[i] \in LeavesOf(u)
      /\ \A i \in 1 .. Len(ms) : ms[i] \notin JoinsOf(u) \cup PushesOf(u)
  BY DEF DepartsOf
<1>2. z \in Seq(OwnMsgs)
  BY ConcatPlaces
<1>3. \A i \in 1 .. Len(z) : z[i] \in JoinsOf(u) => Away(z, u, c, i)
  BY <1>1, WrittenPlaces
<1>4. Away(z, u, c, Len(z) + 1)
  BY <1>1, ConcatEnd DEF Away
<1> HIDE DEF z
<1>5. Listed(z, u, r2, c)
  BY <1>2, <1>4, AwayPushers
<1>6. StoryOf(z, u, r2, c)
  BY <1>1, <1>3, <1>4, <1>5 DEF StoryOf
<1> QED
  BY <1>6 DEF z

-----------------------------------------------------------------------------
(* What an SFU knows, and will know, of a user of another SFU *)

\* A message of the center that makes an SFU know u, one that adds a pusher to a
\* user the SFU has, and one that lists it for a user the SFU has not.
Brings(m, u) ==
    \/ m.method = "newUser" /\ m.user = u
    \/ m.method = "joinResponse" /\ u \in m.users
Adds(m, u, p) == m.method = "newPusher" /\ m.user = u /\ p \in m.pushers
Lists(m, u, p) == m.method = "joinResponse" /\ u \in m.users /\ p \in m.pushers

\* A message before place n of d brings u.
Brought(d, u, n) == \E i \in 1 .. n - 1 : Brings(d[i], u)

\* An SFU that has the RtcUser r for u and has not yet read d: it will know u, and
\* pusher p of u.
Known(d, u, r) == r.in \/ Brought(d, u, Len(d) + 1)
Coming(d, u, r, p) ==
    \/ r.in /\ p \in r.pushers
    \/ \E i \in 1 .. Len(d) : Adds(d[i], u, p) /\ (r.in \/ Brought(d, u, i))
    \/ \E i \in 1 .. Len(d) : Lists(d[i], u, p) /\ ~r.in /\ ~Brought(d, u, i)

ViewOf(d, u, r, ps) == Known(d, u, r) /\ \A p \in ps : Coming(d, u, r, p)

LEMMA ViewStays ==
    ASSUME NEW d, NEW u, NEW r, NEW r2, NEW ps, ViewOf(d, u, r, ps),
           r2.in = r.in, r.in => Grows(r, r2)
    PROVE  ViewOf(d, u, r2, ps)
BY DEF ViewOf, Known, Coming, Grows

LEMMA AppendPlaces ==
    ASSUME NEW S, NEW d \in Seq(S), NEW m \in S
    PROVE  /\ Len(d) \in Nat
           /\ Len(Append(d, m)) = Len(d) + 1
           /\ Append(d, m)[Len(d) + 1] = m
           /\ \A i \in 1 .. Len(d) : Append(d, m)[i] = d[i]
OBVIOUS

\* The center has written m.
LEMMA AppendBrought ==
    ASSUME NEW d \in Seq(CenterMsgs), NEW m \in CenterMsgs, NEW u, NEW n \in 1 .. Len(d) + 1
    PROVE  /\ Brought(Append(d, m), u, n) <=> Brought(d, u, n)
           /\ Brought(d, u, Len(d) + 1) => Brought(Append(d, m), u, Len(Append(d, m)) + 1)
           /\ Brings(m, u) => Brought(Append(d, m), u, Len(Append(d, m)) + 1)
<1> DEFINE z == Append(d, m)
<1>1. /\ Len(d) \in Nat /\ Len(z) = Len(d) + 1 /\ z[Len(d) + 1] = m
      /\ \A i \in 1 .. Len(d) : z[i] = d[i]
  BY AppendPlaces
<1> HIDE DEF z
<1>2. \A i \in 1 .. n - 1 : i \in 1 .. Len(d) /\ z[i] = d[i]
  BY <1>1
<1>3. Brought(z, u, n) <=> Brought(d, u, n)
  BY <1>2 DEF Brought
<1>4. Brought(d, u, Len(d) + 1) => Brought(z, u, Len(z) + 1)
  BY <1>1 DEF Brought
<1>5. Brings(m, u) => Brought(z, u, Len(z) + 1)
  BY <1>1 DEF Brought
<1> QED
  BY <1>3, <1>4, <1>5 DEF z

LEMMA ViewWritten ==
    ASSUME NEW d \in Seq(CenterMsgs), NEW m \in CenterMsgs, NEW u, NEW r, NEW ps,
           ViewOf(d, u, r, ps)
    PROVE  /\ ViewOf(Append(d, m), u, r, ps)
           /\ \A p : Adds(m, u, p) => Coming(Append(d, m), u, r, p)
<1> DEFINE z == Append(d, m)
<1>1. /\ Len(d) \in Nat /\ Len(z) = Len(d) + 1 /\ z[Len(d) + 1] = m
      /\ \A i \in 1 .. Len(d) : z[i] = d[i]
  BY AppendPlaces
<1>2. \A n \in 1 .. Len(d) + 1 : Brought(z, u, n) <=> Brought(d, u, n)
  BY AppendBrought
<1>3. Brought(d, u, Len(d) + 1) => Brought(z, u, Len(z) + 1)
  <2>1. 1 \in 1 .. Len(d) + 1
    BY <1>1
  <2> QED
    BY <2>1, AppendBrought
<1> HIDE DEF z
<1>4. \A i \in 1 .. Len(d) : /\ i \in 1 .. Len(z) /\ z[i] = d[i]
                             /\ Brought(z, u, i) <=> Brought(d, u, i)
  BY <1>1, <1>2
<1>5. Known(z, u, r)
  BY <1>3 DEF ViewOf, Known
<1>6. ASSUME NEW p \in ps PROVE Coming(z, u, r, p)
  <2>1. Coming(d, u, r, p)
    BY <1>6 DEF ViewOf
  <2> QED
    BY <1>4, <2>1, Zenon DEF Coming
<1>7. ASSUME NEW p, Adds(m, u, p) PROVE Coming(z, u, r, p)
  <2>1. Len(d) + 1 \in 1 .. Len(z) /\ Len(d) + 1 \in 1 .. Len(d) + 1
    BY <1>1
  <2>2. r.in \/ Brought(z, u, Len(d) + 1)
    BY <1>2, <2>1 DEF ViewOf, Known
  <2> QED
    BY <1>1, <1>7, <2>1, <2>2 DEF Coming
<1>8. ViewOf(z, u, r, ps)
  BY <1>5, <1>6 DEF ViewOf
<1> QED
  BY <1>7, <1>8 DEF z

\* The answer to the first join of a session.
LEMMA ViewAnswered ==
    ASSUME NEW m, NEW u, NEW r, NEW ps, ~r.in, Brings(m, u), \A p \in ps : Lists(m, u, p)
    PROVE  ViewOf(<<m>>, u, r, ps)
<1> DEFINE d == <<m>>
<1>1. Len(d) = 1 /\ d[1] = m
  OBVIOUS
<1> HIDE DEF d
<1>2. Brought(d, u, Len(d) + 1) /\ ~Brought(d, u, 1)
  BY <1>1 DEF Brought
<1>3. ViewOf(d, u, r, ps)
  BY <1>1, <1>2 DEF ViewOf, Known, Coming
<1> QED
  BY <1>3 DEF d

\* What an SFU that reads m does to its RtcUser of u.
HearsOf(m, u, r, r2) ==
    /\ r.in => r2.in /\ Grows(r, r2)
    /\ ~r.in => (r2.in <=> Brings(m, u))
    /\ \A p : r.in /\ Adds(m, u, p) => p \in r2.pushers
    /\ \A p : ~r.in /\ Lists(m, u, p) /\ p.user = u => p \in r2.pushers

LEMMA ViewHeard ==
    ASSUME NEW d \in Seq(CenterMsgs), d # <<>>, NEW u, NEW r, NEW r2, NEW ps,
           \A p \in ps : p.user = u, ViewOf(d, u, r, ps), HearsOf(Head(d), u, r, r2)
    PROVE  ViewOf(Tail(d), u, r2, ps)
<1> DEFINE t == Tail(d)
           m == Head(d)
<1>1. /\ Len(d) \in Nat \ {0} /\ Len(t) = Len(d) - 1 /\ m = d[1]
      /\ \A i \in 1 .. Len(d) - 1 : t[i] = d[i + 1]
  BY TailPlaces
<1> HIDE DEF t, m
<1>2. ASSUME NEW n \in 1 .. Len(d) PROVE Brought(d, u, n + 1) <=> Brings(m, u) \/ Brought(t, u, n)
  <2>1. \A i \in 1 .. n - 1 : i + 1 \in 1 .. n + 1 - 1 /\ t[i] = d[i + 1]
    BY <1>1
  <2>2. \A i \in 1 .. n + 1 - 1 : i = 1 \/ (i - 1 \in 1 .. n - 1 /\ t[i - 1] = d[i])
    BY <1>1
  <2>3. 1 \in 1 .. n + 1 - 1
    BY <1>1
  <2>4. Brought(t, u, n) => Brought(d, u, n + 1)
    BY <2>1 DEF Brought
  <2>5. Brings(m, u) => Brought(d, u, n + 1)
    BY <1>1, <2>3 DEF Brought
  <2>6. Brought(d, u, n + 1) => Brings(m, u) \/ Brought(t, u, n)
    BY <1>1, <2>2 DEF Brought
  <2> QED
    BY <2>4, <2>5, <2>6
<1>3. Known(t, u, r2)
  <2>1. Len(d) \in 1 .. Len(d) /\ Len(t) + 1 = Len(d)
    BY <1>1
  <2>2. Brought(d, u, Len(d) + 1) <=> Brings(m, u) \/ Brought(t, u, Len(t) + 1)
    BY <1>2, <2>1
  <2> QED
    BY <2>2 DEF ViewOf, Known, HearsOf, m
<1>4. ASSUME NEW i \in 1 .. Len(d)
      PROVE  \/ i = 1 /\ d[i] = m /\ ~Brought(d, u, i)
             \/ /\ i - 1 \in 1 .. Len(t) /\ d[i] = t[i - 1]
                /\ Brought(d, u, i) <=> Brings(m, u) \/ Brought(t, u, i - 1)
  <2>1. CASE i = 1
    BY <1>1, <2>1 DEF Brought
  <2>2. CASE i # 1
    <3>1. i - 1 \in 1 .. Len(t) /\ i - 1 \in 1 .. Len(d) /\ i - 1 \in 1 .. Len(d) - 1 /\ i - 1 + 1 = i
      BY <1>1, <2>2
    <3>2. d[i] = t[i - 1]
      BY <1>1, <3>1
    <3>3. Brought(d, u, i) <=> Brings(m, u) \/ Brought(t, u, i - 1)
      BY <1>2, <3>1
    <3> QED
      BY <3>1, <3>2, <3>3
  <2> QED
    BY <2>1, <2>2
<1>5. ASSUME NEW p \in ps PROVE Coming(t, u, r2, p)
  <2>1. Coming(d, u, r, p) /\ p.user = u
    BY <1>5 DEF ViewOf
  <2>2. CASE r.in /\ p \in r.pushers
    BY <2>2 DEF HearsOf, Grows, Coming
  <2>3. ASSUME NEW i \in 1 .. Len(d), Adds(d[i], u, p), r.in \/ Brought(d, u, i)
        PROVE  Coming(t, u, r2, p)
    <3>1. CASE i = 1 /\ d[i] = m /\ ~Brought(d, u, i)
      BY <2>3, <3>1 DEF HearsOf, Coming, m
    <3>2. CASE /\ i - 1 \in 1 .. Len(t) /\ d[i] = t[i - 1]
               /\ Brought(d, u, i) <=> Brings(m, u) \/ Brought(t, u, i - 1)
      <4>1. r2.in \/ Brought(t, u, i - 1)
        BY <2>3, <3>2 DEF HearsOf, m
      <4>2. Adds(t[i - 1], u, p) /\ i - 1 \in 1 .. Len(t)
        BY <2>3, <3>2
      <4> QED
        BY <4>1, <4>2, Zenon DEF Coming
    <3> QED
      BY <1>4, <3>1, <3>2
  <2>4. ASSUME NEW i \in 1 .. Len(d), Lists(d[i], u, p), ~r.in, ~Brought(d, u, i)
        PROVE  Coming(t, u, r2, p)
    <3>1. CASE i = 1 /\ d[i] = m /\ ~Brought(d, u, i)
      <4>1. Lists(m, u, p)
        BY <2>4, <3>1
      <4>2. Brings(m, u)
        BY <4>1 DEF Brings, Lists
      <4> QED
        BY <2>1, <2>4, <4>1, <4>2 DEF HearsOf, Coming, m
    <3>2. CASE /\ i - 1 \in 1 .. Len(t) /\ d[i] = t[i - 1]
               /\ Brought(d, u, i) <=> Brings(m, u) \/ Brought(t, u, i - 1)
      <4>1. ~r2.in /\ ~Brought(t, u, i - 1)
        BY <2>4, <3>2 DEF HearsOf, m
      <4>2. Lists(t[i - 1], u, p) /\ i - 1 \in 1 .. Len(t)
        BY <2>4, <3>2
      <4> QED
        BY <4>1, <4>2, Zenon DEF Coming
    <3> QED
      BY <1>4, <3>1, <3>2
  <2> QED
    BY <2>1, <2>2, <2>3, <2>4, Zenon DEF Coming
<1>6. ViewOf(t, u, r2, ps)
  BY <1>3, <1>5 DEF ViewOf
<1> QED
  BY <1>6 DEF t

-----------------------------------------------------------------------------
(* The invariant *)

\* Without an MSU, no join response is held back.
NoPend == \A y \in Sids : pend[y] = NoSid

\* Users of other SFUs are remote users, and an idle room has nobody.
Strangers == \A s \in Sfus, u \in Users : users[s][u].in /\ ~At(s, u) => users[s][u].remote
IdleEmpty == \A s \in Sfus, u \in Users : room[s].idle => ~users[s][u].in

\* An SFU speaks for its own users, except when it asks for a stream.
AboutOwn(s, q) ==
    \A i \in 1 .. Len(q) : q[i].method # "pullRemoteStream" => At(s, q[i].user)
UpHome == \A y \in Sids : AboutOwn(y[1], up[y])

\* What the center holds of a user came from the user's SFU.
CenterHome ==
    \A u \in Users :
        /\ ~cusers[u].in => cusers[u] = NoCUser
        /\ cusers[u].sid # NoSid => At(cusers[u].sid[1], u)
        /\ \A p \in cusers[u].pushers : p.user = u
        /\ \A y \in Sids : u \in part[y] => At(y[1], u)

Base == NoPend /\ Strangers /\ IdleEmpty /\ UpHome /\ CenterHome

\* The user of a WebSocket session is one its client speaks for.
WhoSpeaks == \A w \in Sockets : who[w] # NoWs => who[w] \in Speaks[w]

\* No write and no connection was ever lost.
Steady == \A s \in Sfus : ~lossy[s] /\ (epoch[s] = 0 \/ (epoch[s] = 1 /\ conn[s]))

\* The first session of s.
First(s) == <<s, 1>>

\* Nothing has passed on a session that was not opened yet.
Unopened ==
    /\ \A y \in Sids : epoch[y[1]] < y[2] =>
           up[y] = <<>> /\ down[y] = <<>> /\ y \notin reg /\ part[y] = {}
    /\ \A s \in Sfus, u \in Users : epoch[s] = 0 /\ At(s, u) => cusers[u] = NoCUser

\* An SFU that the center does not broadcast to knows its own users only.
Unregistered ==
    /\ \A y \in Sids \ reg : down[y] = <<>>
    /\ \A s \in Sfus, u \in Users : First(s) \notin reg /\ ~At(s, u) => ~users[s][u].in
    /\ \A u \in Users : cusers[u].sid # NoSid => cusers[u].sid \in reg

Stories ==
    \A s \in Sfus, u \in Users : First(s) \in Sids /\ At(s, u) =>
        StoryOf(up[First(s)], u, users[s][u], cusers[u])

\* A participant that the other SFUs were told of.
Sure(u) == cusers[u].in /\ ~cusers[u].audience /\ cusers[u].sid # NoSid

Views ==
    \A s \in Sfus, u \in Users : First(s) \in reg /\ ~At(s, u) /\ ~ub[s] /\ Sure(u) =>
        ViewOf(down[First(s)], u, users[s][u], cusers[u].pushers)

SteadyInv == Unopened /\ Unregistered /\ Stories /\ Views

ViewInv == ClusterInv /\ Base /\ WhoSpeaks /\ (Steady => SteadyInv)

-----------------------------------------------------------------------------
(* The steps of the SFUs *)

\* s has told the center ms, or has lost it.
HasTold(s, ms) == up' = Writes(s, ms) \/ (up' = up /\ lossy'[s])

\* A link that has lost something stays one that has.
StaysLossy == \A x \in Sfus : lossy[x] => lossy'[x]

LEMMA SendTells ==
    ASSUME OpenInv, NEW s \in Sfus, NEW ms, Send(s, ms)
    PROVE  HasTold(s, ms) /\ StaysLossy /\ UNCHANGED <<conn, epoch>>
BY DEF Send, HasTold, StaysLossy, OpenInv, TypeOK, LinkTypeOK

\* What a step of s alone does: it changes its own users and tells the center.
SfuMoves(s) ==
    /\ UNCHANGED <<conn, epoch>>
    /\ StaysLossy
    /\ \A x \in Sfus \ {s}, u \in Users : SameUser(x, u)
    /\ \A x \in Sfus : ub[x] => ub'[x]
    /\ IdleEmpty' /\ Strangers'
    /\ \E ms \in Seq(OwnMsgs) :
           /\ HasTold(s, ms)
           /\ AboutOwn(s, ms)
           /\ \A u \in Users :
                  \/ StaysOf(ms, u, users[s][u], users'[s][u])
                  \/ /\ At(s, u)
                     /\ \/ EntersOf(ms, u, users[s][u], users'[s][u])
                        \/ PublishesOf(ms, u, users[s][u], users'[s][u])
                        \/ DepartsOf(ms, u, users[s][u], users'[s][u])

LEMMA WritesNothing ==
    ASSUME OpenInv, NEW s \in Sfus
    PROVE  Writes(s, <<>>) = up
<1>1. CASE HasCenter /\ conn[s]
  <2>1. Sid(s) \in Sids
    BY <1>1, ConnectedSid DEF OpenInv
  <2>2. up[Sid(s)] \in Seq(OwnMsgs)
    BY <2>1 DEF OpenInv, UpOwn
  <2>3. up[Sid(s)] \o <<>> = up[Sid(s)]
    BY <2>2
  <2>4. [up EXCEPT ![Sid(s)] = up[Sid(s)] \o <<>>] = up
    BY <2>3 DEF OpenInv, UpOwn
  <2> QED
    BY <1>1, <2>4 DEF Writes
<1>2. CASE ~(HasCenter /\ conn[s])
  BY <1>2 DEF Writes
<1> QED
  BY <1>1, <1>2

LEMMA RoomGot ==
    ASSUME TypeOK, NEW s \in Sfus, EnterRoom(s) \/ FindRoom(s), NEW x \in Sfus
    PROVE  /\ room'[x].idle => room[x].idle
           /\ EnterRoom(s) => ~room'[s].idle
<1>1. room[s] \in Rooms /\ \A z \in Sfus : room[z] \in Rooms
  BY DEF TypeOK, RoomTypeOK, Rooms
<1>2. GotRoom(s) \in [up : BOOLEAN, gen : Nat, idle : BOOLEAN] /\ (GotRoom(s).idle => room[s].idle)
  BY <1>1, RoomAssumption DEF GotRoom, Rooms
<1>3. ~[GotRoom(s) EXCEPT !.idle = FALSE].idle
  BY <1>2
<1>4. room' = [room EXCEPT ![s] = [GotRoom(s) EXCEPT !.idle = FALSE]] \/
      room' = [room EXCEPT ![s] = GotRoom(s)]
  BY DEF EnterRoom, FindRoom
<1>5. EnterRoom(s) => room' = [room EXCEPT ![s] = [GotRoom(s) EXCEPT !.idle = FALSE]]
  BY DEF EnterRoom
<1> HIDE DEF GotRoom
<1> QED
  BY <1>2, <1>3, <1>4, <1>5 DEF TypeOK, RoomTypeOK

\* A step that changes nobody but may ask for streams, or speak of its own users
\* otherwise than by a join, a push or a leave.
LEMMA SameMoves ==
    ASSUME OpenInv, Strangers, NEW s \in Sfus, UNCHANGED <<conn, epoch>>, StaysLossy,
           NEW ms \in Seq(OwnMsgs), HasTold(s, ms), AboutOwn(s, ms),
           \A i \in 1 .. Len(ms), u \in Users : ms[i] \notin MovesOf(u),
           \A x \in Sfus, u \in Users : SameUser(x, u),
           \A x \in Sfus, u \in Users : room'[x].idle => ~users[x][u].in,
           \A x \in Sfus : ub[x] => ub'[x]
    PROVE  SfuMoves(s)
<1>1. IdleEmpty'
  BY DEF IdleEmpty, SameUser
<1>2. Strangers'
  BY DEF Strangers, SameUser, At
<1>3. \A u \in Users : StaysOf(ms, u, users[s][u], users'[s][u])
  BY DEF StaysOf, SameUser, Grows
<1>4. \A x \in Sfus \ {s}, u \in Users : SameUser(x, u)
  OBVIOUS
<1> QED
  BY <1>1, <1>2, <1>3, <1>4, Zenon DEF SfuMoves

LEMMA SilentMoves ==
    ASSUME OpenInv, Strangers, NEW s \in Sfus, UNCHANGED linkVars,
           \A x \in Sfus, u \in Users : SameUser(x, u),
           \A x \in Sfus, u \in Users : room'[x].idle => ~users[x][u].in,
           \A x \in Sfus : ub[x] => ub'[x]
    PROVE  SfuMoves(s)
<1>1. UNCHANGED <<conn, epoch>> /\ StaysLossy /\ HasTold(s, <<>>)
  BY WritesNothing DEF linkVars, StaysLossy, HasTold
<1>2. <<>> \in Seq(OwnMsgs) /\ AboutOwn(s, <<>>) /\ Len(<<>>) = 0
  BY DEF AboutOwn
<1>3. \A i \in 1 .. Len(<<>>), u \in Users : <<>>[i] \notin MovesOf(u)
  BY <1>2
<1> QED
  BY <1>1, <1>2, <1>3, SameMoves

\* users_ stays as it is.
LEMMA SameUsersSame ==
    ASSUME UNCHANGED users
    PROVE  \A x \in Sfus, u \in Users : SameUser(x, u)
BY DEF SameUser

LEMMA UndefinedMoves ==
    ASSUME OpenInv, Base, NEW s \in Sfus, Undefined(s)
    PROVE  SfuMoves(s)
<1>1. UNCHANGED <<linkVars, users, room>>
  BY DEF Undefined
<1>2. \A x \in Sfus : ub[x] => ub'[x]
  BY DEF Undefined, OpenInv, TypeOK, RoomTypeOK
<1>3. \A x \in Sfus, u \in Users : room'[x].idle => ~users[x][u].in
  BY <1>1 DEF Base, IdleEmpty
<1> QED
  BY <1>1, <1>2, <1>3, SameUsersSame, SilentMoves DEF Base

\* The room was got or left as it is, the link is left alone and at most a few
\* heartbeats were refreshed.
LEMMA QuietMoves ==
    ASSUME OpenInv, Base, NEW s \in Sfus, UNCHANGED <<linkVars, ub>>,
           EnterRoom(s) \/ FindRoom(s) \/ UNCHANGED room,
           UNCHANGED users \/ \E us : users' = Beat(s, us)
    PROVE  SfuMoves(s)
<1>1. TypeOK
  BY DEF OpenInv
<1>2. \A x \in Sfus, u \in Users : SameUser(x, u)
  BY <1>1, SameUsersSame, BeatSame
<1>3. \A x \in Sfus : room'[x].idle => room[x].idle
  BY <1>1, RoomGot
<1>4. \A x \in Sfus, u \in Users : room'[x].idle => ~users[x][u].in
  BY <1>3 DEF Base, IdleEmpty
<1> QED
  BY <1>2, <1>4, SilentMoves DEF Base

\* The message is no join, push or leave.
LEMMA NoMove ==
    ASSUME NEW m, m.method \notin {"join", "push", "userLeave"}, NEW u
    PROVE  m \notin MovesOf(u)
BY DEF MovesOf, JoinsOf, PushesOf, LeavesOf

\* HandleRemotePullSdp asks for streams.
LEMMA RemotePullMoves ==
    ASSUME OpenInv, Base, NEW w \in Sockets, NEW v \in Users, NEW t \in Users, NEW P,
           NEW k \in SessIds, HandleRemotePullSdp(w, v, t, P, k)
    PROVE  SfuMoves(Home[w])
<1> DEFINE s == Home[w]
           known == P \cap users[s][t].pushers
           fresh == known # {} /\ recvByUser[s][t] = 0
           port == IF fresh THEN lastPort[s] + 1 ELSE recvByUser[s][t]
           q == SetToSeq(known)
           to == [sfu |-> s, port |-> port]
           ms == [i \in 1 .. Len(q) |-> PullMsg(t, q[i], to)]
<1>1. s \in Sfus /\ TypeOK /\ OwnPushers
  BY RoomAssumption DEF OpenInv
<1>2. EnterRoom(s) /\ UNCHANGED <<users, ub>> /\ Send(s, ms)
  BY DEF HandleRemotePullSdp
<1>3. HasTold(s, ms) /\ StaysLossy /\ UNCHANGED <<conn, epoch>>
  BY <1>1, <1>2, SendTells
<1>4. known \subseteq PushersOf(t) /\ known \subseteq Pushers
  BY <1>1 DEF OwnPushers, PushersOf
<1>5. q \in Seq(known)
  BY <1>4, PushersFinite, FS_Subset, SetToSeqType, Zenon
<1>6. port <= MaxPort
  BY DEF HandleRemotePullSdp
<1>7. known # {} => port \in Ports
  <2>1. lastPort[s] \in 0 .. MaxPort /\ recvByUser[s][t] \in 0 .. MaxPort /\ MaxPort \in Nat
    BY <1>1, RoomAssumption DEF TypeOK, RelayTypeOK
  <2> QED
    BY <1>6, <2>1 DEF Ports
<1> HIDE DEF port, q
<1>8. \A i \in 1 .. Len(q) : q[i] \in known
  BY <1>5
<1> HIDE DEF known
<1>9. known # {} => to \in Targets
  BY <1>1, <1>7 DEF Targets
<1> HIDE DEF to
<1>10. \A i \in 1 .. Len(q) : PullMsg(t, q[i], to) \in OwnMsgs
  BY <1>4, <1>8, <1>9, OwnMsgTypes
<1>11. ms \in Seq(OwnMsgs) /\ Len(ms) = Len(q)
  BY <1>5, <1>10
<1>12. \A i \in 1 .. Len(ms) : ms[i].method = "pullRemoteStream"
  BY <1>11 DEF PullMsg
<1> HIDE DEF ms
<1>13. AboutOwn(s, ms) /\ \A i \in 1 .. Len(ms), u \in Users : ms[i] \notin MovesOf(u)
  BY <1>12, NoMove DEF AboutOwn
<1>14. \A x \in Sfus, u \in Users : room'[x].idle => ~users[x][u].in
  BY <1>1, <1>2, RoomGot DEF Base, IdleEmpty
<1> HIDE DEF s
<1>15. SfuMoves(s)
  BY <1>1, <1>2, <1>3, <1>11, <1>13, <1>14, SameUsersSame, SameMoves DEF Base
<1> QED
  BY <1>15 DEF s

LEMMA PullMoves ==
    ASSUME OpenInv, Base, NEW w \in Sockets, NEW u \in Users, HandlePullRequest(w, u)
    PROVE  SfuMoves(Home[w])
<1>1. Home[w] \in Sfus
  BY RoomAssumption
<1>2. ASSUME NEW t, PullUnknown(w, t) PROVE SfuMoves(Home[w])
  <2>1. FindRoom(Home[w]) /\ UNCHANGED <<linkVars, users, ub>>
    BY <1>2 DEF PullUnknown
  <2> QED
    BY <1>1, <2>1, QuietMoves
<1>3. ASSUME NEW t, NEW P, NEW k, HandlePullSdp(w, u, t, P, k) PROVE SfuMoves(Home[w])
  <2>1. EnterRoom(Home[w]) /\ UNCHANGED <<linkVars, users, ub>>
    BY <1>3 DEF HandlePullSdp
  <2> QED
    BY <1>1, <2>1, QuietMoves
<1> QED
  BY <1>2, <1>3, RemotePullMoves, Zenon DEF HandlePullRequest

\* One RtcUser of s changes while s writes ms about it.
LEMMA OneMoves ==
    ASSUME OpenInv, Base, NEW s \in Sfus, NEW u \in Users, At(s, u), NEW r, OneUser(s, u, r),
           NEW m \in OwnMsgs, m.user = u, Send(s, <<m>>),
           EnterRoom(s) \/ (FindRoom(s) /\ (r.in => users[s][u].in)), UNCHANGED ub,
           \/ StaysOf(<<m>>, u, users[s][u], r)
           \/ EntersOf(<<m>>, u, users[s][u], r)
           \/ PublishesOf(<<m>>, u, users[s][u], r)
    PROVE  SfuMoves(s)
<1>1. HasTold(s, <<m>>) /\ StaysLossy /\ UNCHANGED <<conn, epoch>>
  BY SendTells
<1>2. <<m>> \in Seq(OwnMsgs) /\ Len(<<m>>) = 1 /\ <<m>>[1] = m
  OBVIOUS
<1>3. AboutOwn(s, <<m>>)
  BY <1>2 DEF AboutOwn
<1>4. ASSUME NEW y \in Users \ {u} PROVE StaysOf(<<m>>, y, users[s][y], users'[s][y])
  <2>1. m \notin MovesOf(y)
    BY <1>4 DEF MovesOf, JoinsOf, PushesOf, LeavesOf
  <2>2. users'[s][y] = users[s][y]
    BY <1>4 DEF OneUser
  <2> QED
    BY <1>2, <2>1, <2>2 DEF StaysOf, Grows
<1>5. \A x \in Sfus \ {s}, y \in Users : SameUser(x, y)
  BY DEF OneUser, SameUser
<1>6. IdleEmpty'
  <2>1. \A x \in Sfus : room'[x].idle => room[x].idle
    BY RoomGot DEF OpenInv
  <2>2. EnterRoom(s) => ~room'[s].idle
    BY RoomGot DEF OpenInv
  <2>3. ASSUME NEW x \in Sfus, NEW y \in Users, room'[x].idle PROVE ~users'[x][y].in
    <3>1. ~users[x][y].in
      BY <2>1, <2>3 DEF Base, IdleEmpty
    <3>2. CASE x = s /\ y = u
      BY <2>2, <2>3, <3>1, <3>2 DEF OneUser
    <3>3. CASE ~(x = s /\ y = u)
      BY <3>1, <3>3 DEF OneUser
    <3> QED
      BY <3>2, <3>3
  <2> QED
    BY <2>3 DEF IdleEmpty
<1>7. Strangers'
  BY DEF Base, Strangers, OneUser, At
<1>8. users'[s][u] = r
  BY DEF OneUser
<1>9. \A y \in Users :
          \/ StaysOf(<<m>>, y, users[s][y], users'[s][y])
          \/ /\ At(s, y)
             /\ \/ EntersOf(<<m>>, y, users[s][y], users'[s][y])
                \/ PublishesOf(<<m>>, y, users[s][y], users'[s][y])
                \/ DepartsOf(<<m>>, y, users[s][y], users'[s][y])
  BY <1>4, <1>8
<1> QED
  BY <1>1, <1>2, <1>3, <1>5, <1>6, <1>7, <1>9, Zenon DEF SfuMoves

LEMMA JoinMoves ==
    ASSUME OpenInv, Base, NEW w \in Sockets, NEW u \in Speaks[w], NEW a \in BOOLEAN,
           HandleJoinRequest(w, u, a)
    PROVE  SfuMoves(Home[w])
<1> DEFINE s == Home[w]
<1>1. s \in Sfus /\ u \in Users /\ At(s, u) /\ TypeOK
  BY RoomAssumption DEF At, OpenInv
<1>2. users[s][u] \in UserRecs
  BY <1>1 DEF TypeOK, RoomTypeOK
<1>3. EnterRoom(s) /\ UNCHANGED ub
  BY DEF HandleJoinRequest
<1>4. CASE JoinNew(w, u, a)
  <2> DEFINE m == JoinMsg(u, a, GotRoom(s).gen)
             r == NewRtcUser(w, a)
  <2>1. ~users[s][u].in /\ OneUser(s, u, r) /\ Send(s, <<m>>)
    BY <1>1, <1>4, OneUserChanges DEF JoinNew
  <2>2. GotRoom(s).gen \in 0 .. MaxGen
    BY <1>1, <1>3, GetRoomType
  <2>3. m \in OwnMsgs
    BY <1>1, <2>2, OwnMsgTypes
  <2>4. m.method = "join" /\ m.user = u /\ r.in
    BY DEF JoinMsg, NewRtcUser, NoUser
  <2> HIDE DEF m, r
  <2>5. m \in JoinsOf(u)
    BY <2>3, <2>4 DEF JoinsOf
  <2>6. EntersOf(<<m>>, u, users[s][u], r)
    BY <2>1, <2>4, <2>5 DEF EntersOf
  <2> HIDE DEF s
  <2>7. SfuMoves(s)
    BY <1>1, <1>3, <2>1, <2>3, <2>4, <2>6, OneMoves
  <2> QED
    BY <2>7 DEF s
<1>5. CASE ReConnect(w, u, a)
  <2> DEFINE m == UserMsg("userReConnect", u)
             r == [users[s][u] EXCEPT !.audience = a]
  <2>1. OneUser(s, u, r) /\ Send(s, <<m>>)
    BY <1>1, <1>5, OneUserChanges DEF ReConnect
  <2>2. m \in OwnMsgs
    BY <1>1, OwnMsgTypes
  <2>3. m.method = "userReConnect" /\ m.user = u
    BY DEF UserMsg
  <2>4. r.in = users[s][u].in /\ r.pushers = users[s][u].pushers
    BY <1>2, AudienceFields
  <2> HIDE DEF m, r
  <2>5. m \notin MovesOf(u)
    BY <2>3, NoMove
  <2>6. StaysOf(<<m>>, u, users[s][u], r)
    BY <2>4, <2>5 DEF StaysOf, Grows
  <2> HIDE DEF s
  <2>7. SfuMoves(s)
    BY <1>1, <1>3, <2>1, <2>2, <2>3, <2>6, OneMoves
  <2> QED
    BY <2>7 DEF s
<1> QED
  BY <1>4, <1>5 DEF HandleJoinRequest

LEMMA PushMoves ==
    ASSUME OpenInv, Base, NEW w \in Sockets, NEW u \in Speaks[w], NEW k \in SessIds,
           NEW M \in Offers, HandlePushRequest(w, u, k, M)
    PROVE  SfuMoves(Home[w])
<1> DEFINE s == Home[w]
           all == users[s][u].pushers \cup PushersIn(s, k, u, M)
           r == [users[s][u] EXCEPT !.pushers = all, !.age = 0]
           m == PushMsg(u, all)
<1>1. s \in Sfus /\ u \in Users /\ At(s, u) /\ TypeOK /\ OwnPushers
  BY RoomAssumption DEF At, OpenInv
<1>2. users[s][u] \in UserRecs
  BY <1>1 DEF TypeOK, RoomTypeOK
<1>3. EnterRoom(s) /\ UNCHANGED ub
  BY DEF HandlePushRequest
<1>4. \/ UNCHANGED <<linkVars, users>>
      \/ users[s][u].in /\ users' = [users EXCEPT ![s][u] = r] /\ Send(s, <<m>>)
  BY DEF HandlePushRequest
<1>5. CASE UNCHANGED <<linkVars, users>>
  <2>1. UNCHANGED linkVars /\ UNCHANGED users
    BY <1>5
  <2> HIDE DEF s
  <2>2. SfuMoves(s)
    BY <1>1, <1>3, <2>1, QuietMoves
  <2> QED
    BY <2>2 DEF s
<1>6. CASE users[s][u].in /\ users' = [users EXCEPT ![s][u] = r] /\ Send(s, <<m>>)
  <2>1. OneUser(s, u, r)
    BY <1>1, <1>6, OneUserChanges
  <2>2. all \in SUBSET PushersOf(u)
    BY <1>1, NewPushersOwn DEF OwnPushers
  <2>3. users[s][u].pushers \subseteq all
    OBVIOUS
  <2> HIDE DEF all
  <2>4. r.in = users[s][u].in /\ r.pushers = all
    BY <1>2, PushFields
  <2>5. m \in OwnMsgs
    BY <1>1, <2>2, OwnMsgTypes
  <2>6. m.method = "push" /\ m.user = u /\ m.pushers = all
    BY DEF PushMsg
  <2> HIDE DEF m, r
  <2>7. m \in PushesOf(u)
    BY <2>5, <2>6 DEF PushesOf
  <2>8. PublishesOf(<<m>>, u, users[s][u], r)
    BY <1>6, <2>3, <2>4, <2>6, <2>7 DEF PublishesOf, Grows
  <2> HIDE DEF s
  <2>9. SfuMoves(s)
    BY <1>1, <1>3, <1>6, <2>1, <2>5, <2>6, <2>8, OneMoves
  <2> QED
    BY <2>9 DEF s
<1> QED
  BY <1>4, <1>5, <1>6

LEMMA DisconnectMoves ==
    ASSUME OpenInv, Base, WhoSpeaks, NEW w \in Sockets, DisconnectUser(w)
    PROVE  SfuMoves(Home[w])
<1> DEFINE s == Home[w]
           u == who[w]
           r == [users[s][u] EXCEPT !.cb = NoWs]
           m == UserMsg("userDisconnect", u)
<1>0. CASE u = NoWs
  <2>1. UNCHANGED linkVars /\ UNCHANGED ub /\ UNCHANGED room /\ UNCHANGED users
    BY <1>0 DEF DisconnectUser
  <2>2. Home[w] \in Sfus
    BY RoomAssumption
  <2> QED
    BY <2>1, <2>2, QuietMoves
<1> SUFFICES ASSUME u # NoWs PROVE SfuMoves(Home[w])
  BY <1>0
<1>1. s \in Sfus /\ u \in Users /\ At(s, u) /\ TypeOK
  <2>1. u \in Speaks[w]
    BY DEF WhoSpeaks
  <2> QED
    BY <2>1, RoomAssumption DEF At, OpenInv
<1>2. users[s][u] \in UserRecs
  BY <1>1 DEF TypeOK, RoomTypeOK
<1>3. FindRoom(s) /\ UNCHANGED ub
  BY DEF DisconnectUser
<1>4. \/ UNCHANGED <<linkVars, users>>
      \/ users' = [users EXCEPT ![s][u] = r] /\ Send(s, <<m>>)
  BY DEF DisconnectUser
<1>5. CASE UNCHANGED <<linkVars, users>>
  <2>1. UNCHANGED linkVars /\ UNCHANGED users
    BY <1>5
  <2> HIDE DEF s, u
  <2>2. SfuMoves(s)
    BY <1>1, <1>3, <2>1, QuietMoves
  <2> QED
    BY <2>2 DEF s
<1>6. CASE users' = [users EXCEPT ![s][u] = r] /\ Send(s, <<m>>)
  <2>1. OneUser(s, u, r)
    BY <1>1, <1>6, OneUserChanges
  <2>2. r.in = users[s][u].in /\ r.pushers = users[s][u].pushers
    BY <1>2 DEF UserRecs
  <2>3. m \in OwnMsgs
    BY <1>1, OwnMsgTypes
  <2>4. m.method = "userDisconnect" /\ m.user = u
    BY DEF UserMsg
  <2> HIDE DEF m, r
  <2>5. m \notin MovesOf(u)
    BY <2>4, NoMove
  <2>6. StaysOf(<<m>>, u, users[s][u], r)
    BY <2>2, <2>5 DEF StaysOf, Grows
  <2> HIDE DEF s, u
  <2>7. SfuMoves(s)
    BY <1>1, <1>3, <1>6, <2>1, <2>2, <2>3, <2>4, <2>6, OneMoves
  <2> QED
    BY <2>7 DEF s
<1> QED
  BY <1>4, <1>5, <1>6

LEMMA ClientMoves ==
    ASSUME OpenInv, Base, WhoSpeaks, NEW w \in Sockets, ClientNext(w)
    PROVE  SfuMoves(Home[w])
<1>1. /\ Home[w] \in Sfus /\ \A a \in Audiences : a \in BOOLEAN
      /\ \A u \in Speaks[w] : u \in Users
  BY RoomAssumption
<1>2. ASSUME NEW u, HandleHeartbeatRequest(w, u) PROVE SfuMoves(Home[w])
  <2>1. EnterRoom(Home[w]) /\ users' = Beat(Home[w], {u}) /\ UNCHANGED <<linkVars, ub>>
    BY <1>2 DEF HandleHeartbeatRequest
  <2> QED
    BY <1>1, <2>1, QuietMoves
<1>3. ASSUME WsReadError(w) \/ HandleJoinRequestElsewhere(w) PROVE SfuMoves(Home[w])
  <2>1. UNCHANGED <<linkVars, room, users, ub>>
    BY <1>3 DEF WsReadError, HandleJoinRequestElsewhere
  <2> QED
    BY <1>1, <2>1, QuietMoves
<1>4. WsOnClose(w) \/ WsSweep(w) => DisconnectUser(w)
  BY DEF WsOnClose, WsSweep
<1>5. ASSUME NEW u \in Speaks[w], NEW a \in Audiences, HandleJoinRequest(w, u, a)
      PROVE  SfuMoves(Home[w])
  BY <1>1, <1>5, JoinMoves
<1>6. ASSUME NEW u \in Speaks[w], HandlePullRequest(w, u) PROVE SfuMoves(Home[w])
  BY <1>1, <1>6, PullMoves
<1>7. ASSUME NEW u \in Speaks[w], NEW k \in SessIds, NEW M \in Offers,
             HandlePushRequest(w, u, k, M)
      PROVE  SfuMoves(Home[w])
  BY <1>7, PushMoves
<1> QED
  BY <1>2, <1>3, <1>4, <1>5, <1>6, <1>7, DisconnectMoves, Zenon DEF ClientNext

LEMMA PeerMoves ==
    ASSUME OpenInv, Base, WhipUsers = {}, NEW s \in Sfus, PeerNext(s)
    PROVE  SfuMoves(s)
<1>1. ASSUME NEW k, HandleStunPacket(s, k) \/ SessionIdles(s, k) PROVE SfuMoves(s)
  <2>1. UNCHANGED <<linkVars, room, users, ub>>
    BY <1>1 DEF HandleStunPacket, SessionIdles
  <2> QED
    BY <2>1, QuietMoves
<1>2. ASSUME NEW k, NEW x, OnRtpPacketFromRtcPusher(s, k, x) PROVE SfuMoves(s)
  <2>1. CASE ~Undefined(s)
    <3>1. EnterRoom(s) /\ UNCHANGED <<linkVars, ub>>
      BY <1>2, <2>1, Zenon DEF OnRtpPacketFromRtcPusher
    <3>2. \E us : users' = Beat(s, us)
      BY <1>2, <2>1, Zenon DEF OnRtpPacketFromRtcPusher
    <3> QED
      BY <3>1, <3>2, QuietMoves
  <2> QED
    BY <2>1, UndefinedMoves
<1>3. ASSUME NEW k, NEW p, OnKeyFrameRequest(s, k, p) PROVE SfuMoves(s)
  <2>1. CASE ~Undefined(s)
    <3>1. UNCHANGED <<linkVars, room, users, ub>>
      BY <1>3, <2>1 DEF OnKeyFrameRequest
    <3> QED
      BY <3>1, QuietMoves
  <2> QED
    BY <2>1, UndefinedMoves
<1>4. ASSUME NEW k, WebRtcServerOnTimer(s, k) PROVE SfuMoves(s)
  <2>1. CASE ~Undefined(s)
    <3>1. UNCHANGED <<linkVars, room, users, ub>>
      BY <1>4, <2>1 DEF WebRtcServerOnTimer
    <3> QED
      BY <3>1, QuietMoves
  <2> QED
    BY <2>1, UndefinedMoves
<1>5. ASSUME NEW u, NotifyDestroyed(s, u) \/ OnRelayKeyFrameRequest(s, u) PROVE SfuMoves(s)
  <2>1. Undefined(s)
    BY <1>5 DEF NotifyDestroyed, OnRelayKeyFrameRequest
  <2> QED
    BY <2>1, UndefinedMoves
<1> QED
  BY <1>1, <1>2, <1>3, <1>4, <1>5, Zenon DEF PeerNext

LEMMA RelayMoves ==
    ASSUME OpenInv, Base, NEW s \in Sfus, NEW e, RelayRtp(s, e)
    PROVE  SfuMoves(s)
<1>1. OnRtpPacketFromRemoteRtcPusher(s, e)
  BY DEF RelayRtp
<1>2. EnterRoom(s) /\ UNCHANGED <<linkVars, ub>>
  BY <1>1 DEF OnRtpPacketFromRemoteRtcPusher
<1>3. \E us : users' = Beat(s, us)
  BY <1>1, Zenon DEF OnRtpPacketFromRemoteRtcPusher
<1> QED
  BY <1>2, <1>3, QuietMoves

\* Room::OnTimer releases users of its own SFU only, and says so.
LEMMA RoomTimerMoves ==
    ASSUME OpenInv, Base, NEW s \in Sfus, RoomOnTimer(s)
    PROVE  SfuMoves(s)
<1> DEFINE us == Expired(s)
           q == SetToSeq(us)
           ms == [i \in 1 .. Len(q) |-> UserMsg("userLeave", q[i])]
<1>1. TypeOK /\ us \in SUBSET Users
  BY DEF Expired, In, OpenInv
<1>2. \A u \in us : users[s][u].in /\ At(s, u)
  BY DEF Expired, In, Base, Strangers
<1>3. Send(s, ms) /\ UNCHANGED ub
  BY DEF RoomOnTimer, ReleaseUserResources
<1>4. HasTold(s, ms) /\ StaysLossy /\ UNCHANGED <<conn, epoch>>
  BY <1>3, SendTells
<1>5. users' = [users EXCEPT ![s] = [u \in Users |-> IF u \in us THEN NoUser ELSE users[s][u]]]
  BY DEF RoomOnTimer, ReleaseUserResources
<1>6. room' = [room EXCEPT ![s].idle = room[s].idle /\ In(s) = {}]
  BY DEF RoomOnTimer
<1>7. /\ q \in Seq(us)
      /\ \A i \in DOMAIN q : q[i] \in us
      /\ \A u \in us : \E i \in DOMAIN q : q[i] = u
  BY <1>1, LeaveMsgsType, LinkAssumption, FS_Subset, SetToSeqCovers
<1> HIDE DEF us, q
<1>8. /\ \A u \in Users : users'[s][u] = IF u \in us THEN NoUser ELSE users[s][u]
      /\ \A x \in Sfus \ {s} : users'[x] = users[x]
  BY <1>1, <1>5 DEF TypeOK, RoomTypeOK
<1>9. DOMAIN q = 1 .. Len(q) /\ \A i \in 1 .. Len(q) : q[i] \in Users /\ UserMsg("userLeave", q[i]) \in OwnMsgs
  BY <1>1, <1>7, OwnMsgTypes
<1>10. ms \in Seq(OwnMsgs) /\ Len(ms) = Len(q) /\ \A i \in 1 .. Len(ms) : ms[i] = UserMsg("userLeave", q[i])
  BY <1>7, <1>9
<1> HIDE DEF ms
<1>11. \A i \in 1 .. Len(ms) : ms[i].method = "userLeave" /\ ms[i].user = q[i] /\ ms[i] \in OwnMsgs
  <2>1. \A u : UserMsg("userLeave", u).method = "userLeave" /\ UserMsg("userLeave", u).user = u
    BY DEF UserMsg
  <2> QED
    BY <1>9, <1>10, <2>1
<1>12. AboutOwn(s, ms)
  BY <1>2, <1>7, <1>9, <1>10, <1>11 DEF AboutOwn
<1>13. ASSUME NEW u \in Users PROVE \A i \in 1 .. Len(ms) : ms[i] \notin JoinsOf(u) \cup PushesOf(u)
  BY <1>11 DEF JoinsOf, PushesOf
<1>14. ASSUME NEW u \in us PROVE At(s, u) /\ DepartsOf(ms, u, users[s][u], users'[s][u])
  <2>1. users[s][u].in /\ ~users'[s][u].in /\ At(s, u)
    BY <1>1, <1>2, <1>8, NoUserFields
  <2>2. \E i \in 1 .. Len(ms) : ms[i] \in LeavesOf(u)
    <3>1. PICK i \in 1 .. Len(q) : q[i] = u
      BY <1>7, <1>9
    <3> QED
      BY <1>10, <1>11, <3>1 DEF LeavesOf
  <2> QED
    BY <1>1, <1>13, <2>1, <2>2 DEF DepartsOf
<1>15. ASSUME NEW u \in Users \ us PROVE StaysOf(ms, u, users[s][u], users'[s][u])
  <2>1. users'[s][u] = users[s][u]
    BY <1>8
  <2>2. \A i \in 1 .. Len(ms) : ms[i] \notin LeavesOf(u)
    BY <1>7, <1>9, <1>10, <1>11 DEF LeavesOf
  <2> QED
    BY <1>13, <2>1, <2>2 DEF StaysOf, Grows, MovesOf
<1>16. \A x \in Sfus \ {s}, u \in Users : SameUser(x, u)
  BY <1>8 DEF SameUser
<1>17. IdleEmpty'
  <2>1. \A x \in Sfus : room'[x].idle => room[x].idle
    BY <1>1, <1>6 DEF TypeOK, RoomTypeOK
  <2>2. \A x \in Sfus, u \in Users : users'[x][u].in => users[x][u].in
    BY <1>8, NoUserFields
  <2> QED
    BY <2>1, <2>2 DEF Base, IdleEmpty
<1>18. Strangers'
  BY <1>8, NoUserFields DEF Base, Strangers, At
<1>19. \A u \in Users :
           \/ StaysOf(ms, u, users[s][u], users'[s][u])
           \/ /\ At(s, u)
              /\ \/ EntersOf(ms, u, users[s][u], users'[s][u])
                 \/ PublishesOf(ms, u, users[s][u], users'[s][u])
                 \/ DepartsOf(ms, u, users[s][u], users'[s][u])
  BY <1>14, <1>15
<1>20. \A x \in Sfus : ub[x] => ub'[x]
  BY <1>3
<1> QED
  BY <1>4, <1>10, <1>12, <1>16, <1>17, <1>18, <1>19, <1>20, Zenon DEF SfuMoves

\* RoomMgr::OnTimer erases a room that has nobody.
LEMMA RoomMgrMoves ==
    ASSUME OpenInv, Base, NEW s \in Sfus, RoomMgrOnTimer(s)
    PROVE  SfuMoves(s)
<1>1. TypeOK /\ \A u \in Users : ~users[s][u].in
  BY DEF RoomMgrOnTimer, Base, IdleEmpty, OpenInv
<1>2. /\ users' = [users EXCEPT ![s] = [u \in Users |-> NoUser]]
      /\ room' = [room EXCEPT ![s].up = FALSE, ![s].idle = FALSE]
      /\ UNCHANGED <<linkVars, ub>>
  BY DEF RoomMgrOnTimer, DropRoom
<1>3. /\ \A u \in Users : users'[s][u] = NoUser
      /\ \A x \in Sfus \ {s} : users'[x] = users[x]
  BY <1>1, <1>2 DEF TypeOK, RoomTypeOK
<1>4. \A x \in Sfus : room'[x].idle => room[x].idle
  BY <1>1, <1>2 DEF TypeOK, RoomTypeOK
<1>5. UNCHANGED <<conn, epoch>> /\ StaysLossy /\ HasTold(s, <<>>)
  BY <1>2, WritesNothing DEF linkVars, StaysLossy, HasTold
<1>6. <<>> \in Seq(OwnMsgs) /\ AboutOwn(s, <<>>) /\ Len(<<>>) = 0
  BY DEF AboutOwn
<1>7. \A u \in Users : StaysOf(<<>>, u, users[s][u], users'[s][u])
  <2>1. ASSUME NEW u \in Users PROVE StaysOf(<<>>, u, users[s][u], users'[s][u])
    <3>1. users'[s][u].in = FALSE /\ users[s][u].in = FALSE
      BY <1>1, <1>3, NoUserFields DEF TypeOK, RoomTypeOK, UserRecs
    <3>2. \A i \in 1 .. Len(<<>>) : <<>>[i] \notin MovesOf(u)
      BY <1>6
    <3> QED
      BY <3>1, <3>2 DEF StaysOf
  <2> QED
    BY <2>1
<1>8. \A x \in Sfus \ {s}, u \in Users : SameUser(x, u)
  BY <1>3 DEF SameUser
<1>9. \A x \in Sfus, u \in Users : users'[x][u].in => users'[x][u] = users[x][u]
  BY <1>3, NoUserFields
<1>10. IdleEmpty' /\ Strangers'
  BY <1>4, <1>9 DEF Base, IdleEmpty, Strangers, At
<1>11. \A x \in Sfus : ub[x] => ub'[x]
  BY <1>2
<1> QED
  BY <1>5, <1>6, <1>7, <1>8, <1>10, <1>11, Zenon DEF SfuMoves

LEMMA TimerMoves ==
    ASSUME OpenInv, Base, NEW s \in Sfus, TimerNext(s)
    PROVE  SfuMoves(s)
<1>1. ASSUME NEW u \in Users, UserAges(s, u) PROVE SfuMoves(s)
  <2>1. UNCHANGED <<linkVars, room, ub>>
    BY <1>1 DEF UserAges
  <2>2. \A x \in Sfus, y \in Users : SameUser(x, y)
    BY <1>1, UserAgesSame DEF OpenInv
  <2>3. \A x \in Sfus, y \in Users : room'[x].idle => ~users[x][y].in
    BY <2>1 DEF Base, IdleEmpty
  <2> QED
    BY <2>1, <2>2, <2>3, SilentMoves DEF Base
<1>2. ASSUME NEW port, RelayIdles(s, port) PROVE SfuMoves(s)
  <2>1. UNCHANGED <<linkVars, room, users, ub>>
    BY <1>2 DEF RelayIdles
  <2> QED
    BY <2>1, QuietMoves
<1>3. ASSUME RoomIdles(s) PROVE SfuMoves(s)
  <2>1. UNCHANGED <<linkVars, users, ub>> /\ In(s) = {}
    BY <1>3 DEF RoomIdles
  <2>2. room' = [room EXCEPT ![s].idle = TRUE]
    BY <1>3 DEF RoomIdles
  <2>3. \A x \in Sfus \ {s} : room'[x] = room[x]
    BY <2>2 DEF OpenInv, TypeOK, RoomTypeOK
  <2>4. \A u \in Users : ~users[s][u].in
    BY <2>1 DEF In
  <2>5. \A x \in Sfus, y \in Users : room'[x].idle => ~users[x][y].in
    BY <2>3, <2>4 DEF Base, IdleEmpty
  <2> QED
    BY <2>1, <2>5, SameUsersSame, SilentMoves DEF Base
<1> QED
  BY <1>1, <1>2, <1>3, RoomTimerMoves, RoomMgrMoves, Zenon DEF TimerNext

\* What an SFU does that reads message m of the center.
SfuHears(s, m) ==
    /\ UNCHANGED linkVars
    /\ \A x \in Sfus \ {s} : users'[x] = users[x]
    /\ \A x \in Sfus : ub[x] => ub'[x]
    /\ IdleEmpty' /\ Strangers'
    /\ \A u \in Users : users[s][u].in => users'[s][u].in /\ Grows(users[s][u], users'[s][u])
    /\ \A u \in Users : users'[s][u].in => users[s][u].in \/ Brings(m, u)
    /\ ~ub'[s] => \A u \in Users : HearsOf(m, u, users[s][u], users'[s][u])

\* A message that brings nobody and lists nothing.
LEMMA PassedOnHeard ==
    ASSUME OpenInv, Base, NEW s \in Sfus, NEW m, UNCHANGED <<linkVars, users, ub>>,
           \/ m.method \in {"pullRemoteStream", "userDisconnect", "userLeave"}
           \/ m.method = "newPusher" /\ ~users[s][m.user].in,
           EnterRoom(s) \/ FindRoom(s)
    PROVE  SfuHears(s, m)
<1>1. \A x \in Sfus : room'[x].idle => room[x].idle
  BY RoomGot DEF OpenInv
<1>2. IdleEmpty' /\ Strangers'
  BY <1>1 DEF Base, IdleEmpty, Strangers, At
<1>3. \A u : ~Brings(m, u) /\ \A p : ~Lists(m, u, p) /\ (Adds(m, u, p) => ~users[s][u].in)
  BY DEF Brings, Lists, Adds
<1>4. \A u \in Users : users'[s][u] = users[s][u]
  OBVIOUS
<1>5. \A u \in Users : HearsOf(m, u, users[s][u], users'[s][u])
  BY <1>3, <1>4 DEF HearsOf, Grows
<1> QED
  BY <1>2, <1>4, <1>5 DEF SfuHears, HearsOf

LEMMA NewRemoteUserFields ==
    ASSUME NEW ps
    PROVE  NewRemoteUser(ps).in /\ NewRemoteUser(ps).remote /\ NewRemoteUser(ps).pushers = ps
BY DEF NewRemoteUser, NoUser

\* newUser and the answer to a join: those the SFU does not have become users.
LEMMA BroughtHeard ==
    ASSUME OpenInv, Base, NEW s \in Sfus, NEW m, NEW us \in SUBSET Users, NEW ps,
           UNCHANGED <<linkVars, ub>>, AddRemoteUsers(s, us, ps),
           \A u \in Users : u \in us <=> Brings(m, u) /\ ~users[s][u].in,
           \A u, p : ~Adds(m, u, p),
           \A u, p : Lists(m, u, p) => p \in ps,
           \A x \in Sfus : room'[x].idle => room[x].idle,
           us # {} => ~room'[s].idle
    PROVE  SfuHears(s, m)
<1> DEFINE rec(u) == NewRemoteUser({p \in ps : p.user = u})
<1>1. users' = [users EXCEPT ![s] = [u \in Users |-> IF u \in us THEN rec(u) ELSE users[s][u]]]
  BY DEF AddRemoteUsers
<1>2. \A u : rec(u).in /\ rec(u).remote /\ rec(u).pushers = {p \in ps : p.user = u}
  BY NewRemoteUserFields
<1> HIDE DEF rec
<1>3. /\ \A u \in Users : users'[s][u] = IF u \in us THEN rec(u) ELSE users[s][u]
      /\ \A x \in Sfus \ {s} : users'[x] = users[x]
  BY <1>1 DEF OpenInv, TypeOK, RoomTypeOK
<1>4. Strangers'
  BY <1>2, <1>3 DEF Base, Strangers, At
<1>5. IdleEmpty'
  BY <1>3 DEF Base, IdleEmpty
<1>6. ASSUME NEW u \in Users PROVE HearsOf(m, u, users[s][u], users'[s][u])
  <2>1. CASE u \in us
    <3>1. users'[s][u] = rec(u) /\ ~users[s][u].in /\ Brings(m, u)
      BY <1>3, <2>1
    <3>2. \A p : Lists(m, u, p) /\ p.user = u => p \in rec(u).pushers
      BY <1>2
    <3>3. rec(u).in
      BY <1>2
    <3> QED
      BY <3>1, <3>2, <3>3 DEF HearsOf
  <2>2. CASE u \notin us
    <3>1. users'[s][u] = users[s][u]
      BY <1>3, <2>2
    <3>2. ~users[s][u].in => ~Brings(m, u)
      BY <2>2
    <3>3. \A p : Lists(m, u, p) => Brings(m, u)
      BY DEF Lists, Brings
    <3> QED
      BY <3>1, <3>2, <3>3 DEF HearsOf, Grows
  <2> QED
    BY <2>1, <2>2
<1>7. \A u \in Users : users[s][u].in => users'[s][u].in /\ Grows(users[s][u], users'[s][u])
  BY <1>6 DEF HearsOf
<1>8. \A u \in Users : users'[s][u].in => users[s][u].in \/ Brings(m, u)
  BY <1>6 DEF HearsOf
<1>9. \A x \in Sfus : ub[x] => ub'[x]
  OBVIOUS
<1> QED
  BY <1>3, <1>4, <1>5, <1>6, <1>7, <1>8, <1>9 DEF SfuHears

LEMMA NewPusherHeard ==
    ASSUME OpenInv, Base, NEW s \in Sfus, NEW m \in CenterMsgs,
           HandleNewPusherNotificationFromCenter(s, m)
    PROVE  SfuHears(s, m)
<1> DEFINE u == m.user
           ps == users[s][u].pushers \cup m.pushers
           r == [users[s][u] EXCEPT !.remote = TRUE, !.pushers = ps]
<1>1. m.method = "newPusher" /\ EnterRoom(s) /\ UNCHANGED <<linkVars, ub>>
  BY DEF HandleNewPusherNotificationFromCenter
<1>2. u \in Users /\ TypeOK
  BY <1>1, CenterMsgFields DEF OpenInv
<1>3. users[s][u] \in UserRecs
  BY <1>2 DEF TypeOK, RoomTypeOK
<1>4. CASE ~users[s][u].in
  <2>1. UNCHANGED users
    BY <1>4 DEF HandleNewPusherNotificationFromCenter, In
  <2> QED
    BY <1>1, <1>4, <2>1, PassedOnHeard
<1>5. CASE users[s][u].in
  <2>1. users' = [users EXCEPT ![s][u] = r]
    BY <1>2, <1>5 DEF HandleNewPusherNotificationFromCenter, In
  <2>2. OneUser(s, u, r)
    BY <1>2, <2>1, OneUserChanges
  <2>3. r.in = users[s][u].in /\ r.remote = TRUE /\ r.pushers = ps
    BY <1>3, RemoteFields
  <2> HIDE DEF r
  <2>4. \A x \in Sfus : room'[x].idle => room[x].idle
    BY <1>1, <1>2, RoomGot
  <2>5. \A x \in Sfus, y \in Users : users'[x][y].in => users[x][y].in
    BY <1>5, <2>2 DEF OneUser
  <2>6. IdleEmpty'
    BY <2>4, <2>5 DEF Base, IdleEmpty
  <2>7. Strangers'
    BY <2>2, <2>3 DEF Base, Strangers, OneUser, At
  <2>8. \A y : ~Brings(m, y) /\ \A p : ~Lists(m, y, p)
    BY <1>1 DEF Brings, Lists
  <2>9. ASSUME NEW y \in Users PROVE HearsOf(m, y, users[s][y], users'[s][y])
    <3>1. CASE y = u
      <4>1. users'[s][y] = r
        BY <2>2, <3>1 DEF OneUser
      <4>2. \A p : Adds(m, y, p) => p \in r.pushers
        BY <2>3 DEF Adds
      <4> QED
        BY <1>5, <2>3, <2>8, <3>1, <4>1, <4>2 DEF HearsOf, Grows
    <3>2. CASE y # u
      <4>1. users'[s][y] = users[s][y] /\ \A p : ~Adds(m, y, p)
        BY <2>2, <3>2 DEF OneUser, Adds
      <4> QED
        BY <2>8, <4>1 DEF HearsOf, Grows
    <3> QED
      BY <3>1, <3>2
  <2>10. \A y \in Users : users[s][y].in => users'[s][y].in /\ Grows(users[s][y], users'[s][y])
    BY <2>9 DEF HearsOf
  <2>11. \A x \in Sfus \ {s} : users'[x] = users[x]
    BY <2>2 DEF OneUser
  <2>12. \A x \in Sfus : ub[x] => ub'[x]
    BY <1>1
  <2> QED
    BY <1>1, <2>5, <2>6, <2>7, <2>9, <2>10, <2>11, <2>12 DEF SfuHears
<1> QED
  BY <1>4, <1>5

LEMMA MessageHeard ==
    ASSUME OpenInv, Base, NEW s \in Sfus, NEW m \in CenterMsgs, OnCenterMessage(s, m)
    PROVE  SfuHears(s, m)
<1>1. TypeOK
  BY DEF OpenInv
<1>2. CASE HandleNewUserNotificationFromCenter(s, m)
  <2>1. /\ m.method = "newUser" /\ EnterRoom(s) /\ UNCHANGED <<linkVars, ub>>
        /\ AddRemoteUsers(s, {m.user} \ In(s), {})
    BY <1>2 DEF HandleNewUserNotificationFromCenter
  <2>2. m.user \in Users
    BY <2>1, CenterMsgFields
  <2>3. \A u \in Users : u \in {m.user} \ In(s) <=> Brings(m, u) /\ ~users[s][u].in
    BY <2>1 DEF Brings, In
  <2>4. \A u, p : ~Adds(m, u, p) /\ ~Lists(m, u, p)
    BY <2>1 DEF Adds, Lists
  <2>5. /\ \A x \in Sfus : room'[x].idle => room[x].idle
        /\ ~room'[s].idle
    BY <1>1, <2>1, RoomGot
  <2>6. {m.user} \ In(s) \in SUBSET Users
    BY <2>2
  <2> QED
    BY <2>1, <2>3, <2>4, <2>5, <2>6, BroughtHeard
<1>3. CASE HandleNewPusherNotificationFromCenter(s, m)
  BY <1>3, NewPusherHeard
<1>4. CASE HandlePullRemoteStreamNotificationFromCenter(s, m)
  <2>1. m.method = "pullRemoteStream" /\ EnterRoom(s) /\ UNCHANGED <<linkVars, users, ub>>
    BY <1>4 DEF HandlePullRemoteStreamNotificationFromCenter
  <2> QED
    BY <2>1, PassedOnHeard
<1>5. CASE HandleUserDisconnectNotificationFromCenter(s, m)
  <2>1. m.method = "userDisconnect" /\ FindRoom(s) /\ UNCHANGED <<linkVars, users, ub>>
    BY <1>5 DEF HandleUserDisconnectNotificationFromCenter
  <2> QED
    BY <2>1, PassedOnHeard
<1>6. CASE HandleUserLeaveNotificationFromCenter(s, m)
  <2>1. m.method = "userLeave" /\ FindRoom(s) /\ UNCHANGED <<linkVars, users, ub>>
    BY <1>6 DEF HandleUserLeaveNotificationFromCenter
  <2> QED
    BY <2>1, PassedOnHeard
<1>7. CASE JoinResponseFromPilotCenter(s, m) /\ Undefined(s)
  <2>1. UNCHANGED <<linkVars, users, room>> /\ ub' = [ub EXCEPT ![s] = TRUE]
    BY <1>7 DEF Undefined
  <2>2. ub'[s] /\ \A x \in Sfus : ub[x] => ub'[x]
    BY <1>1, <2>1 DEF TypeOK, RoomTypeOK
  <2>3. IdleEmpty' /\ Strangers'
    BY <2>1 DEF Base, IdleEmpty, Strangers, At
  <2> QED
    BY <2>1, <2>2, <2>3 DEF SfuHears, Grows
<1>8. CASE JoinResponseFromPilotCenter(s, m) /\ ~Undefined(s)
  <2> DEFINE added == m.users \ In(s)
  <2>1. /\ m.method = "joinResponse" /\ UNCHANGED <<linkVars, ub>>
        /\ room' = [room EXCEPT ![s].idle = room[s].idle /\ added = {}]
        /\ AddRemoteUsers(s, added, m.pushers)
    BY <1>8 DEF JoinResponseFromPilotCenter
  <2>2. m.users \in SUBSET Users
    BY <2>1, CenterMsgFields
  <2>3. \A u \in Users : u \in added <=> Brings(m, u) /\ ~users[s][u].in
    BY <2>1 DEF Brings, In
  <2>4. \A u, p : ~Adds(m, u, p) /\ (Lists(m, u, p) => p \in m.pushers)
    BY <2>1 DEF Adds, Lists
  <2>5. added \in SUBSET Users
    BY <2>2
  <2> HIDE DEF added
  <2>6. /\ \A x \in Sfus : room'[x].idle => room[x].idle
        /\ added # {} => ~room'[s].idle
    BY <1>1, <2>1 DEF TypeOK, RoomTypeOK
  <2> QED
    BY <2>1, <2>3, <2>4, <2>5, <2>6, BroughtHeard
<1> QED
  BY <1>2, <1>3, <1>4, <1>5, <1>6, <1>7, <1>8, Zenon DEF OnCenterMessage

-----------------------------------------------------------------------------
(* Sessions *)

\* While no connection was lost, a session that anything is known of is the first
\* one of a connected SFU.
LEMMA FirstOnly ==
    ASSUME ClusterInv, Steady, Unopened, NEW y \in Sids,
           up[y] # <<>> \/ down[y] # <<>> \/ y \in reg \/ part[y] # {}
    PROVE  /\ y[1] \in Sfus
           /\ y = First(y[1])
           /\ epoch[y[1]] = 1
           /\ conn[y[1]]
<1>1. /\ y[1] \in Sfus /\ y[2] \in 1 .. MaxEpoch /\ y = <<y[1], y[2]>>
      /\ MaxEpoch \in Nat
  BY LinkAssumption DEF Sids
<1>2. epoch[y[1]] \in Nat
  BY <1>1 DEF ClusterInv, OpenInv, TypeOK, LinkTypeOK
<1>3. ~(epoch[y[1]] < y[2])
  BY DEF Unopened
<1>4. epoch[y[1]] = 1 /\ conn[y[1]]
  BY <1>1, <1>2, <1>3 DEF Steady
<1>5. y[2] = 1
  BY <1>1, <1>3, <1>4
<1> QED
  BY <1>1, <1>4, <1>5 DEF First

\* The session of a connected SFU.
LEMMA FirstSid ==
    ASSUME ClusterInv, Steady, NEW s \in Sfus, conn[s]
    PROVE  /\ HasCenter
           /\ epoch[s] = 1
           /\ Sid(s) = First(s)
           /\ First(s) \in Sids
<1>1. HasCenter /\ Sid(s) \in Sids /\ epoch[s] # 0
  BY ConnectedSid DEF ClusterInv, OpenInv, LinkUp
<1>2. epoch[s] = 1
  BY <1>1 DEF Steady
<1> QED
  BY <1>1, <1>2 DEF Sid, First

\* An SFU that has not connected yet: the center has none of its users.
LEMMA NotConnected ==
    ASSUME ClusterInv, Steady, Unopened, NEW s \in Sfus, ~conn[s]
    PROVE  /\ epoch[s] = 0
           /\ First(s) \in Sids => up[First(s)] = <<>>
           /\ \A u \in Users : At(s, u) => cusers[u] = NoCUser
<1>1. epoch[s] = 0
  BY DEF Steady
<1>2. First(s) \in Sids => up[First(s)] = <<>>
  BY <1>1 DEF Unopened, First
<1>3. \A u \in Users : At(s, u) => cusers[u] = NoCUser
  BY <1>1 DEF Unopened
<1> QED
  BY <1>1, <1>2, <1>3

\* Two SFUs of one user are one.
LEMMA SameHome ==
    ASSUME OneHome, NEW s, NEW t, NEW u, At(s, u), At(t, u)
    PROVE  s = t
BY DEF At, OneHome

LEMMA NoCUserFields ==
    /\ ~NoCUser.in /\ NoCUser.sid = NoSid /\ NoCUser.pushers = {}
BY DEF NoCUser

\* Nothing was written and the center does not have the user: there is nothing
\* to tell.
LEMMA EmptyStory ==
    ASSUME NEW u, NEW r, NEW c, ~c.in, c.pushers = {}
    PROVE  StoryOf(<<>>, u, r, c)
<1>1. Len(<<>>) = 0 /\ 1 .. 0 = {} /\ 0 + 1 = 1 /\ 1 - 1 = 0
  OBVIOUS
<1>2. \A A, B : Undone(<<>>, A, B, Len(<<>>) + 1)
  BY <1>1 DEF Undone
<1>3. Away(<<>>, u, c, Len(<<>>) + 1)
  BY <1>2, Zenon DEF Away
<1>4. Listed(<<>>, u, r, c)
  BY <1>1 DEF Listed
<1> QED
  BY <1>1, <1>3, <1>4 DEF StoryOf

LEMMA ViewInit == ClusterInit => ViewInv
<1> SUFFICES ASSUME ClusterInit PROVE ViewInv
  OBVIOUS
<1>1. ClusterInv
  BY OpenInit, CenterInitType DEF ClusterInit, ClusterInv
<1>2. /\ cusers = [u \in Users |-> NoCUser] /\ reg = {}
      /\ part = [x \in Sids |-> {}] /\ pend = [x \in Sids |-> NoSid]
      /\ down = [x \in Sids |-> <<>>]
      /\ up = [x \in Sids |-> <<>>]
      /\ users = [s \in Sfus |-> [u \in Users |-> NoUser]]
      /\ who = [w \in Sockets |-> NoWs]
  BY DEF ClusterInit, Init, LinkInit, CenterInit
<1>3. \A u \in Users : cusers[u] = NoCUser
  BY <1>2
<1>4. \A s \in Sfus, u \in Users : ~users[s][u].in
  BY <1>2, NoUserFields
<1>5. Base
  <2>1. NoPend /\ Strangers /\ IdleEmpty
    BY <1>2, <1>4 DEF NoPend, Strangers, IdleEmpty
  <2>2. UpHome
    BY <1>2 DEF UpHome, AboutOwn
  <2>3. CenterHome
    BY <1>2, <1>3, NoCUserFields DEF CenterHome
  <2> QED
    BY <2>1, <2>2, <2>3 DEF Base
<1>6. Unopened
  BY <1>2, <1>3 DEF Unopened
<1>7. Unregistered
  BY <1>2, <1>3, <1>4, NoCUserFields DEF Unregistered
<1>8. Stories
  <2> SUFFICES ASSUME NEW s \in Sfus, NEW u \in Users, First(s) \in Sids
               PROVE  StoryOf(up[First(s)], u, users[s][u], cusers[u])
    BY DEF Stories
  <2>1. up[First(s)] = <<>>
    BY <1>2
  <2> QED
    BY <1>3, <2>1, NoCUserFields, EmptyStory
<1>9. Views /\ WhoSpeaks
  BY <1>2 DEF Views, WhoSpeaks
<1> QED
  BY <1>1, <1>5, <1>6, <1>7, <1>8, <1>9 DEF ViewInv, SteadyInv

-----------------------------------------------------------------------------
(* A step of one SFU *)

\* What an SFU writes, it writes to the session it has open.
LEMMA WritesWhere ==
    ASSUME ClusterInv, NEW s \in Sfus, NEW ms \in Seq(OwnMsgs), up' = Writes(s, ms)
    PROVE  /\ \A y \in Sids : up'[y] = up[y] \/ (y = Sid(s) /\ up'[y] = up[y] \o ms)
           /\ conn[s] => up'[Sid(s)] = up[Sid(s)] \o ms
           /\ ~conn[s] => up' = up
<1>1. up \in [Sids -> Seq(OwnMsgs)]
  BY DEF ClusterInv, OpenInv, UpOwn
<1>2. conn[s] => HasCenter /\ Sid(s) \in Sids
  BY ConnectedSid DEF ClusterInv, OpenInv
<1> QED
  BY <1>1, <1>2, Zenon DEF Writes

LEMMA AboutConcat ==
    ASSUME NEW s, NEW q \in Seq(OwnMsgs), NEW ms \in Seq(OwnMsgs),
           AboutOwn(s, q), AboutOwn(s, ms)
    PROVE  AboutOwn(s, q \o ms)
<1> DEFINE z == q \o ms
<1>1. /\ Len(q) \in Nat /\ Len(ms) \in Nat /\ Len(z) = Len(q) + Len(ms)
      /\ \A i \in 1 .. Len(q) : z[i] = q[i]
      /\ \A i \in 1 .. Len(ms) : z[Len(q) + i] = ms[i]
  BY ConcatPlaces
<1> HIDE DEF z
<1>2. ASSUME NEW i \in 1 .. Len(z)
      PROVE  i \in 1 .. Len(q) \/ (i - Len(q) \in 1 .. Len(ms) /\ z[i] = ms[i - Len(q)])
  <2>1. CASE i \in 1 .. Len(q)
    BY <2>1
  <2>2. CASE i \notin 1 .. Len(q)
    <3>1. i - Len(q) \in 1 .. Len(ms) /\ Len(q) + (i - Len(q)) = i
      BY <1>1, <1>2, <2>2
    <3> QED
      BY <1>1, <3>1
  <2> QED
    BY <2>1, <2>2
<1>3. AboutOwn(s, z)
  BY <1>1, <1>2 DEF AboutOwn
<1> QED
  BY <1>3 DEF z

LEMMA MovesBase ==
    ASSUME ClusterInv, Base, NEW s \in Sfus, SfuMoves(s), UNCHANGED centerVars
    PROVE  Base'
<1>1. PICK ms \in Seq(OwnMsgs) : (up' = Writes(s, ms) \/ up' = up) /\ AboutOwn(s, ms)
  BY DEF SfuMoves, HasTold
<1>2. NoPend' /\ CenterHome'
  BY DEF Base, NoPend, CenterHome, centerVars, At
<1>3. UpHome'
  <2>1. ASSUME NEW y \in Sids PROVE AboutOwn(y[1], up'[y])
    <3>1. AboutOwn(y[1], up[y]) /\ up[y] \in Seq(OwnMsgs)
      BY DEF Base, UpHome, ClusterInv, OpenInv, UpOwn
    <3>2. CASE up'[y] = up[y]
      BY <3>1, <3>2
    <3>3. CASE y = Sid(s) /\ up'[y] = up[y] \o ms
      <4>1. y[1] = s
        BY <3>3 DEF Sid
      <4> QED
        BY <1>1, <3>1, <3>3, <4>1, AboutConcat
    <3> QED
      BY <1>1, <3>2, <3>3, WritesWhere
  <2> QED
    BY <2>1 DEF UpHome, AboutOwn, At
<1>4. IdleEmpty' /\ Strangers'
  BY DEF SfuMoves
<1> QED
  BY <1>2, <1>3, <1>4 DEF Base

\* A story stays one while its RtcUser stays and loses no pusher.
LEMMA StoryKept ==
    ASSUME NEW q \in Seq(OwnMsgs), NEW u, NEW r, NEW r2, NEW c,
           ~c.in => c.pushers = {}, StoryOf(q, u, r, c),
           r2.in = r.in, r.in => Grows(r, r2)
    PROVE  StoryOf(q, u, r2, c)
<1>1. <<>> \in Seq(OwnMsgs) /\ q \o <<>> = q /\ Len(<<>>) = 0
  OBVIOUS
<1>2. StaysOf(<<>>, u, r, r2)
  BY <1>1 DEF StaysOf
<1>3. StoryOf(q \o <<>>, u, r2, c)
  BY <1>1, <1>2, StoryStays
<1> QED
  BY <1>1, <1>3

LEMMA SameUserGrows ==
    ASSUME NEW s, NEW u, SameUser(s, u)
    PROVE  users'[s][u].in = users[s][u].in /\ Grows(users[s][u], users'[s][u])
BY DEF SameUser, Grows

LEMMA CenterPushers ==
    ASSUME CenterHome, NEW u \in Users
    PROVE  ~cusers[u].in => cusers[u].pushers = {}
BY NoCUserFields DEF CenterHome

LEMMA MovesStories ==
    ASSUME OneHome, ClusterInv, Base, Steady, Steady', SteadyInv, NEW s \in Sfus, SfuMoves(s),
           UNCHANGED centerVars
    PROVE  Stories'
<1> SUFFICES ASSUME NEW t \in Sfus, NEW u \in Users, First(t) \in Sids, At(t, u)
             PROVE  StoryOf(up'[First(t)], u, users'[t][u], cusers[u])
  BY Zenon DEF Stories, First, At, centerVars
<1>1. PICK ms \in Seq(OwnMsgs) :
          /\ up' = Writes(s, ms)
          /\ \A z \in Users :
                  \/ StaysOf(ms, z, users[s][z], users'[s][z])
                  \/ /\ At(s, z)
                     /\ \/ EntersOf(ms, z, users[s][z], users'[s][z])
                        \/ PublishesOf(ms, z, users[s][z], users'[s][z])
                        \/ DepartsOf(ms, z, users[s][z], users'[s][z])
  BY DEF SfuMoves, HasTold, Steady
<1>2. StoryOf(up[First(t)], u, users[t][u], cusers[u])
  BY DEF SteadyInv, Stories
<1>3. up[First(t)] \in Seq(OwnMsgs)
  BY DEF ClusterInv, OpenInv, UpOwn
<1>4. ~cusers[u].in => cusers[u].pushers = {}
  BY CenterPushers DEF Base
<1>5. CASE t # s
  <2>1. First(t) # Sid(s)
    BY <1>5 DEF First, Sid
  <2>2. up'[First(t)] = up[First(t)]
    BY <1>1, <2>1, WritesWhere
  <2>3. users'[t][u].in = users[t][u].in /\ Grows(users[t][u], users'[t][u])
    BY <1>5, SameUserGrows DEF SfuMoves
  <2> QED
    BY <1>2, <1>3, <1>4, <2>2, <2>3, StoryKept
<1>6. CASE t = s /\ conn[s]
  <2>1. up'[First(t)] = up[First(t)] \o ms
    BY <1>1, <1>6, FirstSid, WritesWhere
  <2> QED
    BY <1>1, <1>2, <1>3, <1>4, <1>6, <2>1, StoryStays, StoryEnters, StoryPublishes, StoryDeparts
<1>7. CASE t = s /\ ~conn[s]
  <2>1. up' = up
    BY <1>1, <1>7, WritesWhere
  <2>2. up'[First(t)] = <<>> /\ cusers[u] = NoCUser
    BY <1>7, <2>1, NotConnected DEF SteadyInv
  <2> QED
    BY <2>2, NoCUserFields, EmptyStory
<1> QED
  BY <1>5, <1>6, <1>7

LEMMA MovesSteady ==
    ASSUME OneHome, ClusterInv, Base, Steady, Steady', SteadyInv, NEW s \in Sfus, SfuMoves(s),
           UNCHANGED centerVars
    PROVE  SteadyInv'
<1>1. PICK ms \in Seq(OwnMsgs) :
          /\ up' = Writes(s, ms)
          /\ \A z \in Users : At(s, z) \/ StaysOf(ms, z, users[s][z], users'[s][z])
  BY DEF SfuMoves, HasTold, Steady
<1>2. ASSUME NEW t \in Sfus, NEW u \in Users, ~At(t, u)
      PROVE  users'[t][u].in = users[t][u].in /\ (users[t][u].in => Grows(users[t][u], users'[t][u]))
  <2>1. CASE t = s
    BY <1>1, <1>2, <2>1 DEF StaysOf
  <2>2. CASE t # s
    BY <2>2, SameUserGrows DEF SfuMoves
  <2> QED
    BY <2>1, <2>2
<1>3. UNCHANGED <<conn, epoch>> /\ UNCHANGED <<cusers, reg, part, down>>
  BY DEF SfuMoves, centerVars
<1>4. Unopened'
  <2>1. ASSUME NEW y \in Sids, epoch[y[1]] < y[2] PROVE up'[y] = up[y]
    <3>1. y # Sid(s)
      <4> SUFFICES ASSUME y = Sid(s) PROVE FALSE
        OBVIOUS
      <4>1. epoch[s] < epoch[s] /\ epoch[s] \in Nat
        BY <2>1, LinkAssumption DEF Sid, ClusterInv, OpenInv, TypeOK, LinkTypeOK
      <4> QED
        BY <4>1
    <3> QED
      BY <1>1, <3>1, WritesWhere
  <2> QED
    BY <1>3, <2>1 DEF Unopened, SteadyInv, At
<1>5. Unregistered'
  BY <1>2, <1>3 DEF Unregistered, SteadyInv, At, First
<1>7. Views'
  <2>1. ASSUME NEW t \in Sfus, NEW u \in Users, First(t) \in reg, ~At(t, u), ~ub'[t], Sure(u)
        PROVE  ViewOf(down[First(t)], u, users'[t][u], cusers[u].pushers)
    <3>1. ~ub[t]
      BY <2>1 DEF SfuMoves
    <3>2. ViewOf(down[First(t)], u, users[t][u], cusers[u].pushers)
      BY <2>1, <3>1 DEF SteadyInv, Views
    <3> QED
      BY <1>2, <2>1, <3>2, ViewStays
  <2>2. \A u \in Users : Sure(u)' => Sure(u)
    BY <1>3 DEF Sure
  <2> QED
    BY <1>3, <2>1, <2>2 DEF Views, At, First
<1> QED
  BY <1>4, <1>5, <1>7, MovesStories DEF SteadyInv

-----------------------------------------------------------------------------
(* An SFU reads the next message of the center *)

\* The answer to another user's join may bring back, as a remote user, one who
\* has just been released and whom the center will not have.
LEMMA StoryReturns ==
    ASSUME NEW q \in Seq(OwnMsgs), NEW u, NEW r, NEW r2, NEW c,
           ~c.in => c.pushers = {}, StoryOf(q, u, r, c), ~r.in, r2.in
    PROVE  StoryOf(q, u, r2, c)
<1>1. Listed(q, u, r2, c)
  BY AwayPushers DEF StoryOf
<1> QED
  BY <1>1 DEF StoryOf

LEMMA DeliverHears ==
    ASSUME ClusterInv, Base, NEW s \in Sfus, Deliver(s)
    PROVE  /\ conn[s] /\ down[Sid(s)] # <<>>
           /\ SfuHears(s, Head(down[Sid(s)]))
           /\ down' = [down EXCEPT ![Sid(s)] = Tail(down[Sid(s)])]
           /\ UNCHANGED <<conn, epoch, lossy, up, cusers, reg, part, pend>>
<1>1. /\ conn[s] /\ down[Sid(s)] # <<>>
      /\ OnCenterMessage(s, Head(down[Sid(s)]))
      /\ down' = [down EXCEPT ![Sid(s)] = Tail(down[Sid(s)])]
      /\ UNCHANGED <<cusers, reg, part, pend>>
  BY DEF Deliver
<1>2. SfuHears(s, Head(down[Sid(s)]))
  BY <1>1, NextDown, MessageHeard DEF ClusterInv
<1> QED
  BY <1>1, <1>2 DEF SfuHears, linkVars

LEMMA DeliverBase ==
    ASSUME ClusterInv, Base, NEW s \in Sfus, Deliver(s)
    PROVE  Base'
<1>1. UNCHANGED <<up, cusers, part, pend>>
  BY DeliverHears
<1>2. IdleEmpty' /\ Strangers'
  BY DeliverHears DEF SfuHears
<1>3. NoPend' /\ UpHome' /\ CenterHome'
  BY <1>1 DEF Base, NoPend, UpHome, AboutOwn, CenterHome, At
<1> QED
  BY <1>2, <1>3 DEF Base

LEMMA DeliverSteady ==
    ASSUME OneHome, ClusterInv, ClusterInv', Base, Steady, SteadyInv, NEW s \in Sfus, Deliver(s)
    PROVE  SteadyInv'
<1> DEFINE x == First(s)
           d == down[x]
           m == Head(d)
<1>1. /\ Sid(s) = x /\ x \in Sids /\ conn[s] /\ epoch[s] = 1
  BY DeliverHears, FirstSid
<1>2. /\ d # <<>> /\ SfuHears(s, m) /\ down' = [down EXCEPT ![x] = Tail(d)]
      /\ UNCHANGED <<conn, epoch, up, cusers, reg, part, pend>>
  BY <1>1, DeliverHears
<1>3. d \in Seq(CenterMsgs)
  BY <1>1 DEF ClusterInv, CenterTypeOK
<1>4. x \in reg
  BY <1>1, <1>2 DEF SteadyInv, Unregistered
<1>5. down'[x] = Tail(d) /\ \A y \in Sids \ {x} : down'[y] = down[y]
  BY <1>1, <1>2 DEF ClusterInv, CenterTypeOK
<1>6. /\ \A t \in Sfus \ {s} : users'[t] = users[t]
      /\ \A t \in Sfus : ub[t] => ub'[t]
      /\ \A u \in Users : users[s][u].in => users'[s][u].in /\ Grows(users[s][u], users'[s][u])
      /\ \A u \in Users : users'[s][u].in => users[s][u].in \/ Brings(m, u)
      /\ ~ub'[s] => \A u \in Users : HearsOf(m, u, users[s][u], users'[s][u])
  BY <1>2 DEF SfuHears
<1>7. \A t \in Sfus \ {s} : First(t) # x /\ (First(t) \in Sids => down'[First(t)] = down[First(t)])
  BY <1>5 DEF First
<1>8. x[1] = s /\ x[2] = 1
  BY DEF First
<1>9. reg \in SUBSET Sids
  BY DEF ClusterInv, CenterTypeOK
<1> HIDE DEF x, d, m
<1>10. Unopened'
  <2>1. ~(epoch[x[1]] < x[2])
    BY <1>1, <1>8
  <2> QED
    BY <1>2, <1>5, <2>1 DEF SteadyInv, Unopened, At
<1>11. Unregistered'
  <2>1. \A y \in Sids \ reg : down'[y] = down[y]
    BY <1>4, <1>5
  <2>2. \A t \in Sfus : First(t) \notin reg => users'[t] = users[t]
    BY <1>4, <1>6 DEF x
  <2> QED
    BY <1>2, <2>1, <2>2 DEF SteadyInv, Unregistered, At, First
<1>12. Stories'
  <2> SUFFICES ASSUME NEW t \in Sfus, NEW u \in Users, First(t) \in Sids, At(t, u)
               PROVE  StoryOf(up[First(t)], u, users'[t][u], cusers[u])
    BY <1>2, Zenon DEF Stories, First, At
  <2>1. StoryOf(up[First(t)], u, users[t][u], cusers[u])
    BY DEF SteadyInv, Stories
  <2>2. up[First(t)] \in Seq(OwnMsgs) /\ (~cusers[u].in => cusers[u].pushers = {})
    BY CenterPushers DEF ClusterInv, OpenInv, UpOwn, Base
  <2>3. CASE t # s
    BY <1>6, <2>1, <2>3
  <2>4. CASE t = s /\ users'[s][u].in = users[s][u].in
    BY <1>6, <2>1, <2>2, <2>4, StoryKept
  <2>5. CASE t = s /\ ~users[s][u].in /\ users'[s][u].in
    BY <2>1, <2>2, <2>5, StoryReturns
  <2>6. users[s][u].in \in BOOLEAN /\ users'[s][u].in \in BOOLEAN
    BY DEF ClusterInv, OpenInv, TypeOK, RoomTypeOK, UserRecs
  <2> QED
    BY <1>6, <2>3, <2>4, <2>5, <2>6
<1>14. Views'
  <2>1. ASSUME NEW t \in Sfus, NEW u \in Users, First(t) \in reg, ~At(t, u), ~ub'[t], Sure(u)
        PROVE  ViewOf(down'[First(t)], u, users'[t][u], cusers[u].pushers)
    <3>1. ViewOf(down[First(t)], u, users[t][u], cusers[u].pushers)
      BY <1>6, <2>1 DEF SteadyInv, Views
    <3>2. CASE t # s
      BY <1>6, <1>7, <1>9, <2>1, <3>1, <3>2
    <3>3. CASE t = s
      <4>1. HearsOf(m, u, users[s][u], users'[s][u])
        BY <1>6, <2>1, <3>3
      <4>2. \A p \in cusers[u].pushers : p.user = u
        BY DEF Base, CenterHome
      <4>3. ViewOf(Tail(d), u, users'[s][u], cusers[u].pushers)
        BY <1>2, <1>3, <3>1, <3>3, <4>1, <4>2, ViewHeard DEF x, d, m
      <4> QED
        BY <1>5, <3>3, <4>3 DEF x
    <3> QED
      BY <3>2, <3>3
  <2>2. \A u \in Users : Sure(u)' => Sure(u)
    BY <1>2 DEF Sure
  <2> QED
    BY <1>2, <2>1, <2>2 DEF Views, At, First
<1> QED
  BY <1>10, <1>11, <1>12, <1>14 DEF SteadyInv

-----------------------------------------------------------------------------
(* The center reads the next message of an SFU *)

\* The center writes n to session y.
Wrote(y, n) == n \in CenterMsgs /\ down'[y] = Append(down[y], n)

\* A join of user z: the answer lists the participants, the other sessions of R
\* are told of z unless it is an audience.
JoinRead(x, m, z) ==
    /\ m.method = "join"
    /\ cusers'[z] = [cusers[z] EXCEPT !.in = TRUE, !.sid = x, !.audience = m.audience]
    /\ \E n : /\ Wrote(x, n)
              /\ \A u \in Users \ {z} : cusers[u].in /\ ~cusers[u].audience =>
                     Brings(n, u) /\ \A p \in cusers[u].pushers : Lists(n, u, p)
    /\ ~m.audience => \A y \in reg \ {x} : \E n : Wrote(y, n) /\ Brings(n, z)

\* A push of z's pushers: every session but the one z is bound to is told.
PushRead(x, m, z) ==
    /\ m.method = "push"
    /\ cusers'[z] = [cusers[z] EXCEPT !.in = TRUE, !.pushers = cusers[z].pushers \cup m.pushers]
    /\ \A y \in reg \ {cusers[z].sid} : \E n : Wrote(y, n) /\ \A p \in m.pushers : Adds(n, z, p)

\* Any other message.
OtherRead(x, m, z) ==
    /\ m.method \notin {"join", "push"}
    /\ m.method = "pullRemoteStream" => cusers'[z] = cusers[z]
    /\ IF m.method = "userLeave"
       THEN cusers'[z] = NoCUser
       ELSE cusers'[z] \in {cusers[z], [cusers[z] EXCEPT !.sid = NoSid]}

CenterReads(x, m) ==
    /\ UNCHANGED pend
    /\ \A u \in Users \ {m.user} : cusers'[u] = cusers[u]
    /\ \A y \in Sids, u \in Users :
           u \in part'[y] <=> u \in part[y] \/ (m.method = "join" /\ y = x /\ u = m.user)
    /\ \A y \in Sids : y \in reg' <=> y \in reg \/ (m.method = "join" /\ y = x)
    /\ \A y \in Sids :
           \/ down'[y] = down[y]
           \/ /\ y \in reg' \/ y = cusers[m.user].sid
              /\ \E n : Wrote(y, n)
    /\ \/ JoinRead(x, m, m.user)
       \/ PushRead(x, m, m.user)
       \/ OtherRead(x, m, m.user)

LEMMA JoinReads ==
    ASSUME CenterTypeOK, HasMsu = FALSE, NEW x \in Sids, NEW m \in OwnMsgs, HandleJoin(x, m)
    PROVE  CenterReads(x, m)
<1> DEFINE z == m.user
           others == {y \in Users \ {z} : cusers[y].in /\ ~cusers[y].audience}
           ps == UNION {cusers[y].pushers : y \in others}
           resp == JoinResponse(m.gen, others, ps)
           us == [cusers EXCEPT ![z].in = TRUE, ![z].sid = x, ![z].audience = m.audience]
           R == reg \cup {x}
           X == IF m.audience THEN {} ELSE Except(R, us, z)
           new == UserMsg("newUser", z)
           told1 == Put(X, new)
           d == [cusers[z] EXCEPT !.in = TRUE, !.sid = x, !.audience = m.audience]
<1>1. m.method = "join"
  BY DEF HandleJoin
<1>2. z \in Users /\ m.audience \in BOOLEAN /\ m.gen \in 0 .. MaxGen
  BY <1>1, OwnMsgFields
<1>3. /\ cusers' = us
      /\ reg' = R
      /\ part' = [part EXCEPT ![x] = part[x] \cup {z}]
      /\ down' = [told1 EXCEPT ![x] = Append(told1[x], resp)]
      /\ UNCHANGED pend
  BY DEF HandleJoin
<1>4. cusers[z] \in CUserRecs
  BY <1>2 DEF CenterTypeOK
<1>5. us = [cusers EXCEPT ![z] = d]
  BY <1>2 DEF CenterTypeOK
<1>6. us[z].sid = x
  BY <1>2, <1>4, <1>5 DEF CenterTypeOK, CUserRecs
<1>7. X = IF m.audience THEN {} ELSE reg \ {x}
  BY <1>6 DEF Except
<1>8. ps \in SUBSET Pushers /\ others \in SUBSET Users
  BY DEF CenterTypeOK, CUserRecs
<1>9. resp \in CenterMsgs /\ new \in CenterMsgs
  <2> HIDE DEF others, ps
  <2> QED
    BY <1>2, <1>8, CenterMsgTypes
<1>10. \A u \in others : Brings(resp, u) /\ \A p \in cusers[u].pushers : Lists(resp, u, p)
  BY DEF JoinResponse, Brings, Lists
<1>11. \A u : Brings(new, u) <=> u = z
  BY DEF UserMsg, Brings
<1>12. \A u \in Users \ {z} : cusers[u].in /\ ~cusers[u].audience => u \in others
  OBVIOUS
<1> HIDE DEF resp, others, new, X
<1>13. \A y \in Sids : told1[y] = IF y \in X THEN Append(down[y], new) ELSE down[y]
  BY DEF Put
<1>14. told1 = [y \in Sids |-> IF y \in X THEN Append(down[y], new) ELSE down[y]]
  BY DEF Put
<1>15. x \notin X /\ \A y \in X : y \in reg /\ y # x
  BY <1>7
<1>16. down'[x] = Append(down[x], resp)
  BY <1>3, <1>13, <1>14, <1>15
<1>17. \A y \in Sids \ {x} : down'[y] = IF y \in X THEN Append(down[y], new) ELSE down[y]
  BY <1>3, <1>13, <1>14
<1> HIDE DEF told1
<1>18. ASSUME NEW y \in Sids
       PROVE  down'[y] = down[y] \/ (y \in reg' /\ \E n : Wrote(y, n))
  <2>1. CASE y = x
    BY <1>3, <1>9, <1>16, <2>1 DEF Wrote
  <2>2. CASE y # x /\ y \in X
    BY <1>3, <1>9, <1>15, <1>17, <2>2 DEF Wrote
  <2>3. CASE y # x /\ y \notin X
    BY <1>17, <2>3
  <2> QED
    BY <2>1, <2>2, <2>3
<1>19. ~m.audience => \A y \in reg \ {x} : \E n : Wrote(y, n) /\ Brings(n, z)
  BY <1>7, <1>9, <1>11, <1>17 DEF Wrote, CenterTypeOK
<1>20. \E n : /\ Wrote(x, n)
              /\ \A u \in Users \ {z} : cusers[u].in /\ ~cusers[u].audience =>
                     Brings(n, u) /\ \A p \in cusers[u].pushers : Lists(n, u, p)
  BY <1>9, <1>10, <1>12, <1>16 DEF Wrote
<1>21. cusers'[z] = d /\ \A u \in Users \ {z} : cusers'[u] = cusers[u]
  BY <1>2, <1>3, <1>5 DEF CenterTypeOK
<1> HIDE DEF us
<1>22. JoinRead(x, m, z)
  BY <1>1, <1>19, <1>20, <1>21 DEF JoinRead
<1>23. \A y \in Sids, u \in Users : u \in part'[y] <=> u \in part[y] \/ (y = x /\ u = z)
  BY <1>2, <1>3 DEF CenterTypeOK
<1>24. \A y \in Sids : y \in reg' <=> y \in reg \/ y = x
  BY <1>3
<1> HIDE DEF R
<1> QED
  BY <1>1, <1>3, <1>18, <1>21, <1>22, <1>23, <1>24 DEF CenterReads

\* Put(X, n), session by session.
LEMMA PutWrote ==
    ASSUME NEW X, NEW n \in CenterMsgs, down' = Put(X, n), NEW y \in Sids
    PROVE  /\ y \in X => Wrote(y, n)
           /\ y \notin X => down'[y] = down[y]
BY DEF Put, Wrote

LEMMA PushReads ==
    ASSUME CenterTypeOK, NEW x \in Sids, NEW m \in OwnMsgs, HandlePush(x, m)
    PROVE  CenterReads(x, m)
<1> DEFINE z == m.user
           n == NewPusherMsg(z, m.pushers)
           X == reg \ {cusers[z].sid}
           d == [cusers[z] EXCEPT !.in = TRUE, !.pushers = cusers[z].pushers \cup m.pushers]
<1>1. m.method = "push" /\ UNCHANGED <<reg, part, pend>> /\ down' = Put(X, n)
  BY DEF HandlePush, Except
<1>2. z \in Users /\ m.pushers \in SUBSET PushersOf(z)
  BY <1>1, OwnMsgFields
<1>3. cusers[z] \in CUserRecs
  BY <1>2 DEF CenterTypeOK
<1>4. cusers' = [cusers EXCEPT ![z].in = TRUE, ![z].pushers = @ \cup m.pushers]
  BY DEF HandlePush
<1>5. cusers' = [cusers EXCEPT ![z] = d]
  BY <1>2, <1>3, <1>4 DEF CenterTypeOK
<1>6. cusers'[z] = d /\ \A u \in Users \ {z} : cusers'[u] = cusers[u]
  BY <1>2, <1>5 DEF CenterTypeOK
<1>7. n \in CenterMsgs
  BY <1>2, CenterMsgTypes
<1>8. \A p \in m.pushers : Adds(n, z, p)
  BY DEF NewPusherMsg, Adds
<1> HIDE DEF n, X
<1>9. \A y \in Sids : (y \in X => Wrote(y, n)) /\ (y \notin X => down'[y] = down[y])
  BY <1>1, <1>7, PutWrote
<1>10. reg \in SUBSET Sids /\ \A y \in X : y \in reg
  BY DEF X, CenterTypeOK
<1>11. PushRead(x, m, z)
  BY <1>1, <1>6, <1>8, <1>9, <1>10 DEF PushRead, X
<1>12. \A y \in Sids : down'[y] = down[y] \/ (y \in reg' /\ \E i : Wrote(y, i))
  BY <1>1, <1>9, <1>10
<1> QED
  BY <1>1, <1>6, <1>11, <1>12 DEF CenterReads

LEMMA OtherReads ==
    ASSUME CenterTypeOK, NEW x \in Sids, NEW m \in OwnMsgs,
           \/ HandlePullRemoteStream(x, m)
           \/ HandleUserDisconnect(x, m)
           \/ HandleUserLeave(x, m)
           \/ Unhandled(x, m)
    PROVE  CenterReads(x, m)
<1> DEFINE z == m.user
<1>1. z \in Users /\ cusers[z] \in CUserRecs
  BY OwnMsgFields DEF CenterTypeOK
<1>2. /\ UNCHANGED <<reg, part, pend>>
      /\ m.method \in {"pullRemoteStream", "userDisconnect", "userLeave", "userReConnect"}
  BY DEF HandlePullRemoteStream, HandleUserDisconnect, HandleUserLeave, Unhandled, centerVars
<1>4. ASSUME NEW X, \A y \in X : y \in reg \/ y = cusers[z].sid, down' = Put(X, m),
             m.method # "userReConnect", NEW y \in Sids
      PROVE  \/ down'[y] = down[y]
             \/ /\ y \in reg' \/ y = cusers[z].sid
                /\ \E n : Wrote(y, n)
  <2>1. m \in CenterMsgs
    BY <1>2, <1>4, OwnMsgFields
  <2>2. (y \in X => Wrote(y, m)) /\ (y \notin X => down'[y] = down[y])
    BY <1>4, <2>1, PutWrote
  <2> QED
    BY <1>2, <1>4, <2>2
<1>5. CASE HandlePullRemoteStream(x, m)
  <2> DEFINE X == {cusers[z].sid} \ {NoSid}
  <2>1. m.method = "pullRemoteStream" /\ down' = Put(X, m) /\ UNCHANGED cusers
    BY <1>5 DEF HandlePullRemoteStream
  <2>2. \A y \in X : y = cusers[z].sid
    OBVIOUS
  <2>3. OtherRead(x, m, z)
    BY <2>1 DEF OtherRead
  <2> HIDE DEF X
  <2> QED
    BY <1>2, <1>4, <2>1, <2>2, <2>3 DEF CenterReads
<1>6. CASE HandleUserDisconnect(x, m)
  <2> DEFINE X == IF cusers[z].in THEN Except(reg, cusers, z) ELSE {}
             i == IF cusers[z].sid = x THEN NoSid ELSE cusers[z].sid
             d == [cusers[z] EXCEPT !.sid = i]
  <2>1. /\ m.method = "userDisconnect" /\ down' = Put(X, m)
        /\ cusers' = [cusers EXCEPT ![z] = d]
    BY <1>6 DEF HandleUserDisconnect
  <2>2. \A y \in X : y \in reg
    BY DEF Except
  <2>3. d \in {cusers[z], [cusers[z] EXCEPT !.sid = NoSid]}
    BY <1>1 DEF CUserRecs
  <2> HIDE DEF X, d
  <2>4. cusers'[z] = d /\ \A u \in Users \ {z} : cusers'[u] = cusers[u]
    BY <1>1, <2>1 DEF CenterTypeOK
  <2>5. OtherRead(x, m, z)
    BY <2>1, <2>3, <2>4 DEF OtherRead
  <2> QED
    BY <1>2, <1>4, <2>1, <2>2, <2>4, <2>5 DEF CenterReads
<1>7. CASE HandleUserLeave(x, m)
  <2> DEFINE X == IF cusers[z].in THEN Except(reg, cusers, z) ELSE {}
  <2>1. /\ m.method = "userLeave" /\ down' = Put(X, m)
        /\ cusers' = [cusers EXCEPT ![z] = NoCUser]
    BY <1>7 DEF HandleUserLeave
  <2>2. \A y \in X : y \in reg
    BY DEF Except
  <2> HIDE DEF X
  <2>4. cusers'[z] = NoCUser /\ \A u \in Users \ {z} : cusers'[u] = cusers[u]
    BY <1>1, <2>1 DEF CenterTypeOK
  <2>5. OtherRead(x, m, z)
    BY <2>1, <2>4 DEF OtherRead
  <2> QED
    BY <1>2, <1>4, <2>1, <2>2, <2>4, <2>5 DEF CenterReads
<1>8. CASE Unhandled(x, m)
  <2>1. m.method = "userReConnect" /\ UNCHANGED <<cusers, down>>
    BY <1>8 DEF Unhandled, centerVars
  <2>2. OtherRead(x, m, z)
    BY <2>1 DEF OtherRead
  <2> QED
    BY <1>2, <2>1, <2>2 DEF CenterReads
<1> QED
  BY <1>5, <1>6, <1>7, <1>8

LEMMA MessageReads ==
    ASSUME ClusterInv, Base, HasMsu = FALSE, NEW x \in Sids, OnMessage(x)
    PROVE  /\ up[x] \in Seq(OwnMsgs) /\ up[x] # <<>>
           /\ Head(up[x]) \in OwnMsgs /\ Head(up[x]).user \in Users
           /\ Head(up[x]).method # "pullRemoteStream" => At(x[1], Head(up[x]).user)
           /\ up'[x] = Tail(up[x]) /\ \A y \in Sids \ {x} : up'[y] = up[y]
           /\ UNCHANGED <<conn, epoch, lossy>>
           /\ CenterReads(x, Head(up[x]))
<1> DEFINE m == Head(up[x])
<1>1. /\ up[x] # <<>> /\ up' = [up EXCEPT ![x] = Tail(up[x])]
      /\ UNCHANGED <<conn, epoch, lossy>> /\ Handle(x, m)
  BY DEF OnMessage, Reads
<1>2. up \in [Sids -> Seq(OwnMsgs)] /\ CenterTypeOK
  BY DEF ClusterInv, OpenInv, UpOwn
<1>3. m \in OwnMsgs /\ m = up[x][1] /\ 1 \in 1 .. Len(up[x])
  BY <1>1, <1>2
<1>4. m.user \in Users
  BY <1>3, OwnMsgFields
<1>5. m.method # "pullRemoteStream" => At(x[1], m.user)
  BY <1>3 DEF Base, UpHome, AboutOwn
<1>6. up'[x] = Tail(up[x]) /\ \A y \in Sids \ {x} : up'[y] = up[y]
  BY <1>1, <1>2
<1> HIDE DEF m
<1>7. CenterReads(x, m)
  BY <1>1, <1>2, <1>3, JoinReads, PushReads, OtherReads, Zenon DEF Handle
<1> QED
  BY <1>1, <1>2, <1>3, <1>4, <1>5, <1>6, <1>7 DEF m

\* The fields of the center's user after the message.
LEMMA ReadFields ==
    ASSUME ClusterInv, CenterHome, NEW x \in Sids, NEW m \in OwnMsgs, CenterReads(x, m),
           m.method # "pullRemoteStream" => At(x[1], m.user)
    PROVE  LET c == cusers[m.user]
               d == cusers'[m.user]
           IN  /\ m.method = "join" =>
                      d.in /\ d.sid = x /\ d.audience = m.audience /\ d.pushers = c.pushers
               /\ m.method = "push" =>
                      /\ d.in /\ d.sid = c.sid /\ d.audience = c.audience
                      /\ d.pushers = c.pushers \cup m.pushers
               /\ m.method = "userLeave" => d = NoCUser
               /\ m.method \notin {"join", "push", "userLeave"} =>
                      /\ d.in = c.in /\ d.audience = c.audience /\ d.pushers = c.pushers
                      /\ d.sid \in {c.sid, NoSid}
               /\ m.method = "pullRemoteStream" => d = c
               /\ ~d.in => d = NoCUser
               /\ d.sid # NoSid => At(d.sid[1], m.user)
               /\ \A p \in d.pushers : p.user = m.user
<1> DEFINE z == m.user
           c == cusers[z]
           d == cusers'[z]
<1>1. z \in Users /\ c \in CUserRecs
  BY OwnMsgFields DEF ClusterInv, CenterTypeOK
<1>2. /\ ~c.in => c = NoCUser
      /\ c.sid # NoSid => At(c.sid[1], z)
      /\ \A p \in c.pushers : p.user = z
  BY <1>1 DEF CenterHome
<1>3. CASE JoinRead(x, m, z)
  <2>1. m.method = "join" /\ d = [c EXCEPT !.in = TRUE, !.sid = x, !.audience = m.audience]
    BY <1>3 DEF JoinRead
  <2>2. d.in /\ d.sid = x /\ d.audience = m.audience /\ d.pushers = c.pushers
    BY <1>1, <2>1 DEF CUserRecs
  <2> QED
    BY <1>2, <2>1, <2>2
<1>4. CASE PushRead(x, m, z)
  <2>1. m.method = "push" /\ d = [c EXCEPT !.in = TRUE, !.pushers = c.pushers \cup m.pushers]
    BY <1>4 DEF PushRead
  <2>2. d.in /\ d.sid = c.sid /\ d.audience = c.audience /\ d.pushers = c.pushers \cup m.pushers
    BY <1>1, <2>1 DEF CUserRecs
  <2>3. \A p \in m.pushers : p.user = z
    BY <2>1, OwnMsgFields DEF PushersOf
  <2> QED
    BY <1>2, <2>1, <2>2, <2>3
<1>5. CASE OtherRead(x, m, z) /\ m.method = "userLeave"
  <2>1. d = NoCUser
    BY <1>5 DEF OtherRead
  <2> QED
    BY <1>5, <2>1, NoCUserFields
<1>6. CASE OtherRead(x, m, z) /\ m.method # "userLeave"
  <2>1. /\ m.method \notin {"join", "push", "userLeave"}
        /\ m.method = "pullRemoteStream" => d = c
        /\ d \in {c, [c EXCEPT !.sid = NoSid]}
    BY <1>6 DEF OtherRead
  <2>2. d.in = c.in /\ d.audience = c.audience /\ d.pushers = c.pushers /\ d.sid \in {c.sid, NoSid}
    BY <1>1, <2>1 DEF CUserRecs
  <2>3. ~c.in => d = NoCUser
    BY <1>1, <1>2, <2>1, NoCUserFields DEF NoCUser
  <2> QED
    BY <1>2, <2>1, <2>2, <2>3
<1>7. JoinRead(x, m, z) \/ PushRead(x, m, z) \/ OtherRead(x, m, z)
  BY DEF CenterReads
<1> QED
  BY <1>3, <1>4, <1>5, <1>6, <1>7

LEMMA AboutTail ==
    ASSUME NEW s, NEW q \in Seq(OwnMsgs), q # <<>>, AboutOwn(s, q)
    PROVE  AboutOwn(s, Tail(q))
<1> DEFINE t == Tail(q)
<1>1. /\ Len(q) \in Nat \ {0} /\ Len(t) = Len(q) - 1
      /\ \A i \in 1 .. Len(q) - 1 : t[i] = q[i + 1]
  BY TailPlaces
<1> HIDE DEF t
<1>2. \A i \in 1 .. Len(t) : i + 1 \in 1 .. Len(q) /\ t[i] = q[i + 1]
  BY <1>1
<1>3. AboutOwn(s, t)
  BY <1>2 DEF AboutOwn
<1> QED
  BY <1>3 DEF t

LEMMA ReadsBase ==
    ASSUME ClusterInv, Base, HasMsu = FALSE, NEW x \in Sids, OnMessage(x), UNCHANGED roomVars
    PROVE  Base'
<1> DEFINE m == Head(up[x])
           z == m.user
<1>1. /\ up[x] \in Seq(OwnMsgs) /\ up[x] # <<>> /\ m \in OwnMsgs /\ z \in Users
      /\ m.method # "pullRemoteStream" => At(x[1], z)
      /\ up'[x] = Tail(up[x]) /\ \A y \in Sids \ {x} : up'[y] = up[y]
      /\ CenterReads(x, m)
  BY MessageReads
<1> HIDE DEF m
<1>2. Strangers' /\ IdleEmpty'
  BY DEF Base, Strangers, IdleEmpty, roomVars, At
<1>3. NoPend'
  BY <1>1 DEF Base, NoPend, CenterReads
<1>4. UpHome'
  <2>1. ASSUME NEW y \in Sids PROVE AboutOwn(y[1], up'[y])
    BY <1>1, AboutTail DEF Base, UpHome
  <2> QED
    BY <2>1 DEF UpHome, AboutOwn, At
<1>5. CenterHome'
  <2>1. ASSUME NEW u \in Users
        PROVE  /\ ~cusers'[u].in => cusers'[u] = NoCUser
               /\ cusers'[u].sid # NoSid => At(cusers'[u].sid[1], u)
               /\ \A p \in cusers'[u].pushers : p.user = u
    <3>1. CASE u = z
      BY <1>1, <3>1, ReadFields DEF Base
    <3>2. CASE u # z
      <4>1. cusers'[u] = cusers[u]
        BY <1>1, <3>2 DEF CenterReads
      <4> QED
        BY <4>1 DEF Base, CenterHome
    <3> QED
      BY <3>1, <3>2
  <2>2. ASSUME NEW u \in Users, NEW y \in Sids, u \in part'[y] PROVE At(y[1], u)
    <3>1. u \in part[y] \/ (m.method = "join" /\ y = x /\ u = z)
      BY <1>1, <2>2 DEF CenterReads
    <3> QED
      BY <1>1, <3>1 DEF Base, CenterHome
  <2> QED
    BY <2>1, <2>2 DEF CenterHome, At
<1> QED
  BY <1>2, <1>3, <1>4, <1>5 DEF Base

\* The center reads from the first session of an SFU, whose story it follows.
LEMMA ReadsFirst ==
    ASSUME ClusterInv, Base, HasMsu = FALSE, Steady, SteadyInv, NEW x \in Sids, OnMessage(x)
    PROVE  x[1] \in Sfus /\ x = First(x[1]) /\ epoch[x[1]] = 1
BY MessageReads, FirstOnly DEF SteadyInv

\* A join is read when the center does not have the user.
LEMMA StoryHead ==
    ASSUME NEW q \in Seq(OwnMsgs), q # <<>>, NEW u, NEW r, NEW c, StoryOf(q, u, r, c)
    PROVE  Head(q) \in JoinsOf(u) => ~c.in
<1>1. 1 \in 1 .. Len(q) /\ Head(q) = q[1]
  OBVIOUS
<1>2. \A B : ~Some(q, B, 1)
  BY DEF Some
<1>3. q[1] \in JoinsOf(u) => Away(q, u, c, 1)
  BY <1>1 DEF StoryOf
<1> QED
  BY <1>1, <1>2, <1>3 DEF Away

\* A message of an SFU is a join, a push or a leave of its user, or none of them.
LEMMA MessageKind ==
    ASSUME NEW m \in OwnMsgs
    PROVE  /\ m.method = "join" => m \in JoinsOf(m.user)
           /\ m.method = "push" => m \in PushesOf(m.user)
           /\ m.method = "userLeave" => m \in LeavesOf(m.user)
           /\ m.method \notin {"join", "push", "userLeave"} => m \notin MovesOf(m.user)
           /\ \A u : u # m.user => m \notin MovesOf(u)
BY DEF MovesOf, JoinsOf, PushesOf, LeavesOf

LEMMA ReadsStories ==
    ASSUME OneHome, ClusterInv, Base, HasMsu = FALSE, Steady, SteadyInv, NEW x \in Sids,
           OnMessage(x), UNCHANGED roomVars
    PROVE  Stories'
<1> DEFINE m == Head(up[x])
           z == m.user
<1>1. /\ up[x] \in Seq(OwnMsgs) /\ up[x] # <<>> /\ m \in OwnMsgs /\ z \in Users
      /\ m.method # "pullRemoteStream" => At(x[1], z)
      /\ up'[x] = Tail(up[x]) /\ \A y \in Sids \ {x} : up'[y] = up[y]
      /\ CenterReads(x, m)
  BY MessageReads
<1>2. x[1] \in Sfus /\ x = First(x[1])
  BY ReadsFirst
<1>3. \A u \in Users \ {z} : cusers'[u] = cusers[u]
  BY <1>1 DEF CenterReads
<1>4. m.method = "pullRemoteStream" => cusers'[z] = cusers[z]
  BY <1>1, ReadFields DEF Base
<1> SUFFICES ASSUME NEW t \in Sfus, NEW u \in Users, First(t) \in Sids, At(t, u)
             PROVE  StoryOf(up'[First(t)], u, users[t][u], cusers'[u])
  BY Zenon DEF Stories, First, At, roomVars
<1>5. StoryOf(up[First(t)], u, users[t][u], cusers[u])
  BY DEF SteadyInv, Stories
<1>6. CASE First(t) # x
  <2>1. up'[First(t)] = up[First(t)]
    BY <1>1, <1>6
  <2>2. u = z => m.method = "pullRemoteStream"
    BY <1>1, <1>2, <1>6, SameHome
  <2>3. cusers'[u] = cusers[u]
    BY <1>3, <1>4, <2>2
  <2> QED
    BY <1>5, <2>1, <2>3
<1>7. CASE First(t) = x
  <2>1. StoryOf(up[x], u, users[t][u], cusers[u])
    BY <1>5, <1>7
  <2>2. ReadsOf(m, u, cusers[u], cusers'[u])
    <3>1. CASE u # z
      <4>1. m \notin MovesOf(u)
        BY <1>1, <3>1, MessageKind
      <4> QED
        BY <1>3, <3>1, <4>1 DEF ReadsOf
    <3>2. CASE u = z /\ m.method = "join"
      <4>1. m \in JoinsOf(u)
        BY <1>1, <3>2, MessageKind
      <4>2. ~cusers[u].in
        BY <1>1, <2>1, <4>1, StoryHead
      <4>3. cusers[u].pushers = {}
        BY <4>2, CenterPushers DEF Base
      <4>4. cusers'[u].in /\ cusers'[u].pushers = {}
        BY <1>1, <3>2, <4>3, ReadFields DEF Base
      <4> QED
        BY <4>1, <4>4 DEF ReadsOf
    <3>3. CASE u = z /\ m.method # "join"
      <4>2. CASE m.method = "push"
        <5>1. m \in PushesOf(u)
          BY <1>1, <3>3, <4>2, MessageKind
        <5>2. cusers'[u].in /\ cusers'[u].pushers = cusers[u].pushers \cup m.pushers
          BY <1>1, <3>3, <4>2, ReadFields DEF Base
        <5> QED
          BY <5>1, <5>2 DEF ReadsOf
      <4>3. CASE m.method = "userLeave"
        <5>1. m \in LeavesOf(u)
          BY <1>1, <3>3, <4>3, MessageKind
        <5>2. ~cusers'[u].in /\ cusers'[u].pushers = {}
          BY <1>1, <3>3, <4>3, ReadFields, NoCUserFields DEF Base
        <5> QED
          BY <5>1, <5>2 DEF ReadsOf
      <4>4. CASE m.method \notin {"join", "push", "userLeave"}
        <5>1. m \notin MovesOf(u)
          BY <1>1, <3>3, <4>4, MessageKind
        <5>2. cusers'[u].in = cusers[u].in /\ cusers'[u].pushers = cusers[u].pushers
          BY <1>1, <3>3, <4>4, ReadFields DEF Base
        <5> QED
          BY <5>1, <5>2 DEF ReadsOf
      <4> QED
        BY <3>3, <4>2, <4>3, <4>4
    <3> QED
      BY <3>1, <3>2, <3>3
  <2>3. StoryOf(Tail(up[x]), u, users[t][u], cusers'[u])
    BY <1>1, <2>1, <2>2, StoryRead
  <2> QED
    BY <1>1, <1>7, <2>3
<1> QED
  BY <1>6, <1>7

LEMMA BroughtLast ==
    ASSUME NEW d \in Seq(CenterMsgs), NEW n \in CenterMsgs, NEW u, Brings(n, u)
    PROVE  Brought(Append(d, n), u, Len(Append(d, n)) + 1)
<1>1. 1 \in 1 .. Len(d) + 1
  OBVIOUS
<1> QED
  BY <1>1, AppendBrought

LEMMA ReadsViews ==
    ASSUME OneHome, ClusterInv, ClusterInv', Base, HasMsu = FALSE, Steady, SteadyInv,
           NEW x \in Sids, OnMessage(x), UNCHANGED roomVars
    PROVE  Views'
<1> DEFINE m == Head(up[x])
           z == m.user
<1>1. /\ up[x] \in Seq(OwnMsgs) /\ up[x] # <<>> /\ m \in OwnMsgs /\ z \in Users
      /\ m.method # "pullRemoteStream" => At(x[1], z)
      /\ CenterReads(x, m)
  BY MessageReads
<1>2. x[1] \in Sfus /\ x = First(x[1])
  BY ReadsFirst
<1>3. \A y \in Sids : down[y] \in Seq(CenterMsgs)
  BY DEF ClusterInv, CenterTypeOK
<1>4. JoinRead(x, m, z) \/ PushRead(x, m, z) \/ OtherRead(x, m, z)
  BY <1>1 DEF CenterReads
<1> SUFFICES ASSUME NEW t \in Sfus, NEW u \in Users, First(t) \in reg', ~At(t, u), ~ub[t], Sure(u)'
             PROVE  ViewOf(down'[First(t)], u, users[t][u], cusers'[u].pushers)
  BY DEF Views, First, At, roomVars
<1> DEFINE y == First(t)
<1>5. y \in Sids /\ y[1] = t
  BY DEF ClusterInv, CenterTypeOK, First
<1>6. y \in reg \/ (m.method = "join" /\ y = x)
  BY <1>1, <1>5 DEF CenterReads
<1>7. ASSUME y \in reg, Sure(u), NEW n, Wrote(y, n)
      PROVE  /\ ViewOf(down'[y], u, users[t][u], cusers[u].pushers)
             /\ \A p : Adds(n, u, p) => Coming(down'[y], u, users[t][u], p)
  <2>1. ViewOf(down[y], u, users[t][u], cusers[u].pushers)
    BY <1>7 DEF SteadyInv, Views
  <2> QED
    BY <1>3, <1>5, <1>7, <2>1, ViewWritten DEF Wrote
<1>8. ASSUME y \in reg, Sure(u) PROVE ViewOf(down'[y], u, users[t][u], cusers[u].pushers)
  <2>1. CASE down'[y] = down[y]
    BY <1>8, <2>1 DEF SteadyInv, Views
  <2>2. CASE down'[y] # down[y]
    <3>1. PICK n : Wrote(y, n)
      BY <1>1, <1>5, <2>2 DEF CenterReads
    <3> QED
      BY <1>7, <1>8, <3>1
  <2> QED
    BY <2>1, <2>2
<1>9. cusers'[u].in /\ ~cusers'[u].audience /\ cusers'[u].sid # NoSid
  BY DEF Sure
<1>10. CASE u # z
  <2>1. cusers'[u] = cusers[u]
    BY <1>1, <1>10 DEF CenterReads
  <2>2. Sure(u)
    BY <1>9, <2>1 DEF Sure
  <2>3. CASE y \in reg
    BY <1>8, <2>1, <2>2, <2>3
  <2>4. CASE y \notin reg
    <3>1. down[y] = <<>> /\ ~users[t][u].in
      BY <1>5, <2>4 DEF SteadyInv, Unregistered
    <3>2. m.method = "join" /\ y = x
      BY <1>6, <2>4
    <3>3. JoinRead(x, m, z)
      BY <1>4, <3>2 DEF PushRead, OtherRead
    <3>4. cusers[u].in /\ ~cusers[u].audience
      BY <1>9, <2>1
    <3>5. PICK n : Wrote(x, n) /\ Brings(n, u) /\ \A p \in cusers[u].pushers : Lists(n, u, p)
      BY <1>10, <3>3, <3>4 DEF JoinRead
    <3>6. down'[y] = <<n>>
      <4>1. down'[y] = Append(<<>>, n)
        BY <3>1, <3>2, <3>5, Zenon DEF Wrote
      <4>2. Append(<<>>, n) = <<n>>
        OBVIOUS
      <4> QED
        BY <4>1, <4>2
    <3> QED
      BY <2>1, <3>1, <3>5, <3>6, ViewAnswered
  <2> QED
    BY <2>3, <2>4
<1>11. CASE u = z /\ m.method = "join"
  <2>1. JoinRead(x, m, z) /\ y # x
    BY <1>1, <1>4, <1>5, <1>11 DEF PushRead, OtherRead
  <2>2. y \in reg /\ ~m.audience
    BY <1>1, <1>6, <1>9, <1>11, <2>1, ReadFields DEF Base
  <2>3. PICK n : Wrote(y, n) /\ Brings(n, u)
    BY <1>11, <2>1, <2>2 DEF JoinRead
  <2>4. Brought(down'[y], u, Len(down'[y]) + 1)
    <3>1. down[y] \in Seq(CenterMsgs) /\ n \in CenterMsgs /\ down'[y] = Append(down[y], n)
      BY <1>3, <1>5, <2>3 DEF Wrote
    <3> QED
      BY <2>3, <3>1, BroughtLast
  <2>5. cusers'[u].pushers = {}
    <3>1. StoryOf(up[x], u, users[x[1]][u], cusers[u])
      BY <1>1, <1>2, <1>11 DEF SteadyInv, Stories
    <3>2. ~cusers[u].in
      BY <1>1, <1>11, <3>1, StoryHead, MessageKind
    <3>3. cusers[u].pushers = {}
      BY <3>2, CenterPushers DEF Base
    <3> QED
      BY <1>1, <1>11, <3>3, ReadFields DEF Base
  <2> QED
    BY <2>4, <2>5 DEF ViewOf, Known
<1>12. CASE u = z /\ m.method = "push"
  <2>1. PushRead(x, m, z)
    BY <1>4, <1>12 DEF JoinRead, OtherRead
  <2>2. /\ cusers'[u].sid = cusers[u].sid /\ cusers'[u].audience = cusers[u].audience
        /\ cusers'[u].pushers = cusers[u].pushers \cup m.pushers
    BY <1>1, <1>12, ReadFields DEF Base
  <2>4. cusers[u].in
    BY <1>9, <2>2, NoCUserFields DEF Base, CenterHome
  <2>5. Sure(u)
    BY <1>9, <2>2, <2>4 DEF Sure
  <2>6. y \in reg
    BY <1>6, <1>12
  <2>7. y # cusers[u].sid
    BY <1>5, CenterAssumption DEF Base, CenterHome
  <2>8. PICK n : Wrote(y, n) /\ \A p \in m.pushers : Adds(n, u, p)
    BY <1>12, <2>1, <2>6, <2>7 DEF PushRead
  <2>9. /\ ViewOf(down'[y], u, users[t][u], cusers[u].pushers)
        /\ \A p \in m.pushers : Coming(down'[y], u, users[t][u], p)
    BY <1>7, <2>5, <2>6, <2>8
  <2> QED
    BY <2>2, <2>9 DEF ViewOf
<1>13. CASE u = z /\ m.method \notin {"join", "push"}
  <2>1. m.method # "userLeave"
    BY <1>1, <1>9, <1>13, ReadFields, NoCUserFields DEF Base
  <2>2. /\ cusers'[u].in = cusers[u].in /\ cusers'[u].audience = cusers[u].audience
        /\ cusers'[u].pushers = cusers[u].pushers
        /\ cusers'[u].sid \in {cusers[u].sid, NoSid}
    BY <1>1, <1>13, <2>1, ReadFields DEF Base
  <2>4. Sure(u)
    BY <1>9, <2>2 DEF Sure
  <2> QED
    BY <1>6, <1>8, <1>13, <2>2, <2>4
<1> QED
  BY <1>10, <1>11, <1>12, <1>13

LEMMA ReadsSteady ==
    ASSUME OneHome, ClusterInv, ClusterInv', Base, HasMsu = FALSE, Steady, SteadyInv,
           NEW x \in Sids, OnMessage(x), UNCHANGED roomVars
    PROVE  SteadyInv'
<1> DEFINE m == Head(up[x])
           z == m.user
<1>1. /\ up[x] # <<>> /\ m \in OwnMsgs /\ z \in Users
      /\ m.method # "pullRemoteStream" => At(x[1], z)
      /\ \A y \in Sids \ {x} : up'[y] = up[y]
      /\ UNCHANGED <<conn, epoch>>
      /\ CenterReads(x, m)
  BY MessageReads
<1>2. x[1] \in Sfus /\ x = First(x[1]) /\ epoch[x[1]] = 1
  BY ReadsFirst
<1> HIDE DEF m
<1>3. \A u \in Users : cusers[u].sid # NoSid => cusers[u].sid \in reg
  BY DEF SteadyInv, Unregistered
<1>4. reg \in SUBSET Sids /\ reg' \in SUBSET Sids
  BY DEF ClusterInv, CenterTypeOK
<1>5. \A y \in Sids : y \in reg => y \in reg'
  BY <1>1 DEF CenterReads
<1>6. \A y \in Sids \ reg' : down'[y] = down[y]
  <2>1. ASSUME NEW y \in Sids, y \notin reg', down'[y] # down[y] PROVE FALSE
    <3>1. y = cusers[z].sid
      BY <1>1, <2>1 DEF CenterReads
    <3>2. y # NoSid
      BY CenterAssumption
    <3> QED
      BY <1>1, <1>3, <1>5, <2>1, <3>1, <3>2
  <2> QED
    BY <2>1
<1>7. ASSUME NEW u \in Users
      PROVE  cusers'[u].sid # NoSid => cusers'[u].sid \in reg'
  <2>1. CASE u # z
    <3>1. cusers'[u] = cusers[u]
      BY <1>1, <2>1 DEF CenterReads
    <3> QED
      BY <1>3, <1>4, <1>5, <3>1
  <2>2. CASE u = z /\ m.method = "join"
    <3>1. cusers'[u].sid = x
      BY <1>1, <2>2, ReadFields DEF Base
    <3> QED
      BY <1>1, <2>2, <3>1 DEF CenterReads
  <2>3. CASE u = z /\ m.method # "join"
    <3>1. cusers'[u].sid \in {cusers[u].sid, NoSid}
      BY <1>1, <2>3, ReadFields, NoCUserFields DEF Base
    <3> QED
      BY <1>3, <1>4, <1>5, <3>1
  <2> QED
    BY <2>1, <2>2, <2>3
<1>8. Unregistered'
  <2>1. \A y \in Sids \ reg' : down'[y] = <<>>
    BY <1>5, <1>6 DEF SteadyInv, Unregistered
  <2>2. ASSUME NEW s \in Sfus, NEW u \in Users, First(s) \notin reg', ~At(s, u)
        PROVE  ~users'[s][u].in
    <3>1. First(s) \notin reg
      BY <1>4, <1>5, <2>2
    <3> QED
      BY <2>2, <3>1 DEF SteadyInv, Unregistered, roomVars
  <2> QED
    BY <1>7, <2>1, <2>2 DEF Unregistered, At, First
<1>9. Unopened'
  <2>1. ASSUME NEW y \in Sids, epoch[y[1]] < y[2]
        PROVE  up'[y] = <<>> /\ down'[y] = <<>> /\ y \notin reg' /\ part'[y] = {}
    <3>1. up[y] = <<>> /\ down[y] = <<>> /\ y \notin reg /\ part[y] = {}
      BY <2>1 DEF SteadyInv, Unopened
    <3>2. y # x
      BY <1>1, <3>1
    <3>3. y \notin reg' /\ up'[y] = <<>>
      BY <1>1, <3>1, <3>2 DEF CenterReads
    <3>4. down'[y] = <<>>
      BY <1>6, <3>1, <3>3
    <3>5. \A u \in Users : u \notin part'[y]
      BY <1>1, <3>1, <3>2 DEF CenterReads
    <3>6. part'[y] \in SUBSET Users
      BY DEF ClusterInv, CenterTypeOK
    <3> QED
      BY <3>3, <3>4, <3>5, <3>6
  <2>2. ASSUME NEW s \in Sfus, NEW u \in Users, epoch[s] = 0, At(s, u)
        PROVE  cusers'[u] = NoCUser
    <3>1. cusers[u] = NoCUser
      BY <2>2 DEF SteadyInv, Unopened
    <3>2. CASE u # z
      BY <1>1, <3>1, <3>2 DEF CenterReads
    <3>3. CASE u = z /\ m.method = "pullRemoteStream"
      BY <1>1, <3>1, <3>3, ReadFields DEF Base
    <3>4. CASE u = z /\ m.method # "pullRemoteStream"
      <4>1. s = x[1]
        BY <1>1, <2>2, <3>4, SameHome
      <4> QED
        BY <1>2, <2>2, <4>1
    <3> QED
      BY <3>2, <3>3, <3>4
  <2> QED
    BY <1>1, <2>1, <2>2 DEF Unopened, At
<1> QED
  BY <1>8, <1>9, ReadsStories, ReadsViews DEF SteadyInv

-----------------------------------------------------------------------------
(* Connections *)

\* Connections that come and go, and sessions that the center closes, leave the
\* users at their SFUs.
LEMMA LinkBase ==
    ASSUME Base, UNCHANGED roomVars, UNCHANGED <<up, cusers, part, pend>>
    PROVE  Base'
<1>1. Strangers' /\ IdleEmpty'
  BY DEF Base, Strangers, IdleEmpty, roomVars, At
<1>2. NoPend' /\ UpHome' /\ CenterHome'
  BY DEF Base, NoPend, UpHome, AboutOwn, CenterHome, At
<1> QED
  BY <1>1, <1>2 DEF Base

LEMMA CloseBase ==
    ASSUME ClusterInv, Base, NEW x \in Sids, CloseSession(x), UNCHANGED roomVars
    PROVE  Base'
<1> DEFINE lost == {u \in part[x] : cusers[u].sid \in {x, NoSid}}
<1>1. /\ cusers' = [u \in Users |-> IF u \in lost THEN NoCUser ELSE cusers[u]]
      /\ part' = [part EXCEPT ![x] = {}]
      /\ up' = [up EXCEPT ![x] = <<>>]
      /\ UNCHANGED pend
  BY DEF CloseSession
<1> HIDE DEF lost
<1>2. \A u \in Users : cusers'[u] \in {NoCUser, cusers[u]}
  BY <1>1
<1>3. \A y \in Sids : part'[y] \in {{}, part[y]} /\ up'[y] \in {<<>>, up[y]}
  BY <1>1 DEF ClusterInv, OpenInv, UpOwn, CenterTypeOK
<1>4. Strangers' /\ IdleEmpty' /\ NoPend'
  BY <1>1 DEF Base, Strangers, IdleEmpty, NoPend, roomVars, At
<1>5. UpHome'
  <2>1. ASSUME NEW y \in Sids PROVE AboutOwn(y[1], up'[y])
    <3>1. AboutOwn(y[1], <<>>)
      BY DEF AboutOwn
    <3> QED
      BY <1>3, <3>1 DEF Base, UpHome
  <2> QED
    BY <2>1 DEF UpHome, AboutOwn, At
<1>6. CenterHome'
  <2>1. \A u \in Users : /\ ~cusers'[u].in => cusers'[u] = NoCUser
                         /\ cusers'[u].sid # NoSid => At(cusers'[u].sid[1], u)
                         /\ \A p \in cusers'[u].pushers : p.user = u
    BY <1>2, NoCUserFields DEF Base, CenterHome
  <2>2. \A u \in Users, y \in Sids : u \in part'[y] => At(y[1], u)
    BY <1>3 DEF Base, CenterHome
  <2> QED
    BY <2>1, <2>2 DEF CenterHome, At
<1> QED
  BY <1>4, <1>5, <1>6 DEF Base

\* No connection was lost: nothing has to be closed.
LEMMA CloseNever ==
    ASSUME ClusterInv, Steady, NEW x \in Sids, CloseSession(x)
    PROVE  FALSE
<1>1. x[1] \in Sfus /\ x[2] \in 1 .. MaxEpoch /\ MaxEpoch \in Nat
  BY LinkAssumption DEF Sids
<1>2. x[2] < epoch[x[1]] \/ (x[2] = epoch[x[1]] /\ ~conn[x[1]])
  BY DEF CloseSession
<1> QED
  BY <1>1, <1>2 DEF Steady

LEMMA SameViews ==
    ASSUME SteadyInv, UNCHANGED <<up, users, ub, cusers, reg, part, down>>
    PROVE  Unregistered' /\ Stories' /\ Views'
<1>1. Unregistered'
  BY DEF SteadyInv, Unregistered, At, First
<1>2. Stories'
  BY Zenon DEF SteadyInv, Stories, First, At
<1>3. Views'
  BY Zenon DEF SteadyInv, Views, First, At, Sure
<1> QED
  BY <1>1, <1>2, <1>3

LEMMA ConnectSteady ==
    ASSUME ClusterInv, SteadyInv, NEW s \in Sfus, Connect(s),
           UNCHANGED <<roomVars, centerVars>>
    PROVE  SteadyInv'
<1>1. epoch \in [Sfus -> 0 .. MaxEpoch] /\ MaxEpoch \in Nat
  BY LinkAssumption DEF ClusterInv, OpenInv, TypeOK, LinkTypeOK
<1>2. epoch' = [epoch EXCEPT ![s] = epoch[s] + 1] /\ UNCHANGED up
  BY DEF Connect
<1>3. \A t \in Sfus : epoch[t] <= epoch'[t] /\ epoch[t] \in Nat /\ epoch'[t] \in Nat
  BY <1>1, <1>2
<1>4. UNCHANGED <<users, ub, cusers, reg, part, down>>
  BY DEF roomVars, centerVars
<1>5. Unopened'
  <2>1. ASSUME NEW y \in Sids, epoch'[y[1]] < y[2] PROVE epoch[y[1]] < y[2]
    <3>1. y[1] \in Sfus /\ y[2] \in Nat
      BY LinkAssumption DEF Sids
    <3> QED
      BY <1>3, <2>1, <3>1
  <2>2. ASSUME NEW t \in Sfus, epoch'[t] = 0 PROVE epoch[t] = 0
    BY <1>3, <2>2
  <2> QED
    BY <1>2, <1>4, <2>1, <2>2 DEF SteadyInv, Unopened, At
<1> QED
  BY <1>2, <1>4, <1>5, SameViews DEF SteadyInv

-----------------------------------------------------------------------------
(* Every step *)

\* Only a join changes the user of a WebSocket session.
LEMMA WhoStep ==
    ASSUME ClusterInv, WhoSpeaks, [ClusterNext]_clusterVars
    PROVE  WhoSpeaks'
<1>1. who \in [Sockets -> Users \cup {NoWs}]
  BY DEF ClusterInv, OpenInv, TypeOK, RoomTypeOK
<1>2. ASSUME UNCHANGED who PROVE WhoSpeaks'
  BY <1>2 DEF WhoSpeaks
<1>3. ASSUME NEW w \in Sockets, ClientNext(w) PROVE WhoSpeaks'
  <2>1. ASSUME NEW u \in Speaks[w], NEW a, HandleJoinRequest(w, u, a) PROVE WhoSpeaks'
    <3>1. who' = [who EXCEPT ![w] = u]
      BY <2>1 DEF HandleJoinRequest
    <3> QED
      BY <1>1, <3>1 DEF WhoSpeaks
  <2>2. ASSUME HandleJoinRequestElsewhere(w) PROVE WhoSpeaks'
    <3>1. who' = [who EXCEPT ![w] = NoWs]
      BY <2>2 DEF HandleJoinRequestElsewhere
    <3> QED
      BY <1>1, <3>1 DEF WhoSpeaks
  <2>3. ASSUME NEW u, HandleHeartbeatRequest(w, u) PROVE UNCHANGED who
    BY <2>3 DEF HandleHeartbeatRequest, wsVars
  <2>4. ASSUME NEW u, NEW k, NEW M, HandlePushRequest(w, u, k, M) PROVE UNCHANGED who
    BY <2>4 DEF HandlePushRequest, wsVars
  <2>5. ASSUME NEW u, HandlePullRequest(w, u) PROVE UNCHANGED who
    <3>1. ASSUME NEW t, PullUnknown(w, t) PROVE UNCHANGED who
      BY <3>1 DEF PullUnknown, wsVars
    <3>2. ASSUME NEW t, NEW P, NEW k, HandlePullSdp(w, u, t, P, k) PROVE UNCHANGED who
      BY <3>2 DEF HandlePullSdp, wsVars
    <3>3. ASSUME NEW t, NEW P, NEW k, HandleRemotePullSdp(w, u, t, P, k) PROVE UNCHANGED who
      BY <3>3 DEF HandleRemotePullSdp, wsVars
    <3> QED
      BY <2>5, <3>1, <3>2, <3>3, Zenon DEF HandlePullRequest
  <2>6. ASSUME WsOnClose(w) \/ WsReadError(w) \/ WsSweep(w) PROVE UNCHANGED who
    BY <2>6 DEF WsOnClose, WsReadError, WsSweep, DisconnectUser
  <2> QED
    BY <1>2, <1>3, <2>1, <2>2, <2>3, <2>4, <2>5, <2>6, Zenon DEF ClientNext
<1>4. ASSUME NEW s \in Sfus, PeerNext(s) PROVE UNCHANGED who
  <2>1. ASSUME NEW u, NEW k, NEW M, WhipHandle(s, u, k, M) PROVE UNCHANGED who
    BY <2>1 DEF WhipHandle, wsVars
  <2>2. ASSUME WhipDeleteHandle(s) PROVE UNCHANGED who
    BY <2>2 DEF WhipDeleteHandle, Undefined, DropRoom, wsVars
  <2>3. ASSUME NEW u, NotifyDestroyed(s, u) \/ OnRelayKeyFrameRequest(s, u) PROVE UNCHANGED who
    BY <2>3 DEF NotifyDestroyed, OnRelayKeyFrameRequest, Undefined, wsVars
  <2>4. ASSUME NEW k, HandleStunPacket(s, k) \/ SessionIdles(s, k) PROVE UNCHANGED who
    BY <2>4 DEF HandleStunPacket, SessionIdles, wsVars
  <2>5. ASSUME NEW k, NEW x, OnRtpPacketFromRtcPusher(s, k, x) PROVE UNCHANGED who
    BY <2>5 DEF OnRtpPacketFromRtcPusher, Undefined, wsVars
  <2>6. ASSUME NEW k, NEW p, OnKeyFrameRequest(s, k, p) PROVE UNCHANGED who
    BY <2>6 DEF OnKeyFrameRequest, Undefined, wsVars
  <2>7. ASSUME NEW k, WebRtcServerOnTimer(s, k) PROVE UNCHANGED who
    BY <2>7 DEF WebRtcServerOnTimer, Undefined, wsVars
  <2> QED
    BY <1>4, <2>1, <2>2, <2>3, <2>4, <2>5, <2>6, <2>7, Zenon DEF PeerNext
<1>5. ASSUME NEW s \in Sfus, TimerNext(s) PROVE UNCHANGED who
  BY <1>5 DEF TimerNext, UserAges, RelayIdles, RoomIdles, RoomOnTimer, RoomMgrOnTimer,
              DropRoom, wsVars
<1>6. ASSUME NEW s, NEW m, OnCenterMessage(s, m) PROVE UNCHANGED who
  BY <1>6 DEF OnCenterMessage, HandleNewUserNotificationFromCenter,
              HandleNewPusherNotificationFromCenter,
              HandlePullRemoteStreamNotificationFromCenter,
              HandleUserDisconnectNotificationFromCenter,
              HandleUserLeaveNotificationFromCenter, JoinResponseFromPilotCenter,
              Undefined, wsVars
<1>7. ASSUME NEW s, Deliver(s) PROVE UNCHANGED who
  BY <1>6, <1>7 DEF Deliver
<1>8. ASSUME NEW s, NEW e, RelayRtp(s, e) PROVE UNCHANGED who
  BY <1>8 DEF RelayRtp, OnRtpPacketFromRemoteRtcPusher, wsVars
<1>9. ASSUME NEW s, LinkLost(s) PROVE UNCHANGED who
  BY <1>9 DEF LinkLost, roomVars, wsVars
<1>10. ASSUME NEW s, DropLateResponse(s) PROVE UNCHANGED who
  BY <1>10 DEF DropLateResponse, vars, roomVars, wsVars
<1>11. ASSUME UNCHANGED roomVars \/ UNCHANGED vars \/ UNCHANGED clusterVars
       PROVE  UNCHANGED who
  BY <1>11 DEF clusterVars, vars, roomVars, wsVars
<1>12. UNCHANGED <<roomVars, centerVars>> => UNCHANGED roomVars
  OBVIOUS
<1>13. LocalNext => WhoSpeaks'
  BY <1>2, <1>3, <1>4, <1>5, Zenon DEF LocalNext
<1> QED
  BY <1>2, <1>7, <1>8, <1>9, <1>10, <1>11, <1>12, <1>13, Zenon DEF ClusterNext

\* What was never lost after a step was never lost before it.
LEMMA SteadyBefore ==
    ASSUME ClusterInv, StaysLossy,
           \/ UNCHANGED <<conn, epoch>>
           \/ \E s \in Sfus : Connect(s) \/ OnClosed(s),
           Steady'
    PROVE  Steady /\ ~\E s \in Sfus : OnClosed(s)
<1>1. /\ epoch \in [Sfus -> 0 .. MaxEpoch] /\ conn \in [Sfus -> BOOLEAN]
      /\ \A s \in Sfus : conn[s] => epoch[s] # 0
      /\ MaxEpoch \in Nat
  BY LinkAssumption DEF ClusterInv, OpenInv, TypeOK, LinkTypeOK, LinkUp
<1>2. \A s \in Sfus : ~lossy[s] /\ (epoch'[s] = 0 \/ (epoch'[s] = 1 /\ conn'[s]))
  BY DEF Steady, StaysLossy
<1>3. ASSUME NEW s \in Sfus, OnClosed(s) PROVE FALSE
  <2>1. conn[s] /\ conn' = [conn EXCEPT ![s] = FALSE] /\ epoch' = epoch
    BY <1>3 DEF OnClosed
  <2>2. ~conn'[s] /\ epoch'[s] # 0
    BY <1>1, <2>1
  <2> QED
    BY <1>2, <2>2
<1>4. ASSUME NEW s \in Sfus, Connect(s) PROVE Steady
  <2>1. conn' = [conn EXCEPT ![s] = TRUE] /\ epoch' = [epoch EXCEPT ![s] = epoch[s] + 1]
    BY <1>4 DEF Connect
  <2>2. \A t \in Sfus \ {s} : epoch'[t] = epoch[t] /\ conn'[t] = conn[t]
    BY <1>1, <2>1
  <2>3. epoch'[s] = epoch[s] + 1 /\ epoch[s] \in Nat
    BY <1>1, <2>1
  <2>4. epoch[s] = 0
    BY <1>2, <2>3
  <2> QED
    BY <1>2, <2>2, <2>4 DEF Steady
<1>5. UNCHANGED <<conn, epoch>> => Steady
  BY <1>2 DEF Steady
<1> QED
  BY <1>3, <1>4, <1>5

\* A step of one SFU.
LEMMA MovesView ==
    ASSUME OneHome, ViewInv, NEW s \in Sfus, SfuMoves(s), UNCHANGED centerVars
    PROVE  Base' /\ (Steady' => SteadyInv')
<1>1. Base'
  BY MovesBase DEF ViewInv
<1>2. ASSUME Steady' PROVE SteadyInv'
  <2>1. UNCHANGED <<conn, epoch>> /\ StaysLossy
    BY DEF SfuMoves
  <2>2. Steady
    BY <1>2, <2>1, SteadyBefore DEF ViewInv
  <2> QED
    BY <1>2, <2>2, MovesSteady DEF ViewInv
<1> QED
  BY <1>1, <1>2

LEMMA ViewStep ==
    ASSUME HasMsu = FALSE, WhipUsers = {}, OneHome, ViewInv, [ClusterNext]_clusterVars
    PROVE  ViewInv'
<1>1. ClusterInv /\ OpenInv /\ Base /\ WhoSpeaks /\ (Steady => SteadyInv)
  BY DEF ViewInv, ClusterInv
<1>2. ClusterInv'
  BY <1>1, ClusterStep
<1> DEFINE Goal == Base' /\ (Steady' => SteadyInv')
<1>3. ASSUME LocalNext, UNCHANGED centerVars PROVE Goal
  <2>1. ASSUME NEW w \in Sockets, ClientNext(w) PROVE Goal
    <3>1. Home[w] \in Sfus
      BY RoomAssumption
    <3> QED
      BY <1>1, <1>3, <2>1, <3>1, ClientMoves, MovesView
  <2>2. ASSUME NEW s \in Sfus, PeerNext(s) \/ TimerNext(s) PROVE Goal
    BY <1>1, <1>3, <2>2, PeerMoves, TimerMoves, MovesView
  <2> QED
    BY <1>3, <2>1, <2>2 DEF LocalNext
<1>4. ASSUME NEW s \in Sfus, Connect(s), UNCHANGED <<roomVars, centerVars>> PROVE Goal
  <2>1. UNCHANGED <<up, cusers, part, pend>> /\ UNCHANGED roomVars /\ StaysLossy
    BY <1>4 DEF Connect, centerVars, StaysLossy
  <2>2. Base'
    BY <1>1, <2>1, LinkBase
  <2>3. ASSUME Steady' PROVE SteadyInv'
    <3>1. Steady
      BY <1>1, <1>4, <2>1, <2>3, SteadyBefore
    <3> QED
      BY <1>1, <1>4, <3>1, ConnectSteady
  <2> QED
    BY <2>2, <2>3
<1>5. ASSUME NEW s \in Sfus, LinkLost(s) PROVE Goal
  <2>1. /\ OnClosed(s) /\ UNCHANGED roomVars /\ UNCHANGED <<up, cusers, part, pend>>
        /\ StaysLossy
    BY <1>5 DEF LinkLost, OnClosed, StaysLossy
  <2>2. Base'
    BY <1>1, <2>1, LinkBase
  <2>3. ~Steady'
    BY <1>1, <2>1, SteadyBefore
  <2> QED
    BY <2>2, <2>3
<1>6. ASSUME NEW s \in Sfus, Deliver(s) PROVE Goal
  <2>1. Base'
    BY <1>1, <1>6, DeliverBase
  <2>2. ASSUME Steady' PROVE SteadyInv'
    <3>1. UNCHANGED <<conn, epoch>> /\ StaysLossy
      BY <1>1, <1>6, DeliverHears DEF StaysLossy
    <3>2. Steady
      BY <1>1, <2>2, <3>1, SteadyBefore
    <3> QED
      BY <1>1, <1>2, <1>6, <3>2, DeliverSteady
  <2> QED
    BY <2>1, <2>2
<1>7. ASSUME NEW s \in Sfus, NEW e, RelayRtp(s, e), UNCHANGED centerVars PROVE Goal
  BY <1>1, <1>7, RelayMoves, MovesView
<1>8. ASSUME NEW x \in Sids, OnMessage(x), UNCHANGED roomVars PROVE Goal
  <2>1. Base'
    BY <1>1, <1>8, ReadsBase
  <2>2. ASSUME Steady' PROVE SteadyInv'
    <3>1. UNCHANGED <<conn, epoch>> /\ StaysLossy
      BY <1>1, <1>8, MessageReads DEF StaysLossy
    <3>2. Steady
      BY <1>1, <2>2, <3>1, SteadyBefore
    <3> QED
      BY <1>1, <1>2, <1>8, <3>2, ReadsSteady
  <2> QED
    BY <2>1, <2>2
<1>9. ASSUME NEW x \in Sids, CloseSession(x), UNCHANGED roomVars PROVE Goal
  <2>1. Base'
    BY <1>1, <1>9, CloseBase
  <2>2. UNCHANGED <<conn, epoch>> /\ StaysLossy
    BY <1>9 DEF CloseSession, StaysLossy
  <2>3. ~Steady'
    BY <1>1, <1>9, <2>2, SteadyBefore, CloseNever
  <2> QED
    BY <2>1, <2>3
<1>10. ASSUME NEW s \in Sfus, DropLateResponse(s) PROVE FALSE
  BY <1>10 DEF DropLateResponse
<1>11. ASSUME NEW x \in Sids, MsuAnswers(x) PROVE FALSE
  BY <1>1, <1>11 DEF MsuAnswers, Base, NoPend
<1>12. ASSUME UNCHANGED clusterVars PROVE Goal
  <2>1. /\ UNCHANGED <<conn, epoch, up, users, room, ub, cusers, reg, part, pend, down>>
        /\ StaysLossy
    BY <1>12 DEF clusterVars, vars, linkVars, roomVars, centerVars, StaysLossy
  <2>2. Base'
    BY <1>1, <2>1 DEF Base, NoPend, Strangers, IdleEmpty, UpHome, AboutOwn, CenterHome, At
  <2>3. ASSUME Steady' PROVE SteadyInv'
    <3>1. SteadyInv
      BY <1>1, <2>1, <2>3, SteadyBefore
    <3>2. Unopened'
      BY <2>1, <3>1 DEF SteadyInv, Unopened, At
    <3> QED
      BY <2>1, <3>1, <3>2, SameViews DEF SteadyInv
  <2> QED
    BY <2>2, <2>3
<1>13. Goal
  BY <1>3, <1>4, <1>5, <1>6, <1>7, <1>8, <1>9, <1>10, <1>11, <1>12, Zenon
     DEF ClusterNext, CenterSteps
<1>14. WhoSpeaks'
  BY <1>1, WhoStep
<1> QED
  BY <1>2, <1>13, <1>14 DEF ViewInv

-----------------------------------------------------------------------------
(* What the SFUs know once everything has arrived *)

\* Where nothing is under way and no connection was lost, the current session of
\* an SFU is its first one.
LEMMA QuietFacts ==
    ASSUME ViewInv, Quiet
    PROVE  /\ SteadyInv
           /\ \A s \in Sfus : Sid(s) = First(s) /\ ~ub[s]
           /\ \A y \in Sids : up[y] = <<>> /\ down[y] = <<>>
<1>1. Steady
  BY DEF Quiet, Steady
<1> QED
  BY <1>1 DEF ViewInv, Quiet, Sid, First

\* An SFU knows its own user, with all its pushers: the story is told.
LEMMA OwnKnown ==
    ASSUME NEW u, NEW r, NEW c, StoryOf(<<>>, u, r, c),
           c.in, r.in \in BOOLEAN
    PROVE  r.in /\ c.pushers \subseteq r.pushers
<1>1. Len(<<>>) = 0 /\ 0 + 1 = 1
  OBVIOUS
<1>2. \A B : ~Some(<<>>, B, 1)
  BY DEF Some
<1> QED
  BY <1>1, <1>2 DEF StoryOf, Away, Listed

\* An SFU knows a user of another SFU: there is nothing more to come.
LEMMA OtherKnown ==
    ASSUME NEW u, NEW r, NEW ps, ViewOf(<<>>, u, r, ps)
    PROVE  r.in /\ ps \subseteq r.pushers
<1>1. Len(<<>>) = 0 /\ 0 + 1 = 1 /\ 1 .. 0 = {}
  OBVIOUS
<1>2. ~Brought(<<>>, u, Len(<<>>) + 1)
  BY <1>1 DEF Brought
<1>3. r.in
  BY <1>2 DEF ViewOf, Known
<1>4. \A p \in ps : p \in r.pushers
  BY <1>1, <1>3 DEF ViewOf, Coming
<1> QED
  BY <1>3, <1>4

LEMMA SureKnown ==
    ASSUME ViewInv, Quiet, NEW s \in Sfus, NEW u \in Users, Sid(s) \in reg, Sure(u)
    PROVE  users[s][u].in /\ cusers[u].pushers \subseteq users[s][u].pushers
<1>1. /\ SteadyInv /\ ~ub[s] /\ Sid(s) = First(s) /\ First(s) \in Sids
      /\ up[First(s)] = <<>> /\ down[First(s)] = <<>>
  BY QuietFacts DEF ViewInv, ClusterInv, CenterTypeOK
<1>2. users[s][u].in \in BOOLEAN
  BY DEF ViewInv, ClusterInv, OpenInv, TypeOK, RoomTypeOK, UserRecs
<1>3. CASE At(s, u)
  <2>1. StoryOf(<<>>, u, users[s][u], cusers[u])
    BY <1>1, <1>3 DEF SteadyInv, Stories
  <2> QED
    BY <1>2, <2>1, OwnKnown DEF Sure
<1>4. CASE ~At(s, u)
  <2>1. ViewOf(<<>>, u, users[s][u], cusers[u].pushers)
    BY <1>1, <1>4 DEF SteadyInv, Views
  <2> QED
    BY <2>1, OtherKnown
<1> QED
  BY <1>3, <1>4

LEMMA ViewInvariant ==
    ASSUME HasMsu = FALSE, WhipUsers = {}, OneHome
    PROVE  ClusterSpec => []ViewInv
<1>1. ClusterInit => ViewInv
  BY ViewInit
<1>2. ViewInv /\ [ClusterNext]_clusterVars => ViewInv'
  BY ViewStep
<1> QED
  BY <1>1, <1>2, PTL DEF ClusterSpec

\* Once everything sent has arrived, and no write and no connection was ever lost,
\* every SFU that the center broadcasts to knows every participant the center has
\* bound to a session (Room.handle_join), with every pusher the center has
\* recorded for it (handle_push_notification), whatever the number of SFUs, of
\* users of one SFU and of messages under way: for a center without MSU, SFUs
\* without WHIP and clients of a user that stay with one SFU.
THEOREM ViewAgreementAlways ==
    ASSUME HasMsu = FALSE, WhipUsers = {}, OneHome
    PROVE  ClusterSpec => []ViewAgreement
<1>1. ViewInv => ViewAgreement
  <2> SUFFICES ASSUME ViewInv, Quiet, NEW s \in Sfus, NEW u \in Users, Sid(s) \in reg,
                      cusers[u].sid # NoSid, ~cusers[u].audience
               PROVE  users[s][u].in /\ cusers[u].pushers \subseteq users[s][u].pushers
    BY DEF ViewAgreement
  <2>1. Sure(u)
    BY NoCUserFields DEF Sure, ViewInv, Base, CenterHome
  <2> QED
    BY <2>1, SureKnown
<1> QED
  BY <1>1, ViewInvariant, PTL
=============================================================================
