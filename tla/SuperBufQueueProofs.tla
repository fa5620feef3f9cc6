-------------------------- MODULE SuperBufQueueProofs --------------------------
(***************************************************************************)
(* For any channels and clients, any interleaving and loss of frames and   *)
(* any commands: every frame is in one place, what the HAL gets has a      *)
(* frame of every stream, all of one index, and the queue is complete      *)
(* superbufs first, incomplete ones in the order of their frames behind.   *)
(* And for single pictures: none is sent from before its flash.            *)
(***************************************************************************)
EXTENDS SuperBufQueue, SequenceTheorems, FiniteSetTheorems, WellFoundedInduction, TLAPS

\* A node joins frames of one index; metadata of a later frame waits alone.
Joined(n) ==
    /\ n.matched => Whole(n)
    /\ \A s \in Streams : (LowPriority /\ s = Metadata) \/ n.frames[s] \in {NONE, n.frame_idx}
    /\ n.unmatched_meta_idx > 0 =>
            LowPriority /\ \A s \in Streams \ {Metadata} : n.frames[s] = NONE
Nodes == {n \in [frame_idx : Int, frames : [Streams -> Nat], matched : BOOLEAN,
                 expected_frame : BOOLEAN, unmatched_meta_idx : Nat] : Joined(n)}

\* No frame is in two nodes.
Apart(queue) ==
    \A i, j \in DOMAIN queue : i # j => FramesOf(queue[i]) \cap FramesOf(queue[j]) = {}

\* A channel during a command: what was returned is not in the queue.
Sound(c) ==
    /\ {"queue", "returned", "sent", "match_cnt", "pending_cnt", "pending_retro_cnt"}
            \subseteq DOMAIN c
    /\ c.queue \in Seq(Nodes)
    /\ Apart(c.queue)
    /\ Held(c.queue) \cap c.returned = {}
    /\ c.match_cnt \in Int
    /\ {c.pending_cnt, c.pending_retro_cnt} \subseteq Nat

\* The frames the command deals with.
Total(c) == Held(c.queue) \cup c.returned

\* From channel c to channel d the frames x came in, and none left.
Keeps(c, d, x) == Sound(d) /\ Total(d) = Total(c) \cup x /\ d.sent = c.sent

\* A change of other fields alone.
Same(c, d) ==
    /\ DOMAIN d = DOMAIN c
    /\ d.queue = c.queue /\ d.returned = c.returned /\ d.sent = c.sent
    /\ d.match_cnt = c.match_cnt
    /\ d.pending_cnt = c.pending_cnt /\ d.pending_retro_cnt = c.pending_retro_cnt

\* What a command leaves of channel c and of the frames x it brought in.
Settled(c, d, x) ==
    /\ Sound(d)
    /\ Held(d.queue) \cup Held(d.sent) \cup d.returned = Held(c.queue) \cup x
    /\ Held(d.sent) \cap (d.returned \cup Held(d.queue)) = {}
    /\ d.sent \in Seq(Nodes) /\ \A i \in DOMAIN d.sent : d.sent[i].matched

Inv ==
    /\ setup \in Setups
    /\ last \in [Streams -> Nat]
    /\ Sound(ch)
    /\ \A s \in Streams, f \in Nat : <<s, f>> \in Held(ch.queue) => f <= last[s]
    /\ ch.sent \in Seq(Nodes) /\ \A i \in DOMAIN ch.sent : ch.sent[i].matched
--------------------------------------------------------------------------------
(* Sets of numbers, and positions of a queue.                              *)

LEMMA Least ==
    ASSUME NEW S, S \subseteq Nat, S # {}
    PROVE  Min(S) \in S /\ \A y \in S : Min(S) <= y
<1> DEFINE R == {p \in Nat \X Nat : p[1] < p[2]}
<1>1. IsWellFoundedOn(R, Nat)
  BY NatLessThanWellFounded DEF OpToRel
<1>2. PICK x \in S : \A y \in S : ~(<<y, x>> \in R)
  BY <1>1, WFMin
<1>3. \A y \in S : x <= y
  <2> TAKE y \in S
  <2>1. y \in Nat /\ x \in Nat
    OBVIOUS
  <2>2. <<y, x>> \in Nat \X Nat /\ <<y, x>>[1] = y /\ <<y, x>>[2] = x
    BY <2>1
  <2>3. ~(<<y, x>>[1] < <<y, x>>[2])
    BY <1>2, <2>2
  <2> QED BY <2>1, <2>2, <2>3
<1> QED BY <1>3 DEF Min

LEMMA Bounds ==
    ASSUME NEW a \in Nat, NEW b \in Nat, a <= b
    PROVE  a..b # {} /\ Min(a..b) = a /\ Max(a..b) = b
<1>1. Min(a..b) \in a..b /\ \A y \in a..b : Min(a..b) <= y
  BY Least
<1>2. \A x \in a..b : (\A y \in a..b : x >= y) => x = b
  OBVIOUS
<1>3. \E x \in a..b : \A y \in a..b : x >= y
  OBVIOUS
<1>4. Max(a..b) = b
  BY <1>2, <1>3 DEF Max
<1> QED BY <1>1, <1>4

LEMMA HeldAt ==
    \A q, p : p \in Held(q) <=> \E i \in DOMAIN q : p \in FramesOf(q[i])
BY DEF Held

\* What is left of a queue without an interval.
LEMMA CutAt ==
    ASSUME NEW S, NEW q \in Seq(S),
           NEW a \in 1..Len(q) + 1, NEW b \in (a - 1)..Len(q)
    PROVE  LET r == SubSeq(q, 1, a - 1) \o SubSeq(q, b + 1, Len(q))
           IN /\ r \in Seq(S) /\ Len(r) = Len(q) - (b - a + 1)
              /\ \A i \in 1..Len(r) : r[i] = q[IF i < a THEN i ELSE i + (b - a + 1)]
<1> DEFINE r == SubSeq(q, 1, a - 1) \o SubSeq(q, b + 1, Len(q))
           at(i) == IF i < a THEN i ELSE i + (b - a + 1)
<1>1. Len(q) \in Nat /\ DOMAIN q = 1..Len(q) /\ \A i \in 1..Len(q) : q[i] \in S
  OBVIOUS
<1>2. /\ SubSeq(q, 1, a - 1) \in Seq(S) /\ Len(SubSeq(q, 1, a - 1)) = a - 1
      /\ \A i \in 1..(a - 1) : SubSeq(q, 1, a - 1)[i] = q[i]
  BY <1>1, SubSeqProperties
<1>3. /\ SubSeq(q, b + 1, Len(q)) \in Seq(S) /\ Len(SubSeq(q, b + 1, Len(q))) = Len(q) - b
      /\ \A i \in 1..(Len(q) - b) : SubSeq(q, b + 1, Len(q))[i] = q[i + b]
  <2>1. b + 1 \in Int /\ \A i \in (b + 1)..Len(q) : q[i] \in S
    BY <1>1
  <2> DEFINE m == b + 1
             n == Len(q)
             v == SubSeq(q, m, n)
  <2>2. m \in Int /\ n \in Int
    BY <1>1
  <2> HIDE DEF m, n
  <2>3. /\ v \in Seq(S) /\ Len(v) = IF m <= n THEN n - m + 1 ELSE 0
        /\ \A i \in 1..n - m + 1 : v[i] = q[m + i - 1]
    BY <2>1, <2>2, SubSeqProperties DEF m, n
  <2> HIDE DEF v
  <2>4. Len(v) = n - b /\ \A i \in 1..(n - b) : v[i] = q[i + b]
    <3>1. n \in Nat /\ b \in Int /\ m = b + 1 /\ b <= n
      BY <1>1 DEF m, n
    <3>2. ASSUME NEW i \in 1..(n - b) PROVE i \in 1..n - m + 1 /\ m + i - 1 = i + b
      BY <3>1
    <3>3. Len(v) = n - b
      BY <2>3, <3>1
    <3> QED BY <2>3, <3>2, <3>3
  <2> QED BY <2>3, <2>4 DEF v, m, n
<1>4. /\ r \in Seq(S) /\ Len(r) = Len(q) - (b - a + 1)
      /\ \A i \in 1..Len(r) : r[i] = q[at(i)]
  <2> DEFINE u == SubSeq(q, 1, a - 1)
             v == SubSeq(q, b + 1, Len(q))
  <2>1. u \in Seq(S) /\ Len(u) = a - 1 /\ \A i \in 1..(a - 1) : u[i] = q[i]
    BY <1>2
  <2>2. v \in Seq(S) /\ Len(v) = Len(q) - b /\ \A i \in 1..(Len(q) - b) : v[i] = q[i + b]
    BY <1>3
  <2>3. r = u \o v
    OBVIOUS
  <2> HIDE DEF u, v, r
  <2>4. /\ r \in Seq(S) /\ Len(r) = Len(u) + Len(v)
        /\ \A i \in 1..Len(u) + Len(v) : r[i] = IF i <= Len(u) THEN u[i] ELSE v[i - Len(u)]
    BY <2>1, <2>2, <2>3, ConcatProperties
  <2>5. Len(r) = Len(q) - (b - a + 1)
    BY <2>1, <2>2, <2>4, <1>1
  <2>6. ASSUME NEW i \in 1..Len(r) PROVE r[i] = q[at(i)]
    <3>1. CASE i < a
      <4>1. i \in 1..(a - 1)
        BY <3>1, <2>5, <1>1
      <4> QED BY <4>1, <3>1, <2>1, <2>2, <2>4, <1>1
    <3>2. CASE ~(i < a)
      <4>1. i - (a - 1) \in 1..(Len(q) - b) /\ (i - (a - 1)) + b = at(i) /\ ~(i <= Len(u))
        BY <3>2, <2>1, <2>5, <1>1
      <4>2. r[i] = v[i - (a - 1)]
        BY <4>1, <2>1, <2>2, <2>4, <2>5, <1>1
      <4> HIDE DEF at
      <4> QED BY <4>1, <4>2, <2>2
    <3> QED BY <3>1, <3>2
  <2> QED BY <2>4, <2>5, <2>6
<1> QED BY <1>4 DEF r

\* What it held there.
LEMMA Cut ==
    ASSUME NEW S, NEW q \in Seq(S), Apart(q),
           NEW a \in 1..Len(q) + 1, NEW b \in (a - 1)..Len(q)
    PROVE  LET r == SubSeq(q, 1, a - 1) \o SubSeq(q, b + 1, Len(q))
               x == UNION {FramesOf(q[i]) : i \in a..b}
           IN r \in Seq(S) /\ Apart(r) /\ Held(q) = Held(r) \cup x /\ Held(r) \cap x = {}
<1> DEFINE r == SubSeq(q, 1, a - 1) \o SubSeq(q, b + 1, Len(q))
           x == UNION {FramesOf(q[i]) : i \in a..b}
           at(i) == IF i < a THEN i ELSE i + (b - a + 1)
<1>1. Len(q) \in Nat /\ DOMAIN q = 1..Len(q) /\ \A i \in 1..Len(q) : q[i] \in S
  OBVIOUS
<1>2. /\ r \in Seq(S) /\ Len(r) = Len(q) - (b - a + 1)
      /\ \A i \in 1..Len(r) : r[i] = q[at(i)]
  BY CutAt
<1>3. DOMAIN r = 1..Len(r)
  BY <1>2
<1>4. \A i \in 1..Len(r) : at(i) \in 1..Len(q) /\ at(i) \notin a..b
  <2> HIDE DEF r
  <2> QED BY <1>1, <1>2
<1>5. \A i, j \in 1..Len(r) : i # j => at(i) # at(j)
  BY <1>1, <1>2
<1>6. \A j \in 1..Len(q) : j \in a..b \/ \E i \in 1..Len(r) : at(i) = j
  <2> TAKE j \in 1..Len(q)
  <2> HIDE DEF r
  <2>1. CASE j < a
    <3>1. j \in 1..Len(r) /\ at(j) = j
      BY <2>1, <1>1, <1>2
    <3> QED BY <3>1
  <2>2. CASE j > b
    <3>1. j - (b - a + 1) \in 1..Len(r) /\ at(j - (b - a + 1)) = j
      BY <2>2, <1>1, <1>2
    <3> HIDE DEF at
    <3> QED BY <3>1
  <2> QED BY <2>1, <2>2, <1>1
<1> HIDE DEF r, at
<1>7. Apart(r)
  BY <1>1, <1>2, <1>3, <1>4, <1>5 DEF Apart
<1>8. Held(q) = Held(r) \cup x
  <2>1. \A p : p \in x <=> \E i \in a..b : p \in FramesOf(q[i])
    OBVIOUS
  <2>2. a..b \subseteq 1..Len(q)
    BY <1>1
  <2> HIDE DEF x
  <2>3. ASSUME NEW p \in Held(q) PROVE p \in Held(r) \cup x
    BY <2>1, <2>3, <1>1, <1>2, <1>3, <1>6, HeldAt
  <2>4. ASSUME NEW p \in Held(r) \cup x PROVE p \in Held(q)
    BY <2>1, <2>2, <2>4, <1>1, <1>2, <1>3, <1>4, HeldAt
  <2> QED BY <2>3, <2>4
<1>9. Held(r) \cap x = {}
  <2>1. \A p : p \in x <=> \E i \in a..b : p \in FramesOf(q[i])
    OBVIOUS
  <2>2. a..b \subseteq 1..Len(q)
    BY <1>1
  <2> HIDE DEF x
  <2>3. ASSUME NEW p \in Held(r), p \in x PROVE FALSE
    <3>1. PICK i \in 1..Len(r) : p \in FramesOf(q[at(i)])
      BY <2>3, <1>2, <1>3, HeldAt
    <3>2. PICK j \in a..b : p \in FramesOf(q[j])
      BY <2>1, <2>3
    <3> QED BY <3>1, <3>2, <2>2, <1>1, <1>4 DEF Apart
  <2> QED BY <2>3
<1> QED BY <1>2, <1>7, <1>8, <1>9 DEF r

\* A queue with a node put in.
LEMMA PutAt ==
    ASSUME NEW S, NEW q \in Seq(S), NEW k \in 1..Len(q) + 1, NEW e \in S
    PROVE  LET r == InsertAt(q, k, e)
           IN /\ r \in Seq(S) /\ Len(r) = Len(q) + 1 /\ r[k] = e
              /\ \A i \in 1..Len(r) : i # k => r[i] = q[IF i < k THEN i ELSE i - 1]
<1> DEFINE r == InsertAt(q, k, e)
           u == SubSeq(q, 1, k - 1)
           v == SubSeq(q, k, Len(q))
           w == <<e>>
           at(i) == IF i < k THEN i ELSE i - 1
<1>1. Len(q) \in Nat /\ DOMAIN q = 1..Len(q) /\ \A i \in 1..Len(q) : q[i] \in S
  OBVIOUS
<1>2. u \in Seq(S) /\ Len(u) = k - 1 /\ \A i \in 1..(k - 1) : u[i] = q[i]
  BY <1>1, SubSeqProperties
<1>3. v \in Seq(S) /\ Len(v) = Len(q) + 1 - k
      /\ \A i \in 1..(Len(q) + 1 - k) : v[i] = q[i + k - 1]
  <2> DEFINE n == Len(q)
  <2>1. n \in Nat /\ k \in Int /\ k <= n + 1 /\ \A i \in k..n : q[i] \in S
    BY <1>1
  <2> HIDE DEF n
  <2>2. /\ v \in Seq(S) /\ Len(v) = IF k <= n THEN n - k + 1 ELSE 0
        /\ \A i \in 1..n - k + 1 : v[i] = q[k + i - 1]
    BY <2>1, SubSeqProperties DEF n
  <2> HIDE DEF v
  <2>3. Len(v) = n + 1 - k
    BY <2>1, <2>2
  <2>4. ASSUME NEW i \in 1..(n + 1 - k) PROVE i \in 1..n - k + 1 /\ k + i - 1 = i + k - 1
    BY <2>1
  <2> QED BY <2>2, <2>3, <2>4 DEF n
<1>4. w \in Seq(S) /\ Len(w) = 1 /\ w[1] = e
  OBVIOUS
<1>5. r = (u \o w) \o v
  BY DEF InsertAt
<1> HIDE DEF r, u, v, w
<1>6. /\ u \o w \in Seq(S) /\ Len(u \o w) = k
      /\ \A i \in 1..(k - 1) : (u \o w)[i] = q[i]
      /\ (u \o w)[k] = e
  <2>1. /\ u \o w \in Seq(S) /\ Len(u \o w) = Len(u) + Len(w)
        /\ \A i \in 1..Len(u) + Len(w) :
              (u \o w)[i] = IF i <= Len(u) THEN u[i] ELSE w[i - Len(u)]
    BY <1>2, <1>4, ConcatProperties
  <2> QED BY <2>1, <1>1, <1>2, <1>4
<1>7. /\ r \in Seq(S) /\ Len(r) = Len(q) + 1 /\ r[k] = e
      /\ \A i \in 1..Len(r) : i # k => r[i] = q[at(i)]
  <2> DEFINE t == u \o w
  <2>1. t \in Seq(S) /\ Len(t) = k /\ (\A i \in 1..(k - 1) : t[i] = q[i]) /\ t[k] = e
    BY <1>6
  <2>2. r = t \o v
    BY <1>5
  <2> HIDE DEF t
  <2>3. /\ r \in Seq(S) /\ Len(r) = Len(t) + Len(v)
        /\ \A i \in 1..Len(t) + Len(v) : r[i] = IF i <= Len(t) THEN t[i] ELSE v[i - Len(t)]
    BY <2>1, <2>2, <1>3, ConcatProperties
  <2>4. Len(r) = Len(q) + 1 /\ r[k] = e
    BY <2>1, <2>3, <1>1, <1>3
  <2>5. ASSUME NEW i \in 1..Len(r), i # k PROVE r[i] = q[at(i)]
    <3>1. CASE i < k
      <4>1. i \in 1..(k - 1) /\ i <= Len(t)
        BY <3>1, <2>1, <2>4, <1>1
      <4> QED BY <4>1, <3>1, <2>1, <2>3
    <3>2. CASE ~(i < k)
      <4>1. i - k \in 1..(Len(q) + 1 - k) /\ (i - k) + k - 1 = at(i) /\ ~(i <= Len(t))
        BY <3>2, <2>1, <2>4, <2>5, <1>1
      <4>2. r[i] = v[i - k]
        BY <4>1, <2>1, <2>3
      <4> HIDE DEF at
      <4> QED BY <4>1, <4>2, <1>3
    <3> QED BY <3>1, <3>2
  <2> QED BY <2>3, <2>4, <2>5
<1> QED BY <1>7 DEF r

\* What it holds then.
LEMMA Put ==
    ASSUME NEW S, NEW q \in Seq(S), Apart(q), NEW k \in 1..Len(q) + 1,
           NEW e \in S, FramesOf(e) \cap Held(q) = {}
    PROVE  LET r == InsertAt(q, k, e)
           IN r \in Seq(S) /\ Apart(r) /\ Held(r) = Held(q) \cup FramesOf(e)
<1> DEFINE r == InsertAt(q, k, e)
           at(i) == IF i < k THEN i ELSE i - 1
<1>1. Len(q) \in Nat /\ DOMAIN q = 1..Len(q) /\ \A i \in 1..Len(q) : q[i] \in S
  OBVIOUS
<1>2. /\ r \in Seq(S) /\ Len(r) = Len(q) + 1 /\ r[k] = e
      /\ \A i \in 1..Len(r) : i # k => r[i] = q[at(i)]
  BY PutAt
<1> HIDE DEF r
<1>3. DOMAIN r = 1..Len(r) /\ k \in 1..Len(r)
  BY <1>1, <1>2
<1>4. \A i \in 1..Len(r) : i # k => at(i) \in 1..Len(q)
  BY <1>1, <1>2
<1>5. \A i, j \in 1..Len(r) : i # k /\ j # k /\ i # j => at(i) # at(j)
  BY <1>1, <1>2
<1>6. ASSUME NEW j \in 1..Len(q) PROVE \E i \in 1..Len(r) : i # k /\ at(i) = j
  <2>1. CASE j < k
    <3>1. j \in 1..Len(r) /\ j # k /\ at(j) = j
      BY <2>1, <1>1, <1>2
    <3> QED BY <3>1
  <2>2. CASE ~(j < k)
    <3>1. j + 1 \in 1..Len(r) /\ j + 1 # k /\ at(j + 1) = j
      BY <2>2, <1>1, <1>2
    <3> HIDE DEF at
    <3> QED BY <3>1
  <2> QED BY <2>1, <2>2
<1> HIDE DEF at
<1>7. Apart(r)
  <2> SUFFICES ASSUME NEW i \in 1..Len(r), NEW j \in 1..Len(r), i # j,
                      NEW p, p \in FramesOf(r[i]), p \in FramesOf(r[j])
               PROVE  FALSE
    BY <1>3 DEF Apart
  <2>1. \A p1, j1 : j1 \in 1..Len(r) /\ j1 # k /\ p1 \in FramesOf(r[j1]) => p1 \in Held(q)
    BY <1>1, <1>2, <1>4, HeldAt
  <2>2. CASE i # k /\ j # k
    BY <2>2, <1>1, <1>2, <1>4, <1>5 DEF Apart
  <2>3. CASE i = k
    BY <2>1, <2>3, <1>2
  <2>4. CASE j = k
    BY <2>1, <2>4, <1>2
  <2> QED BY <2>2, <2>3, <2>4
<1>8. Held(r) = Held(q) \cup FramesOf(e)
  <2>1. ASSUME NEW p \in Held(r) PROVE p \in Held(q) \cup FramesOf(e)
    BY <2>1, <1>1, <1>2, <1>3, <1>4, HeldAt
  <2>2. ASSUME NEW p \in Held(q) PROVE p \in Held(r)
    <3>1. PICK j \in 1..Len(q) : p \in FramesOf(q[j])
      BY <2>2, <1>1, HeldAt
    <3>2. PICK i \in 1..Len(r) : i # k /\ at(i) = j
      BY <1>6
    <3> QED BY <3>1, <3>2, <1>2, <1>3, HeldAt
  <2>3. FramesOf(e) \subseteq Held(r)
    BY <1>2, <1>3, HeldAt
  <2> QED BY <2>1, <2>2, <2>3
<1> QED BY <1>2, <1>7, <1>8 DEF r

\* A queue with one node changed.
LEMMA Changed ==
    ASSUME NEW S, NEW q \in Seq(S), Apart(q), NEW k \in 1..Len(q), NEW e \in S, NEW x,
           x \cap Held(q) = {}, FramesOf(e) = FramesOf(q[k]) \cup x
    PROVE  LET r == [q EXCEPT ![k] = e]
           IN r \in Seq(S) /\ Len(r) = Len(q) /\ Apart(r) /\ Held(r) = Held(q) \cup x
<1> DEFINE r == [q EXCEPT ![k] = e]
<1>1. /\ DOMAIN q = 1..Len(q) /\ DOMAIN r = 1..Len(q) /\ r \in Seq(S) /\ Len(r) = Len(q)
      /\ r[k] = e /\ \A i \in 1..Len(q) : i # k => r[i] = q[i]
  BY ExceptSeq
<1> HIDE DEF r
<1>2. Apart(r)
  <2> SUFFICES ASSUME NEW i \in 1..Len(q), NEW j \in 1..Len(q), i # j,
                      NEW p, p \in FramesOf(r[i]), p \in FramesOf(r[j])
               PROVE  FALSE
    BY <1>1 DEF Apart
    <2>1. \A j1 \in 1..Len(q) : \A p1 \in FramesOf(q[j1]) : p1 \notin x
    BY <1>1, HeldAt
  <2>2. p \in FramesOf(q[i]) \/ (i = k /\ p \in x)
    BY <1>1
  <2>3. p \in FramesOf(q[j]) \/ (j = k /\ p \in x)
    BY <1>1
  <2> QED BY <2>1, <2>2, <2>3, <1>1 DEF Apart
<1>3. Held(r) = Held(q) \cup x
  <2>1. ASSUME NEW p \in Held(r) PROVE p \in Held(q) \cup x
    BY <2>1, <1>1, HeldAt
  <2>2. ASSUME NEW p \in Held(q) \cup x PROVE p \in Held(r)
    BY <2>2, <1>1, HeldAt
  <2> QED BY <2>1, <2>2
<1> QED BY <1>1, <1>2, <1>3 DEF r
--------------------------------------------------------------------------------
(* What the operations on the list keep.                                   *)

LEMMA Aside ==
    ASSUME NEW c, NEW d, Sound(c), Same(c, d)
    PROVE  Keeps(c, d, {})
BY DEF Sound, Same, Keeps, Total

LEMMA Then ==
    ASSUME NEW c, NEW d, NEW e, NEW x, NEW y, Keeps(c, d, x), Keeps(d, e, y)
    PROVE  Keeps(c, e, x \cup y)
BY DEF Keeps

LEMMA Returned ==
    ASSUME NEW c, Sound(c), NEW x, x \cap Held(c.queue) = {}
    PROVE  Keeps(c, Return(c, x), x) /\ Return(c, x).queue = c.queue
<1> DEFINE d == Return(c, x)
<1>1. /\ DOMAIN d = DOMAIN c /\ d.queue = c.queue /\ d.sent = c.sent
      /\ d.returned = c.returned \cup x /\ d.match_cnt = c.match_cnt
      /\ d.pending_cnt = c.pending_cnt /\ d.pending_retro_cnt = c.pending_retro_cnt
  BY DEF Return, Sound
<1> HIDE DEF d
<1>2. Sound(d)
  BY <1>1 DEF Sound
<1>3. Total(d) = Total(c) \cup x
  BY <1>1 DEF Total
<1> QED BY <1>1, <1>2, <1>3 DEF Keeps, d

LEMMA Discarded ==
    ASSUME NEW c, Sound(c), NEW gone,
           gone = {} \/ \E a \in 1..Len(c.queue) : \E b \in a..Len(c.queue) : gone = a..b
    PROVE  LET d == Discard(c, gone)
           IN /\ Keeps(c, d, {}) /\ Held(d.queue) \subseteq Held(c.queue)
              /\ DOMAIN d = DOMAIN c /\ d.match_cnt = c.match_cnt
              /\ d.pending_cnt = c.pending_cnt /\ d.pending_retro_cnt = c.pending_retro_cnt
<1> DEFINE d == Discard(c, gone)
           q == c.queue
           x == UNION {FramesOf(q[i]) : i \in gone}
<1>1. /\ DOMAIN d = DOMAIN c /\ d.queue = Without(q, gone) /\ d.sent = c.sent
      /\ d.returned = c.returned \cup x /\ d.match_cnt = c.match_cnt
      /\ d.pending_cnt = c.pending_cnt /\ d.pending_retro_cnt = c.pending_retro_cnt
  BY DEF Discard, Return, Sound
<1>2. q \in Seq(Nodes) /\ Apart(q)
  BY DEF Sound
<1>3. /\ d.queue \in Seq(Nodes) /\ Apart(d.queue)
      /\ Held(q) = Held(d.queue) \cup x /\ Held(d.queue) \cap x = {}
  <2>1. CASE gone = {}
    BY <1>1, <1>2, <2>1 DEF Without
  <2>2. ASSUME NEW a \in 1..Len(q), NEW b \in a..Len(q), gone = a..b
        PROVE  <1>3
    <3>1. Len(q) \in Nat /\ a \in Nat /\ b \in Nat /\ a <= b
      BY <1>2
    <3>2. gone # {} /\ Min(gone) = a /\ Max(gone) = b
      BY <2>2, <3>1, Bounds
    <3>3. d.queue = SubSeq(q, 1, a - 1) \o SubSeq(q, b + 1, Len(q))
      BY <1>1, <3>2 DEF Without
    <3>4. a \in 1..Len(q) + 1 /\ b \in (a - 1)..Len(q)
      BY <3>1
    <3> HIDE DEF d, q
    <3> QED BY <1>2, <2>2, <3>3, <3>4, Cut
  <2> QED BY <2>1, <2>2
<1> HIDE DEF d, x
<1>4. Sound(d)
  BY <1>1, <1>3 DEF Sound
<1>5. Total(d) = Total(c)
  BY <1>1, <1>3 DEF Total
<1> QED BY <1>1, <1>3, <1>4, <1>5 DEF Keeps, d

LEMMA Ahead ==
    ASSUME NEW c, Sound(c)
    PROVE  /\ MatchedAhead(c) \in 0..Len(c.queue)
           /\ 1..MatchedAhead(c) \subseteq MatchedAt(c.queue)
<1> DEFINE q == c.queue
           S == {i \in 1..Len(q) + 1 : i \notin MatchedAt(q)}
           n == Min(S) - 1
<1>1. Len(q) \in Nat /\ MatchedAt(q) \subseteq 1..Len(q)
  BY DEF Sound, MatchedAt
<1>2. S \subseteq Nat /\ Len(q) + 1 \in S
  BY <1>1
<1>3. Min(S) \in S /\ \A y \in S : Min(S) <= y
  <2> HIDE DEF S
  <2> QED BY <1>2, Least
<1>4. n \in 0..Len(q) /\ n + 1 \notin MatchedAt(q)
  BY <1>1, <1>3
<1>5. 1..n \subseteq MatchedAt(q)
  <2> SUFFICES ASSUME NEW i \in 1..n, i \notin MatchedAt(q) PROVE FALSE
    OBVIOUS
  <2>1. i \in 1..Len(q) + 1
    BY <1>1, <1>4
  <2>2. i \in S
    BY <2>1
  <2>3. Min(S) <= i /\ Min(S) \in Nat
    BY <1>2, <1>3, <2>2
  <2> QED BY <2>1, <2>3, <1>1
<1> HIDE DEF n
<1> QED BY <1>4, <1>5 DEF MatchedAhead

LEMMA Taken ==
    ASSUME NEW c, Sound(c), NEW n \in 0..Len(c.queue)
    PROVE  /\ Keeps(c, TakeMatched(c, n), {})
           /\ Held(TakeMatched(c, n).queue) \subseteq Held(c.queue)
<1> DEFINE d == Discard(c, 1..n)
           e == TakeMatched(c, n)
<1>1. 1..n = {} \/ \E a \in 1..Len(c.queue) : \E b \in a..Len(c.queue) : 1..n = a..b
  <2>1. Len(c.queue) \in Nat
    BY DEF Sound
  <2>2. CASE n = 0
    BY <2>2
  <2>3. CASE n # 0
    <3>1. 1 \in 1..Len(c.queue) /\ n \in 1..Len(c.queue)
      BY <2>1, <2>3
    <3> QED BY <3>1
  <2> QED BY <2>2, <2>3
<1>2. /\ Keeps(c, d, {}) /\ Held(d.queue) \subseteq Held(c.queue)
      /\ DOMAIN d = DOMAIN c /\ d.match_cnt = c.match_cnt
  <2> DEFINE gone == 1..n
  <2>1. gone = {} \/ \E a \in 1..Len(c.queue) : \E b \in a..Len(c.queue) : gone = a..b
    BY <1>1
  <2>2. d = Discard(c, gone)
    OBVIOUS
  <2> HIDE DEF gone, d
  <2> QED BY <2>1, <2>2, Discarded
<1> HIDE DEF d
<1>3. e = [d EXCEPT !.match_cnt = @ - n]
  BY DEF TakeMatched, d
<1>4. /\ DOMAIN e = DOMAIN d /\ e.queue = d.queue /\ e.returned = d.returned
      /\ e.sent = d.sent /\ e.match_cnt = d.match_cnt - n
      /\ e.pending_cnt = d.pending_cnt /\ e.pending_retro_cnt = d.pending_retro_cnt
  BY <1>2, <1>3 DEF Keeps, Sound
<1> HIDE DEF e
<1>5. d.match_cnt - n \in Int
  BY <1>2 DEF Sound
<1>6. Sound(e)
  BY <1>2, <1>4, <1>5 DEF Keeps, Sound
<1>7. Keeps(c, e, {})
  BY <1>2, <1>4, <1>6 DEF Keeps, Total
<1> QED BY <1>2, <1>4, <1>7 DEF e

LEMMA FlushedMatched ==
    ASSUME NEW c, Sound(c)
    PROVE  Keeps(c, mm_channel_superbuf_flush_matched(c), {})
BY Ahead, Taken DEF mm_channel_superbuf_flush_matched

LEMMA Flushed ==
    ASSUME NEW c, Sound(c)
    PROVE  Keeps(c, mm_channel_superbuf_flush(c), {})
<1> DEFINE gone == DOMAIN c.queue
           k == Cardinality(MatchedAt(c.queue))
           d == Discard(c, gone)
           e == [d EXCEPT !.match_cnt = @ - k]
<1>1. Len(c.queue) \in Nat /\ gone = 1..Len(c.queue)
  BY DEF Sound
<1>2. k \in Nat
  <2>1. IsFiniteSet(1..Len(c.queue)) /\ MatchedAt(c.queue) \subseteq 1..Len(c.queue)
    BY <1>1, FS_Interval DEF MatchedAt
  <2> QED BY <2>1, FS_Subset, FS_CardinalityType
<1>3. gone = {} \/ \E a \in 1..Len(c.queue) : \E b \in a..Len(c.queue) : gone = a..b
  <2>1. CASE Len(c.queue) = 0
    BY <1>1, <2>1
  <2>2. CASE Len(c.queue) # 0
    <3>1. 1 \in 1..Len(c.queue) /\ Len(c.queue) \in 1..Len(c.queue)
      BY <1>1, <2>2
    <3> QED BY <1>1, <3>1
  <2> QED BY <2>1, <2>2
<1> HIDE DEF gone, k
<1>4. /\ Keeps(c, d, {}) /\ DOMAIN d = DOMAIN c /\ d.match_cnt = c.match_cnt
  BY <1>3, Discarded
<1> HIDE DEF d
<1>5. /\ DOMAIN e = DOMAIN d /\ e.queue = d.queue /\ e.returned = d.returned
      /\ e.sent = d.sent /\ e.match_cnt = d.match_cnt - k
      /\ e.pending_cnt = d.pending_cnt /\ e.pending_retro_cnt = d.pending_retro_cnt
  BY <1>4 DEF Keeps, Sound
<1>6. e = mm_channel_superbuf_flush(c)
  BY DEF mm_channel_superbuf_flush, d, k, gone
<1> HIDE DEF e
<1>7. d.match_cnt - k \in Int
  BY <1>2, <1>4 DEF Keeps, Sound
<1>8. Sound(e)
  BY <1>4, <1>5, <1>7 DEF Keeps, Sound
<1>9. Keeps(c, e, {})
  BY <1>4, <1>5, <1>8 DEF Keeps, Total
<1> QED BY <1>6, <1>9

LEMMA Trimmed ==
    ASSUME NEW c, Sound(c), NEW mark \in Nat
    PROVE  Keeps(c, Trim(c, mark), {})
<1> DEFINE excess == c.match_cnt - mark
           d == [c EXCEPT !.faults = @ \cup {"spin"}]
<1>1. excess \in Int /\ MatchedAhead(c) \in 0..Len(c.queue) /\ Len(c.queue) \in Nat
  BY Ahead DEF Sound
<1>2. CASE Trim(c, mark) = c
  BY <1>2, Aside DEF Same
<1>3. CASE Trim(c, mark) = d
  <2>1. Same(c, d)
    BY DEF Same, Sound
  <2> QED BY <1>3, <2>1, Aside
<1>4. CASE Trim(c, mark) = TakeMatched(c, excess) /\ excess > 0 /\ excess <= MatchedAhead(c)
  <2>1. excess \in 0..Len(c.queue)
    BY <1>1, <1>4
  <2> HIDE DEF excess
  <2> QED BY <1>4, <2>1, Taken
<1> QED BY <1>1, <1>2, <1>3, <1>4 DEF Trim
--------------------------------------------------------------------------------
(* What metadata changes.                                                  *)

LEMMA Noted ==
    ASSUME NEW c, Sound(c), NEW f, NEW m
    PROVE  Keeps(c, NoteDivert(c, f, m), {})
<1> DEFINE d == NoteDivert(c, f, m)
<1>1. Same(c, d)
  BY DEF Sound, Same, NoteDivert
<1> QED BY <1>1, Aside

LEMMA Zoomed ==
    ASSUME NEW c, Sound(c), NEW f, NEW m
    PROVE  Keeps(c, Zoom1x(c, f, m), {})
<1> DEFINE near == [c EXCEPT !.isZoom1xFrameRequested = FALSE, !.expected_frame_id = f + 1]
           far == [c EXCEPT !.expected_frame_id = @ + FutureFrameWait]
<1>1. Same(c, near) /\ Same(c, far)
  BY DEF Sound, Same
<1> HIDE DEF near, far
<1>2. Keeps(c, near, {}) /\ Keeps(c, far, {})
  BY <1>1, Aside
<1>3. Keeps(far, mm_channel_superbuf_flush_matched(far), {})
  BY <1>2, FlushedMatched DEF Keeps
<1>4. Keeps(c, mm_channel_superbuf_flush_matched(far), {})
  BY <1>2, <1>3, Then
<1> QED BY <1>2, <1>4 DEF Zoom1x, near, far

LEMMA Prepared ==
    ASSUME NEW c, Sound(c), NEW m
    PROVE  Keeps(c, PrepSnapshotDone(c, m), {})
<1> DEFINE wait == [c EXCEPT !.bWaitForPrepSnapshotDone = FALSE, !.needLEDFlash = TRUE,
                             !.expected_frame_id = @ + FutureFrameWait]
           done == [c EXCEPT !.bWaitForPrepSnapshotDone = FALSE, !.needLEDFlash = FALSE]
<1>1. Same(c, c) /\ Same(c, wait) /\ Same(c, done)
  BY DEF Sound, Same
<1> HIDE DEF wait, done
<1>2. Keeps(c, c, {}) /\ Keeps(c, wait, {}) /\ Keeps(c, done, {})
  BY <1>1, Aside
<1>3. Keeps(wait, mm_channel_superbuf_flush(wait), {})
  BY <1>2, Flushed DEF Keeps
<1>4. Keeps(c, mm_channel_superbuf_flush(wait), {})
  BY <1>2, <1>3, Then
<1> QED BY <1>2, <1>4 DEF PrepSnapshotDone, wait, done

LEMMA Ranged ==
    ASSUME NEW c, Sound(c), NEW f, NEW m
    PROVE  Keeps(c, GoodFrameRange(c, f, m), {})
<1> DEFINE d == GoodFrameRange(c, f, m)
<1>1. Same(c, d)
  BY DEF Sound, Same, GoodFrameRange
<1> QED BY <1>1, Aside

LEMMA WaitedGood ==
    ASSUME NEW c, Sound(c), NEW m
    PROVE  Keeps(c, WaitGoodFrame(c, m), {})
<1> DEFINE d == mm_channel_superbuf_flush_matched(c)
           e == [d EXCEPT !.expected_frame_id = @ + FutureFrameWait]
<1>1. Keeps(c, d, {})
  BY FlushedMatched
<1> HIDE DEF d
<1>2. Same(d, e) /\ Same(c, c)
  BY <1>1 DEF Keeps, Sound, Same
<1>3. Keeps(d, e, {}) /\ Keeps(c, c, {})
  BY <1>1, <1>2, Aside DEF Keeps
<1>4. Keeps(c, e, {})
  BY <1>1, <1>3, Then
<1> QED BY <1>3, <1>4 DEF WaitGoodFrame, d

LEMMA Burst ==
    ASSUME NEW c, Sound(c), NEW f
    PROVE  Keeps(c, LedBurst(c, f), {})
<1> DEFINE d == LedBurst(c, f)
<1>1. Same(c, d)
  BY DEF Sound, Same, LedBurst
<1> QED BY <1>1, Aside

LEMMA Informed ==
    ASSUME NEW c, Sound(c), NEW f, NEW m
    PROVE  Keeps(c, mm_channel_handle_metadata(c, f, m), {})
<1> DEFINE noted == NoteDivert(c, f, m)
           prepared == PrepSnapshotDone(noted, m)
           ranged == GoodFrameRange(prepared, f, m)
           waited == WaitGoodFrame(prepared, m)
<1>1. Keeps(c, noted, {})
  BY Noted
<1>2. Keeps(noted, Zoom1x(noted, f, m), {}) /\ Keeps(noted, prepared, {})
  BY <1>1, Zoomed, Prepared DEF Keeps
<1> HIDE DEF noted
<1>3. Keeps(c, Zoom1x(noted, f, m), {}) /\ Keeps(c, prepared, {})
  BY <1>1, <1>2, Then
<1>4. Keeps(prepared, ranged, {}) /\ Keeps(prepared, waited, {})
  BY <1>3, Ranged, WaitedGood DEF Keeps
<1> HIDE DEF prepared
<1>5. Keeps(c, ranged, {}) /\ Keeps(c, waited, {})
  BY <1>3, <1>4, Then
<1> HIDE DEF ranged, waited
<1>6. Keeps(ranged, LedBurst(ranged, f), {}) /\ Keeps(waited, LedBurst(waited, f), {})
  BY <1>5, Burst DEF Keeps
<1>7. Keeps(c, LedBurst(ranged, f), {}) /\ Keeps(c, LedBurst(waited, f), {})
  BY <1>5, <1>6, Then
<1> QED
  BY <1>3, <1>7 DEF mm_channel_handle_metadata, noted, prepared, ranged, waited
--------------------------------------------------------------------------------
(* A frame's way into the queue.                                           *)

LEMMA FrameOf ==
    \A n, p : p \in FramesOf(n) <=>
        \E s \in Streams : n.frames[s] # NONE /\ p = <<s, n.frames[s]>>
BY DEF FramesOf

LEMMA Bundle ==
    ASSUME setup \in Setups
    PROVE  Metadata \in Streams /\ max_unmatched_frames \in Nat /\ LowPriority \in BOOLEAN
           /\ water_mark \in Nat /\ look_back \in Nat /\ Requests \subseteq Nat \X Nat
BY SuperBufAssumption
   DEF Metadata, Streams, max_unmatched_frames, LowPriority, water_mark, look_back, Requests

\* The nodes that Fill makes of one the frame fits into.
LEMMA Filled ==
    ASSUME setup \in Setups, NEW node \in Nodes, ~node.matched,
           NEW s \in Streams, NEW f \in Nat \ {NONE}, Fits(node, s, f)
    PROVE  LET reset == IF node.unmatched_meta_idx > 0
                        THEN [node EXCEPT !.unmatched_meta_idx = 0, !.frame_idx = f] ELSE node
               filled == [reset EXCEPT !.frames[s] = f]
           IN /\ reset \in Nodes /\ FramesOf(reset) = FramesOf(node)
              /\ node.frames[s] = NONE =>
                    /\ filled \in Nodes /\ ~filled.matched
                    /\ FramesOf(filled) = FramesOf(node) \cup {<<s, f>>}
<1> DEFINE reset == IF node.unmatched_meta_idx > 0
                    THEN [node EXCEPT !.unmatched_meta_idx = 0, !.frame_idx = f] ELSE node
           filled == [reset EXCEPT !.frames[s] = f]
           R == [frame_idx : Int, frames : [Streams -> Nat], matched : BOOLEAN,
                 expected_frame : BOOLEAN, unmatched_meta_idx : Nat]
<1>1. node \in R /\ Joined(node) /\ LowPriority \in BOOLEAN
  BY Bundle DEF Nodes
<1>2. /\ reset \in R /\ reset.frames = node.frames /\ reset.matched = node.matched
      /\ node.unmatched_meta_idx > 0 => reset.frame_idx = f /\ reset.unmatched_meta_idx = 0
      /\ ~(node.unmatched_meta_idx > 0) => reset = node
  <2> DEFINE e == [node EXCEPT !.unmatched_meta_idx = 0, !.frame_idx = f]
  <2>1. /\ e \in R /\ e.frames = node.frames /\ e.matched = node.matched
        /\ e.frame_idx = f /\ e.unmatched_meta_idx = 0
    <3> DEFINE d == [node EXCEPT !.unmatched_meta_idx = 0]
    <3>1. /\ d \in R /\ d.frames = node.frames /\ d.matched = node.matched
          /\ d.unmatched_meta_idx = 0
      BY <1>1
    <3>2. e = [d EXCEPT !.frame_idx = f]
      OBVIOUS
    <3>3. f \in Int
      OBVIOUS
    <3> HIDE DEF d, e
    <3> QED BY <3>1, <3>2, <3>3
  <2>2. reset = IF node.unmatched_meta_idx > 0 THEN e ELSE node
    OBVIOUS
  <2> HIDE DEF reset, e
  <2> QED BY <1>1, <2>1, <2>2
<1> HIDE DEF reset
<1>3. reset.unmatched_meta_idx = 0
  BY <1>1, <1>2
<1>4. Joined(reset)
  <2>1. reset.matched => Whole(reset)
    BY <1>2
  <2>2. CASE node.unmatched_meta_idx > 0
    <3>1. ASSUME NEW t \in Streams
          PROVE  (LowPriority /\ t = Metadata) \/ reset.frames[t] \in {NONE, reset.frame_idx}
      BY <1>1, <1>2, <2>2 DEF Joined
    <3> QED BY <1>3, <2>1, <3>1 DEF Joined
  <2>3. CASE ~(node.unmatched_meta_idx > 0)
    BY <1>1, <1>2, <2>3
  <2> QED BY <2>2, <2>3
<1>5. reset \in Nodes /\ FramesOf(reset) = FramesOf(node)
  BY <1>2, <1>4 DEF Nodes, FramesOf
<1>6. ASSUME node.frames[s] = NONE
      PROVE  /\ filled \in Nodes /\ ~filled.matched
             /\ FramesOf(filled) = FramesOf(node) \cup {<<s, f>>}
  <2>1. /\ filled \in R /\ filled.frame_idx = reset.frame_idx
        /\ filled.unmatched_meta_idx = 0 /\ ~filled.matched
        /\ filled.frames = [node.frames EXCEPT ![s] = f]
    BY <1>2, <1>3
  <2> HIDE DEF filled
  <2>2. filled.frames[s] = f /\ \A t \in Streams : t # s => filled.frames[t] = node.frames[t]
    BY <1>1, <2>1
  <2>3. (LowPriority /\ s = Metadata) \/ reset.frame_idx = f
    BY <1>1, <1>2 DEF Fits
  <2>4. ASSUME NEW t \in Streams
        PROVE  (LowPriority /\ t = Metadata) \/ filled.frames[t] \in {NONE, filled.frame_idx}
    <3>1. CASE t = s
      BY <3>1, <2>1, <2>2, <2>3
    <3>2. CASE t # s
      BY <3>2, <1>2, <1>4, <2>1, <2>2 DEF Joined
    <3> QED BY <3>1, <3>2
  <2>5. Joined(filled)
    BY <2>1, <2>4 DEF Joined
  <2>6. FramesOf(filled) = FramesOf(node) \cup {<<s, f>>}
    <3>1. ASSUME NEW p \in FramesOf(filled) PROVE p \in FramesOf(node) \cup {<<s, f>>}
      BY <3>1, <2>2, FrameOf
    <3>2. ASSUME NEW p \in FramesOf(node) PROVE p \in FramesOf(filled)
      BY <3>2, <1>6, <2>2, FrameOf
    <3>3. <<s, f>> \in FramesOf(filled)
      BY <2>2, FrameOf
    <3> QED BY <3>1, <3>2, <3>3
  <2> QED BY <2>1, <2>5, <2>6 DEF Nodes
<1> QED BY <1>5, <1>6 DEF reset

LEMMA Flagged ==
    ASSUME NEW node \in Nodes, NEW e,
           e \in [frame_idx : Int, frames : [Streams -> Nat], matched : BOOLEAN,
                  expected_frame : BOOLEAN, unmatched_meta_idx : Nat],
           e.frames = node.frames, e.frame_idx = node.frame_idx,
           e.unmatched_meta_idx = node.unmatched_meta_idx,
           e.matched => node.matched \/ Whole(node)
    PROVE  e \in Nodes /\ FramesOf(e) = FramesOf(node)
BY DEF Nodes, Joined, Whole, FramesOf

LEMMA Altered ==
    ASSUME NEW c, Sound(c), NEW k \in DOMAIN c.queue, NEW e \in Nodes, NEW x,
           x \cap Total(c) = {}, FramesOf(e) = FramesOf(c.queue[k]) \cup x,
           NEW d, DOMAIN d = DOMAIN c, d.queue = [c.queue EXCEPT ![k] = e],
           d.returned = c.returned, d.sent = c.sent, d.match_cnt \in Int,
           d.pending_cnt = c.pending_cnt, d.pending_retro_cnt = c.pending_retro_cnt
    PROVE  Keeps(c, d, x) /\ Len(d.queue) = Len(c.queue)
<1>1. c.queue \in Seq(Nodes) /\ Apart(c.queue) /\ k \in 1..Len(c.queue)
      /\ x \cap Held(c.queue) = {}
  BY DEF Sound, Total
<1>2. /\ d.queue \in Seq(Nodes) /\ Len(d.queue) = Len(c.queue) /\ Apart(d.queue)
      /\ Held(d.queue) = Held(c.queue) \cup x
  BY <1>1, Changed
<1>3. Sound(d)
  BY <1>2 DEF Sound, Total
<1>4. Total(d) = Total(c) \cup x
  BY <1>2 DEF Total
<1> QED BY <1>2, <1>3, <1>4 DEF Keeps

LEMMA Completed ==
    ASSUME NEW c, Sound(c), NEW f, NEW pos \in DOMAIN c.queue, Whole(c.queue[pos]),
           NEW older, older \subseteq 1..(pos - 1)
    PROVE  Keeps(c, Match(c, f, pos, older), {})
<1> DEFINE without == c.expected_frame_id_without_led
           next == IF c.isFlashBracketingEnabled
                   THEN [c EXCEPT !.expected_frame_id = without,
                                  !.isFlashBracketingEnabled = f < without]
                   ELSE [c EXCEPT !.expected_frame_id = f + post_frame_skip]
           matched == [next EXCEPT !.queue[pos].matched = TRUE,
                                   !.queue[pos].expected_frame = FALSE,
                                   !.match_cnt = @ + 1]
           node == c.queue[pos]
           e == [[node EXCEPT !.matched = TRUE] EXCEPT !.expected_frame = FALSE]
<1>1. c.queue \in Seq(Nodes) /\ pos \in 1..Len(c.queue) /\ Len(c.queue) \in Nat /\ node \in Nodes
  BY DEF Sound
<1>2. Same(c, next)
  BY DEF Same, Sound
<1> HIDE DEF next
<1>3. /\ DOMAIN matched = DOMAIN c /\ matched.returned = c.returned /\ matched.sent = c.sent
      /\ matched.match_cnt = c.match_cnt + 1 /\ matched.pending_cnt = c.pending_cnt
      /\ matched.pending_retro_cnt = c.pending_retro_cnt
  BY <1>2 DEF Same, Sound
<1>4. matched.queue = [c.queue EXCEPT ![pos] = e]
  BY <1>1, <1>2 DEF Same, Sound
<1>5. e \in Nodes /\ FramesOf(e) = FramesOf(node) \cup {}
  <2>1. /\ e \in [frame_idx : Int, frames : [Streams -> Nat], matched : BOOLEAN,
                   expected_frame : BOOLEAN, unmatched_meta_idx : Nat]
        /\ e.frames = node.frames /\ e.frame_idx = node.frame_idx
        /\ e.unmatched_meta_idx = node.unmatched_meta_idx
    BY <1>1 DEF Nodes
  <2> HIDE DEF e
  <2> QED BY <1>1, <2>1, Flagged
<1>6. matched.match_cnt \in Int
  BY <1>3 DEF Sound
<1> HIDE DEF matched, e
<1>7. Keeps(c, matched, {}) /\ Len(matched.queue) = Len(c.queue)
  <2>1. {} \cap Total(c) = {}
    OBVIOUS
  <2> QED BY <1>3, <1>4, <1>5, <1>6, <2>1, Altered
<1>8. ASSUME older # {} PROVE Keeps(c, Discard(matched, Min(older)..(pos - 1)), {})
  <2> DEFINE a == Min(older)
  <2>1. a \in 1..(pos - 1)
    <3>1. older \subseteq Nat
      BY <1>1
    <3> QED BY <3>1, <1>8, Least
  <2>2. a \in 1..Len(matched.queue) /\ pos - 1 \in a..Len(matched.queue)
    <3> HIDE DEF a
    <3> QED BY <2>1, <1>1, <1>7
  <2>3. Keeps(matched, Discard(matched, Min(older)..(pos - 1)), {})
    BY <2>2, <1>7, Discarded DEF Keeps
  <2> QED BY <2>3, <1>7, Then
<1> QED BY <1>7, <1>8 DEF Match, matched, next

LEMMA FillKeeps ==
    ASSUME setup \in Setups, NEW c, Sound(c),
           NEW s \in Streams, NEW f \in Nat \ {NONE}, <<s, f>> \notin Total(c),
           NEW pos \in UnmatchedAt(c.queue), Fits(c.queue[pos], s, f),
           NEW older, older \subseteq 1..(pos - 1)
    PROVE  Keeps(c, Fill(c, s, f, pos, older), {<<s, f>>})
<1> DEFINE node == c.queue[pos]
           reset == IF node.unmatched_meta_idx > 0
                    THEN [node EXCEPT !.unmatched_meta_idx = 0, !.frame_idx = f] ELSE node
           filled == [reset EXCEPT !.frames[s] = f]
           diverted == c.diverted_frame_id = f
           wait == [filled EXCEPT !.expected_frame = @ \/ diverted]
           x == {<<s, f>>}
           turned == [c EXCEPT !.queue[pos] = reset]
           full == [c EXCEPT !.queue[pos] = filled]
           grown == [c EXCEPT !.queue[pos] = wait,
                              !.diverted_frame_id = IF diverted THEN 0 ELSE @]
<1>1. c.queue \in Seq(Nodes) /\ pos \in DOMAIN c.queue /\ node \in Nodes /\ ~node.matched
  BY DEF Sound, UnmatchedAt, MatchedAt
<1>2. reset \in Nodes /\ FramesOf(reset) = FramesOf(node)
  <2> HIDE DEF node
  <2> QED BY <1>1, Filled, ZenonT(60) DEF node
<1>3. node.frames[s] = NONE =>
        filled \in Nodes /\ ~filled.matched /\ FramesOf(filled) = FramesOf(node) \cup x
  <2> HIDE DEF node
  <2> QED BY <1>1, Filled, ZenonT(60) DEF node
<1>4. x \cap Total(c) = {}
  OBVIOUS
<1> HIDE DEF x, reset, filled, node
<1>5. CASE node.frames[s] # NONE
  <2>1. /\ DOMAIN turned = DOMAIN c /\ turned.queue = [c.queue EXCEPT ![pos] = reset]
        /\ turned.returned = c.returned /\ turned.sent = c.sent /\ turned.match_cnt = c.match_cnt
        /\ turned.pending_cnt = c.pending_cnt /\ turned.pending_retro_cnt = c.pending_retro_cnt
    BY DEF Sound
  <2>2. Fill(c, s, f, pos, older) = Return(turned, x)
    BY <1>5 DEF Fill, reset, node, x
  <2> HIDE DEF turned
  <2>3. Keeps(c, turned, {})
    <3>1. {} \cap Total(c) = {} /\ FramesOf(reset) = FramesOf(c.queue[pos]) \cup {}
          /\ turned.match_cnt \in Int
      BY <1>2, <2>1 DEF node, Sound
    <3> QED BY <1>1, <1>2, <2>1, <3>1, Altered
  <2>4. Keeps(turned, Return(turned, x), x)
    BY <1>4, <2>3, Returned DEF Keeps, Total
  <2> QED BY <2>2, <2>3, <2>4, Then DEF x
<1>6. CASE node.frames[s] = NONE /\ Whole(filled)
  <2>1. /\ DOMAIN full = DOMAIN c /\ full.queue = [c.queue EXCEPT ![pos] = filled]
        /\ full.returned = c.returned /\ full.sent = c.sent /\ full.match_cnt = c.match_cnt
        /\ full.pending_cnt = c.pending_cnt /\ full.pending_retro_cnt = c.pending_retro_cnt
    BY DEF Sound
  <2>2. Fill(c, s, f, pos, older) = Match(full, f, pos, older)
    BY <1>6 DEF Fill, reset, filled, node
  <2> HIDE DEF full
  <2>3. Keeps(c, full, x)
    <3>1. FramesOf(filled) = FramesOf(c.queue[pos]) \cup x /\ full.match_cnt \in Int
      BY <1>3, <1>6, <2>1 DEF node, Sound
    <3> QED BY <1>1, <1>3, <1>4, <1>6, <2>1, <3>1, Altered
  <2>4. pos \in DOMAIN full.queue /\ full.queue[pos] = filled
    BY <1>1, <2>1
  <2>5. Keeps(full, Match(full, f, pos, older), {})
    BY <1>6, <2>3, <2>4, Completed DEF Keeps
  <2> QED BY <2>2, <2>3, <2>5, Then DEF x
<1>7. CASE node.frames[s] = NONE /\ ~Whole(filled)
  <2>1. /\ DOMAIN grown = DOMAIN c /\ grown.queue = [c.queue EXCEPT ![pos] = wait]
        /\ grown.returned = c.returned /\ grown.sent = c.sent /\ grown.match_cnt = c.match_cnt
        /\ grown.pending_cnt = c.pending_cnt /\ grown.pending_retro_cnt = c.pending_retro_cnt
    BY DEF Sound
  <2>2. Fill(c, s, f, pos, older) = grown
    BY <1>7 DEF Fill, reset, filled, node
  <2> HIDE DEF grown
  <2>3. wait \in Nodes /\ FramesOf(wait) = FramesOf(filled)
    <3>1. /\ wait \in [frame_idx : Int, frames : [Streams -> Nat], matched : BOOLEAN,
                        expected_frame : BOOLEAN, unmatched_meta_idx : Nat]
          /\ wait.frames = filled.frames /\ wait.frame_idx = filled.frame_idx
          /\ wait.unmatched_meta_idx = filled.unmatched_meta_idx
          /\ wait.matched = filled.matched
      BY <1>3, <1>7 DEF Nodes
    <3> HIDE DEF wait
    <3> QED BY <1>3, <1>7, <3>1, Flagged
  <2> HIDE DEF wait
  <2>4. FramesOf(wait) = FramesOf(c.queue[pos]) \cup x /\ grown.match_cnt \in Int
    BY <1>3, <1>7, <2>1, <2>3 DEF node, Sound
  <2>5. Keeps(c, grown, x)
    BY <1>1, <1>4, <2>1, <2>3, <2>4, Altered
  <2> QED BY <2>2, <2>5 DEF x
<1> QED BY <1>5, <1>6, <1>7

LEMMA RoomMade ==
    ASSUME NEW c, Sound(c), NEW older, older # {}, older \subseteq DOMAIN c.queue, NEW newer
    PROVE  Keeps(c, MakeRoom(c, older, newer), {})
<1> DEFINE excess == Cardinality(UnmatchedAt(c.queue)) - max_unmatched_frames
           free == {i \in Min(older)..Len(c.queue) :
                       ~c.queue[i].expected_frame /\ (newer # {} => i # Min(newer))}
           k == Min(IF free # {} THEN free ELSE older)
           d == Discard(c, {k})
           e == [d EXCEPT !.faults = @ \cup IF free # {} /\ excess > 1 THEN {"freed"} ELSE {}]
<1>1. DOMAIN c.queue = 1..Len(c.queue) /\ Len(c.queue) \in Nat
  BY DEF Sound
<1>2. k \in 1..Len(c.queue)
  <2>1. older \subseteq Nat
    BY <1>1
  <2>2. Min(older) \in 1..Len(c.queue)
    BY <1>1, <2>1, Least
  <2>3. free \subseteq 1..Len(c.queue)
    BY <1>1, <2>2
  <2> DEFINE S == IF free # {} THEN free ELSE older
  <2> HIDE DEF free
  <2>4. S # {} /\ S \subseteq 1..Len(c.queue)
    BY <1>1, <2>3
  <2> HIDE DEF S
  <2>5. S \subseteq Nat
    BY <1>1, <2>4
  <2>6. Min(S) \in S
    BY <2>4, <2>5, Least
  <2> QED BY <2>4, <2>6 DEF S
<1>3. MakeRoom(c, older, newer) = IF excess <= 0 THEN c ELSE e
  BY DEF MakeRoom
<1> HIDE DEF k, free, excess
<1>4. Keeps(c, d, {})
  <2>1. {k} = k..k /\ k \in k..Len(c.queue)
    BY <1>1, <1>2
  <2> HIDE DEF d
  <2>2. d = Discard(c, k..k)
    BY <2>1 DEF d
  <2>3. \E a \in 1..Len(c.queue) : \E b \in a..Len(c.queue) : k..k = a..b
    BY <1>2, <2>1
  <2> QED BY <2>2, <2>3, Discarded
<1> HIDE DEF d
<1>5. Same(d, e) /\ Same(c, c)
  BY <1>4 DEF Same, Keeps, Sound
<1> HIDE DEF e
<1>6. Keeps(d, e, {}) /\ Keeps(c, c, {})
  BY <1>4, <1>5, Aside DEF Keeps
<1>7. Keeps(c, e, {})
  BY <1>4, <1>6, Then
<1> QED BY <1>3, <1>6, <1>7

LEMMA Newcomer ==
    ASSUME setup \in Setups, NEW c, NEW s \in Streams, NEW f \in Nat \ {NONE}
    PROVE  LET node == NewNode(c, s, f)
           IN node \in Nodes /\ FramesOf(node) = {<<s, f>>}
<1> DEFINE node == NewNode(c, s, f)
<1>1. LowPriority \in BOOLEAN /\ node.frame_idx = f /\ (node.matched <=> Streams = {s})
      /\ node.unmatched_meta_idx \in {0, f}
      /\ (node.unmatched_meta_idx = f <=> LowPriority /\ s = Metadata)
      /\ node.frames[s] = f /\ \A t \in Streams : t # s => node.frames[t] = NONE
  <2>1. LowPriority \in BOOLEAN /\ node.frame_idx = f
        /\ node.frames[s] = f /\ \A t \in Streams : t # s => node.frames[t] = NONE
    BY Bundle DEF NewNode
  <2>2. node.matched <=> Streams = {s}
    BY DEF NewNode
  <2>3. node.unmatched_meta_idx = IF LowPriority /\ s = Metadata THEN f ELSE 0
    BY DEF NewNode
  <2> QED BY <2>1, <2>2, <2>3 DEF NONE
<1>2. node \in [frame_idx : Int, frames : [Streams -> Nat], matched : BOOLEAN,
                expected_frame : BOOLEAN, unmatched_meta_idx : Nat]
  BY DEF NewNode, NONE
<1> HIDE DEF node
<1>3. Joined(node)
  <2>1. ASSUME node.matched PROVE Whole(node)
    BY <1>1, <2>1 DEF Whole
  <2>2. \A t \in Streams : node.frames[t] \in {NONE, node.frame_idx}
    BY <1>1
  <2>3. ASSUME node.unmatched_meta_idx > 0
        PROVE  LowPriority /\ \A t \in Streams \ {Metadata} : node.frames[t] = NONE
    BY <1>1, <2>3
  <2> QED BY <2>1, <2>2, <2>3 DEF Joined
<1>4. \A p : p \in FramesOf(node) <=> p = <<s, f>>
  BY <1>1, FrameOf
<1> QED BY <1>1, <1>2, <1>3, <1>4 DEF Nodes, node

LEMMA Inserted ==
    ASSUME setup \in Setups, NEW c, Sound(c),
           NEW s \in Streams, NEW f \in Nat \ {NONE}, <<s, f>> \notin Total(c)
    PROVE  Keeps(c, InsertNew(c, s, f), {<<s, f>>})
<1> DEFINE newer == {i \in UnmatchedAt(c.queue) : c.queue[i].frame_idx > f}
           k == IF newer # {} THEN Min(newer) ELSE Len(c.queue) + 1
           node == NewNode(c, s, f)
           inserted == [c EXCEPT
               !.queue = InsertAt(@, IF newer # {} THEN Min(newer) ELSE Len(@) + 1, node),
               !.diverted_frame_id = IF f \in {@, c.good_frame_id} THEN 0 ELSE @]
           single == [inserted EXCEPT !.match_cnt = @ + 1,
                                      !.expected_frame_id = f + post_frame_skip]
<1>1. DOMAIN c.queue = 1..Len(c.queue) /\ Len(c.queue) \in Nat
      /\ c.queue \in Seq(Nodes) /\ Apart(c.queue)
  BY DEF Sound
<1>2. k \in 1..Len(c.queue) + 1
  <2>1. newer \subseteq 1..Len(c.queue)
    BY <1>1 DEF UnmatchedAt
  <2>2. newer \subseteq Nat
    BY <1>1, <2>1
  <2> HIDE DEF newer
  <2>3. newer # {} => Min(newer) \in newer
    BY <2>2, Least
  <2>4. newer # {} => Min(newer) \in 1..Len(c.queue)
    BY <2>1, <2>3
  <2> QED BY <2>4, <1>1
<1>3. node \in Nodes /\ FramesOf(node) = {<<s, f>>}
  BY Newcomer
<1>4. /\ DOMAIN inserted = DOMAIN c /\ inserted.queue = InsertAt(c.queue, k, node)
      /\ inserted.returned = c.returned /\ inserted.sent = c.sent
      /\ inserted.match_cnt = c.match_cnt /\ inserted.pending_cnt = c.pending_cnt
      /\ inserted.pending_retro_cnt = c.pending_retro_cnt
  <2> HIDE DEF newer, node
  <2> QED BY DEF Sound
<1>5. InsertNew(c, s, f) = IF Streams # {s} THEN inserted ELSE single
  BY DEF InsertNew
<1> HIDE DEF newer, k, node, inserted
<1>6. Keeps(c, inserted, {<<s, f>>})
  <2>1. FramesOf(node) \cap Held(c.queue) = {}
    BY <1>3 DEF Total
  <2>2. /\ inserted.queue \in Seq(Nodes) /\ Apart(inserted.queue)
        /\ Held(inserted.queue) = Held(c.queue) \cup {<<s, f>>}
    BY <1>1, <1>2, <1>3, <1>4, <2>1, Put
  <2>3. Sound(inserted)
    BY <1>4, <2>2 DEF Sound, Total
  <2> QED BY <1>4, <2>2, <2>3 DEF Keeps, Total
<1>7. Keeps(c, single, {<<s, f>>})
  <2>1. /\ DOMAIN single = DOMAIN inserted /\ single.queue = inserted.queue
        /\ single.returned = inserted.returned /\ single.sent = inserted.sent
        /\ single.match_cnt = inserted.match_cnt + 1
        /\ single.pending_cnt = inserted.pending_cnt
        /\ single.pending_retro_cnt = inserted.pending_retro_cnt
    BY <1>6 DEF Keeps, Sound
  <2> HIDE DEF single
  <2>2. inserted.match_cnt + 1 \in Int
    BY <1>6 DEF Keeps, Sound
  <2>3. Sound(single)
    BY <1>6, <2>1, <2>2 DEF Keeps, Sound
  <2> QED BY <1>6, <2>1, <2>3 DEF Keeps, Total
<1> QED BY <1>5, <1>6, <1>7

LEMMA Placed ==
    ASSUME setup \in Setups, NEW c, Sound(c),
           NEW s \in Streams, NEW f \in Nat \ {NONE}, <<s, f>> \notin Total(c)
    PROVE  Keeps(c, Place(c, s, f), {<<s, f>>})
<1> DEFINE fits == {i \in UnmatchedAt(c.queue) : Fits(c.queue[i], s, f)}
           pos == Min(fits)
           seen == {i \in UnmatchedAt(c.queue) : fits # {} => i < pos}
           older == {i \in seen : c.queue[i].frame_idx < f}
           newer == {i \in seen : c.queue[i].frame_idx > f}
           room == MakeRoom(c, older, newer)
           x == {<<s, f>>}
<1>1. DOMAIN c.queue = 1..Len(c.queue) /\ Len(c.queue) \in Nat
      /\ UnmatchedAt(c.queue) \subseteq 1..Len(c.queue)
  BY DEF Sound, UnmatchedAt
<1>2. fits # {} => pos \in fits
  <2>1. fits \subseteq Nat
    BY <1>1
  <2> HIDE DEF fits
  <2> QED BY <2>1, Least
<1>3. older \subseteq DOMAIN c.queue
  BY <1>1
<1>4. ASSUME fits # {} PROVE Keeps(c, Fill(c, s, f, pos, older), x)
  <2>1. pos \in UnmatchedAt(c.queue) /\ Fits(c.queue[pos], s, f)
    BY <1>2, <1>4
  <2>2. older \subseteq 1..(pos - 1)
    <3> HIDE DEF fits, pos
    <3>1. pos \in Nat
      BY <1>1, <2>1
    <3> QED BY <1>1, <1>4, <3>1
  <2> HIDE DEF pos, older
  <2> QED BY <2>1, <2>2, FillKeeps
<1>5. Keeps(c, Return(c, x), x)
  <2>1. x \cap Held(c.queue) = {}
    BY DEF Total
  <2> HIDE DEF x
  <2> QED BY <2>1, Returned
<1>6. Keeps(c, InsertNew(c, s, f), x)
  BY Inserted
<1>7. ASSUME older # {} PROVE Keeps(c, InsertNew(room, s, f), x)
  <2> HIDE DEF older, newer
  <2>1. Keeps(c, room, {})
    BY <1>3, <1>7, RoomMade
  <2> HIDE DEF room
  <2>2. Keeps(room, InsertNew(room, s, f), x)
    BY <2>1, Inserted DEF Keeps
  <2> HIDE DEF x
  <2>3. Keeps(c, InsertNew(room, s, f), {} \cup x)
    BY <2>1, <2>2, Then
  <2> QED BY <2>3
<1>8. Place(c, s, f) = IF fits # {} THEN Fill(c, s, f, pos, older)
                       ELSE IF older = {}
                       THEN IF Cardinality(seen) > max_unmatched_frames THEN Return(c, x)
                            ELSE InsertNew(c, s, f)
                       ELSE InsertNew(room, s, f)
  BY DEF Place
<1> HIDE DEF fits, pos, seen, older, newer, room, x
<1> QED BY <1>4, <1>5, <1>6, <1>7, <1>8 DEF x

LEMMA Enqueued ==
    ASSUME setup \in Setups, NEW c, Sound(c), NEW m,
           NEW s \in Streams, NEW f \in Nat \ {NONE}, <<s, f>> \notin Total(c)
    PROVE  Keeps(c, mm_channel_superbuf_comp_and_enqueue(c, s, f, m), {<<s, f>>})
<1> DEFINE informed == IF s = Metadata THEN mm_channel_handle_metadata(c, f, m) ELSE c
           x == {<<s, f>>}
<1>1. Keeps(c, informed, {})
  <2>1. Same(c, c)
    BY DEF Same
  <2> QED BY <2>1, Aside, Informed
<1> HIDE DEF informed
<1>2. Sound(informed) /\ <<s, f>> \notin Total(informed)
  BY <1>1 DEF Keeps
<1>3. Keeps(informed, Place(informed, s, f), x)
  BY <1>2, Placed
<1>4. Keeps(informed, Return(informed, x), x)
  <2>1. x \cap Held(informed.queue) = {}
    BY <1>2 DEF Total
  <2> HIDE DEF x
  <2> QED BY <1>2, <2>1, Returned
<1>5. \A d : Keeps(informed, d, x) => Keeps(c, d, x)
  BY <1>1 DEF Keeps
<1>6. mm_channel_superbuf_comp_and_enqueue(c, s, f, m) \in
        {Place(informed, s, f), Return(informed, x)}
  BY DEF mm_channel_superbuf_comp_and_enqueue, informed
<1> QED BY <1>3, <1>4, <1>5, <1>6
--------------------------------------------------------------------------------
(* The end of a command.                                                   *)

LEMMA Started ==
    ASSUME NEW c, Sound(c)
    PROVE  Keeps(c, StartOrStopZsl(c), {})
<1> DEFINE d == StartOrStopZsl(c)
<1>1. Same(c, d)
  BY DEF Sound, Same, StartOrStopZsl, StopZsl
<1> QED BY <1>1, Aside

\* The dispatch sends complete superbufs, and as many as were asked for.
LEMMA Sendable ==
    ASSUME NEW c, Sound(c)
    PROVE  /\ ToSend(c) \in 0..Len(c.queue) /\ 1..ToSend(c) \subseteq MatchedAt(c.queue)
           /\ ~c.continuous => /\ ToSend(c) <= c.pending_cnt
                               /\ c.pending_retro_cnt > 0 => ToSend(c) <= c.pending_retro_cnt
<1> DEFINE m == MatchedAhead(c)
           S == {m} \cup (IF c.continuous THEN {} ELSE {c.pending_cnt})
                    \cup (IF c.continuous \/ c.pending_retro_cnt = 0 THEN {}
                          ELSE {c.pending_retro_cnt})
           n == ToSend(c)
<1>1. /\ m \in 0..Len(c.queue) /\ 1..m \subseteq MatchedAt(c.queue) /\ Len(c.queue) \in Nat
      /\ c.pending_cnt \in Nat /\ c.pending_retro_cnt \in Nat
  BY Ahead DEF Sound
<1> HIDE DEF m
<1>2. /\ S \subseteq Nat /\ S # {} /\ m \in S
      /\ ~c.continuous => /\ c.pending_cnt \in S
                          /\ c.pending_retro_cnt > 0 => c.pending_retro_cnt \in S
  BY <1>1
<1>3. n = IF c.bWaitForPrepSnapshotDone THEN 0 ELSE Min(S)
  BY DEF ToSend, m
<1> HIDE DEF S, n
<1>4. Min(S) \in S /\ \A y \in S : Min(S) <= y
  <2>1. S \subseteq Nat /\ S # {}
    BY <1>2
  <2> QED BY <2>1, Least
<1>5. n \in Nat /\ \A y \in S : n <= y
  <2>1. Min(S) \in Nat
    BY <1>2, <1>4
  <2> QED BY <1>2, <1>3, <1>4, <2>1
<1>6. n \in 0..Len(c.queue) /\ 1..n \subseteq 1..m
  <2>1. n <= m
    BY <1>2, <1>5
  <2> HIDE DEF m
  <2> QED BY <1>1, <1>5, <2>1
<1>7. ~c.continuous => /\ n <= c.pending_cnt
                       /\ c.pending_retro_cnt > 0 => n <= c.pending_retro_cnt
  BY <1>1, <1>2, <1>5
<1> QED BY <1>1, <1>6, <1>7 DEF n

LEMMA Dispatched ==
    ASSUME NEW c, Sound(c), c.sent = <<>>
    PROVE  LET d == Dispatch(c)
           IN /\ Sound(d) /\ d.returned = c.returned
              /\ Held(c.queue) = Held(d.queue) \cup Held(d.sent)
              /\ Held(d.queue) \cap Held(d.sent) = {}
              /\ d.sent \in Seq(Nodes) /\ \A i \in DOMAIN d.sent : d.sent[i].matched
<1> DEFINE n == ToSend(c)
           q == c.queue
           rest == SubSeq(q, n + 1, Len(q))
           sent == SubSeq(q, 1, n)
           taken == [c EXCEPT !.queue = SubSeq(@, n + 1, Len(@)), !.match_cnt = @ - n,
                              !.sent = SubSeq(c.queue, 1, n)]
           counted == IF c.continuous THEN taken
                      ELSE [taken EXCEPT
                               !.pending_cnt = @ - n,
                               !.pending_retro_cnt = IF @ > 0 THEN @ - n ELSE 0,
                               !.bWaitForPrepSnapshotDone =
                                   c.pending_retro_cnt > 0 /\ n = c.pending_retro_cnt]
           stop == /\ ~c.continuous /\ (counted.pending_cnt = 0 \/ c.stopZslSnapshot)
                   /\ ~c.manualZSLSnapshot /\ c.startZSlSnapshotCalled
           d == IF stop THEN StopZsl(counted) ELSE counted
<1>1. /\ n \in 0..Len(q) /\ 1..n \subseteq MatchedAt(q)
      /\ ~c.continuous => n <= c.pending_cnt /\ (c.pending_retro_cnt > 0 => n <= c.pending_retro_cnt)
  BY Sendable
<1>2. /\ q \in Seq(Nodes) /\ Apart(q) /\ Len(q) \in Nat /\ DOMAIN q = 1..Len(q)
      /\ c.match_cnt \in Int /\ c.pending_cnt \in Nat /\ c.pending_retro_cnt \in Nat
      /\ Held(q) \cap c.returned = {}
  BY DEF Sound
<1>3. Dispatch(c) = IF n = 0 THEN c ELSE d
  BY DEF Dispatch
<1> HIDE DEF n
<1>4. /\ sent \in Seq(Nodes) /\ Len(sent) = n /\ DOMAIN sent = 1..n
      /\ \A i \in 1..n : sent[i] = q[i]
  <2>1. n \in Nat /\ \A i \in 1..n : q[i] \in Nodes
    BY <1>1, <1>2
  <2>2. sent \in Seq(Nodes) /\ Len(sent) = n /\ \A i \in 1..n : sent[i] = q[1 + i - 1]
    BY <2>1, SubSeqProperties
  <2> HIDE DEF sent
  <2> QED BY <2>1, <2>2
<1>5. \A i \in 1..n : sent[i].matched
  BY <1>1, <1>4 DEF MatchedAt
<1>6. Held(sent) = UNION {FramesOf(q[i]) : i \in 1..n}
  <2> DEFINE x == UNION {FramesOf(q[i]) : i \in 1..n}
  <2>1. \A p : p \in x <=> \E i \in 1..n : p \in FramesOf(q[i])
    OBVIOUS
  <2> HIDE DEF x, sent, q
  <2>2. \A p : p \in Held(sent) <=> p \in x
    BY <2>1, <1>4, HeldAt
  <2> QED BY <2>2 DEF x
<1>7. /\ rest \in Seq(Nodes) /\ Apart(rest) /\ Held(q) = Held(rest) \cup Held(sent)
      /\ Held(rest) \cap Held(sent) = {}
  <2>1. SubSeq(q, 1, 1 - 1) \o rest = rest /\ rest \in Seq(Nodes)
    <3>1. SubSeq(q, 1, 1 - 1) = <<>>
      BY SubSeqEmpty
    <3>2. \A i \in (n + 1)..Len(q) : q[i] \in Nodes
      BY <1>1, <1>2
    <3>3. rest \in Seq(Nodes)
      BY <3>2, <1>1, <1>2, SubSeqProperties
    <3> HIDE DEF rest
    <3> QED BY <3>1, <3>3, ConcatEmptySeq
  <2>2. 1 \in 1..Len(q) + 1 /\ n \in (1 - 1)..Len(q)
    BY <1>1, <1>2
  <2>3. LET r == SubSeq(q, 1, 1 - 1) \o SubSeq(q, n + 1, Len(q))
            x == UNION {FramesOf(q[i]) : i \in 1..n}
        IN r \in Seq(Nodes) /\ Apart(r) /\ Held(q) = Held(r) \cup x /\ Held(r) \cap x = {}
    <3> DEFINE one == 1
    <3>1. one \in 1..Len(q) + 1 /\ n \in (one - 1)..Len(q)
      BY <2>2
    <3> HIDE DEF q, one
    <3>2. LET r == SubSeq(q, 1, one - 1) \o SubSeq(q, n + 1, Len(q))
              x == UNION {FramesOf(q[i]) : i \in one..n}
          IN r \in Seq(Nodes) /\ Apart(r) /\ Held(q) = Held(r) \cup x /\ Held(r) \cap x = {}
      BY <1>2, <3>1, Cut, ZenonT(60)
    <3> QED BY <3>2 DEF one
  <2> QED BY <2>1, <2>3, <1>6
<1> HIDE DEF sent, rest
<1>8. /\ DOMAIN taken = DOMAIN c /\ taken.queue = rest /\ taken.sent = sent
      /\ taken.returned = c.returned /\ taken.match_cnt = c.match_cnt - n
      /\ taken.pending_cnt = c.pending_cnt /\ taken.pending_retro_cnt = c.pending_retro_cnt
  BY DEF Sound, rest, sent
<1> HIDE DEF taken
<1>9. /\ DOMAIN counted = DOMAIN c /\ counted.queue = rest /\ counted.sent = sent
      /\ counted.returned = c.returned /\ counted.match_cnt = c.match_cnt - n
      /\ counted.pending_cnt \in Nat /\ counted.pending_retro_cnt \in Nat
  <2> DEFINE e == [taken EXCEPT !.pending_cnt = @ - n,
                                !.pending_retro_cnt = IF @ > 0 THEN @ - n ELSE 0,
                                !.bWaitForPrepSnapshotDone =
                                    c.pending_retro_cnt > 0 /\ n = c.pending_retro_cnt]
  <2>1. CASE c.continuous
    BY <2>1, <1>2, <1>8
  <2>2. CASE ~c.continuous
    <3>1. /\ DOMAIN e = DOMAIN c /\ e.queue = rest /\ e.sent = sent
          /\ e.returned = c.returned /\ e.match_cnt = c.match_cnt - n
          /\ e.pending_cnt = c.pending_cnt - n
          /\ e.pending_retro_cnt =
                IF c.pending_retro_cnt > 0 THEN c.pending_retro_cnt - n ELSE 0
      BY <1>8 DEF Sound
    <3>2. counted = e
      BY <2>2
    <3> HIDE DEF e, counted
    <3>3. c.pending_cnt - n \in Nat /\ (c.pending_retro_cnt > 0 => c.pending_retro_cnt - n \in Nat)
      BY <2>2, <1>1, <1>2
    <3> QED BY <3>1, <3>2, <3>3
  <2> QED BY <2>1, <2>2
<1> HIDE DEF counted
<1>10. /\ DOMAIN d = DOMAIN c /\ d.queue = rest /\ d.sent = sent
       /\ d.returned = c.returned /\ d.match_cnt = c.match_cnt - n
       /\ d.pending_cnt \in Nat /\ d.pending_retro_cnt \in Nat
  <2>1. Same(counted, StopZsl(counted))
    BY <1>9 DEF Same, StopZsl, Sound
  <2> QED BY <2>1, <1>9 DEF Same
<1> HIDE DEF d, stop, q
<1>11. c.match_cnt - n \in Int
  BY <1>1, <1>2
<1>12. Sound(d)
  <2>1. Held(rest) \cap c.returned = {}
    BY <1>2, <1>7
  <2> QED BY <1>7, <1>10, <1>11, <2>1 DEF Sound
<1>13. CASE n = 0
  <2>1. Held(c.sent) = {} /\ c.sent \in Seq(Nodes) /\ DOMAIN c.sent = {}
    <3>1. DOMAIN <<>> = {} /\ <<>> \in Seq(Nodes)
      OBVIOUS
    <3> QED BY <3>1 DEF Held
  <2> QED BY <1>3, <1>13, <2>1
<1>14. CASE n # 0
  BY <1>3, <1>4, <1>5, <1>7, <1>10, <1>12, <1>14 DEF q
<1> QED BY <1>13, <1>14

\* A command that ends in the dispatch.
LEMMA Finished ==
    ASSUME setup \in Setups, NEW c, NEW x, Keeps(Fresh, c, x), Inv
    PROVE  Settled(ch, Finish(c), x)
<1> DEFINE started == StartOrStopZsl(c)
           trimmed == mm_channel_superbuf_bufdone_overflow(started)
           d == Dispatch(trimmed)
<1>1. Keeps(c, started, {})
  BY Started DEF Keeps
<1> HIDE DEF started
<1>2. Keeps(started, trimmed, {})
  BY <1>1, Bundle, Trimmed DEF Keeps, mm_channel_superbuf_bufdone_overflow
<1> HIDE DEF trimmed
<1>3. Keeps(Fresh, trimmed, x)
  BY <1>1, <1>2 DEF Keeps
<1>4. Fresh.sent = <<>> /\ Total(Fresh) = Held(ch.queue)
  BY DEF Fresh, Inv, Sound, Total
<1>5. /\ Sound(d) /\ d.returned = trimmed.returned
      /\ Held(trimmed.queue) = Held(d.queue) \cup Held(d.sent)
      /\ Held(d.queue) \cap Held(d.sent) = {}
      /\ d.sent \in Seq(Nodes) /\ \A i \in DOMAIN d.sent : d.sent[i].matched
  BY <1>3, <1>4, Dispatched DEF Keeps
<1> HIDE DEF d
<1>6. /\ Held(trimmed.queue) \cap trimmed.returned = {}
      /\ Held(trimmed.queue) \cup trimmed.returned = Held(ch.queue) \cup x
  BY <1>3, <1>4 DEF Keeps, Sound, Total
<1>7. d = Finish(c)
  BY DEF Finish, d, trimmed, started
<1>8. Held(d.queue) \cup Held(d.sent) \cup d.returned = Held(ch.queue) \cup x
  BY <1>5, <1>6
<1>9. Held(d.sent) \cap (d.returned \cup Held(d.queue)) = {}
  BY <1>5, <1>6
<1> QED BY <1>5, <1>7, <1>8, <1>9 DEF Settled

LEMMA FreshIsSound ==
    ASSUME Inv
    PROVE  Sound(Fresh) /\ Total(Fresh) = Held(ch.queue) /\ Fresh.sent = <<>>
BY DEF Inv, Sound, Total, Fresh
--------------------------------------------------------------------------------
(* The commands.                                                           *)

LEMMA DataStep ==
    ASSUME Inv, NEW s \in Streams, Data(s)
    PROVE  \E f \in Nat : /\ f > last[s] /\ last' = [last EXCEPT ![s] = f] /\ setup' = setup
                          /\ Settled(ch, ch', {<<s, f>>})
<1> DEFINE top == Min({last[s] + 2, MaxFrame})
           queued(f, m) == mm_channel_superbuf_comp_and_enqueue(Fresh, s, f, m)
<1>1. setup \in Setups /\ last \in [Streams -> Nat]
  BY DEF Inv
<1>2. PICK f, m : /\ f \in (last[s] + 1)..top
                  /\ ch' = Finish(queued(f, m))
                  /\ last' = [last EXCEPT ![s] = f] /\ setup' = setup
  <2> HIDE DEF queued
  <2> QED BY DEF Data, queued
<1>3. top \in Nat
  <2> DEFINE S == {last[s] + 2, MaxFrame}
  <2>1. S \subseteq Nat /\ S # {}
    BY <1>1, SuperBufAssumption DEF MaxFrame
  <2> HIDE DEF S
  <2>2. Min(S) \in S
    BY <2>1, Least
  <2> QED BY <2>1, <2>2 DEF S
<1>4. f \in Nat \ {NONE} /\ f > last[s]
  <2> HIDE DEF top
  <2> QED BY <1>1, <1>2, <1>3 DEF NONE
<1>5. <<s, f>> \notin Total(Fresh)
  <2>1. <<s, f>> \in Held(ch.queue) => f <= last[s]
    BY <1>4 DEF Inv
  <2>2. last[s] \in Nat
    BY <1>1
  <2> QED BY <1>4, <2>1, <2>2, FreshIsSound
<1> HIDE DEF top
<1>6. Keeps(Fresh, queued(f, m), {<<s, f>>})
  BY <1>1, <1>4, <1>5, FreshIsSound, Enqueued
<1> HIDE DEF queued
<1>7. Settled(ch, ch', {<<s, f>>})
  BY <1>1, <1>2, <1>6, Finished
<1> QED BY <1>2, <1>4, <1>7

LEMMA CommandStep ==
    ASSUME Inv,
           RequestSuperBuf \/ FlushQueue \/ AeBracketing \/ FlashBracketing \/ ZoomToOne
           \/ ManualZsl \/ ConfigNotify
    PROVE  setup' = setup /\ last' = last /\ Settled(ch, ch', {})
<1> DEFINE Goal == setup' = setup /\ last' = last /\ Settled(ch, ch', {})
           flushed == mm_channel_superbuf_flush(Fresh)
<1>1. setup \in Setups /\ Sound(Fresh) /\ Total(Fresh) = Held(ch.queue) /\ Fresh.sent = <<>>
  BY FreshIsSound DEF Inv
<1>2. ASSUME NEW c, Keeps(Fresh, c, {}), Command(Finish(c)) PROVE Goal
  BY <1>1, <1>2, Finished DEF Command
<1>3. Keeps(Fresh, flushed, {}) /\ Sound(flushed)
  BY <1>1, Flushed DEF Keeps
<1> HIDE DEF flushed
<1>4. ASSUME NEW c, Same(flushed, c), Command(Finish(c)) PROVE Goal
  <2>1. Keeps(flushed, c, {})
    BY <1>3, <1>4, Aside
  <2>2. Keeps(Fresh, c, {})
    BY <1>3, <2>1 DEF Keeps
  <2> QED BY <1>2, <1>4, <2>2
<1>5. ASSUME NEW c, Same(Fresh, c), Command(Finish(c)) PROVE Goal
  <2>1. Keeps(Fresh, c, {})
    BY <1>1, <1>5, Aside
  <2> QED BY <1>2, <1>5, <2>1
<1>6. CASE RequestSuperBuf
  <2> DEFINE retro(r) == IF r[1] = 0 \/ r[2] > r[1] THEN r[1] ELSE r[2]
             asked(r) == [Fresh EXCEPT !.pending_cnt = r[1], !.pending_retro_cnt = retro(r),
                                       !.bWaitForPrepSnapshotDone = FALSE,
                                       !.needLEDFlash = @ /\ retro(r) = 0,
                                       !.stopZslSnapshot = FALSE]
  <2>1. PICK r \in Requests : Command(Finish(mm_channel_superbuf_skip(asked(r))))
    BY <1>6 DEF RequestSuperBuf
  <2> DEFINE c == asked(r)
  <2>2. r[1] \in Nat /\ retro(r) \in Nat
    BY <1>1, Bundle
  <2>3. /\ DOMAIN c = DOMAIN Fresh /\ c.queue = Fresh.queue /\ c.returned = Fresh.returned
        /\ c.sent = Fresh.sent /\ c.match_cnt = Fresh.match_cnt
        /\ c.pending_cnt = r[1] /\ c.pending_retro_cnt = retro(r)
    <3> HIDE DEF retro
    <3> QED BY <1>1 DEF Sound
  <2> HIDE DEF retro, asked
  <2>4. Keeps(Fresh, c, {})
    <3>1. Sound(c)
      BY <1>1, <2>2, <2>3 DEF Sound
    <3> QED BY <2>3, <3>1 DEF Keeps, Total
  <2>5. Keeps(c, mm_channel_superbuf_skip(c), {})
    BY <1>1, <2>4, Bundle, Trimmed DEF Keeps, mm_channel_superbuf_skip
  <2>6. Keeps(Fresh, mm_channel_superbuf_skip(c), {})
    BY <2>4, <2>5 DEF Keeps
  <2> QED BY <1>2, <2>1, <2>6
<1>7. CASE FlushQueue
  <2> DEFINE c(f) == [Fresh EXCEPT !.expected_frame_id = f]
  <2>1. PICK f : Command(mm_channel_superbuf_flush(c(f)))
    BY <1>7 DEF FlushQueue, FlushUntil
  <2>2. Same(Fresh, c(f))
    BY <1>1 DEF Same, Sound
  <2> HIDE DEF c
  <2>3. Keeps(Fresh, c(f), {})
    BY <1>1, <2>2, Aside
  <2> DEFINE d == mm_channel_superbuf_flush(c(f))
  <2>4. Keeps(c(f), d, {})
    BY <2>3, Flushed DEF Keeps
  <2> HIDE DEF d
  <2>5. Keeps(Fresh, d, {})
    BY <2>3, <2>4 DEF Keeps
  <2>6. d.sent = <<>> /\ Held(d.sent) = {} /\ d.sent \in Seq(Nodes) /\ DOMAIN d.sent = {}
    <3>1. DOMAIN <<>> = {} /\ <<>> \in Seq(Nodes)
      OBVIOUS
    <3> QED BY <1>1, <2>5, <3>1 DEF Keeps, Held
  <2>7. Settled(ch, d, {})
    BY <1>1, <2>5, <2>6 DEF Settled, Keeps, Total
  <2> QED BY <2>1, <2>7 DEF Command, d
<1>8. CASE AeBracketing
  <2> DEFINE c(state) == [flushed EXCEPT !.bracketingState = state]
  <2>1. PICK state : Command(Finish(c(state)))
    BY <1>8 DEF AeBracketing, flushed
  <2>2. Same(flushed, c(state))
    BY <1>3 DEF Same, Sound
  <2> QED BY <1>4, <2>1, <2>2
<1>9. CASE FlashBracketing
  <2> DEFINE c(start) == [flushed EXCEPT !.isFlashBracketingEnabled = start]
  <2>1. PICK start : Command(Finish(c(start)))
    BY <1>9 DEF FlashBracketing, flushed
  <2>2. Same(flushed, c(start))
    BY <1>3 DEF Same, Sound
  <2> QED BY <1>4, <2>1, <2>2
<1>10. CASE ZoomToOne
  <2> DEFINE c(start) == [flushed EXCEPT !.isZoom1xFrameRequested = start]
  <2>1. PICK start : Command(Finish(c(start)))
    BY <1>10 DEF ZoomToOne, flushed
  <2>2. Same(flushed, c(start))
    BY <1>3 DEF Same, Sound
  <2> QED BY <1>4, <2>1, <2>2
<1>11. CASE ManualZsl
  <2> DEFINE c(start) == [Fresh EXCEPT !.manualZSLSnapshot = start]
  <2>1. PICK start : Command(Finish(c(start)))
    BY <1>11 DEF ManualZsl
  <2>2. Same(Fresh, c(start))
    BY <1>1 DEF Same, Sound
  <2> QED BY <1>5, <2>1, <2>2
<1>12. CASE ConfigNotify
  <2> DEFINE c(continuous) == [Fresh EXCEPT !.continuous = continuous]
  <2>1. PICK continuous : Command(Finish(c(continuous)))
    BY <1>12 DEF ConfigNotify
  <2>2. Same(Fresh, c(continuous))
    BY <1>1 DEF Same, Sound
  <2> QED BY <1>5, <2>1, <2>2
<1> QED BY <1>6, <1>7, <1>8, <1>9, <1>10, <1>11, <1>12
--------------------------------------------------------------------------------
(* The invariant and what follows from it.                                 *)

LEMMA InvInit == Init => Inv
<1> SUFFICES ASSUME Init PROVE Inv
  OBVIOUS
<1>1. /\ setup \in Setups /\ last = [s \in Streams |-> 0]
      /\ ch.queue = <<>> /\ ch.returned = {} /\ ch.sent = <<>> /\ ch.match_cnt = 0
      /\ ch.pending_cnt = 0 /\ ch.pending_retro_cnt = 0
      /\ {"queue", "returned", "sent", "match_cnt", "pending_cnt", "pending_retro_cnt"}
              \subseteq DOMAIN ch
  BY DEF Init
<1>2. DOMAIN <<>> = {} /\ <<>> \in Seq(Nodes) /\ Held(<<>>) = {} /\ Apart(<<>>)
  BY DEF Held, Apart
<1>3. Sound(ch)
  BY <1>1, <1>2 DEF Sound
<1> QED BY <1>1, <1>2, <1>3 DEF Inv

\* One step: the setup stays, and the command brings in the frames that it read.
LEMMA Step ==
    ASSUME Inv, Next
    PROVE  /\ setup' = setup /\ last' \in [Streams -> Nat]
           /\ \A s \in Streams : last'[s] >= last[s]
           /\ Settled(ch, ch', {<<s, last'[s]>> : s \in {t \in Streams : last'[t] # last[t]}})
<1> DEFINE new == {<<s, last'[s]>> : s \in {t \in Streams : last'[t] # last[t]}}
<1>1. last \in [Streams -> Nat]
  BY DEF Inv
<1>2. ASSUME NEW s \in Streams, Data(s)
      PROVE  /\ setup' = setup /\ last' \in [Streams -> Nat]
             /\ \A t \in Streams : last'[t] >= last[t]
             /\ Settled(ch, ch', new)
  <2>1. PICK f \in Nat : /\ f > last[s] /\ last' = [last EXCEPT ![s] = f] /\ setup' = setup
                         /\ Settled(ch, ch', {<<s, f>>})
    BY <1>2, DataStep
  <2>2. last'[s] = f /\ \A t \in Streams : t # s => last'[t] = last[t]
    BY <1>1, <2>1
  <2>3. f # last[s]
    BY <1>1, <2>1
  <2>4. new = {<<s, f>>}
    BY <2>2, <2>3
  <2>5. last' \in [Streams -> Nat]
    BY <1>1, <2>1
  <2>6. \A t \in Streams : last'[t] >= last[t]
    BY <1>1, <2>1, <2>2
  <2> QED BY <2>1, <2>4, <2>5, <2>6
<1>3. ASSUME RequestSuperBuf \/ FlushQueue \/ AeBracketing \/ FlashBracketing \/ ZoomToOne
             \/ ManualZsl \/ ConfigNotify
      PROVE  /\ setup' = setup /\ last' \in [Streams -> Nat]
             /\ \A t \in Streams : last'[t] >= last[t]
             /\ Settled(ch, ch', new)
  <2>1. setup' = setup /\ last' = last /\ Settled(ch, ch', {})
    BY <1>3, CommandStep
  <2>2. new = {}
    BY <2>1
  <2> HIDE DEF new
  <2> QED BY <1>1, <2>1, <2>2
<1> HIDE DEF new
<1>4. QED
  BY <1>2, <1>3 DEF Next, new

\* A definition that depends on the setup says the same of a value before and after.
LEMMA SameSetup ==
    ASSUME setup' = setup
    PROVE  /\ Nodes' = Nodes /\ Streams' = Streams
           /\ \A n : FramesOf(n)' = FramesOf(n)
           /\ \A q : Held(q)' = Held(q)
           /\ \A q : Apart(q)' <=> Apart(q)
           /\ \A c : Sound(c)' <=> Sound(c)
<1>1. Streams' = Streams /\ Metadata' = Metadata /\ LowPriority' = LowPriority
  BY DEF Streams, Metadata, LowPriority
<1>2. Nodes' = Nodes
  BY <1>1 DEF Nodes, Joined, Whole
<1>3. \A n : FramesOf(n)' = FramesOf(n)
  BY <1>1 DEF FramesOf
<1>4. \A q : Held(q)' = Held(q)
  BY <1>3 DEF Held
<1>5. \A q : Apart(q)' <=> Apart(q)
  BY <1>3 DEF Apart
<1>6. \A c : Sound(c)' <=> Sound(c)
  BY <1>2, <1>4, <1>5 DEF Sound
<1> QED BY <1>1, <1>2, <1>3, <1>4, <1>5, <1>6

LEMMA InvNext == Inv /\ [Next]_vars => Inv'
<1> SUFFICES ASSUME Inv, [Next]_vars PROVE Inv'
  OBVIOUS
<1>1. CASE Next
  <2> DEFINE new == {<<s, last'[s]>> : s \in {t \in Streams : last'[t] # last[t]}}
  <2>1. /\ setup' = setup /\ last' \in [Streams -> Nat]
        /\ \A s \in Streams : last'[s] >= last[s]
        /\ Settled(ch, ch', new)
    BY <1>1, Step
  <2>2. /\ setup \in Setups /\ last \in [Streams -> Nat]
        /\ \A s \in Streams, f \in Nat : <<s, f>> \in Held(ch.queue) => f <= last[s]
    BY DEF Inv
  <2>3. Streams' = Streams /\ Nodes' = Nodes /\ Held(ch.queue)' = Held(ch'.queue)
    BY <2>1, SameSetup
  <2>4. Sound(ch)'
    BY <2>1, SameSetup DEF Settled
  <2>5. ASSUME NEW s \in Streams, NEW f \in Nat, <<s, f>> \in Held(ch'.queue)
        PROVE  f <= last'[s]
    <3>1. CASE <<s, f>> \in Held(ch.queue)
      <4>1. f <= last[s] /\ last[s] <= last'[s]
        BY <2>1, <2>2, <3>1
      <4> QED BY <4>1, <2>1, <2>2
    <3>2. CASE <<s, f>> \in new
      BY <3>2, <2>1
    <3> QED BY <2>1, <2>5, <3>1, <3>2 DEF Settled
  <2>6. ch'.sent \in Seq(Nodes) /\ \A i \in DOMAIN ch'.sent : ch'.sent[i].matched
    BY <2>1 DEF Settled
  <2> QED BY <2>1, <2>2, <2>3, <2>4, <2>5, <2>6 DEF Inv
<1>2. CASE UNCHANGED vars
  <2>1. setup' = setup /\ ch' = ch /\ last' = last
    BY <1>2 DEF vars
  <2>2. Streams' = Streams /\ Nodes' = Nodes /\ Held(ch.queue)' = Held(ch.queue)
    BY <2>1, SameSetup
  <2>3. Sound(ch)'
    BY <2>1, SameSetup DEF Inv
  <2> QED BY <2>1, <2>2, <2>3 DEF Inv
<1> QED BY <1>1, <1>2

\* What is sent to the HAL has a frame of every stream, all of one index
\* (the metadata of a channel of low priority aside): the superbufs of
\* mm_channel_superbuf_comp_and_enqueue that the dispatch finds matched.
THEOREM SuperBufSentTogether == Spec => []SentTogether
<1>1. Init => Inv
  BY InvInit
<1>2. Inv /\ [Next]_vars => Inv'
  BY InvNext
<1>3. Inv => SentTogether
  <2> SUFFICES ASSUME Inv, NEW i \in DOMAIN ch.sent
               PROVE  /\ Whole(ch.sent[i])
                      /\ \A s \in Streams : (LowPriority /\ s = Metadata)
                                           \/ ch.sent[i].frames[s] = ch.sent[i].frame_idx
    BY DEF SentTogether
  <2>1. ch.sent[i] \in Nodes /\ ch.sent[i].matched
    BY DEF Inv
  <2> QED BY <2>1 DEF Nodes, Joined, Whole
<1> QED BY <1>1, <1>2, <1>3, PTL DEF Spec

\* Every frame is in one place after every command: in the queue, in a superbuf
\* sent, or back in the kernel, and none of them came from nowhere.
THEOREM SuperBufFramesConserved == Spec => FramesConserved
<1>1. Init => Inv
  BY InvInit
<1>2. Inv /\ [Next]_vars => Inv'
  BY InvNext
<1> DEFINE new == {<<s, last'[s]>> : s \in {t \in Streams : last'[t] # last[t]}}
           Conserved ==
               /\ Held(ch'.queue) \cup Held(ch'.sent) \cup ch'.returned = Held(ch.queue) \cup new
               /\ Held(ch'.queue) \cap ch'.returned = {}
               /\ Held(ch'.sent) \cap (ch'.returned \cup Held(ch'.queue)) = {}
<1>3. Inv /\ [Next]_vars => [Conserved]_vars
  <2> SUFFICES ASSUME Inv, Next PROVE Conserved
    OBVIOUS
  <2>1. Settled(ch, ch', new)
    BY Step
  <2> HIDE DEF new
  <2> QED BY <2>1 DEF Settled, Sound
<1> QED BY <1>1, <1>2, <1>3, PTL DEF Spec, FramesConserved
--------------------------------------------------------------------------------
(* The nodes of a queue in order.                                         *)

\* An incomplete node that can be completed no more: a stream has gone past it.
Doomed(n, l) == \E t \in Streams \ {Metadata} : n.frames[t] = NONE /\ n.frame_idx < l[t]

\* Of two incomplete nodes the first one is of an older frame.
Before(n, k, l) == n.frame_idx < k.frame_idx \/ Doomed(k, l)

\* An incomplete node has a frame of its index, and metadata at least as new.
Partial(n) ==
    /\ ~Whole(n)
    /\ \E t \in Streams : n.frames[t] # NONE
    /\ n.frames[Metadata] # NONE => n.frame_idx <= n.frames[Metadata]
    /\ n.unmatched_meta_idx > 0 =>
            n.unmatched_meta_idx = n.frame_idx /\ n.unmatched_meta_idx = n.frames[Metadata]
    /\ LowPriority /\ n.unmatched_meta_idx = 0 =>
            \E t \in Streams \ {Metadata} : n.frames[t] = n.frame_idx

\* A node after the frames l were the last ones read.
Read(n, l) == n.frame_idx \in Nat /\ \A t \in Streams : n.frames[t] <= l[t]

\* The first m nodes are complete, and the others in the order of their frames.
InOrder(q, m, l) ==
    /\ m \in 0..Len(q)
    /\ \A i \in 1..Len(q) :
            Read(q[i], l) /\ (q[i].matched <=> i <= m) /\ (i > m => Partial(q[i]))
    /\ \A i, j \in (m + 1)..Len(q) : i < j => Before(q[i], q[j], l)

Counters == {"expected_frame_id", "expected_frame_id_without_led", "led_off_start_frame_id",
             "frame_skip_count", "good_frame_id", "pending_cnt", "pending_retro_cnt",
             "burstSnapNum", "diverted_frame_id"}
Flags == {"once", "continuous", "bWaitForPrepSnapshotDone", "needLEDFlash",
          "startZSlSnapshotCalled", "manualZSLSnapshot", "stopZslSnapshot",
          "isFlashBracketingEnabled", "isZoom1xFrameRequested"}

Typed(c) ==
    /\ Counters \cup Flags \cup {"bracketingState", "faults"} \subseteq DOMAIN c
    /\ \A x \in Counters : c[x] \in Nat
    /\ \A x \in Flags : c[x] \in BOOLEAN
    /\ c.bracketingState \in {"OFF", "WAIT_GOOD_FRAME_IDX", "ACTIVE"}

\* A channel during a command, after the frames l were the last ones read.
Tidy(c, l) ==
    /\ Typed(c)
    /\ c.faults = {}
    /\ InOrder(c.queue, c.match_cnt, l)
    /\ Len(c.queue) - c.match_cnt <= max_unmatched_frames + 1

\* The queue after a command, and what it sent.
Ordered(c, l) == Tidy(c, l) /\ \A i \in DOMAIN c.sent : Read(c.sent[i], l)

OrderInv == Inv /\ last \in [Streams -> 0..MaxFrame] /\ Ordered(ch, last)
--------------------------------------------------------------------------------
(* Queues in order.                                                        *)

LEMMA InOrderAt ==
    ASSUME NEW q \in Seq(Nodes), NEW m, NEW l, InOrder(q, m, l)
    PROVE  /\ Len(q) \in Nat /\ DOMAIN q = 1..Len(q) /\ m \in 0..Len(q)
           /\ MatchedAt(q) = 1..m /\ UnmatchedAt(q) = (m + 1)..Len(q)
           /\ Cardinality(MatchedAt(q)) = m /\ Cardinality(UnmatchedAt(q)) = Len(q) - m
<1>1. Len(q) \in Nat /\ DOMAIN q = 1..Len(q) /\ m \in 0..Len(q)
  BY DEF InOrder
<1>2. MatchedAt(q) = 1..m
  BY <1>1 DEF MatchedAt, InOrder
<1>3. UnmatchedAt(q) = (m + 1)..Len(q)
  BY <1>1, <1>2 DEF UnmatchedAt
<1>4. Cardinality(1..m) = m
  <2>1. 1 \in Int /\ m \in Int /\ (1 > m => m = 0)
    BY <1>1
  <2>2. Cardinality(1..m) = IF 1 > m THEN 0 ELSE m - 1 + 1
    BY <2>1, FS_Interval
  <2> QED BY <2>1, <2>2
<1>5. Cardinality((m + 1)..Len(q)) = Len(q) - m
  <2> DEFINE a == m + 1
             n == Len(q)
  <2>1. a \in Int /\ n \in Int /\ a = m + 1 /\ m <= n /\ m \in Int
    BY <1>1
  <2> HIDE DEF a, n
  <2>2. Cardinality(a..n) = IF a > n THEN 0 ELSE n - a + 1
    BY <2>1, FS_Interval
  <2>3. Cardinality(a..n) = n - m
    BY <2>1, <2>2
  <2> QED BY <2>3 DEF a, n
<1> QED BY <1>1, <1>2, <1>3, <1>4, <1>5

\* MatchedAhead has one value, which match_cnt is.
LEMMA AheadIsCount ==
    ASSUME NEW c, Sound(c), NEW l, InOrder(c.queue, c.match_cnt, l)
    PROVE  MatchedAhead(c) = c.match_cnt
<1> DEFINE q == c.queue
           m == c.match_cnt
           P(n) == 1..n \subseteq MatchedAt(q) /\ n + 1 \notin MatchedAt(q)
<1>1. Len(q) \in Nat /\ m \in 0..Len(q) /\ MatchedAt(q) = 1..m
  BY InOrderAt DEF Sound
<1>2. P(m)
  BY <1>1
<1>3. ASSUME NEW n \in 0..Len(q), P(n) PROVE n = m
  <2>1. n \in Nat /\ m \in Nat /\ 1..n \subseteq 1..m /\ n + 1 \notin 1..m
    BY <1>1, <1>3
  <2>2. ~(n < m)
    BY <2>1
  <2>3. ~(n > m)
    <3> SUFFICES ASSUME n > m PROVE FALSE
      OBVIOUS
    <3>1. n \in 1..n
      BY <2>1
    <3> QED BY <2>1, <3>1
  <2> QED BY <2>1, <2>2, <2>3
<1>4. MatchedAhead(c) = CHOOSE n \in 0..Len(q) : P(n)
  BY DEF MatchedAhead
<1> HIDE DEF P, q, m
<1>5. (CHOOSE n \in 0..Len(q) : P(n)) = m
  BY <1>1, <1>2, <1>3
<1> QED BY <1>4, <1>5 DEF m

LEMMA BeforeLater ==
    ASSUME NEW l \in [Streams -> Nat], NEW h \in [Streams -> Nat],
           \A s \in Streams : l[s] <= h[s], NEW n \in Nodes, NEW k \in Nodes
    PROVE  (Read(n, l) => Read(n, h)) /\ (Before(n, k, l) => Before(n, k, h))
<1>1. n.frames \in [Streams -> Nat] /\ k.frame_idx \in Int
  BY DEF Nodes
<1>2. Read(n, l) => Read(n, h)
  BY <1>1 DEF Read
<1>3. Doomed(k, l) => Doomed(k, h)
  BY <1>1 DEF Doomed
<1> QED BY <1>2, <1>3 DEF Before

\* More frames read change no order.
LEMMA InOrderLater ==
    ASSUME NEW l \in [Streams -> Nat], NEW h \in [Streams -> Nat],
           \A s \in Streams : l[s] <= h[s],
           NEW q \in Seq(Nodes), NEW m, InOrder(q, m, l)
    PROVE  InOrder(q, m, h)
<1>1. \A i \in 1..Len(q) : q[i] \in Nodes
  OBVIOUS
<1>2. Len(q) \in Nat /\ m \in 0..Len(q)
  BY InOrderAt
<1>3. \A i \in 1..Len(q) : Read(q[i], h)
  BY <1>1, BeforeLater DEF InOrder
<1>4. ASSUME NEW i \in (m + 1)..Len(q), NEW j \in (m + 1)..Len(q), i < j
      PROVE  Before(q[i], q[j], h)
  <2>1. q[i] \in Nodes /\ q[j] \in Nodes
    BY <1>1, <1>2
  <2>2. Before(q[i], q[j], l)
    BY <1>4 DEF InOrder
  <2> QED BY <2>1, <2>2, BeforeLater
<1> QED BY <1>2, <1>3, <1>4 DEF InOrder

\* Some of the nodes, in the same order.
LEMMA SomeInOrder ==
    ASSUME NEW q \in Seq(Nodes), NEW m, NEW l, InOrder(q, m, l),
           NEW r \in Seq(Nodes), NEW k \in 0..Len(r),
           NEW at \in [1..Len(r) -> 1..Len(q)],
           \A i \in 1..Len(r) : r[i] = q[at[i]] /\ (i <= k <=> at[i] <= m),
           \A i, j \in 1..Len(r) : i < j => at[i] < at[j]
    PROVE  InOrder(r, k, l)
<1>1. Len(q) \in Nat /\ Len(r) \in Nat /\ m \in 0..Len(q)
  BY InOrderAt
<1>2. \A i \in 1..Len(r) : at[i] \in 1..Len(q)
  OBVIOUS
<1>3. ASSUME NEW i \in 1..Len(r)
      PROVE  Read(r[i], l) /\ (r[i].matched <=> i <= k) /\ (i > k => Partial(r[i]))
  <2>1. i > k => at[i] > m
    BY <1>1, <1>2
  <2> QED BY <2>1, <1>2 DEF InOrder
<1>4. ASSUME NEW i \in (k + 1)..Len(r), NEW j \in (k + 1)..Len(r), i < j
      PROVE  Before(r[i], r[j], l)
  <2>1. i \in 1..Len(r) /\ j \in 1..Len(r) /\ ~(i <= k) /\ ~(j <= k)
    BY <1>1
  <2>2. at[i] \in (m + 1)..Len(q) /\ at[j] \in (m + 1)..Len(q) /\ at[i] < at[j]
    BY <1>1, <1>2, <1>4, <2>1
  <2> QED BY <2>1, <2>2 DEF InOrder
<1> QED BY <1>3, <1>4 DEF InOrder

\* Without an interval of complete nodes, or of incomplete ones.
LEMMA CutInOrder ==
    ASSUME NEW q \in Seq(Nodes), NEW m, NEW l, InOrder(q, m, l),
           NEW a \in 1..Len(q), NEW b \in a..Len(q), a > m \/ b <= m
    PROVE  LET r == Without(q, a..b)
           IN /\ r \in Seq(Nodes) /\ Len(r) = Len(q) - (b - a + 1)
              /\ InOrder(r, IF a > m THEN m ELSE m - (b - a + 1), l)
<1> DEFINE r == Without(q, a..b)
           d == b - a + 1
           k == IF a > m THEN m ELSE m - d
           at == [i \in 1..Len(r) |-> IF i < a THEN i ELSE i + d]
<1>1. Len(q) \in Nat /\ m \in 0..Len(q) /\ a \in Nat /\ b \in Nat /\ a <= b
  BY InOrderAt
<1>2. r = SubSeq(q, 1, a - 1) \o SubSeq(q, b + 1, Len(q))
  BY <1>1, Bounds DEF Without
<1>3. a \in 1..Len(q) + 1 /\ b \in (a - 1)..Len(q)
  BY <1>1
<1>4. /\ r \in Seq(Nodes) /\ Len(r) = Len(q) - d
      /\ \A i \in 1..Len(r) : r[i] = q[IF i < a THEN i ELSE i + d]
  <2> HIDE DEF r
  <2> QED BY <1>2, <1>3, CutAt
<1> HIDE DEF r
<1>5. k \in 0..Len(r) /\ d \in Nat
  BY <1>1, <1>4
<1>6. at \in [1..Len(r) -> 1..Len(q)]
  BY <1>1, <1>4
<1>7. ASSUME NEW i \in 1..Len(r) PROVE r[i] = q[at[i]] /\ (i <= k <=> at[i] <= m)
  <2>1. r[i] = q[at[i]]
    BY <1>4
  <2>2. i <= k <=> at[i] <= m
    BY <1>1, <1>4
  <2> QED BY <2>1, <2>2
<1>8. \A i, j \in 1..Len(r) : i < j => at[i] < at[j]
  BY <1>1, <1>4
<1> HIDE DEF at, k
<1>9. InOrder(r, k, l)
  BY <1>4, <1>5, <1>6, <1>7, <1>8, SomeInOrder
<1> QED BY <1>4, <1>9 DEF r, k

\* An incomplete node changed, in its place.
LEMMA ChangedInOrder ==
    ASSUME NEW q \in Seq(Nodes), NEW m, NEW l, InOrder(q, m, l),
           NEW pos \in (m + 1)..Len(q), NEW e \in Nodes, ~e.matched, Read(e, l), Partial(e),
           \A i \in (m + 1)..(pos - 1) : Before(q[i], e, l),
           \A j \in (pos + 1)..Len(q) : Before(e, q[j], l)
    PROVE  InOrder([q EXCEPT ![pos] = e], m, l)
<1> DEFINE r == [q EXCEPT ![pos] = e]
<1>1. Len(q) \in Nat /\ m \in 0..Len(q) /\ DOMAIN q = 1..Len(q) /\ pos \in 1..Len(q)
  BY InOrderAt
<1>2. /\ Len(r) = Len(q) /\ r[pos] = e
      /\ \A i \in 1..Len(q) : i # pos => r[i] = q[i]
  BY <1>1
<1> HIDE DEF r
<1>3. ASSUME NEW i \in 1..Len(q)
      PROVE  Read(r[i], l) /\ (r[i].matched <=> i <= m) /\ (i > m => Partial(r[i]))
  <2>1. CASE i = pos
    BY <1>1, <1>2, <2>1
  <2>2. CASE i # pos
    BY <1>2, <2>2 DEF InOrder
  <2> QED BY <2>1, <2>2
<1>4. ASSUME NEW i \in (m + 1)..Len(q), NEW j \in (m + 1)..Len(q), i < j
      PROVE  Before(r[i], r[j], l)
  <2>1. i \in 1..Len(q) /\ j \in 1..Len(q)
    BY <1>1
  <2>2. CASE i = pos
    <3>1. j \in (pos + 1)..Len(q) /\ j # pos
      BY <1>1, <1>4, <2>2
    <3> QED BY <3>1, <2>1, <2>2, <1>2
  <2>3. CASE j = pos
    <3>1. i \in (m + 1)..(pos - 1) /\ i # pos
      BY <1>1, <1>4, <2>3
    <3> QED BY <3>1, <2>1, <2>3, <1>2
  <2>4. CASE i # pos /\ j # pos
    BY <1>2, <1>4, <2>1, <2>4 DEF InOrder
  <2> QED BY <2>2, <2>3, <2>4
<1> QED BY <1>1, <1>2, <1>3, <1>4 DEF InOrder, r

\* An incomplete node put in.
LEMMA PutInOrder ==
    ASSUME NEW q \in Seq(Nodes), NEW m, NEW l, InOrder(q, m, l),
           NEW k \in (m + 1)..(Len(q) + 1), NEW e \in Nodes, ~e.matched, Read(e, l), Partial(e),
           \A i \in (m + 1)..(k - 1) : Before(q[i], e, l),
           \A j \in k..Len(q) : Before(e, q[j], l)
    PROVE  InOrder(InsertAt(q, k, e), m, l)
<1> DEFINE r == InsertAt(q, k, e)
           at(i) == IF i < k THEN i ELSE i - 1
<1>1. Len(q) \in Nat /\ m \in 0..Len(q) /\ k \in 1..Len(q) + 1
  BY InOrderAt
<1>2. /\ Len(r) = Len(q) + 1 /\ r[k] = e
      /\ \A i \in 1..Len(r) : i # k => r[i] = q[at(i)]
  BY <1>1, PutAt
<1> HIDE DEF r
<1>3. ASSUME NEW i \in 1..Len(r), i # k
      PROVE  at(i) \in 1..Len(q) /\ (i <= m <=> at(i) <= m) /\ (i > m => at(i) \in (m + 1)..Len(q))
  BY <1>1, <1>2, <1>3
<1>4. ASSUME NEW i \in 1..Len(r)
      PROVE  Read(r[i], l) /\ (r[i].matched <=> i <= m) /\ (i > m => Partial(r[i]))
  <2>1. CASE i = k
    BY <1>1, <1>2, <2>1
  <2>2. CASE i # k
    <3>1. r[i] = q[at(i)] /\ at(i) \in 1..Len(q) /\ (i <= m <=> at(i) <= m) /\ (i > m => at(i) > m)
      BY <1>1, <1>2, <1>3, <2>2
    <3> HIDE DEF at
    <3> QED BY <3>1 DEF InOrder
  <2> QED BY <2>1, <2>2
<1>5. ASSUME NEW i \in (m + 1)..Len(r), NEW j \in (m + 1)..Len(r), i < j
      PROVE  Before(r[i], r[j], l)
  <2>1. i \in 1..Len(r) /\ j \in 1..Len(r) /\ i > m /\ j > m
    BY <1>1
  <2>2. CASE i = k
    <3>1. j # k /\ at(j) \in k..Len(q)
      BY <1>1, <1>2, <1>5, <2>2
    <3> HIDE DEF at
    <3> QED BY <3>1, <2>1, <2>2, <1>2
  <2>3. CASE j = k
    <3>1. i # k /\ at(i) \in (m + 1)..(k - 1)
      BY <1>1, <1>2, <1>5, <2>3
    <3> HIDE DEF at
    <3> QED BY <3>1, <2>1, <2>3, <1>2
  <2>4. CASE i # k /\ j # k
    <3>1. at(i) \in (m + 1)..Len(q) /\ at(j) \in (m + 1)..Len(q)
      BY <1>3, <2>1, <2>4
    <3>2. at(i) < at(j)
      BY <1>1, <1>2, <1>5, <2>4
    <3> HIDE DEF at
    <3> QED BY <3>1, <3>2, <2>1, <2>4, <1>2 DEF InOrder
  <2> QED BY <2>2, <2>3, <2>4
<1>6. m \in 0..Len(r)
  BY <1>1, <1>2
<1> QED BY <1>4, <1>5, <1>6 DEF InOrder, r

\* A node complete at the end of a queue of complete ones.
LEMMA WholeInOrder ==
    ASSUME NEW q \in Seq(Nodes), NEW m, NEW l, InOrder(q, m, l), Len(q) <= m,
           NEW e \in Nodes, e.matched, Read(e, l), NEW k \in (m + 1)..(Len(q) + 1)
    PROVE  InOrder(InsertAt(q, k, e), k, l)
<1> DEFINE r == InsertAt(q, k, e)
<1>1. m \in Nat /\ k \in 1..Len(q) + 1 /\ Len(q) \in Nat /\ m <= Len(q)
  BY InOrderAt
<1>2. /\ Len(r) = k /\ r[k] = e
      /\ \A i \in 1..Len(r) : i # k => r[i] = q[IF i < k THEN i ELSE i - 1]
  <2> DEFINE t == InsertAt(q, k, e)
  <2>1. /\ Len(t) = Len(q) + 1 /\ t[k] = e
        /\ \A i \in 1..Len(t) : i # k => t[i] = q[IF i < k THEN i ELSE i - 1]
    BY <1>1, PutAt
  <2>2. Len(t) = k
    BY <1>1, <2>1
  <2> QED BY <2>1, <2>2
<1> HIDE DEF r
<1>3. ASSUME NEW i \in 1..Len(r) PROVE Read(r[i], l) /\ r[i].matched
  <2>1. CASE i = k
    BY <1>2, <2>1
  <2>2. CASE i # k
    <3>1. i \in 1..Len(q) /\ i <= m /\ r[i] = q[i]
      BY <1>1, <1>2, <2>2
    <3> QED BY <3>1 DEF InOrder
  <2> QED BY <2>1, <2>2
<1>4. /\ k \in 0..Len(r) /\ \A i \in 1..Len(r) : i <= k /\ ~(i > k)
      /\ (k + 1)..Len(r) = {}
  BY <1>1, <1>2
<1> QED BY <1>3, <1>4 DEF InOrder, r

\* A node completed, and the incomplete ones before it gone.
LEMMA CompletedInOrder ==
    ASSUME NEW q \in Seq(Nodes), NEW m, NEW l, InOrder(q, m, l),
           NEW pos \in (m + 1)..Len(q), NEW e \in Nodes, e.matched, Read(e, l),
           NEW r \in Seq(Nodes), Len(r) = Len(q) - (pos - 1 - m),
           \A i \in 1..Len(r) : r[i] = IF i <= m THEN q[i]
                                       ELSE IF i = m + 1 THEN e ELSE q[i + (pos - 1 - m)]
    PROVE  InOrder(r, m + 1, l)
<1> DEFINE d == pos - 1 - m
<1>1. Len(q) \in Nat /\ m \in 0..Len(q) /\ pos \in Nat /\ d \in Nat /\ pos = m + 1 + d
  BY InOrderAt
<1>2. Len(r) = Len(q) - d /\ m + 1 \in 0..Len(r)
  BY <1>1
<1>3. /\ \A i \in 1..Len(r) : i <= m => r[i] = q[i] /\ i \in 1..Len(q)
      /\ r[m + 1] = e
      /\ \A i \in 1..Len(r) : i > m + 1 => r[i] = q[i + d] /\ i + d \in (m + 1)..Len(q)
  BY <1>1, <1>2
<1> HIDE DEF d
<1>4. ASSUME NEW i \in 1..Len(r)
      PROVE  Read(r[i], l) /\ (r[i].matched <=> i <= m + 1) /\ (i > m + 1 => Partial(r[i]))
  <2>1. CASE i <= m
    <3>1. r[i] = q[i] /\ i \in 1..Len(q)
      BY <1>3, <2>1
    <3>2. Read(q[i], l) /\ (q[i].matched <=> i <= m)
      BY <3>1 DEF InOrder
    <3>3. i <= m + 1 /\ ~(i > m + 1)
      BY <1>1, <2>1, SMTT(30)
    <3> QED BY <2>1, <3>1, <3>2, <3>3
  <2>2. CASE i = m + 1
    <3>1. m + 1 <= m + 1 /\ ~(m + 1 > m + 1)
      BY <1>1
    <3> QED BY <1>3, <2>2, <3>1
  <2>3. CASE i > m + 1
    <3> DEFINE k == i + d
    <3>1. r[i] = q[k] /\ k \in (m + 1)..Len(q)
      BY <1>3, <2>3
    <3> HIDE DEF k
    <3>2. k \in 1..Len(q) /\ k > m /\ ~(k <= m)
      BY <1>1, <3>1
    <3> QED BY <1>1, <2>3, <3>1, <3>2 DEF InOrder
  <2> QED BY <1>1, <2>1, <2>2, <2>3
<1>5. ASSUME NEW i \in (m + 2)..Len(r), NEW j \in (m + 2)..Len(r), i < j
      PROVE  Before(r[i], r[j], l)
  <2> DEFINE n == Len(r)
  <2>0. m \in Nat /\ n \in Nat /\ i \in (m + 2)..n /\ j \in (m + 2)..n
    BY <1>1, <1>5, LenProperties
  <2>1. i \in 1..Len(r) /\ i > m + 1
    <3> HIDE DEF n
    <3>1. i \in 1..n /\ i > m + 1
      BY <2>0
    <3> QED BY <3>1 DEF n
  <2>2. j \in 1..Len(r) /\ j > m + 1
    <3> HIDE DEF n
    <3>1. j \in 1..n /\ j > m + 1
      BY <2>0
    <3> QED BY <3>1 DEF n
  <2>3. i + d < j + d
    BY <1>1, <1>2, <1>5
  <2> QED BY <1>3, <2>1, <2>2, <2>3 DEF InOrder
<1>6. (m + 1) + 1 = m + 2
  BY <1>1
<1> QED BY <1>2, <1>4, <1>5, <1>6 DEF InOrder
--------------------------------------------------------------------------------
(* What the operations on the list keep in order.                          *)

LEMMA TidyAt ==
    ASSUME setup \in Setups, NEW c, Sound(c), NEW l, Tidy(c, l)
    PROVE  /\ c.queue \in Seq(Nodes) /\ Len(c.queue) \in Nat /\ DOMAIN c.queue = 1..Len(c.queue)
           /\ c.match_cnt \in 0..Len(c.queue) /\ InOrder(c.queue, c.match_cnt, l)
           /\ MatchedAt(c.queue) = 1..c.match_cnt
           /\ UnmatchedAt(c.queue) = (c.match_cnt + 1)..Len(c.queue)
           /\ Cardinality(MatchedAt(c.queue)) = c.match_cnt
           /\ Cardinality(UnmatchedAt(c.queue)) = Len(c.queue) - c.match_cnt
           /\ MatchedAhead(c) = c.match_cnt /\ max_unmatched_frames \in Nat
BY InOrderAt, AheadIsCount, Bundle DEF Tidy, Sound

\* A change of other fields alone.
LEMMA Retained ==
    ASSUME NEW c, NEW l, Tidy(c, l), NEW d, Typed(d), d.queue = c.queue,
           d.match_cnt = c.match_cnt, d.faults = c.faults
    PROVE  Tidy(d, l)
BY DEF Tidy

\* Nodes of the queue are not returned twice.
LEMMA DiscardedOnce ==
    ASSUME NEW c, Sound(c), Typed(c), NEW gone, gone \subseteq DOMAIN c.queue
    PROVE  LET d == Discard(c, gone)
           IN /\ Typed(d) /\ DOMAIN d = DOMAIN c
              /\ d.queue = Without(c.queue, gone) /\ d.faults = c.faults
              /\ \A x \in DOMAIN c : x \notin {"queue", "returned", "faults"} => d[x] = c[x]
<1> DEFINE y == UNION {FramesOf(c.queue[i]) : i \in gone}
           r == Return(c, y)
           d == Discard(c, gone)
<1>1. y \cap c.returned = {}
  <2>1. y \subseteq Held(c.queue)
    BY DEF Held
  <2> QED BY <2>1 DEF Sound
<1> HIDE DEF y
<1>2. {"queue", "returned", "faults"} \subseteq DOMAIN c
  BY DEF Sound, Typed
<1>3. /\ DOMAIN r = DOMAIN c /\ r.queue = c.queue /\ r.faults = c.faults
      /\ \A x \in DOMAIN c : x \notin {"returned", "faults"} => r[x] = c[x]
  BY <1>1, <1>2 DEF Return
<1>4. d = [r EXCEPT !.queue = Without(@, gone)]
  BY DEF Discard, y
<1> HIDE DEF r, d
<1>5. /\ DOMAIN d = DOMAIN c /\ d.queue = Without(c.queue, gone) /\ d.faults = c.faults
      /\ \A x \in DOMAIN c : x \notin {"queue", "returned", "faults"} => d[x] = c[x]
  BY <1>2, <1>3, <1>4
<1>6. Typed(d)
  <2>1. \A x \in Counters \cup Flags : x \in DOMAIN c /\ x \notin {"queue", "returned", "faults"}
    BY DEF Typed, Counters, Flags
  <2>2. \A x \in Counters \cup Flags : d[x] = c[x]
    BY <1>5, <2>1
  <2>3. d.bracketingState = c.bracketingState
    BY <1>5 DEF Typed
  <2> QED BY <1>5, <2>2, <2>3 DEF Typed
<1> QED BY <1>5, <1>6 DEF d

LEMMA TakenTidy ==
    ASSUME setup \in Setups, NEW c, Sound(c), NEW l, Tidy(c, l), NEW n \in 0..c.match_cnt
    PROVE  Tidy(TakeMatched(c, n), l)
<1> DEFINE q == c.queue
           m == c.match_cnt
           gone == 1..n
           d == Discard(c, gone)
           e == [d EXCEPT !.match_cnt = @ - n]
<1>1. /\ q \in Seq(Nodes) /\ Len(q) \in Nat /\ DOMAIN q = 1..Len(q)
      /\ m \in 0..Len(q) /\ InOrder(q, m, l) /\ Typed(c) /\ c.faults = {}
      /\ Len(q) - m <= max_unmatched_frames + 1 /\ max_unmatched_frames \in Nat
  BY TidyAt DEF Tidy
<1>2. n \in 0..Len(q) /\ n \in Nat /\ n <= m
  BY <1>1
<1>3. /\ Without(q, gone) \in Seq(Nodes) /\ Len(Without(q, gone)) = Len(q) - n
      /\ InOrder(Without(q, gone), m - n, l)
  <2>1. CASE n = 0
    BY <1>1, <2>1 DEF Without
  <2>2. CASE n # 0
    <3> DEFINE a == 1
               r == Without(q, a..n)
    <3>1. a \in 1..Len(q) /\ n \in a..Len(q) /\ (a > m \/ n <= m) /\ ~(a > m)
      BY <1>1, <1>2, <2>2
    <3>2. n - a + 1 = n
      BY <1>2
    <3>3. gone = a..n
      OBVIOUS
    <3> HIDE DEF a, q, m, gone
    <3>4. /\ r \in Seq(Nodes) /\ Len(r) = Len(q) - (n - a + 1)
          /\ InOrder(r, IF a > m THEN m ELSE m - (n - a + 1), l)
      BY <1>1, <3>1, CutInOrder
    <3> QED BY <3>1, <3>2, <3>3, <3>4
  <2> QED BY <2>1, <2>2
<1>4. /\ Typed(d) /\ DOMAIN d = DOMAIN c /\ d.queue = Without(q, gone) /\ d.faults = {}
      /\ d.match_cnt = m /\ "match_cnt" \in DOMAIN d
  <2>1. gone \subseteq DOMAIN c.queue
    BY <1>1, <1>2
  <2>2. "match_cnt" \in DOMAIN c
    BY DEF Sound
  <2> HIDE DEF gone
  <2> QED BY <1>1, <2>1, <2>2, DiscardedOnce
<1>5. e = TakeMatched(c, n)
  BY DEF TakeMatched
<1> HIDE DEF gone, d
<1>6. e.match_cnt = m - n /\ e.queue = d.queue /\ e.faults = {} /\ Typed(e)
  BY <1>4 DEF Typed, Counters, Flags
<1> HIDE DEF e, q, m
<1>7. Len(e.queue) - e.match_cnt = Len(q) - m
  <2>1. Len(e.queue) = Len(q) - n
    BY <1>3, <1>4, <1>6
  <2>2. \A x, y, z \in Int : (x - z) - (y - z) = x - y
    OBVIOUS
  <2>3. Len(q) \in Int /\ m \in Int /\ n \in Int
    BY <1>1, <1>2
  <2> QED BY <1>6, <2>1, <2>2, <2>3
<1> QED BY <1>1, <1>3, <1>4, <1>5, <1>6, <1>7 DEF Tidy

LEMMA FlushedMatchedTidy ==
    ASSUME setup \in Setups, NEW c, Sound(c), NEW l, Tidy(c, l)
    PROVE  Tidy(mm_channel_superbuf_flush_matched(c), l)
<1>1. MatchedAhead(c) \in 0..c.match_cnt
  BY TidyAt
<1> QED BY <1>1, TakenTidy DEF mm_channel_superbuf_flush_matched

LEMMA FlushedTidy ==
    ASSUME setup \in Setups, NEW c, Sound(c), NEW l, Tidy(c, l)
    PROVE  Tidy(mm_channel_superbuf_flush(c), l)
<1> DEFINE q == c.queue
           m == c.match_cnt
           gone == DOMAIN q
           d == Discard(c, gone)
           e == [d EXCEPT !.match_cnt = @ - m]
<1>1. /\ q \in Seq(Nodes) /\ Len(q) \in Nat /\ gone = 1..Len(q) /\ m \in 0..Len(q)
      /\ Cardinality(MatchedAt(q)) = m /\ max_unmatched_frames \in Nat
      /\ Typed(c) /\ c.faults = {}
  BY TidyAt DEF Tidy
<1>2. Without(q, gone) = <<>>
  <2>1. CASE Len(q) = 0
    BY <1>1, <2>1 DEF Without
  <2>2. CASE Len(q) # 0
    <3>1. 1..Len(q) # {} /\ Min(1..Len(q)) = 1 /\ Max(1..Len(q)) = Len(q)
      BY <1>1, <2>2, Bounds
    <3>2. Without(q, gone) = SubSeq(q, 1, 0) \o SubSeq(q, Len(q) + 1, Len(q))
      BY <1>1, <3>1 DEF Without
    <3> QED BY <1>1, <3>2
  <2> QED BY <2>1, <2>2
<1>3. /\ Typed(d) /\ DOMAIN d = DOMAIN c /\ d.queue = <<>> /\ d.faults = {}
      /\ d.match_cnt = m /\ "match_cnt" \in DOMAIN d
  <2>1. "match_cnt" \in DOMAIN c
    BY DEF Sound
  <2> HIDE DEF gone
  <2> QED BY <1>1, <1>2, <2>1, DiscardedOnce DEF gone
<1>4. e = mm_channel_superbuf_flush(c)
  BY <1>1 DEF mm_channel_superbuf_flush
<1> HIDE DEF gone, d
<1>5. e.match_cnt = 0 /\ e.queue = <<>> /\ e.faults = {} /\ Typed(e)
  <2>1. m - m = 0
    BY <1>1
  <2> HIDE DEF m
  <2> QED BY <1>3, <2>1 DEF Typed, Counters, Flags
<1> HIDE DEF e
<1>6. InOrder(<<>>, 0, l) /\ Len(<<>>) = 0
  BY DEF InOrder
<1> QED BY <1>1, <1>4, <1>5, <1>6 DEF Tidy

\* The loop of a trim ends.
LEMMA TrimmedTidy ==
    ASSUME setup \in Setups, NEW c, Sound(c), NEW l, Tidy(c, l), NEW mark \in Nat
    PROVE  Tidy(Trim(c, mark), l)
<1> DEFINE excess == c.match_cnt - mark
<1>1. MatchedAhead(c) = c.match_cnt /\ c.match_cnt \in Nat
  BY TidyAt
<1>2. excess <= MatchedAhead(c) /\ excess \in Int
  BY <1>1
<1>3. excess > 0 => excess \in 0..c.match_cnt
  BY <1>1
<1> HIDE DEF excess
<1>4. Trim(c, mark) = IF c.continuous \/ excess <= 0 THEN c
                      ELSE IF excess > MatchedAhead(c) THEN [c EXCEPT !.faults = @ \cup {"spin"}]
                      ELSE TakeMatched(c, excess)
  BY DEF Trim, excess
<1>5. excess > 0 => Tidy(TakeMatched(c, excess), l)
  BY <1>3, TakenTidy
<1>6. ~(excess > MatchedAhead(c)) /\ (~(excess <= 0) => excess > 0)
  BY <1>1, <1>2
<1> QED BY <1>4, <1>5, <1>6
--------------------------------------------------------------------------------
(* What metadata changes.                                                  *)

\* A counter or a flag set to a value of its type.
LEMMA SetTidy ==
    ASSUME NEW c, NEW l, Tidy(c, l), Sound(c), NEW x, NEW v,
           \/ x \in Counters /\ v \in Nat
           \/ x \in Flags /\ v \in BOOLEAN
           \/ x = "bracketingState" /\ v \in {"OFF", "WAIT_GOOD_FRAME_IDX", "ACTIVE"}
    PROVE  Tidy([c EXCEPT ![x] = v], l)
<1> DEFINE d == [c EXCEPT ![x] = v]
<1>1. x \in DOMAIN c /\ x \notin {"queue", "match_cnt", "faults"}
  BY DEF Tidy, Typed, Counters, Flags
<1>2. DOMAIN d = DOMAIN c /\ d[x] = v /\ \A y \in DOMAIN c : y # x => d[y] = c[y]
  BY <1>1
<1> HIDE DEF d
<1>3. {"queue", "match_cnt", "faults"} \subseteq DOMAIN c
  BY DEF Tidy, Typed, Sound
<1>4. d.queue = c.queue /\ d.match_cnt = c.match_cnt /\ d.faults = c.faults
  BY <1>1, <1>2, <1>3
<1>5. Typed(d)
  BY <1>2 DEF Tidy, Typed, Counters, Flags
<1> QED BY <1>4, <1>5, Retained DEF d

\* What a metadata buffer of frame f may say.
Told(m) ==
    /\ m.good \in Nat \cup {ABSENT}
    /\ m.divert \in Int

LEMMA NotedTidy ==
    ASSUME NEW c, NEW l, Tidy(c, l), NEW f \in Nat, NEW m, Told(m)
    PROVE  Tidy(NoteDivert(c, f, m), l)
<1> DEFINE v == IF m.divert >= 0 THEN f + m.divert ELSE 0
           d == [c EXCEPT !.diverted_frame_id = v]
<1>1. v \in Nat
  BY DEF Told
<1> HIDE DEF v
<1>2. d.queue = c.queue /\ d.match_cnt = c.match_cnt /\ d.faults = c.faults /\ Typed(d)
  BY <1>1 DEF Tidy, Typed, Counters, Flags
<1>3. Tidy(d, l)
  BY <1>2, Retained
<1> QED BY <1>3 DEF NoteDivert, v

LEMMA ZoomedTidy ==
    ASSUME setup \in Setups, NEW c, Sound(c), NEW l, Tidy(c, l), NEW f \in Nat, NEW m
    PROVE  Tidy(Zoom1x(c, f, m), l)
<1> DEFINE near == [c EXCEPT !.isZoom1xFrameRequested = FALSE, !.expected_frame_id = f + 1]
           far == [c EXCEPT !.expected_frame_id = @ + FutureFrameWait]
<1>1. f + 1 \in Nat /\ c.expected_frame_id + FutureFrameWait \in Nat
  BY DEF Tidy, Typed, Counters, FutureFrameWait
<1>2. /\ near.queue = c.queue /\ near.match_cnt = c.match_cnt /\ near.faults = c.faults
      /\ Typed(near)
  BY <1>1 DEF Tidy, Typed, Counters, Flags
<1>3. /\ far.queue = c.queue /\ far.match_cnt = c.match_cnt /\ far.faults = c.faults
      /\ Typed(far) /\ Same(c, far)
  BY <1>1 DEF Tidy, Typed, Counters, Flags, Same, Sound
<1> HIDE DEF near, far
<1>4. Tidy(near, l) /\ Tidy(far, l)
  BY <1>2, <1>3, Retained
<1>5. Sound(far)
  BY <1>3, Aside DEF Keeps
<1>6. Tidy(mm_channel_superbuf_flush_matched(far), l)
  BY <1>4, <1>5, FlushedMatchedTidy
<1> QED BY <1>4, <1>6 DEF Zoom1x, near, far

LEMMA PreparedTidy ==
    ASSUME setup \in Setups, NEW c, Sound(c), NEW l, Tidy(c, l), NEW m
    PROVE  Tidy(PrepSnapshotDone(c, m), l)
<1> DEFINE wait == [c EXCEPT !.bWaitForPrepSnapshotDone = FALSE, !.needLEDFlash = TRUE,
                             !.expected_frame_id = @ + FutureFrameWait]
           done == [c EXCEPT !.bWaitForPrepSnapshotDone = FALSE, !.needLEDFlash = FALSE]
<1>1. c.expected_frame_id + FutureFrameWait \in Nat
  BY DEF Tidy, Typed, Counters, FutureFrameWait
<1>2. /\ done.queue = c.queue /\ done.match_cnt = c.match_cnt /\ done.faults = c.faults
      /\ Typed(done)
  BY <1>1 DEF Tidy, Typed, Counters, Flags
<1>3. /\ wait.queue = c.queue /\ wait.match_cnt = c.match_cnt /\ wait.faults = c.faults
      /\ Typed(wait) /\ Same(c, wait)
  BY <1>1 DEF Tidy, Typed, Counters, Flags, Same, Sound
<1> HIDE DEF wait, done
<1>4. Tidy(wait, l) /\ Tidy(done, l)
  BY <1>2, <1>3, Retained
<1>5. Sound(wait)
  BY <1>3, Aside DEF Keeps
<1>6. Tidy(mm_channel_superbuf_flush(wait), l)
  BY <1>4, <1>5, FlushedTidy
<1> QED BY <1>4, <1>6 DEF PrepSnapshotDone, wait, done

LEMMA RangedTidy ==
    ASSUME setup \in Setups, NEW c, NEW l, Tidy(c, l), NEW f \in Nat, NEW m, Told(m), m.good # ABSENT
    PROVE  Tidy(GoodFrameRange(c, f, m), l)
<1> DEFINE min == f + m.good
           max == min + 1
           ranged == [c EXCEPT !.expected_frame_id = min, !.good_frame_id = min]
           lit == IF c.needLEDFlash /\ c.burstSnapNum > 1
                  THEN [ranged EXCEPT !.led_off_start_frame_id = max, !.once = FALSE,
                                      !.frame_skip_count = FrameSkip]
                  ELSE ranged
           d == IF c.isFlashBracketingEnabled
                THEN [lit EXCEPT !.expected_frame_id_without_led = max]
                ELSE [lit EXCEPT !.bracketingState = "ACTIVE"]
<1>1. min \in Nat /\ max \in Nat /\ FrameSkip \in Nat
  <2>1. FrameSkip \in Nat
    BY SuperBufAssumption DEF FrameSkip
  <2> QED BY <2>1 DEF Told
<1>2. d = GoodFrameRange(c, f, m)
  BY DEF GoodFrameRange
<1> HIDE DEF min, max
<1>3. /\ ranged.queue = c.queue /\ ranged.match_cnt = c.match_cnt /\ ranged.faults = c.faults
      /\ Typed(ranged)
  BY <1>1 DEF Tidy, Typed, Counters, Flags
<1> HIDE DEF ranged
<1>4. /\ lit.queue = c.queue /\ lit.match_cnt = c.match_cnt /\ lit.faults = c.faults
      /\ Typed(lit)
  <2> DEFINE e == [ranged EXCEPT !.led_off_start_frame_id = max, !.once = FALSE,
                                 !.frame_skip_count = FrameSkip]
  <2>1. /\ e.queue = c.queue /\ e.match_cnt = c.match_cnt /\ e.faults = c.faults
        /\ Typed(e)
    BY <1>1, <1>3 DEF Typed, Counters, Flags
  <2>2. lit = e \/ lit = ranged
    OBVIOUS
  <2> HIDE DEF e, lit
  <2> QED BY <1>3, <2>1, <2>2
<1> HIDE DEF lit
<1>5. /\ d.queue = c.queue /\ d.match_cnt = c.match_cnt /\ d.faults = c.faults
      /\ Typed(d)
  BY <1>1, <1>4 DEF Typed, Counters, Flags
<1> HIDE DEF d
<1> QED BY <1>2, <1>5, Retained

LEMMA WaitedGoodTidy ==
    ASSUME setup \in Setups, NEW c, Sound(c), NEW l, Tidy(c, l), NEW m
    PROVE  Tidy(WaitGoodFrame(c, m), l)
<1> DEFINE d == mm_channel_superbuf_flush_matched(c)
           e == [d EXCEPT !.expected_frame_id = @ + FutureFrameWait]
<1>1. Tidy(d, l)
  BY FlushedMatchedTidy
<1> HIDE DEF d
<1>2. d.expected_frame_id + FutureFrameWait \in Nat
  <2>1. d.expected_frame_id \in Nat
    BY <1>1 DEF Tidy, Typed, Counters
  <2> QED BY <2>1 DEF FutureFrameWait
<1>3. e.queue = d.queue /\ e.match_cnt = d.match_cnt /\ e.faults = d.faults /\ Typed(e)
  BY <1>1, <1>2 DEF Tidy, Typed, Counters, Flags
<1>4. Tidy(e, l)
  BY <1>1, <1>3, Retained
<1> QED BY <1>4 DEF WaitGoodFrame, d

LEMMA BurstTidy ==
    ASSUME NEW c, NEW l, Tidy(c, l), NEW f
    PROVE  Tidy(LedBurst(c, f), l)
<1> DEFINE v == c.led_off_start_frame_id + c.frame_skip_count
           d == [c EXCEPT !.expected_frame_id = v,
                          !.once = TRUE, !.stopZslSnapshot = TRUE, !.needLEDFlash = FALSE]
<1>1. v \in Nat
  BY DEF Tidy, Typed, Counters
<1> HIDE DEF v
<1>2. d.queue = c.queue /\ d.match_cnt = c.match_cnt /\ d.faults = c.faults /\ Typed(d)
  BY <1>1 DEF Tidy, Typed, Counters, Flags
<1>3. Tidy(d, l)
  BY <1>2, Retained
<1> QED BY <1>3 DEF LedBurst, v

LEMMA InformedTidy ==
    ASSUME setup \in Setups, NEW c, Sound(c), NEW l, Tidy(c, l), NEW f \in Nat, NEW m, Told(m)
    PROVE  Tidy(mm_channel_handle_metadata(c, f, m), l)
<1> DEFINE noted == NoteDivert(c, f, m)
           prepared == PrepSnapshotDone(noted, m)
           ranged == GoodFrameRange(prepared, f, m)
           waited == WaitGoodFrame(prepared, m)
<1>1. Sound(noted) /\ Tidy(noted, l)
  BY Noted, NotedTidy DEF Keeps
<1> HIDE DEF noted
<1>2. Tidy(Zoom1x(noted, f, m), l) /\ Sound(prepared) /\ Tidy(prepared, l)
  BY <1>1, ZoomedTidy, Prepared, PreparedTidy DEF Keeps
<1> HIDE DEF prepared
<1>3. (m.good # ABSENT => Tidy(ranged, l)) /\ Tidy(waited, l)
  BY <1>2, RangedTidy, WaitedGoodTidy
<1> HIDE DEF ranged, waited
<1>4. (m.good # ABSENT => Tidy(LedBurst(ranged, f), l)) /\ Tidy(LedBurst(waited, f), l)
  BY <1>3, BurstTidy
<1> QED
  BY <1>2, <1>4 DEF mm_channel_handle_metadata, noted, prepared, ranged, waited
--------------------------------------------------------------------------------
(* A frame's way into the queue, in order.                                 *)

\* The frame f is the next one of stream s after those of l, and h what was then read.
ReadNext(l, s, f, h) ==
    /\ l \in [Streams -> Nat] /\ s \in Streams /\ f \in Nat \ {NONE} /\ f > l[s]
    /\ h = [l EXCEPT ![s] = f]

\* What Fill makes of a node.
Reset(node, f) ==
    IF node.unmatched_meta_idx > 0
    THEN [node EXCEPT !.unmatched_meta_idx = 0, !.frame_idx = f] ELSE node
FilledBy(node, s, f) == [Reset(node, f) EXCEPT !.frames[s] = f]

\* A frame that was not read before is not in the node it fits into, and the
\* node keeps its place: no incomplete node before it could be of a newer frame,
\* unless this one can be completed no more.
LEMMA FilledInPlace ==
    ASSUME setup \in Setups, NEW l, NEW s, NEW f, NEW h, ReadNext(l, s, f, h),
           NEW node \in Nodes, ~node.matched, Partial(node), Read(node, l), Fits(node, s, f)
    PROVE  LET filled == FilledBy(node, s, f)
           IN /\ node.frames[s] = NONE
              /\ filled \in Nodes /\ ~filled.matched /\ Read(filled, h) /\ filled.frame_idx <= f
              /\ FramesOf(filled) = FramesOf(node) \cup {<<s, f>>}
              /\ ~Whole(filled) => Partial(filled)
              /\ \A k \in Nodes : Before(node, k, l) => Before(filled, k, h)
              /\ \A k \in Nodes :
                   Partial(k) /\ Read(k, l) /\ ~Fits(k, s, f) /\ Before(k, node, l)
                       => Before(k, filled, h)
<1> DEFINE reset == Reset(node, f)
           filled == FilledBy(node, s, f)
<1>a. /\ l \in [Streams -> Nat] /\ s \in Streams /\ f \in Nat \ {NONE} /\ f > l[s]
      /\ h = [l EXCEPT ![s] = f]
      /\ reset = IF node.unmatched_meta_idx > 0
                 THEN [node EXCEPT !.unmatched_meta_idx = 0, !.frame_idx = f] ELSE node
      /\ filled = [reset EXCEPT !.frames[s] = f]
  BY DEF ReadNext, Reset, FilledBy
<1> HIDE DEF reset, filled
<1> USE <1>a
<1>1. /\ h \in [Streams -> Nat] /\ h[s] = f /\ \A t \in Streams : t # s => h[t] = l[t]
      /\ \A t \in Streams : l[t] <= h[t]
  OBVIOUS
<1>2. /\ Metadata \in Streams /\ LowPriority \in BOOLEAN /\ Joined(node)
      /\ node \in [frame_idx : Int, frames : [Streams -> Nat], matched : BOOLEAN,
                   expected_frame : BOOLEAN, unmatched_meta_idx : Nat]
      /\ node.frame_idx \in Nat /\ \A t \in Streams : node.frames[t] <= l[t]
  BY Bundle DEF Nodes, Read
<1>3. node.frames[s] = NONE
  <2> SUFFICES ASSUME node.frames[s] # NONE PROVE FALSE
    OBVIOUS
  <2>1. node.frame_idx = f
    BY DEF Fits
  <2>2. node.frames[s] >= f
    <3>1. CASE LowPriority /\ s = Metadata
      BY <1>2, <2>1, <3>1 DEF Partial
    <3>2. CASE ~(LowPriority /\ s = Metadata)
      <4>1. node.frames[s] \in {NONE, node.frame_idx}
        BY <1>2, <3>2 DEF Joined
      <4> QED BY <1>2, <2>1, <4>1
    <3> QED BY <3>1, <3>2
  <2> QED BY <1>2, <2>2
<1>4. filled \in Nodes /\ ~filled.matched /\ FramesOf(filled) = FramesOf(node) \cup {<<s, f>>}
  BY <1>3, Filled, ZenonT(60)
<1>5. /\ filled.frames = [node.frames EXCEPT ![s] = f]
      /\ filled.frame_idx = (IF node.unmatched_meta_idx > 0 THEN f ELSE node.frame_idx)
      /\ filled.unmatched_meta_idx = 0
  <2>1. /\ reset.frames = node.frames /\ reset.unmatched_meta_idx = 0
        /\ reset.frame_idx = (IF node.unmatched_meta_idx > 0 THEN f ELSE node.frame_idx)
        /\ {"frames", "frame_idx", "unmatched_meta_idx"} \subseteq DOMAIN reset
    BY <1>2
  <2> QED BY <2>1
<1>6. filled.frames[s] = f /\ \A t \in Streams : t # s => filled.frames[t] = node.frames[t]
  BY <1>2, <1>5
<1>7. ASSUME node.unmatched_meta_idx > 0
      PROVE  /\ LowPriority /\ s # Metadata /\ f <= node.frame_idx
             /\ node.frames[Metadata] = node.frame_idx
             /\ \A t \in Streams \ {Metadata} : node.frames[t] = NONE
  <2>1. /\ LowPriority /\ \A t \in Streams \ {Metadata} : node.frames[t] = NONE
        /\ node.unmatched_meta_idx = node.frame_idx
        /\ node.unmatched_meta_idx = node.frames[Metadata]
    BY <1>2, <1>7 DEF Joined, Partial
  <2>2. s # Metadata
    BY <1>2, <1>3, <1>7, <2>1 DEF NONE
  <2>3. f <= node.frame_idx
    BY <1>2, <2>1, <2>2 DEF Fits
  <2> QED BY <2>1, <2>2, <2>3
<1>8. filled.frame_idx \in Nat /\ filled.frame_idx <= f /\ filled.frame_idx <= node.frame_idx
  <2>1. CASE node.unmatched_meta_idx > 0
    BY <1>2, <1>5, <1>7, <2>1
  <2>2. CASE ~(node.unmatched_meta_idx > 0)
    <3>1. node.frame_idx <= f
      BY <1>2, <2>2 DEF Fits
    <3> QED BY <1>2, <1>5, <2>2, <3>1
  <2> QED BY <2>1, <2>2
<1>9. Read(filled, h)
  <2>1. ASSUME NEW t \in Streams PROVE filled.frames[t] <= h[t]
    BY <1>1, <1>2, <1>6
  <2> QED BY <1>8, <2>1 DEF Read
<1>10. ASSUME ~Whole(filled) PROVE Partial(filled)
  <2>1. filled.frames[s] # NONE
    BY <1>6
  <2>2. ASSUME filled.frames[Metadata] # NONE PROVE filled.frame_idx <= filled.frames[Metadata]
    <3>1. CASE s = Metadata
      BY <1>6, <1>8, <3>1
    <3>2. CASE s # Metadata
      <4>1. node.frames[Metadata] # NONE /\ filled.frames[Metadata] = node.frames[Metadata]
        BY <1>2, <1>6, <2>2, <3>2
      <4>2. node.frame_idx <= node.frames[Metadata]
        BY <4>1 DEF Partial
      <4> QED BY <1>2, <1>8, <4>1, <4>2
    <3> QED BY <3>1, <3>2
  <2>3. ASSUME LowPriority
        PROVE  \E t \in Streams \ {Metadata} : filled.frames[t] = filled.frame_idx
    <3>1. CASE node.unmatched_meta_idx > 0
      BY <1>5, <1>6, <1>7, <3>1
    <3>2. CASE ~(node.unmatched_meta_idx > 0)
      <4>1. node.unmatched_meta_idx = 0
        BY <1>2, <3>2
      <4>2. PICK t \in Streams \ {Metadata} : node.frames[t] = node.frame_idx
        BY <2>3, <4>1 DEF Partial
      <4>3. CASE t = s
        <5>1. node.frame_idx = 0
          BY <1>3, <4>2, <4>3 DEF NONE
        <5>2. FALSE
          BY <1>2, <4>1, <4>2, <4>3, <5>1 DEF Fits, NONE
        <5> QED BY <5>2
      <4>4. CASE t # s
        BY <1>5, <1>6, <3>2, <4>2, <4>4
      <4> QED BY <4>3, <4>4
    <3> QED BY <3>1, <3>2
  <2> QED BY <1>5, <1>10, <2>1, <2>2, <2>3 DEF Partial
<1>11. ASSUME NEW k \in Nodes, Before(node, k, l) PROVE Before(filled, k, h)
  <2>1. Before(node, k, h)
    BY <1>1, <1>11, BeforeLater
  <2>2. k.frame_idx \in Int
    BY DEF Nodes
  <2> QED BY <1>2, <1>8, <2>1, <2>2 DEF Before
<1>12. ASSUME NEW k \in Nodes, Partial(k), Read(k, l), ~Fits(k, s, f), Before(k, node, l)
       PROVE  Before(k, filled, h)
  <2>1. /\ k.frame_idx \in Nat /\ k.frames \in [Streams -> Nat] /\ k.unmatched_meta_idx \in Nat
        /\ \A t \in Streams : k.frames[t] <= l[t]
    BY <1>12 DEF Nodes, Read
  <2>2. CASE ~(node.unmatched_meta_idx > 0)
    <3>1. filled.frame_idx = node.frame_idx
      BY <1>5, <2>2
    <3>2. ASSUME Doomed(node, l) PROVE Doomed(filled, h)
      <4>1. PICK t \in Streams \ {Metadata} : node.frames[t] = NONE /\ node.frame_idx < l[t]
        BY <3>2 DEF Doomed
      <4>2. CASE t = s
        <5>1. node.frame_idx = f
          BY <1>2, <2>2, <4>1, <4>2 DEF Fits
        <5> QED BY <4>1, <4>2, <5>1
      <4>3. CASE t # s
        BY <1>1, <1>6, <3>1, <4>1, <4>3 DEF Doomed
      <4> QED BY <4>2, <4>3
    <3> QED BY <1>12, <3>1, <3>2 DEF Before
  <2>3. CASE node.unmatched_meta_idx > 0
    <3>1. /\ LowPriority /\ s # Metadata /\ filled.frame_idx = f
          /\ \A t \in Streams \ {Metadata} : node.frames[t] = NONE
      BY <1>5, <1>7, <2>3
    <3>2. CASE k.frame_idx < f
      BY <3>1, <3>2 DEF Before
    <3>3. CASE ~(k.frame_idx < f)
      <4>1. k.frame_idx > f
        BY <1>12, <2>1, <3>3 DEF Fits
      <4>2. k.unmatched_meta_idx = 0
        <5> SUFFICES ASSUME k.unmatched_meta_idx > 0 PROVE FALSE
          BY <2>1
        <5>1. k.unmatched_meta_idx = k.frame_idx
          BY <1>12 DEF Partial
        <5>2. k.frames[s] = NONE
          BY <3>1 DEF Nodes, Joined
        <5> QED BY <1>12, <2>1, <3>1, <4>1, <5>1, <5>2 DEF Fits
      <4>3. PICK t \in Streams \ {Metadata} : k.frames[t] = k.frame_idx
        BY <1>12, <3>1, <4>2 DEF Partial
      <4>4. l[t] > f
        BY <2>1, <4>1, <4>3
      <4>5. t # s
        BY <4>4
      <4>6. filled.frames[t] = NONE /\ h[t] > filled.frame_idx
        BY <1>1, <1>6, <3>1, <4>4, <4>5
      <4>7. Doomed(filled, h)
        BY <1>1, <1>8, <4>6 DEF Doomed
      <4> QED BY <4>7 DEF Before
    <3> QED BY <3>2, <3>3
  <2> QED BY <2>2, <2>3
<1> QED BY <1>3, <1>4, <1>8, <1>9, <1>10, <1>11, <1>12 DEF filled

\* A node that can be completed is not behind one that waits for a newer frame.
LEMMA WholeComesNext ==
    ASSUME setup \in Setups, NEW l, NEW n \in Nodes, NEW k \in Nodes, Whole(k), Before(n, k, l)
    PROVE  n.frame_idx < k.frame_idx
BY Bundle DEF Before, Doomed, Whole

\* A node with other flags.
LEMMA SamePlace ==
    ASSUME NEW n, NEW e, e.frames = n.frames, e.frame_idx = n.frame_idx,
           e.unmatched_meta_idx = n.unmatched_meta_idx, NEW l
    PROVE  /\ Read(n, l) => Read(e, l)
           /\ Partial(n) => Partial(e)
           /\ \A k : Before(n, k, l) => Before(e, k, l)
           /\ \A k : Before(k, n, l) => Before(k, e, l)
BY DEF Read, Partial, Whole, Before, Doomed

\* The position i, when the d positions from a on are skipped.
Skipping(i, a, d) == IF i < a THEN i ELSE i + d

LEMMA CutUpTo ==
    ASSUME NEW u \in Seq(Nodes), NEW a \in 1..Len(u), NEW pos \in (a + 1)..Len(u)
    PROVE  LET w == Without(u, a..(pos - 1))
           IN /\ w \in Seq(Nodes) /\ Len(w) = Len(u) - (pos - a)
              /\ \A i \in 1..Len(w) : w[i] = u[Skipping(i, a, pos - a)]
<1> DEFINE b == pos - 1
           w == Without(u, a..b)
<1>1. Len(u) \in Nat /\ a \in Nat /\ b \in Nat /\ a <= b /\ a \in 1..Len(u) + 1
      /\ b \in (a - 1)..Len(u) /\ b - a + 1 = pos - a
  OBVIOUS
<1> HIDE DEF b
<1>2. w = SubSeq(u, 1, a - 1) \o SubSeq(u, b + 1, Len(u))
  BY <1>1, Bounds DEF Without
<1> HIDE DEF w
<1>3. /\ w \in Seq(Nodes) /\ Len(w) = Len(u) - (b - a + 1)
      /\ \A i \in 1..Len(w) : w[i] = u[IF i < a THEN i ELSE i + (b - a + 1)]
  BY <1>1, <1>2, CutAt
<1> QED BY <1>1, <1>3 DEF w, b, Skipping

\* The frame completes the node at pos: it is the first one after the complete
\* ones when those that waited longer are gone.
LEMMA MatchTidy ==
    ASSUME setup \in Setups, NEW c, Sound(c), Typed(c), c.faults = {}, NEW f \in Nat,
           NEW q \in Seq(Nodes), NEW m, NEW h, InOrder(q, m, h), c.match_cnt = m,
           Len(q) - m <= max_unmatched_frames + 1,
           NEW pos \in (m + 1)..Len(q), NEW node \in Nodes, Whole(node), Read(node, h),
           c.queue = [q EXCEPT ![pos] = node],
           NEW older, older \subseteq 1..(pos - 1), older = (m + 1)..(pos - 1)
    PROVE  Tidy(Match(c, f, pos, older), h)
<1> DEFINE without == c.expected_frame_id_without_led
           next == IF c.isFlashBracketingEnabled
                   THEN [c EXCEPT !.expected_frame_id = without,
                                  !.isFlashBracketingEnabled = f < without]
                   ELSE [c EXCEPT !.expected_frame_id = f + post_frame_skip]
           matched == [next EXCEPT !.queue[pos].matched = TRUE,
                                   !.queue[pos].expected_frame = FALSE,
                                   !.match_cnt = @ + 1]
           e == [[node EXCEPT !.matched = TRUE] EXCEPT !.expected_frame = FALSE]
           d == Match(c, f, pos, older)
<1>1. /\ Len(q) \in Nat /\ DOMAIN q = 1..Len(q) /\ m \in 0..Len(q) /\ pos \in 1..Len(q)
      /\ Len(c.queue) = Len(q) /\ c.queue[pos] = node /\ c.queue \in Seq(Nodes)
      /\ DOMAIN c.queue = 1..Len(q)
  BY InOrderAt
<1>2. /\ next.queue = c.queue /\ next.match_cnt = m /\ next.faults = {} /\ Typed(next)
      /\ {"queue", "match_cnt", "faults"} \subseteq DOMAIN next
  <2> DEFINE on == f < without
             a == [c EXCEPT !.expected_frame_id = without, !.isFlashBracketingEnabled = on]
             b == [c EXCEPT !.expected_frame_id = f + post_frame_skip]
  <2>1. f + post_frame_skip \in Nat /\ without \in Nat
    <3>1. post_frame_skip \in Nat
      BY SuperBufAssumption DEF post_frame_skip
    <3> QED BY <3>1 DEF Typed, Counters
  <2> HIDE DEF without, on
  <2>2. on \in BOOLEAN
    BY DEF on
  <2>3. /\ a.queue = c.queue /\ a.match_cnt = m /\ a.faults = {} /\ Typed(a)
        /\ {"queue", "match_cnt", "faults"} \subseteq DOMAIN a
    BY <2>1, <2>2 DEF Typed, Counters, Flags, Sound
  <2>4. /\ b.queue = c.queue /\ b.match_cnt = m /\ b.faults = {} /\ Typed(b)
        /\ {"queue", "match_cnt", "faults"} \subseteq DOMAIN b
    BY <2>1 DEF Typed, Counters, Flags, Sound
  <2>5. next = a \/ next = b
    BY DEF without, on
  <2> HIDE DEF next, a, b
  <2> QED BY <2>3, <2>4, <2>5
<1> HIDE DEF next
<1>3. /\ matched.queue = [q EXCEPT ![pos] = e] /\ matched.match_cnt = m + 1
      /\ matched.faults = {} /\ Typed(matched)
  BY <1>1, <1>2 DEF Typed, Counters, Flags
<1>4. e \in Nodes /\ e.matched /\ Read(e, h)
  <2>1. /\ e \in [frame_idx : Int, frames : [Streams -> Nat], matched : BOOLEAN,
                   expected_frame : BOOLEAN, unmatched_meta_idx : Nat]
        /\ e.frames = node.frames /\ e.frame_idx = node.frame_idx
        /\ e.unmatched_meta_idx = node.unmatched_meta_idx /\ e.matched
    BY DEF Nodes
  <2> HIDE DEF e
  <2> QED BY <2>1, Flagged, SamePlace
<1>5. Sound(matched)
  <2>1. Keeps(c, Match(c, f, pos, {}), {})
    BY <1>1, Completed
  <2>2. Match(c, f, pos, {}) = matched
    BY DEF Match, next
  <2> QED BY <2>1, <2>2 DEF Keeps
<1>6. d = IF older = {} THEN matched ELSE Discard(matched, Min(older)..(pos - 1))
  BY DEF Match, next
<1> HIDE DEF matched, e, d
<1> DEFINE r == d.queue
<1>7. /\ d.match_cnt = m + 1 /\ d.faults = {} /\ Typed(d)
      /\ r \in Seq(Nodes) /\ Len(r) = Len(q) - (pos - 1 - m)
      /\ \A i \in 1..Len(r) : r[i] = IF i <= m THEN q[i]
                                     ELSE IF i = m + 1 THEN e ELSE q[i + (pos - 1 - m)]
  <2> DEFINE u == matched.queue
  <2>0. /\ u \in Seq(Nodes) /\ Len(u) = Len(q) /\ DOMAIN u = 1..Len(q)
        /\ u[pos] = e /\ \A i \in 1..Len(q) : i # pos => u[i] = q[i]
    BY <1>1, <1>3, <1>5 DEF Sound
  <2>1. CASE older = {}
    <3>1. pos = m + 1
      BY <1>1, <2>1
    <3>2. r = u
      BY <1>6, <2>1
    <3> HIDE DEF u, r
    <3>3. Len(r) = Len(q) - (pos - 1 - m)
      BY <1>1, <2>0, <3>1, <3>2
    <3>4. ASSUME NEW i \in 1..Len(r)
          PROVE  r[i] = IF i <= m THEN q[i] ELSE IF i = m + 1 THEN e ELSE q[i + (pos - 1 - m)]
      <4>1. i \in 1..Len(q) /\ i + (pos - 1 - m) = i
        BY <1>1, <2>0, <3>1, <3>2
      <4> QED BY <1>1, <2>0, <3>1, <3>2, <4>1
    <3> QED BY <1>3, <1>6, <2>0, <2>1, <3>2, <3>3, <3>4
  <2>2. CASE older # {}
    <3> DEFINE a == m + 1
               b == pos - 1
               gone == a..b
               w == Without(u, gone)
    <3>1. a \in Nat /\ b \in Nat /\ a <= b /\ older = gone
      BY <1>1, <2>2
    <3>2. gone # {} /\ Min(gone) = a /\ Max(gone) = b
      <4> HIDE DEF a, b
      <4> QED BY <3>1, Bounds
    <3>3. d = Discard(matched, gone)
      BY <1>6, <2>2, <3>1, <3>2
    <3>4. gone \subseteq DOMAIN matched.queue
      BY <1>1, <2>0, <3>1
    <3> HIDE DEF u
    <3>5. d.match_cnt = m + 1 /\ d.faults = {} /\ Typed(d) /\ r = w
      <4>1. "match_cnt" \in DOMAIN matched
        BY <1>5 DEF Sound
      <4>2. Typed(matched)
        BY <1>3
      <4> HIDE DEF gone, w
      <4>3. /\ Typed(Discard(matched, gone)) /\ Discard(matched, gone).faults = matched.faults
            /\ Discard(matched, gone).queue = Without(matched.queue, gone)
            /\ Discard(matched, gone).match_cnt = matched.match_cnt
        BY <1>5, <3>4, <4>1, <4>2, DiscardedOnce
      <4> QED BY <1>3, <3>3, <4>3 DEF w, u
    <3>6. u \in Seq(Nodes) /\ a \in 1..Len(u) /\ pos \in (a + 1)..Len(u)
      BY <1>1, <2>0, <3>1
    <3> HIDE DEF a
    <3>7. /\ w \in Seq(Nodes) /\ Len(w) = Len(u) - (pos - a)
          /\ \A i \in 1..Len(w) : w[i] = u[Skipping(i, a, pos - a)]
      BY <3>6, CutUpTo, ZenonT(60)
    <3> HIDE DEF gone, w
    <3>8. pos - a = pos - 1 - m /\ pos - 1 - m \in Nat /\ a = m + 1
      BY <1>1, <3>1 DEF a
    <3> DEFINE j == pos - 1 - m
    <3>9. Len(w) = Len(q) - j
      BY <2>0, <3>7, <3>8
    <3>10. ASSUME NEW i \in 1..Len(w)
           PROVE  w[i] = IF i <= m THEN q[i] ELSE IF i = m + 1 THEN e ELSE q[i + j]
      <4>1. w[i] = u[IF i < a THEN i ELSE i + j]
        BY <3>7, <3>8 DEF Skipping
      <4>2. CASE i <= m
        <5>1. i \in 1..Len(q) /\ i # pos /\ i < a
          BY <1>1, <3>8, <4>2
        <5> QED BY <2>0, <4>1, <4>2, <5>1
      <4>3. CASE i = m + 1
        <5>1. i + j = pos /\ ~(i < a) /\ ~(i <= m)
          BY <1>1, <3>8, <4>3
        <5> HIDE DEF j
        <5> QED BY <2>0, <4>1, <4>3, <5>1
      <4>4. CASE i > m + 1
        <5>1. i + j \in 1..Len(q) /\ i + j # pos /\ ~(i < a) /\ ~(i <= m) /\ i # m + 1
          BY <1>1, <3>8, <3>9, <4>4
        <5> HIDE DEF j
        <5> QED BY <2>0, <4>1, <4>4, <5>1
      <4> QED BY <1>1, <4>2, <4>3, <4>4
    <3> QED BY <3>5, <3>7, <3>9, <3>10
  <2> QED BY <2>1, <2>2
<1> HIDE DEF r
<1>8. InOrder(r, m + 1, h)
  BY <1>4, <1>7, CompletedInOrder
<1>9. Len(r) - (m + 1) <= max_unmatched_frames + 1
  BY <1>1, <1>7, Bundle
<1> QED BY <1>7, <1>8, <1>9 DEF Tidy, r, d

\* An incomplete node changed: what it says and its place.
LEMMA GrownTidy ==
    ASSUME setup \in Setups, NEW c, Sound(c), NEW h, Tidy(c, h),
           NEW pos \in UnmatchedAt(c.queue), NEW e \in Nodes, ~e.matched, Read(e, h), Partial(e),
           \A i \in UnmatchedAt(c.queue) :
                /\ i < pos => Before(c.queue[i], e, h)
                /\ pos < i => Before(e, c.queue[i], h),
           NEW v \in Nat
    PROVE  Tidy([c EXCEPT !.queue[pos] = e, !.diverted_frame_id = v], h)
<1> DEFINE q == c.queue
           m == c.match_cnt
           d == [c EXCEPT !.queue[pos] = e, !.diverted_frame_id = v]
           r == [q EXCEPT ![pos] = e]
<1>1. /\ q \in Seq(Nodes) /\ Len(q) \in Nat /\ DOMAIN q = 1..Len(q) /\ m \in 0..Len(q)
      /\ InOrder(q, m, h) /\ UnmatchedAt(q) = (m + 1)..Len(q) /\ pos \in (m + 1)..Len(q)
  BY TidyAt
<1>2. /\ \A i \in (m + 1)..(pos - 1) : Before(q[i], e, h)
      /\ \A j \in (pos + 1)..Len(q) : Before(e, q[j], h)
  BY <1>1
<1>3. "diverted_frame_id" \in DOMAIN c /\ "queue" \in DOMAIN c
  BY DEF Tidy, Typed, Counters, Sound
<1>4. d.queue = r /\ d.match_cnt = m /\ d.faults = c.faults /\ Typed(d)
  BY <1>3 DEF Tidy, Typed, Counters, Flags
<1>5. Len(r) = Len(q)
  BY <1>1
<1> HIDE DEF q, m, r, d
<1>6. InOrder(r, m, h)
  BY <1>1, <1>2, ChangedInOrder DEF r
<1>7. c.faults = {} /\ Len(q) - m <= max_unmatched_frames + 1
  BY DEF Tidy, q, m
<1>8. Tidy(d, h)
  BY <1>4, <1>5, <1>6, <1>7 DEF Tidy
<1> QED BY <1>8 DEF d

\* The last frame of a node.
LEMMA FullTidy ==
    ASSUME setup \in Setups, NEW c, Sound(c), NEW h, Tidy(c, h), NEW f \in Nat \ {NONE},
           NEW pos \in UnmatchedAt(c.queue), NEW e \in Nodes, Whole(e), Read(e, h), ~e.matched,
           e.frame_idx <= f, NEW x, x \cap Total(c) = {},
           FramesOf(e) = FramesOf(c.queue[pos]) \cup x,
           \A i \in UnmatchedAt(c.queue) : i < pos => Before(c.queue[i], e, h),
           NEW older, older = {i \in UnmatchedAt(c.queue) : i < pos /\ c.queue[i].frame_idx < f}
    PROVE  Tidy(Match([c EXCEPT !.queue[pos] = e], f, pos, older), h)
<1> DEFINE q == c.queue
           m == c.match_cnt
           d == [c EXCEPT !.queue[pos] = e]
<1>1. /\ q \in Seq(Nodes) /\ Len(q) \in Nat /\ DOMAIN q = 1..Len(q) /\ m \in 0..Len(q)
      /\ InOrder(q, m, h) /\ UnmatchedAt(q) = (m + 1)..Len(q) /\ pos \in (m + 1)..Len(q)
      /\ pos \in DOMAIN q
  BY TidyAt
<1>2. /\ DOMAIN d = DOMAIN c /\ d.queue = [q EXCEPT ![pos] = e]
      /\ d.returned = c.returned /\ d.sent = c.sent /\ d.match_cnt = m
      /\ d.pending_cnt = c.pending_cnt /\ d.pending_retro_cnt = c.pending_retro_cnt
      /\ d.faults = {} /\ Typed(d)
  BY DEF Tidy, Sound, Typed, Counters, Flags
<1> HIDE DEF d
<1>3. d.match_cnt \in Int /\ pos \in DOMAIN c.queue
  BY <1>1, <1>2
<1>4. Sound(d)
  <2>1. Keeps(c, d, x)
    BY <1>2, <1>3, Altered
  <2> QED BY <2>1 DEF Keeps
<1>5. ASSUME NEW i \in UnmatchedAt(q), i < pos PROVE q[i].frame_idx < f
  <2>1. i \in 1..Len(q)
    BY <1>1
  <2> HIDE DEF q
  <2>2. q[i] \in Nodes /\ Before(q[i], e, h)
    BY <1>1, <1>5, <2>1 DEF q
  <2>3. q[i].frame_idx < e.frame_idx
    BY <2>2, WholeComesNext
  <2>4. q[i].frame_idx \in Int /\ e.frame_idx \in Int
    BY <2>2 DEF Nodes
  <2> QED BY <2>3, <2>4
<1>6. older = {i \in UnmatchedAt(q) : i < pos}
  BY <1>5
<1>7. older = (m + 1)..(pos - 1) /\ older \subseteq 1..(pos - 1)
  <2> HIDE DEF q, m
  <2>1. \A i : i \in UnmatchedAt(q) /\ i < pos <=> i \in (m + 1)..(pos - 1)
    BY <1>1
  <2>2. older = (m + 1)..(pos - 1)
    BY <1>6, <2>1
  <2> QED BY <1>1, <2>2
<1>8. Len(q) - m <= max_unmatched_frames + 1
  BY DEF Tidy
<1> HIDE DEF q, m
<1>9. f \in Nat
  OBVIOUS
<1>10. Tidy(Match(d, f, pos, older), h)
  BY <1>1, <1>2, <1>4, <1>7, <1>8, <1>9, MatchTidy
<1> QED BY <1>10 DEF d

LEMMA FillTidy ==
    ASSUME setup \in Setups, NEW l, NEW s, NEW f, NEW h, ReadNext(l, s, f, h),
           NEW c, Sound(c), Tidy(c, l), <<s, f>> \notin Total(c),
           NEW pos \in UnmatchedAt(c.queue), Fits(c.queue[pos], s, f),
           NEW older, older = {i \in UnmatchedAt(c.queue) : i < pos /\ c.queue[i].frame_idx < f},
           \A i \in UnmatchedAt(c.queue) : i < pos => ~Fits(c.queue[i], s, f)
    PROVE  Tidy(Fill(c, s, f, pos, older), h)
<1> DEFINE q == c.queue
           m == c.match_cnt
           node == q[pos]
           filled == FilledBy(node, s, f)
           diverted == c.diverted_frame_id = f
           wait == [filled EXCEPT !.expected_frame = @ \/ diverted]
           x == {<<s, f>>}
           v == IF diverted THEN 0 ELSE c.diverted_frame_id
           full == [c EXCEPT !.queue[pos] = filled]
           grown == [c EXCEPT !.queue[pos] = wait, !.diverted_frame_id = v]
<1>1. /\ q \in Seq(Nodes) /\ Len(q) \in Nat /\ DOMAIN q = 1..Len(q) /\ m \in 0..Len(q)
      /\ InOrder(q, m, l) /\ UnmatchedAt(q) = (m + 1)..Len(q)
  BY TidyAt
<1>2. /\ Typed(c) /\ c.faults = {} /\ Len(q) - m <= max_unmatched_frames + 1
  BY DEF Tidy
<1>3. /\ l \in [Streams -> Nat] /\ h \in [Streams -> Nat] /\ \A t \in Streams : l[t] <= h[t]
      /\ f \in Nat \ {NONE}
  BY DEF ReadNext
<1>4. Tidy(c, h)
  <2> HIDE DEF q, m
  <2>1. InOrder(q, m, h)
    BY <1>1, <1>3, InOrderLater
  <2> QED BY <1>2, <2>1 DEF Tidy, q, m
<1>5. ASSUME NEW i \in UnmatchedAt(q)
      PROVE  q[i] \in Nodes /\ ~q[i].matched /\ Partial(q[i]) /\ Read(q[i], l)
  <2>1. i \in 1..Len(q) /\ i > m /\ ~(i <= m)
    BY <1>1
  <2> HIDE DEF q, m
  <2> QED BY <1>1, <2>1 DEF InOrder
<1>6. node \in Nodes /\ ~node.matched /\ Partial(node) /\ Read(node, l) /\ Fits(node, s, f)
  BY <1>5
<1>7. /\ node.frames[s] = NONE
      /\ filled \in Nodes /\ ~filled.matched /\ Read(filled, h) /\ filled.frame_idx <= f
      /\ FramesOf(filled) = FramesOf(node) \cup x
      /\ ~Whole(filled) => Partial(filled)
      /\ \A k \in Nodes : Before(node, k, l) => Before(filled, k, h)
      /\ \A k \in Nodes :
            Partial(k) /\ Read(k, l) /\ ~Fits(k, s, f) /\ Before(k, node, l)
                => Before(k, filled, h)
  <2> HIDE DEF node
  <2> QED BY <1>6, FilledInPlace
<1>9. Fill(c, s, f, pos, older) = IF Whole(filled) THEN Match(full, f, pos, older) ELSE grown
  BY <1>7 DEF Fill, FilledBy, Reset
<1> HIDE DEF filled
<1>10. ASSUME NEW i \in UnmatchedAt(q)
       PROVE  /\ i < pos => Before(q[i], filled, h)
              /\ pos < i => Before(filled, q[i], h)
  <2>1. q[i] \in Nodes /\ Partial(q[i]) /\ Read(q[i], l)
    BY <1>5
  <2>2. i \in (m + 1)..Len(q) /\ pos \in (m + 1)..Len(q)
    BY <1>1
  <2>3. i < pos => ~Fits(q[i], s, f)
    OBVIOUS
  <2> HIDE DEF q, m
  <2>4. /\ i < pos => Before(q[i], node, l)
        /\ pos < i => Before(node, q[i], l)
    BY <1>1, <2>2 DEF InOrder
  <2> HIDE DEF node
  <2> QED BY <1>7, <2>1, <2>3, <2>4
<1> HIDE DEF x, q, m
<1>11. CASE ~Whole(filled)
  <2>1. /\ wait \in [frame_idx : Int, frames : [Streams -> Nat], matched : BOOLEAN,
                      expected_frame : BOOLEAN, unmatched_meta_idx : Nat]
        /\ wait.frames = filled.frames /\ wait.frame_idx = filled.frame_idx
        /\ wait.unmatched_meta_idx = filled.unmatched_meta_idx
        /\ wait.matched = filled.matched
    BY <1>7 DEF Nodes
  <2>2. v \in Nat
    BY <1>2 DEF Typed, Counters
  <2> HIDE DEF diverted, wait, v
  <2>3. wait \in Nodes /\ ~wait.matched
    BY <1>7, <2>1, Flagged
  <2>4. /\ Read(wait, h) /\ Partial(wait)
        /\ \A k : Before(filled, k, h) => Before(wait, k, h)
        /\ \A k : Before(k, filled, h) => Before(k, wait, h)
    BY <1>7, <1>11, <2>1, SamePlace
  <2>5. \A i \in UnmatchedAt(q) :
            /\ i < pos => Before(q[i], wait, h)
            /\ pos < i => Before(wait, q[i], h)
    BY <1>10, <2>4
  <2>6. Tidy(grown, h)
    BY <1>4, <2>2, <2>3, <2>4, <2>5, GrownTidy DEF q
  <2> QED BY <1>9, <1>11, <2>6
<1>12. CASE Whole(filled)
  <2>1. x \cap Total(c) = {} /\ FramesOf(filled) = FramesOf(c.queue[pos]) \cup x
    BY <1>7 DEF x, q
  <2>2. \A i \in UnmatchedAt(c.queue) : i < pos => Before(c.queue[i], filled, h)
    BY <1>10 DEF q
  <2>3. Tidy(Match(full, f, pos, older), h)
    BY <1>3, <1>4, <1>7, <1>12, <2>1, <2>2, FullTidy
  <2> QED BY <1>9, <1>12, <2>3
<1> QED BY <1>11, <1>12

\* Of two incomplete nodes too many one goes, and no link of a freed one is read.
LEMMA RoomTidy ==
    ASSUME setup \in Setups, NEW c, Sound(c), NEW l, Tidy(c, l),
           NEW older, older # {}, older \subseteq UnmatchedAt(c.queue), NEW newer
    PROVE  LET d == MakeRoom(c, older, newer)
           IN /\ Sound(d) /\ Tidy(d, l) /\ Len(d.queue) - d.match_cnt <= max_unmatched_frames
              /\ \A i \in UnmatchedAt(d.queue) :
                    \E j \in UnmatchedAt(c.queue) : d.queue[i] = c.queue[j]
<1> DEFINE q == c.queue
           m == c.match_cnt
           excess == Cardinality(UnmatchedAt(q)) - max_unmatched_frames
           free == {i \in Min(older)..Len(q) :
                       ~q[i].expected_frame /\ (newer # {} => i # Min(newer))}
           S == IF free # {} THEN free ELSE older
           k == Min(S)
           d == Discard(c, {k})
           e == [d EXCEPT !.faults = @ \cup IF free # {} /\ excess > 1 THEN {"freed"} ELSE {}]
           room == MakeRoom(c, older, newer)
<1>1. /\ q \in Seq(Nodes) /\ Len(q) \in Nat /\ DOMAIN q = 1..Len(q) /\ m \in 0..Len(q)
      /\ InOrder(q, m, l) /\ UnmatchedAt(q) = (m + 1)..Len(q)
      /\ excess = Len(q) - m - max_unmatched_frames /\ max_unmatched_frames \in Nat
  BY TidyAt
<1>2. Typed(c) /\ c.faults = {} /\ Len(q) - m <= max_unmatched_frames + 1
  BY DEF Tidy
<1>3. excess \in Int /\ excess <= 1
  <2> HIDE DEF q, m, excess
  <2> QED BY <1>1, <1>2
<1>4. k \in (m + 1)..Len(q)
  <2> HIDE DEF q, m
  <2>1. older \subseteq Nat /\ older \subseteq (m + 1)..Len(q)
    BY <1>1 DEF q
  <2>2. Min(older) \in (m + 1)..Len(q)
    BY <2>1, Least
  <2>3. free \subseteq (m + 1)..Len(q)
    BY <1>1, <2>2
  <2> HIDE DEF free
  <2>4. S # {} /\ S \subseteq (m + 1)..Len(q) /\ S \subseteq Nat
    BY <1>1, <2>1, <2>3
  <2> HIDE DEF S
  <2>5. Min(S) \in S
    BY <2>4, Least
  <2> QED BY <2>4, <2>5
<1>5. room = IF excess <= 0 THEN c ELSE e
  BY DEF MakeRoom
<1>6. Sound(room)
  <2>1. older \subseteq DOMAIN c.queue
    BY DEF UnmatchedAt
  <2> QED BY <2>1, RoomMade DEF Keeps
<1> HIDE DEF q, m, excess, free, S, k, room
<1> DEFINE r == Without(q, k..k)
           n == k - k + 1
<1>7. /\ r \in Seq(Nodes) /\ Len(r) = Len(q) - 1 /\ InOrder(r, m, l)
      /\ \A i \in 1..Len(r) : r[i] = q[IF i < k THEN i ELSE i + 1]
  <2>1. k \in 1..Len(q) /\ k \in k..Len(q) /\ k > m /\ k - k + 1 = 1
    BY <1>1, <1>4
  <2>2. r \in Seq(Nodes) /\ Len(r) = Len(q) - 1 /\ InOrder(r, m, l)
    <3>1. /\ r \in Seq(Nodes) /\ Len(r) = Len(q) - (k - k + 1)
          /\ InOrder(r, IF k > m THEN m ELSE m - (k - k + 1), l)
      BY <1>1, <2>1, CutInOrder
    <3> QED BY <2>1, <3>1
  <2>3. r = SubSeq(q, 1, k - 1) \o SubSeq(q, k + 1, Len(q))
    <3>0. k \in Nat /\ k <= k
      BY <1>1, <1>4
    <3>1. k..k # {} /\ Min(k..k) = k /\ Max(k..k) = k
      BY <3>0, Bounds
    <3> QED BY <3>1 DEF Without
  <2>4. k \in 1..Len(q) + 1 /\ k \in (k - 1)..Len(q)
    BY <1>1, <2>1
  <2> HIDE DEF r
  <2>5. \A i \in 1..Len(r) : r[i] = q[IF i < k THEN i ELSE i + (k - k + 1)]
    BY <1>1, <2>3, <2>4, CutAt
  <2>6. \A i \in 1..Len(r) : r[i] = q[IF i < k THEN i ELSE i + 1]
    <3>1. k - k + 1 = 1
      BY <2>1
    <3> HIDE DEF q, k
    <3> QED BY <2>5, <3>1
  <2> QED BY <2>2, <2>6
<1>8. /\ Typed(d) /\ DOMAIN d = DOMAIN c /\ d.queue = r /\ d.faults = {} /\ d.match_cnt = m
      /\ "faults" \in DOMAIN d
  <2>1. {k} \subseteq DOMAIN c.queue /\ {k} = k..k
    BY <1>1, <1>4 DEF q
  <2>2. "match_cnt" \in DOMAIN c
    BY DEF Sound
  <2> HIDE DEF d, r
  <2>3. /\ Typed(d) /\ DOMAIN d = DOMAIN c /\ d.queue = Without(c.queue, {k})
        /\ d.faults = c.faults /\ d.match_cnt = c.match_cnt
    BY <1>2, <2>1, <2>2, DiscardedOnce DEF d
  <2> QED BY <1>2, <2>1, <2>3 DEF r, m, q, Typed
<1> HIDE DEF d, r
<1>9. ASSUME excess = 1 PROVE e.queue = r /\ e.match_cnt = m /\ e.faults = {} /\ Typed(e)
  <2>1. (IF free # {} /\ excess > 1 THEN {"freed"} ELSE {}) = {}
    BY <1>9
  <2> QED BY <1>8, <2>1 DEF Typed, Counters, Flags
<1>10. CASE excess <= 0
  <2>1. room = c
    BY <1>5, <1>10
  <2>2. Len(q) - m <= max_unmatched_frames
    BY <1>1, <1>10
  <2> QED BY <1>6, <2>1, <2>2 DEF room, q, m
<1>11. CASE ~(excess <= 0)
  <2>1. excess = 1
    BY <1>3, <1>11
  <2> HIDE DEF e
  <2>2. room.queue = r /\ room.match_cnt = m /\ room.faults = {} /\ Typed(room)
    BY <1>5, <1>9, <1>11, <2>1
  <2>3. Len(r) - m <= max_unmatched_frames
    BY <1>1, <1>7, <2>1
  <2>4. Len(r) - m <= max_unmatched_frames + 1
    BY <1>1, <1>7, <2>3
  <2>5. Tidy(room, l)
    BY <1>7, <2>2, <2>4 DEF Tidy
  <2>6. ASSUME NEW i \in UnmatchedAt(r)
        PROVE  \E j \in UnmatchedAt(q) : r[i] = q[j]
    <3>1. i \in (m + 1)..Len(r)
      BY <1>7, InOrderAt
    <3>2. i \in 1..Len(r) /\ (IF i < k THEN i ELSE i + 1) \in (m + 1)..Len(q)
      BY <1>1, <1>4, <1>7, <3>1
    <3>3. r[i] = q[IF i < k THEN i ELSE i + 1]
      BY <1>7, <3>2
    <3> QED BY <1>1, <3>2, <3>3
  <2> QED BY <1>6, <2>2, <2>3, <2>5, <2>6 DEF room, q
<1> QED BY <1>10, <1>11

\* The node of a new frame.
LEMMA NewcomerTidy ==
    ASSUME setup \in Setups, NEW c, NEW s \in Streams, NEW f \in Nat \ {NONE},
           NEW h \in [Streams -> Nat], f <= h[s]
    PROVE  LET node == NewNode(c, s, f)
           IN node \in Nodes /\ Read(node, h) /\ IF Streams = {s} THEN node.matched
                                                 ELSE ~node.matched /\ Partial(node)
<1> DEFINE node == NewNode(c, s, f)
<1>1. node \in Nodes /\ (node.matched <=> Streams = {s}) /\ node.unmatched_meta_idx \in {0, f}
  <2>1. (node.matched <=> Streams = {s}) /\ node.unmatched_meta_idx \in {0, f}
    BY DEF NewNode
  <2> QED BY <2>1, Newcomer
<1>2. /\ node.frame_idx = f /\ node.frames[s] = f
      /\ \A t \in Streams : t # s => node.frames[t] = NONE
  BY DEF NewNode
<1>3. node.unmatched_meta_idx = IF LowPriority /\ s = Metadata THEN f ELSE 0
  BY DEF NewNode
<1> HIDE DEF node
<1>4. Metadata \in Streams /\ LowPriority \in BOOLEAN
  BY Bundle
<1>5. Read(node, h)
  BY <1>2 DEF Read, NONE
<1>6. ASSUME Streams # {s} PROVE Partial(node)
  <2>1. ~Whole(node)
    BY <1>2, <1>6 DEF Whole
  <2>2. node.frames[s] # NONE
    BY <1>2
  <2>3. node.frames[Metadata] # NONE => node.frame_idx <= node.frames[Metadata]
    BY <1>2, <1>4
  <2>4. node.unmatched_meta_idx > 0 =>
            node.unmatched_meta_idx = node.frame_idx
            /\ node.unmatched_meta_idx = node.frames[Metadata]
    BY <1>2, <1>3, <1>4
  <2>5. LowPriority /\ node.unmatched_meta_idx = 0 =>
            \E t \in Streams \ {Metadata} : node.frames[t] = node.frame_idx
    BY <1>2, <1>3, <1>4 DEF NONE
  <2> QED BY <2>1, <2>2, <2>3, <2>4, <2>5 DEF Partial
<1> QED BY <1>1, <1>5, <1>6 DEF node

\* A new node goes before those that wait for newer frames; in a channel of one
\* stream, where no node is ever incomplete, to the end.
LEMMA InsertTidy ==
    ASSUME setup \in Setups, NEW c, Sound(c), NEW s \in Streams, NEW f \in Nat \ {NONE},
           NEW h \in [Streams -> Nat], f <= h[s], Tidy(c, h),
           Len(c.queue) - c.match_cnt <= max_unmatched_frames,
           \A i \in UnmatchedAt(c.queue) : c.queue[i].frame_idx # f
    PROVE  Tidy(InsertNew(c, s, f), h)
<1> DEFINE q == c.queue
           m == c.match_cnt
           newer == {i \in UnmatchedAt(q) : q[i].frame_idx > f}
           k == IF newer # {} THEN Min(newer) ELSE Len(q) + 1
           node == NewNode(c, s, f)
           r == InsertAt(q, k, node)
           v == IF f \in {c.diverted_frame_id, c.good_frame_id} THEN 0 ELSE c.diverted_frame_id
           inserted == [c EXCEPT !.queue = r, !.diverted_frame_id = v]
           single == [inserted EXCEPT !.match_cnt = @ + 1,
                                      !.expected_frame_id = f + post_frame_skip]
<1>1. /\ q \in Seq(Nodes) /\ Len(q) \in Nat /\ DOMAIN q = 1..Len(q) /\ m \in 0..Len(q)
      /\ InOrder(q, m, h) /\ UnmatchedAt(q) = (m + 1)..Len(q) /\ max_unmatched_frames \in Nat
  BY TidyAt
<1>2. Typed(c) /\ c.faults = {}
  BY DEF Tidy
<1>3. /\ node \in Nodes /\ Read(node, h)
      /\ IF Streams = {s} THEN node.matched ELSE ~node.matched /\ Partial(node)
  BY NewcomerTidy
<1>4. node.frame_idx = f
  BY DEF NewNode
<1>5. InsertNew(c, s, f) = IF Streams # {s} THEN inserted ELSE single
  <2>1. inserted = [c EXCEPT
            !.queue = InsertAt(@, IF newer # {} THEN Min(newer) ELSE Len(@) + 1, node),
            !.diverted_frame_id = IF f \in {@, c.good_frame_id} THEN 0 ELSE @]
    <3> HIDE DEF newer, node
    <3> QED OBVIOUS
  <2> HIDE DEF inserted
  <2> QED BY <2>1 DEF InsertNew
<1>6. newer # {} => Min(newer) \in newer /\ \A i \in newer : Min(newer) <= i
  <2>1. newer \subseteq Nat
    BY <1>1
  <2> HIDE DEF newer
  <2> QED BY <2>1, Least
<1>7. k \in (m + 1)..(Len(q) + 1)
  <2>1. newer # {} => Min(newer) \in (m + 1)..Len(q)
    BY <1>1, <1>6
  <2> HIDE DEF newer, q, m
  <2> QED BY <1>1, <2>1
<1>8. v \in Nat /\ f + post_frame_skip \in Nat
  <2>1. post_frame_skip \in Nat
    BY SuperBufAssumption DEF post_frame_skip
  <2> QED BY <1>2, <2>1 DEF Typed, Counters
<1>9. ASSUME NEW i \in (m + 1)..Len(q) PROVE q[i] \in Nodes /\ q[i].frame_idx \in Nat
  <2>1. i \in 1..Len(q)
    BY <1>1
  <2> HIDE DEF q, m
  <2> QED BY <1>1, <2>1 DEF InOrder, Read
<1>10. ASSUME NEW i \in (m + 1)..(k - 1) PROVE Before(q[i], node, h)
  <2> DEFINE n == Len(q)
  <2>0. m \in Nat /\ n \in Nat /\ k \in (m + 1)..(n + 1) /\ i \in (m + 1)..(k - 1)
    <3> HIDE DEF newer, k, q
    <3>1. m \in Nat
      <4> HIDE DEF m
      <4> QED BY <1>1
    <3> QED BY <1>1, <1>7, <1>10, <3>1
  <2>1. i \in UnmatchedAt(q) /\ i < k /\ i \in (m + 1)..Len(q) /\ i \in Nat /\ k \in Nat
    <3> HIDE DEF k, q, m, n
    <3>1. i < k /\ i \in (m + 1)..n /\ i \in Nat /\ k \in Nat
      BY <2>0
    <3> QED BY <1>1, <3>1 DEF n
  <2>2. i \notin newer
    <3>1. newer # {} => Min(newer) = k
      OBVIOUS
    <3> HIDE DEF newer, k
    <3> QED BY <1>6, <2>1, <3>1
  <2>3. q[i].frame_idx # f /\ ~(q[i].frame_idx > f)
    BY <2>1, <2>2
  <2>4. q[i].frame_idx < f
    BY <1>9, <2>1, <2>3
  <2> QED BY <1>4, <2>4 DEF Before
<1>11. ASSUME NEW j \in k..Len(q) PROVE Before(node, q[j], h)
  <2>1. newer # {} /\ k \in newer
    <3>1. ~(k = Len(q) + 1)
      <4> HIDE DEF k, q
      <4> QED BY <1>1, <1>7
    <3> QED BY <1>6, <3>1
  <2>2. q[k].frame_idx > f /\ k \in (m + 1)..Len(q) /\ j \in (m + 1)..Len(q)
    <3>1. q[k].frame_idx > f /\ k \in UnmatchedAt(q)
      BY <2>1
    <3> HIDE DEF k, q, m
    <3> QED BY <1>1, <1>7, <3>1
  <2> HIDE DEF k, q, m, node
  <2>3. CASE j = k
    BY <1>4, <2>2, <2>3 DEF Before
  <2>4. CASE j # k
    <3>1. k < j
      BY <1>1, <1>7, <2>2, <2>4
    <3>2. Before(q[k], q[j], h)
      BY <1>1, <2>2, <3>1 DEF InOrder
    <3>3. q[k].frame_idx \in Nat /\ q[j].frame_idx \in Nat
      BY <1>9, <2>2
    <3> QED BY <1>4, <2>2, <3>2, <3>3 DEF Before
  <2> QED BY <2>3, <2>4
<1>12. r \in Seq(Nodes) /\ Len(r) = Len(q) + 1
  <2>1. k \in 1..Len(q) + 1
    <3> HIDE DEF k, q, m
    <3> QED BY <1>1, <1>7
  <2> HIDE DEF k, q, m, node
  <2> QED BY <1>1, <1>3, <2>1, PutAt
<1> HIDE DEF newer, r, v
<1>13. /\ inserted.queue = r /\ inserted.match_cnt = m /\ inserted.faults = {} /\ Typed(inserted)
       /\ {"match_cnt", "expected_frame_id"} \subseteq DOMAIN inserted
  <2>1. {"queue", "match_cnt", "expected_frame_id", "diverted_frame_id"} \subseteq DOMAIN c
    BY <1>2 DEF Typed, Counters, Sound
  <2> QED BY <1>2, <1>8, <2>1 DEF Typed, Counters, Flags
<1> HIDE DEF inserted
<1>14. CASE Streams # {s}
  <2> HIDE DEF k, q, m, node
  <2>1. InOrder(r, m, h)
    BY <1>1, <1>3, <1>7, <1>10, <1>11, <1>14, PutInOrder DEF r
  <2>2. Len(r) - m <= max_unmatched_frames + 1
    BY <1>1, <1>12 DEF q, m
  <2> QED BY <1>5, <1>13, <1>14, <2>1, <2>2 DEF Tidy
<1>15. CASE Streams = {s}
  <2>1. Len(q) <= m
    <3> SUFFICES ASSUME Len(q) > m PROVE FALSE
      BY <1>1
    <3>1. m + 1 \in 1..Len(q) /\ m + 1 > m
      BY <1>1
    <3> HIDE DEF q, m
    <3>2. Partial(q[m + 1])
      BY <1>1, <3>1 DEF InOrder
    <3> QED BY <1>15, <3>2 DEF Partial, Whole
  <2>2. k = m + 1 /\ Len(r) = m + 1
    <3> HIDE DEF k, q, m
    <3> QED BY <1>1, <1>7, <1>12, <2>1
  <2> HIDE DEF k, q, m, node
  <2>3. InOrder(r, k, h)
    BY <1>1, <1>3, <1>7, <1>15, <2>1, WholeInOrder DEF r
  <2>4. single.queue = r /\ single.match_cnt = k /\ single.faults = {} /\ Typed(single)
    BY <1>8, <1>13, <2>2 DEF Typed, Counters, Flags
  <2> HIDE DEF single
  <2>5. Len(r) - k <= max_unmatched_frames + 1
    BY <1>1, <2>2
  <2>6. Tidy(single, h)
    BY <2>3, <2>4, <2>5 DEF Tidy
  <2> QED BY <1>5, <1>15, <2>6
<1> QED BY <1>14, <1>15

\* The frames that the channel knew of do not change what is in order.
LEMMA LaterTidy ==
    ASSUME setup \in Setups, NEW l, NEW s, NEW f, NEW h, ReadNext(l, s, f, h),
           NEW c, Sound(c), Tidy(c, l)
    PROVE  Tidy(c, h)
<1>1. /\ l \in [Streams -> Nat] /\ h \in [Streams -> Nat] /\ \A t \in Streams : l[t] <= h[t]
  BY DEF ReadNext
<1>2. c.queue \in Seq(Nodes) /\ InOrder(c.queue, c.match_cnt, l)
  BY TidyAt
<1>3. InOrder(c.queue, c.match_cnt, h)
  BY <1>1, <1>2, InOrderLater
<1> QED BY <1>3 DEF Tidy

\* A frame that came in just now is not returned twice.
LEMMA ReturnTidy ==
    ASSUME NEW c, NEW h, Tidy(c, h), Sound(c), NEW x, x \cap c.returned = {}
    PROVE  Tidy(Return(c, x), h)
<1> DEFINE d == Return(c, x)
<1>1. {"queue", "match_cnt", "faults", "returned"} \subseteq DOMAIN c
  BY DEF Tidy, Typed, Sound
<1>2. /\ DOMAIN d = DOMAIN c /\ d.faults = c.faults
      /\ \A y \in DOMAIN c : y \notin {"returned", "faults"} => d[y] = c[y]
  BY <1>1 DEF Return
<1> HIDE DEF d
<1>3. d.queue = c.queue /\ d.match_cnt = c.match_cnt
  BY <1>1, <1>2
<1>4. Typed(d)
  BY <1>2 DEF Tidy, Typed, Counters, Flags
<1> QED BY <1>2, <1>3, <1>4, Retained DEF d

LEMMA PlaceTidy ==
    ASSUME setup \in Setups, NEW l, NEW s, NEW f, NEW h, ReadNext(l, s, f, h),
           NEW c, Sound(c), Tidy(c, l), <<s, f>> \notin Total(c)
    PROVE  Tidy(Place(c, s, f), h)
<1> DEFINE U == UnmatchedAt(c.queue)
           fits == {i \in U : Fits(c.queue[i], s, f)}
           pos == Min(fits)
           seen == {i \in U : fits # {} => i < pos}
           older == {i \in seen : c.queue[i].frame_idx < f}
           newer == {i \in seen : c.queue[i].frame_idx > f}
           room == MakeRoom(c, older, newer)
           x == {<<s, f>>}
<1>1. /\ s \in Streams /\ f \in Nat \ {NONE} /\ h \in [Streams -> Nat] /\ f <= h[s]
  BY DEF ReadNext
<1>2. /\ Len(c.queue) \in Nat /\ c.match_cnt \in Nat /\ U = (c.match_cnt + 1)..Len(c.queue)
      /\ Cardinality(U) = Len(c.queue) - c.match_cnt
  BY TidyAt
<1>3. Tidy(c, h)
  BY LaterTidy
<1>4. CASE fits # {}
  <2>1. pos \in fits /\ \A i \in fits : pos <= i
    <3>1. fits \subseteq Nat
      BY <1>2
    <3> HIDE DEF fits
    <3> QED BY <1>4, <3>1, Least
  <2>2. pos \in U /\ Fits(c.queue[pos], s, f)
    BY <2>1
  <2>3. ASSUME NEW i \in U, i < pos PROVE ~Fits(c.queue[i], s, f)
    <3> SUFFICES ASSUME Fits(c.queue[i], s, f) PROVE FALSE
      OBVIOUS
    <3>1. i \in fits
      OBVIOUS
    <3>2. pos <= i /\ pos \in Nat /\ i \in Nat
      BY <1>2, <2>1, <2>2, <3>1
    <3> HIDE DEF pos
    <3> QED BY <2>3, <3>2
  <2> HIDE DEF fits, pos
  <2>4. older = {i \in U : i < pos /\ c.queue[i].frame_idx < f}
    BY <1>4
  <2>5. Tidy(Fill(c, s, f, pos, older), h)
    <3> HIDE DEF older
    <3> QED BY <2>2, <2>3, <2>4, FillTidy
  <2> QED BY <1>4, <2>5 DEF Place, fits, pos
<1>5. CASE fits = {}
  <2>1. /\ seen = U /\ older = {i \in U : c.queue[i].frame_idx < f}
        /\ \A i \in U : c.queue[i].frame_idx # f
    BY <1>5 DEF Fits
  <2>2. Place(c, s, f) = IF older = {}
                         THEN IF Cardinality(seen) > max_unmatched_frames THEN Return(c, x)
                              ELSE InsertNew(c, s, f)
                         ELSE InsertNew(room, s, f)
    BY <1>5 DEF Place
  <2> HIDE DEF seen, older, newer, room, pos, fits
  <2>3. CASE older = {} /\ Cardinality(seen) > max_unmatched_frames
    <3>1. x \cap c.returned = {}
      BY DEF Total
    <3> HIDE DEF x
    <3>2. Tidy(Return(c, x), h)
      BY <1>3, <3>1, ReturnTidy
    <3> QED BY <2>2, <2>3, <3>2
  <2>4. CASE older = {} /\ ~(Cardinality(seen) > max_unmatched_frames)
    <3>1. Len(c.queue) - c.match_cnt <= max_unmatched_frames
      BY <1>2, <2>1, <2>4, Bundle
    <3>2. Tidy(InsertNew(c, s, f), h)
      BY <1>1, <1>3, <2>1, <3>1, InsertTidy
    <3> QED BY <2>2, <2>4, <3>2
  <2>5. CASE older # {}
    <3>1. older \subseteq UnmatchedAt(c.queue)
      BY <2>1
    <3>2. /\ Sound(room) /\ Tidy(room, h)
          /\ Len(room.queue) - room.match_cnt <= max_unmatched_frames
          /\ \A i \in UnmatchedAt(room.queue) : \E j \in U : room.queue[i] = c.queue[j]
      <4> DEFINE d == MakeRoom(c, older, newer)
      <4>1. /\ Sound(d) /\ Tidy(d, h) /\ Len(d.queue) - d.match_cnt <= max_unmatched_frames
            /\ \A i \in UnmatchedAt(d.queue) :
                  \E j \in UnmatchedAt(c.queue) : d.queue[i] = c.queue[j]
        <5> HIDE DEF x
        <5>1. Sound(d)
          BY <1>3, <2>5, <3>1, RoomTidy
        <5>2. Tidy(d, h)
          BY <1>3, <2>5, <3>1, RoomTidy
        <5>3. Len(d.queue) - d.match_cnt <= max_unmatched_frames
          BY <1>3, <2>5, <3>1, RoomTidy
        <5>4. \A i \in UnmatchedAt(d.queue) :
                  \E j \in UnmatchedAt(c.queue) : d.queue[i] = c.queue[j]
          BY <1>3, <2>5, <3>1, RoomTidy
        <5> QED BY <5>1, <5>2, <5>3, <5>4
      <4> HIDE DEF d, U
      <4> QED BY <4>1 DEF room, d, U
    <3>3. \A i \in UnmatchedAt(room.queue) : room.queue[i].frame_idx # f
      BY <2>1, <3>2
    <3>4. Tidy(InsertNew(room, s, f), h)
      BY <1>1, <3>2, <3>3, InsertTidy
    <3> QED BY <2>2, <2>5, <3>4
  <2> QED BY <2>3, <2>4, <2>5
<1> QED BY <1>4, <1>5

LEMMA EnqueuedTidy ==
    ASSUME setup \in Setups, NEW l, NEW s, NEW f, NEW h, ReadNext(l, s, f, h),
           NEW m, s = Metadata => Told(m), NEW c, Sound(c), Tidy(c, l), <<s, f>> \notin Total(c)
    PROVE  Tidy(mm_channel_superbuf_comp_and_enqueue(c, s, f, m), h)
<1> DEFINE informed == IF s = Metadata THEN mm_channel_handle_metadata(c, f, m) ELSE c
           x == {<<s, f>>}
<1>1. Tidy(informed, l)
  <2>1. f \in Nat
    BY DEF ReadNext
  <2> QED BY <2>1, InformedTidy
<1>2. Sound(informed) /\ <<s, f>> \notin Total(informed)
  <2>1. Keeps(c, informed, {})
    <3>1. Same(c, c)
      BY DEF Same
    <3> QED BY <3>1, Aside, Informed
  <2> QED BY <2>1 DEF Keeps
<1> HIDE DEF informed
<1>3. Tidy(Place(informed, s, f), h)
  BY <1>1, <1>2, PlaceTidy
<1>4. Tidy(Return(informed, x), h)
  <2>1. x \cap informed.returned = {}
    BY <1>2 DEF Total
  <2> HIDE DEF x
  <2>2. Tidy(informed, h)
    BY <1>1, <1>2, LaterTidy
  <2> QED BY <1>2, <2>1, <2>2, ReturnTidy
<1>5. mm_channel_superbuf_comp_and_enqueue(c, s, f, m) \in
        {Place(informed, s, f), Return(informed, x)}
  BY DEF mm_channel_superbuf_comp_and_enqueue, informed
<1> QED BY <1>3, <1>4, <1>5
--------------------------------------------------------------------------------
(* The end of a command, in order.                                         *)

LEMMA StartedTidy ==
    ASSUME NEW c, NEW l, Tidy(c, l)
    PROVE  Tidy(StartOrStopZsl(c), l)
<1> DEFINE start == [c EXCEPT !.startZSlSnapshotCalled = TRUE, !.burstSnapNum = c.pending_cnt,
                              !.bWaitForPrepSnapshotDone = FALSE]
           stop == [StopZsl(c) EXCEPT !.bWaitForPrepSnapshotDone = FALSE]
<1>1. c.pending_cnt \in Nat
  BY DEF Tidy, Typed, Counters
<1>2. /\ start.queue = c.queue /\ start.match_cnt = c.match_cnt /\ start.faults = c.faults
      /\ Typed(start)
  BY <1>1 DEF Tidy, Typed, Counters, Flags
<1>3. /\ stop.queue = c.queue /\ stop.match_cnt = c.match_cnt /\ stop.faults = c.faults
      /\ Typed(stop)
  BY DEF Tidy, Typed, Counters, Flags, StopZsl
<1> HIDE DEF start, stop
<1>4. Tidy(start, l) /\ Tidy(stop, l)
  BY <1>2, <1>3, Retained
<1> QED BY <1>4 DEF StartOrStopZsl, start, stop

\* Complete nodes taken from the head.
LEMMA HeadTaken ==
    ASSUME NEW q \in Seq(Nodes), NEW m, NEW l, InOrder(q, m, l), NEW n \in 0..m
    PROVE  LET r == SubSeq(q, n + 1, Len(q))
           IN r \in Seq(Nodes) /\ Len(r) = Len(q) - n /\ InOrder(r, m - n, l)
<1> DEFINE a == n + 1
           b == Len(q)
           r == SubSeq(q, a, b)
           at == [i \in 1..Len(r) |-> i + n]
<1>1. /\ m \in Nat /\ n \in Nat /\ n <= m /\ m <= b /\ b \in Nat /\ a = n + 1
      /\ \A i \in a..b : q[i] \in Nodes
  BY InOrderAt
<1> HIDE DEF a, b
<1>2. /\ r \in Seq(Nodes) /\ Len(r) = IF a <= b THEN b - a + 1 ELSE 0
      /\ \A i \in 1..b - a + 1 : r[i] = q[a + i - 1]
  BY <1>1, SubSeqProperties
<1> HIDE DEF r
<1>3. Len(r) = b - n /\ m - n \in 0..Len(r)
  BY <1>1, <1>2
<1>4. at \in [1..Len(r) -> 1..b]
  BY <1>1, <1>3
<1>5. ASSUME NEW i \in 1..Len(r) PROVE r[i] = q[at[i]] /\ (i <= m - n <=> at[i] <= m)
  <2>1. i \in 1..b - a + 1 /\ a + i - 1 = i + n /\ (i <= m - n <=> i + n <= m)
    BY <1>1, <1>3
  <2>2. at[i] = i + n
    OBVIOUS
  <2>3. r[i] = q[a + i - 1]
    BY <1>2, <2>1
  <2> HIDE DEF at
  <2> QED BY <2>1, <2>2, <2>3
<1>6. \A i, j \in 1..Len(r) : i < j => at[i] < at[j]
  BY <1>1, <1>3
<1> HIDE DEF at
<1>7. InOrder(r, m - n, l)
  <2> DEFINE k == m - n
  <2>1. k \in 0..Len(r) /\ \A i \in 1..Len(r) : r[i] = q[at[i]] /\ (i <= k <=> at[i] <= m)
    BY <1>3, <1>5
  <2> HIDE DEF k
  <2>2. InOrder(r, k, l)
    BY <1>2, <1>4, <1>6, <2>1, SomeInOrder DEF b
  <2> QED BY <2>2 DEF k
<1> QED BY <1>2, <1>3, <1>7 DEF a, b, r

LEMMA DispatchedTidy ==
    ASSUME setup \in Setups, NEW c, Sound(c), NEW l, Tidy(c, l), c.sent = <<>>
    PROVE  Tidy(Dispatch(c), l) /\ \A i \in DOMAIN Dispatch(c).sent : Read(Dispatch(c).sent[i], l)
<1> DEFINE n == ToSend(c)
           q == c.queue
           m == c.match_cnt
           rest == SubSeq(q, n + 1, Len(q))
           sent == SubSeq(q, 1, n)
           taken == [c EXCEPT !.queue = SubSeq(@, n + 1, Len(@)), !.match_cnt = @ - n,
                              !.sent = SubSeq(c.queue, 1, n)]
           pending == c.pending_cnt - n
           retro == IF c.pending_retro_cnt > 0 THEN c.pending_retro_cnt - n ELSE 0
           waits == c.pending_retro_cnt > 0 /\ n = c.pending_retro_cnt
           less == [taken EXCEPT !.pending_cnt = pending, !.pending_retro_cnt = retro,
                                 !.bWaitForPrepSnapshotDone = waits]
           counted == IF c.continuous THEN taken
                      ELSE [taken EXCEPT
                               !.pending_cnt = @ - n,
                               !.pending_retro_cnt = IF @ > 0 THEN @ - n ELSE 0,
                               !.bWaitForPrepSnapshotDone =
                                   c.pending_retro_cnt > 0 /\ n = c.pending_retro_cnt]
           stop == /\ ~c.continuous /\ (counted.pending_cnt = 0 \/ c.stopZslSnapshot)
                   /\ ~c.manualZSLSnapshot /\ c.startZSlSnapshotCalled
           d == IF stop THEN StopZsl(counted) ELSE counted
<1>1. /\ q \in Seq(Nodes) /\ Len(q) \in Nat /\ m \in 0..Len(q) /\ InOrder(q, m, l)
      /\ MatchedAt(q) = 1..m /\ max_unmatched_frames \in Nat
  BY TidyAt
<1>2. Typed(c) /\ c.faults = {} /\ Len(q) - m <= max_unmatched_frames + 1
      /\ c.pending_cnt \in Nat /\ c.pending_retro_cnt \in Nat
  BY DEF Tidy, Sound
<1>3. /\ n \in 0..m
      /\ ~c.continuous => pending \in Nat /\ retro \in Nat
  <2>1. /\ n \in 0..Len(q) /\ 1..n \subseteq 1..m
        /\ ~c.continuous => n <= c.pending_cnt /\ (c.pending_retro_cnt > 0 => n <= c.pending_retro_cnt)
    BY <1>1, Sendable
  <2> HIDE DEF n, q, m
  <2>2. n <= m
    <3> SUFFICES ASSUME n > m PROVE FALSE
      BY <1>1, <2>1
    <3>1. n \in 1..n
      BY <1>1, <2>1
    <3> QED BY <1>1, <2>1, <3>1
  <2> QED BY <1>1, <1>2, <2>1, <2>2
<1>4. Dispatch(c) = IF n = 0 THEN c ELSE d
  BY DEF Dispatch
<1> HIDE DEF n
<1>5. rest \in Seq(Nodes) /\ Len(rest) = Len(q) - n /\ InOrder(rest, m - n, l)
  <2> HIDE DEF q, m
  <2> QED BY <1>1, <1>3, HeadTaken
<1>6. Len(rest) - (m - n) = Len(q) - m
  <2> HIDE DEF q, m, rest
  <2> QED BY <1>1, <1>3, <1>5
<1>7. DOMAIN sent = 1..n /\ \A i \in 1..n : Read(sent[i], l)
  <2>1. n \in Nat /\ \A i \in 1..n : q[i] \in Nodes /\ Read(q[i], l)
    <3> HIDE DEF q, m
    <3>1. \A i \in 1..n : i \in 1..Len(q)
      BY <1>1, <1>3
    <3> QED BY <1>1, <1>3, <3>1 DEF InOrder
  <2>2. sent \in Seq(Nodes) /\ Len(sent) = n /\ \A i \in 1..n : sent[i] = q[1 + i - 1]
    BY <2>1, SubSeqProperties
  <2> HIDE DEF sent, q
  <2> QED BY <2>1, <2>2
<1> HIDE DEF rest, sent
<1>8. /\ taken.queue = rest /\ taken.match_cnt = m - n /\ taken.sent = sent
      /\ taken.faults = {} /\ Typed(taken) /\ DOMAIN taken = DOMAIN c
      /\ taken.pending_cnt = c.pending_cnt /\ taken.pending_retro_cnt = c.pending_retro_cnt
  BY <1>2 DEF Sound, Typed, Counters, Flags, rest, sent
<1> HIDE DEF taken
<1>9. counted = IF c.continuous THEN taken ELSE less
  BY <1>8
<1> HIDE DEF counted, q, m
<1>10. /\ counted.queue = rest /\ counted.match_cnt = m - n /\ counted.sent = sent
       /\ counted.faults = {} /\ Typed(counted)
  <2>1. waits \in BOOLEAN
    OBVIOUS
  <2> HIDE DEF pending, retro, waits
  <2>2. ASSUME ~c.continuous
        PROVE  /\ less.queue = rest /\ less.match_cnt = m - n /\ less.sent = sent
               /\ less.faults = {} /\ Typed(less)
    <3>1. pending \in Nat /\ retro \in Nat
      BY <1>3, <2>2
    <3> QED BY <1>8, <2>1, <3>1 DEF Typed, Counters, Flags
  <2> HIDE DEF less
  <2> QED BY <1>8, <1>9, <2>2
<1>11. /\ d.queue = rest /\ d.match_cnt = m - n /\ d.sent = sent
       /\ d.faults = {} /\ Typed(d)
  <2> DEFINE stopped == StopZsl(counted)
  <2>1. /\ stopped.queue = rest /\ stopped.match_cnt = m - n /\ stopped.sent = sent
        /\ stopped.faults = {} /\ Typed(stopped)
    BY <1>10 DEF Typed, Counters, Flags, StopZsl
  <2> HIDE DEF stopped, stop
  <2>2. d = stopped \/ d = counted
    BY DEF stopped
  <2> HIDE DEF d
  <2> QED BY <1>10, <2>1, <2>2
<1> HIDE DEF d
<1>12. Tidy(d, l)
  BY <1>2, <1>5, <1>6, <1>11 DEF Tidy
<1>13. CASE n = 0
  <2>1. DOMAIN <<>> = {}
    OBVIOUS
  <2> QED BY <1>4, <1>13, <2>1
<1>14. CASE n # 0
  BY <1>4, <1>7, <1>11, <1>12, <1>14
<1> QED BY <1>13, <1>14

\* A command that ends in the dispatch.
LEMMA FinishedTidy ==
    ASSUME setup \in Setups, NEW c, NEW x, Keeps(Fresh, c, x), Inv, NEW l, Tidy(c, l)
    PROVE  Tidy(Finish(c), l) /\ \A i \in DOMAIN Finish(c).sent : Read(Finish(c).sent[i], l)
<1> DEFINE started == StartOrStopZsl(c)
           trimmed == mm_channel_superbuf_bufdone_overflow(started)
<1>1. Keeps(c, started, {}) /\ Tidy(started, l)
  BY Started, StartedTidy DEF Keeps
<1> HIDE DEF started
<1>2. Keeps(started, trimmed, {}) /\ Tidy(trimmed, l)
  BY <1>1, Bundle, Trimmed, TrimmedTidy DEF Keeps, mm_channel_superbuf_bufdone_overflow
<1> HIDE DEF trimmed
<1>3. Sound(trimmed) /\ trimmed.sent = <<>>
  <2>1. Fresh.sent = <<>>
    BY FreshIsSound
  <2> QED BY <1>1, <1>2, <2>1 DEF Keeps
<1>4. Tidy(Dispatch(trimmed), l)
      /\ \A i \in DOMAIN Dispatch(trimmed).sent : Read(Dispatch(trimmed).sent[i], l)
  BY <1>2, <1>3, DispatchedTidy
<1> QED BY <1>4 DEF Finish, trimmed, started

LEMMA FreshIsTidy ==
    ASSUME Inv, NEW l, Tidy(ch, l)
    PROVE  Tidy(Fresh, l)
<1>1. /\ Fresh.queue = ch.queue /\ Fresh.match_cnt = ch.match_cnt /\ Fresh.faults = ch.faults
      /\ Typed(Fresh)
  BY DEF Fresh, Tidy, Typed, Counters, Flags
<1> QED BY <1>1, Retained
--------------------------------------------------------------------------------
(* The commands, in order.                                                 *)

LEMMA DataOrdered ==
    ASSUME OrderInv, NEW s \in Streams, Data(s)
    PROVE  last' \in [Streams -> 0..MaxFrame] /\ Ordered(ch', last')
<1> DEFINE S == {last[s] + 2, MaxFrame}
           top == Min(S)
           M == IF s = Metadata THEN Contents ELSE {[good |-> ABSENT, prep |-> "NO"]}
           queued(f, m) == mm_channel_superbuf_comp_and_enqueue(Fresh, s, f, m)
<1>1. setup \in Setups /\ Inv /\ last \in [Streams -> 0..MaxFrame] /\ Tidy(ch, last)
      /\ MaxFrame \in Nat /\ last \in [Streams -> Nat] /\ last[s] \in Nat
  <2>1. MaxFrame \in Nat
    BY SuperBufAssumption DEF MaxFrame, OrderInv, Inv
  <2> QED BY <2>1 DEF OrderInv, Ordered, Inv
<1>2. top \in Nat /\ top <= MaxFrame
  <2>1. S \subseteq Nat /\ S # {} /\ MaxFrame \in S
    BY <1>1
  <2> HIDE DEF S
  <2> QED BY <1>1, <2>1, Least
<1>3. PICK f \in (last[s] + 1)..top : \E m \in M :
            ch' = Finish(queued(f, m)) /\ last' = [last EXCEPT ![s] = f]
  <2> HIDE DEF queued
  <2> QED BY DEF Data, queued
<1> HIDE DEF top
<1>4. PICK m \in M : ch' = Finish(queued(f, m)) /\ last' = [last EXCEPT ![s] = f]
  BY <1>3
<1>5. f \in Nat \ {NONE} /\ f > last[s] /\ f <= MaxFrame
  BY <1>1, <1>2 DEF NONE
<1>6. s = Metadata => Told(m)
  <2> SUFFICES ASSUME s = Metadata PROVE Told(m)
    OBVIOUS
  <2>1. m \in Contents
    OBVIOUS
  <2>2. Goods \subseteq Nat /\ Diverts \subseteq Int
    BY <1>1, SuperBufAssumption DEF Goods, Diverts
  <2>3. m.good \in Goods \cup {ABSENT} /\ m.divert \in Diverts \cup {ABSENT}
    BY <2>1 DEF Contents
  <2>4. ABSENT \in Int
    BY DEF ABSENT
  <2> QED BY <2>2, <2>3, <2>4 DEF Told
<1>7. last' \in [Streams -> 0..MaxFrame]
  BY <1>1, <1>4, <1>5
<1>8. ReadNext(last, s, f, last')
  BY <1>1, <1>4, <1>5 DEF ReadNext
<1>9. Sound(Fresh) /\ Tidy(Fresh, last) /\ <<s, f>> \notin Total(Fresh)
  <2>1. <<s, f>> \in Held(ch.queue) => f <= last[s]
    BY <1>1, <1>5 DEF Inv
  <2> QED BY <1>1, <1>5, <2>1, FreshIsSound, FreshIsTidy
<1> HIDE DEF M
<1>10. Keeps(Fresh, queued(f, m), {<<s, f>>})
  BY <1>1, <1>5, <1>9, Enqueued
<1>11. Tidy(queued(f, m), last')
  BY <1>1, <1>6, <1>8, <1>9, EnqueuedTidy
<1> HIDE DEF queued
<1>12. Ordered(Finish(queued(f, m)), last')
  BY <1>1, <1>10, <1>11, FinishedTidy DEF Ordered
<1> QED BY <1>4, <1>7, <1>12

LEMMA CommandOrdered ==
    ASSUME OrderInv,
           RequestSuperBuf \/ FlushQueue \/ AeBracketing \/ FlashBracketing \/ ZoomToOne
           \/ ManualZsl \/ ConfigNotify
    PROVE  Ordered(ch', last)
<1> DEFINE flushed == mm_channel_superbuf_flush(Fresh)
<1>1. setup \in Setups /\ Inv /\ Sound(Fresh) /\ Fresh.sent = <<>> /\ Tidy(Fresh, last)
  BY FreshIsSound, FreshIsTidy DEF OrderInv, Ordered, Inv
<1>2. ASSUME NEW c, Keeps(Fresh, c, {}), Tidy(c, last), Command(Finish(c))
      PROVE  Ordered(ch', last)
  BY <1>1, <1>2, FinishedTidy DEF Command, Ordered
<1>3. Keeps(Fresh, flushed, {}) /\ Sound(flushed) /\ Tidy(flushed, last)
  BY <1>1, Flushed, FlushedTidy DEF Keeps
<1> HIDE DEF flushed
<1>4. ASSUME NEW c, Same(flushed, c), Tidy(c, last), Command(Finish(c))
      PROVE  Ordered(ch', last)
  <2>1. Keeps(flushed, c, {})
    BY <1>3, <1>4, Aside
  <2>2. Keeps(Fresh, c, {})
    BY <1>3, <2>1 DEF Keeps
  <2> QED BY <1>2, <1>4, <2>2
<1>5. ASSUME NEW c, Same(Fresh, c), Tidy(c, last), Command(Finish(c))
      PROVE  Ordered(ch', last)
  <2>1. Keeps(Fresh, c, {})
    BY <1>1, <1>5, Aside
  <2> QED BY <1>2, <1>5, <2>1
<1>6. CASE RequestSuperBuf
  <2> DEFINE retro(r) == IF r[1] = 0 \/ r[2] > r[1] THEN r[1] ELSE r[2]
             asked(r) == [Fresh EXCEPT !.pending_cnt = r[1], !.pending_retro_cnt = retro(r),
                                       !.bWaitForPrepSnapshotDone = FALSE,
                                       !.needLEDFlash = @ /\ retro(r) = 0,
                                       !.stopZslSnapshot = FALSE]
  <2>1. PICK r \in Requests : Command(Finish(mm_channel_superbuf_skip(asked(r))))
    BY <1>6 DEF RequestSuperBuf
  <2> DEFINE c == asked(r)
  <2>2. r[1] \in Nat /\ retro(r) \in Nat
    BY <1>1, Bundle
  <2>3. /\ DOMAIN c = DOMAIN Fresh /\ c.queue = Fresh.queue /\ c.returned = Fresh.returned
        /\ c.sent = Fresh.sent /\ c.match_cnt = Fresh.match_cnt
        /\ c.pending_cnt = r[1] /\ c.pending_retro_cnt = retro(r)
    <3> HIDE DEF retro
    <3> QED BY <1>1 DEF Sound
  <2>4. c.faults = Fresh.faults /\ Typed(c)
    <3>1. (retro(r) = 0) \in BOOLEAN
      OBVIOUS
    <3> HIDE DEF retro
    <3> QED BY <1>1, <2>2, <3>1 DEF Tidy, Typed, Counters, Flags
  <2> HIDE DEF retro, asked
  <2>5. Sound(c) /\ Keeps(Fresh, c, {}) /\ Tidy(c, last)
    <3>1. Sound(c)
      BY <1>1, <2>2, <2>3 DEF Sound
    <3>2. Tidy(c, last)
      BY <1>1, <2>3, <2>4, Retained
    <3> QED BY <2>3, <3>1, <3>2 DEF Keeps, Total
  <2> DEFINE d == mm_channel_superbuf_skip(c)
  <2>6. Keeps(c, d, {}) /\ Tidy(d, last)
    BY <1>1, <2>5, Bundle, Trimmed, TrimmedTidy DEF mm_channel_superbuf_skip
  <2> HIDE DEF d
  <2>7. Keeps(Fresh, d, {})
    BY <2>5, <2>6 DEF Keeps
  <2> QED BY <1>2, <2>1, <2>6, <2>7 DEF d
<1>7. CASE FlushQueue
  <2> DEFINE c(f) == [Fresh EXCEPT !.expected_frame_id = f]
  <2>1. PICK f \in Flushes : Command(mm_channel_superbuf_flush(c(f)))
    BY <1>7 DEF FlushQueue, FlushUntil
  <2>2. Same(Fresh, c(f))
    BY <1>1 DEF Same, Sound
  <2>3. Tidy(c(f), last)
    <3>1. f \in Nat
      BY <1>1, SuperBufAssumption DEF Flushes
    <3> QED BY <1>1, <3>1, SetTidy DEF Counters
  <2> HIDE DEF c
  <2>4. Sound(c(f)) /\ Keeps(Fresh, c(f), {})
    BY <1>1, <2>2, Aside DEF Keeps
  <2> DEFINE d == mm_channel_superbuf_flush(c(f))
  <2>5. Keeps(c(f), d, {}) /\ Tidy(d, last)
    BY <1>1, <2>3, <2>4, Flushed, FlushedTidy
  <2> HIDE DEF d
  <2>6. d.sent = <<>> /\ DOMAIN <<>> = {}
    BY <1>1, <2>4, <2>5 DEF Keeps
  <2>7. DOMAIN d.sent = {}
    BY <2>6
  <2> QED BY <2>1, <2>5, <2>7 DEF Command, Ordered, d
<1>8. CASE AeBracketing
  <2> DEFINE c(state) == [flushed EXCEPT !.bracketingState = state]
  <2>1. PICK state \in {"WAIT_GOOD_FRAME_IDX", "OFF"} : Command(Finish(c(state)))
    BY <1>8 DEF AeBracketing, flushed
  <2>2. Same(flushed, c(state))
    BY <1>3 DEF Same, Sound
  <2>3. Tidy(c(state), last)
    BY <1>3, SetTidy
  <2> QED BY <1>4, <2>1, <2>2, <2>3
<1>9. CASE FlashBracketing
  <2> DEFINE c(start) == [flushed EXCEPT !.isFlashBracketingEnabled = start]
  <2>1. PICK start \in BOOLEAN : Command(Finish(c(start)))
    BY <1>9 DEF FlashBracketing, flushed
  <2>2. Same(flushed, c(start))
    BY <1>3 DEF Same, Sound
  <2>3. Tidy(c(start), last)
    BY <1>3, SetTidy DEF Flags
  <2> QED BY <1>4, <2>1, <2>2, <2>3
<1>10. CASE ZoomToOne
  <2> DEFINE c(start) == [flushed EXCEPT !.isZoom1xFrameRequested = start]
  <2>1. PICK start \in BOOLEAN : Command(Finish(c(start)))
    BY <1>10 DEF ZoomToOne, flushed
  <2>2. Same(flushed, c(start))
    BY <1>3 DEF Same, Sound
  <2>3. Tidy(c(start), last)
    BY <1>3, SetTidy DEF Flags
  <2> QED BY <1>4, <2>1, <2>2, <2>3
<1>11. CASE ManualZsl
  <2> DEFINE c(start) == [Fresh EXCEPT !.manualZSLSnapshot = start]
  <2>1. PICK start \in BOOLEAN : Command(Finish(c(start)))
    BY <1>11 DEF ManualZsl
  <2>2. Same(Fresh, c(start))
    BY <1>1 DEF Same, Sound
  <2>3. Tidy(c(start), last)
    BY <1>1, SetTidy DEF Flags
  <2> QED BY <1>5, <2>1, <2>2, <2>3
<1>12. CASE ConfigNotify
  <2> DEFINE c(continuous) == [Fresh EXCEPT !.continuous = continuous]
  <2>1. PICK continuous \in BOOLEAN : Command(Finish(c(continuous)))
    BY <1>12 DEF ConfigNotify
  <2>2. Same(Fresh, c(continuous))
    BY <1>1 DEF Same, Sound
  <2>3. Tidy(c(continuous), last)
    BY <1>1, SetTidy DEF Flags
  <2> QED BY <1>5, <2>1, <2>2, <2>3
<1> QED BY <1>6, <1>7, <1>8, <1>9, <1>10, <1>11, <1>12
--------------------------------------------------------------------------------
(* The invariant with the order and what follows from it.                  *)

LEMMA OrderInvInit == Init => OrderInv
<1> SUFFICES ASSUME Init PROVE OrderInv
  OBVIOUS
<1>1. Inv /\ setup \in Setups
  BY InvInit DEF Init
<1>2. last = [s \in Streams |-> 0] /\ ch.queue = <<>> /\ ch.sent = <<>>
      /\ ch.match_cnt = 0 /\ ch.faults = {}
  BY DEF Init
<1>3. Typed(ch)
  <2>1. Continuous \in BOOLEAN
    BY <1>1, SuperBufAssumption DEF Continuous
  <2> QED BY <2>1 DEF Init, Typed, Counters, Flags
<1>4. MaxFrame \in Nat /\ max_unmatched_frames \in Nat
  BY <1>1, SuperBufAssumption, Bundle DEF MaxFrame
<1>5. last \in [Streams -> 0..MaxFrame]
  BY <1>2, <1>4
<1>6. InOrder(<<>>, 0, last) /\ Len(<<>>) = 0 /\ DOMAIN <<>> = {}
  BY DEF InOrder
<1>7. Tidy(ch, last)
  BY <1>2, <1>3, <1>4, <1>6 DEF Tidy
<1> QED BY <1>1, <1>2, <1>5, <1>6, <1>7 DEF OrderInv, Ordered

LEMMA SameOrder ==
    ASSUME setup' = setup
    PROVE  MaxFrame' = MaxFrame /\ Streams' = Streams /\ \A c, l : Ordered(c, l)' <=> Ordered(c, l)
<1>1. /\ Streams' = Streams /\ Metadata' = Metadata /\ LowPriority' = LowPriority
      /\ MaxFrame' = MaxFrame /\ max_unmatched_frames' = max_unmatched_frames
  BY DEF Streams, Metadata, LowPriority, MaxFrame, max_unmatched_frames
<1>2. \A n, l : Read(n, l)' <=> Read(n, l)
  BY <1>1 DEF Read
<1>3. \A n : Partial(n)' <=> Partial(n)
  BY <1>1 DEF Partial, Whole
<1>4. \A n, k, l : Before(n, k, l)' <=> Before(n, k, l)
  BY <1>1 DEF Before, Doomed
<1>5. \A q, m, l : InOrder(q, m, l)' <=> InOrder(q, m, l)
  BY <1>2, <1>3, <1>4 DEF InOrder
<1>6. \A c, l : Tidy(c, l)' <=> Tidy(c, l)
  BY <1>1, <1>5 DEF Tidy, Typed, Counters, Flags
<1> QED BY <1>1, <1>2, <1>6 DEF Ordered

LEMMA OrderInvNext == OrderInv /\ [Next]_vars => OrderInv'
<1> SUFFICES ASSUME OrderInv, [Next]_vars PROVE OrderInv'
  OBVIOUS
<1>1. Inv /\ Inv' /\ last \in [Streams -> 0..MaxFrame] /\ Ordered(ch, last)
  BY InvNext DEF OrderInv
<1>2. CASE Next
  <2>1. setup' = setup
    BY <1>1, <1>2, Step
  <2>2. last' \in [Streams -> 0..MaxFrame] /\ Ordered(ch', last')
    <3>1. ASSUME NEW s \in Streams, Data(s)
          PROVE  last' \in [Streams -> 0..MaxFrame] /\ Ordered(ch', last')
      BY <3>1, DataOrdered
    <3>2. ASSUME RequestSuperBuf \/ FlushQueue \/ AeBracketing \/ FlashBracketing \/ ZoomToOne
                 \/ ManualZsl \/ ConfigNotify
          PROVE  last' \in [Streams -> 0..MaxFrame] /\ Ordered(ch', last')
      <4>1. last' = last /\ Ordered(ch', last)
        BY <1>1, <3>2, CommandStep, CommandOrdered
      <4> QED BY <1>1, <4>1
    <3> QED BY <1>2, <3>1, <3>2 DEF Next
  <2>3. Ordered(ch, last)' /\ last' \in [Streams' -> 0..MaxFrame']
    BY <2>1, <2>2, SameOrder
  <2> QED BY <1>1, <2>3 DEF OrderInv
<1>3. CASE UNCHANGED vars
  <2>1. setup' = setup /\ ch' = ch /\ last' = last
    BY <1>3 DEF vars
  <2>2. Ordered(ch, last)' /\ last' \in [Streams' -> 0..MaxFrame']
    BY <1>1, <2>1, SameOrder
  <2> QED BY <1>1, <2>2 DEF OrderInv
<1> QED BY <1>2, <1>3

LEMMA OrderedQueue == OrderInv => QueueInOrder
<1> SUFFICES ASSUME OrderInv PROVE QueueInOrder
  OBVIOUS
<1>1. /\ setup \in Setups /\ Sound(ch) /\ last \in [Streams -> 0..MaxFrame] /\ Tidy(ch, last)
      /\ ch.sent \in Seq(Nodes) /\ \A i \in DOMAIN ch.sent : Read(ch.sent[i], last)
  BY DEF OrderInv, Ordered, Inv
<1>2. /\ ch.queue \in Seq(Nodes) /\ ch.match_cnt \in 0..Len(ch.queue) /\ Len(ch.queue) \in Nat
      /\ DOMAIN ch.queue = 1..Len(ch.queue) /\ InOrder(ch.queue, ch.match_cnt, last)
      /\ Cardinality(MatchedAt(ch.queue)) = ch.match_cnt
      /\ Cardinality(UnmatchedAt(ch.queue)) = Len(ch.queue) - ch.match_cnt
      /\ MatchedAhead(ch) = ch.match_cnt
  BY <1>1, TidyAt
<1>3. Typed(ch) /\ ch.faults = {} /\ Len(ch.queue) - ch.match_cnt <= max_unmatched_frames + 1
  BY <1>1 DEF Tidy
<1>4. ASSUME NEW n \in Nodes, Read(n, last) PROVE n \in Node
  <2>1. MaxFrame \in Nat
    BY <1>1, SuperBufAssumption DEF MaxFrame
  <2>2. /\ n \in [frame_idx : Int, frames : [Streams -> Nat], matched : BOOLEAN,
                  expected_frame : BOOLEAN, unmatched_meta_idx : Nat]
        /\ n.frame_idx \in Nat /\ \A t \in Streams : n.frames[t] <= last[t]
    BY <1>4 DEF Nodes, Read
  <2>3. n.frames \in [Streams -> 0..MaxFrame]
    BY <1>1, <2>1, <2>2
  <2> QED BY <2>2, <2>3 DEF Node
<1>5. \A i \in DOMAIN ch.queue : ch.queue[i] \in Node
  <2> SUFFICES ASSUME NEW i \in 1..Len(ch.queue) PROVE ch.queue[i] \in Node
    BY <1>2
  <2>1. ch.queue[i] \in Nodes /\ Read(ch.queue[i], last)
    BY <1>2 DEF InOrder
  <2> QED BY <1>4, <2>1
<1>6. \A i \in DOMAIN ch.sent : ch.sent[i] \in Node
  <2> SUFFICES ASSUME NEW i \in DOMAIN ch.sent PROVE ch.sent[i] \in Node
    OBVIOUS
  <2>1. ch.sent[i] \in Nodes /\ Read(ch.sent[i], last)
    BY <1>1
  <2> QED BY <1>4, <2>1
<1>7. {ch.match_cnt, ch.expected_frame_id, ch.expected_frame_id_without_led,
       ch.led_off_start_frame_id, ch.frame_skip_count, ch.good_frame_id, ch.pending_cnt,
       ch.pending_retro_cnt, ch.burstSnapNum, ch.diverted_frame_id} \subseteq Nat
  BY <1>2, <1>3 DEF Typed, Counters
<1>8. {ch.once, ch.continuous, ch.bWaitForPrepSnapshotDone, ch.needLEDFlash,
       ch.startZSlSnapshotCalled, ch.manualZSLSnapshot, ch.stopZslSnapshot,
       ch.isFlashBracketingEnabled, ch.isZoom1xFrameRequested} \subseteq BOOLEAN
  BY <1>3 DEF Typed, Flags
<1>9. TypeOK
  BY <1>1, <1>3, <1>5, <1>6, <1>7, <1>8 DEF TypeOK, Typed
<1> QED BY <1>2, <1>3, <1>9 DEF QueueInOrder

\* The queue stays what the dispatch and the trims take it for: match_cnt is the
\* number of complete superbufs, all of them at the head, a bounded number of
\* incomplete ones follows, and no loop of mm_channel.c over the queue fails to
\* end, returns a frame twice or follows the link of a freed node.
THEOREM SuperBufQueueInOrder == Spec => []QueueInOrder
<1>1. Init => OrderInv
  BY OrderInvInit
<1>2. OrderInv /\ [Next]_vars => OrderInv'
  BY OrderInvNext
<1>3. OrderInv => QueueInOrder
  BY OrderedQueue
<1> QED BY <1>1, <1>2, <1>3, PTL DEF Spec
--------------------------------------------------------------------------------
(* No frame from before the flash.                                         *)

\* The channel that NoFrameBeforeFlash is about: pictures one at a time, no
\* flush on focus, no generic command.
Plain == (\A r \in Requests : r[1] <= 1) /\ Flushes = {} /\ Generics = {}

\* The bundle of the metadata stream only.
Alone == Streams = {Metadata}

\* The nodes whose frames are not before fl.  Those of a stream alone are
\* complete at once.
NodesFrom(fl) == {n \in Nodes : n.frame_idx >= fl /\ (Alone => n.matched)}

\* The modes that only bursts and generic commands change.
Single(c) ==
    /\ c.pending_cnt <= 1 /\ c.burstSnapNum <= 1
    /\ c.bracketingState # "WAIT_GOOD_FRAME_IDX"
    /\ ~c.isFlashBracketingEnabled /\ ~c.isZoom1xFrameRequested

\* A channel that keeps, and will take, no frame before fl.
From(c, fl) ==
    /\ Single(c)
    /\ c.expected_frame_id >= fl
    /\ c.queue \in Seq(NodesFrom(fl))

\* The fields that From looks at, besides the queue, are the same.
SameModes(c, d) ==
    /\ d.pending_cnt = c.pending_cnt /\ d.burstSnapNum = c.burstSnapNum
    /\ d.bracketingState = c.bracketingState
    /\ d.isFlashBracketingEnabled = c.isFlashBracketingEnabled
    /\ d.isZoom1xFrameRequested = c.isZoom1xFrameRequested
    /\ d.expected_frame_id = c.expected_frame_id

FloorInv ==
    /\ OrderInv
    /\ floor \in Nat
    /\ Plain => /\ From(ch, floor)
                /\ ch.sent \in Seq(NodesFrom(floor))
                /\ Alone => ch.expected_frame_id >= last[Metadata]

LEMMA WithoutIn ==
    ASSUME NEW S, NEW q \in Seq(S), NEW gone,
           gone = {} \/ \E a \in 1..Len(q) : \E b \in a..Len(q) : gone = a..b
    PROVE  Without(q, gone) \in Seq(S)
<1>1. CASE gone = {}
  BY <1>1 DEF Without
<1>2. ASSUME NEW a \in 1..Len(q), NEW b \in a..Len(q), gone = a..b
      PROVE  Without(q, gone) \in Seq(S)
  <2>1. Len(q) \in Nat /\ a \in Nat /\ b \in Nat /\ a <= b
    OBVIOUS
  <2>2. gone # {} /\ Min(gone) = a /\ Max(gone) = b
    BY <1>2, <2>1, Bounds
  <2>3. Without(q, gone) = SubSeq(q, 1, a - 1) \o SubSeq(q, b + 1, Len(q))
    BY <2>2 DEF Without
  <2>4. a \in 1..Len(q) + 1 /\ b \in (a - 1)..Len(q)
    BY <2>1
  <2> QED BY <2>3, <2>4, CutAt
<1> QED BY <1>1, <1>2

LEMMA DiscardedFrom ==
    ASSUME NEW c, Sound(c), Typed(c), NEW fl, From(c, fl), NEW gone,
           \/ gone = {}
           \/ \E a \in 1..Len(c.queue) : \E b \in a..Len(c.queue) : gone = a..b
    PROVE  From(Discard(c, gone), fl) /\ SameModes(c, Discard(c, gone))
<1> DEFINE d == Discard(c, gone)
<1>1. c.queue \in Seq(NodesFrom(fl)) /\ DOMAIN c.queue = 1..Len(c.queue)
      /\ Len(c.queue) \in Nat
  BY DEF From
<1>2. gone \subseteq DOMAIN c.queue
  BY <1>1
<1>3. /\ d.queue = Without(c.queue, gone)
      /\ \A x \in DOMAIN c : x \notin {"queue", "returned", "faults"} => d[x] = c[x]
  BY <1>2, DiscardedOnce
<1> HIDE DEF d
<1>4. SameModes(c, d)
  BY <1>3 DEF SameModes, Typed, Counters, Flags
<1>5. d.queue \in Seq(NodesFrom(fl))
  BY <1>1, <1>3, WithoutIn
<1> QED BY <1>4, <1>5 DEF From, SameModes, Single, d

LEMMA TakenFrom ==
    ASSUME NEW c, Sound(c), Typed(c), NEW fl, From(c, fl), NEW n \in 0..Len(c.queue)
    PROVE  From(TakeMatched(c, n), fl) /\ SameModes(c, TakeMatched(c, n))
<1> DEFINE gone == 1..n
           d == Discard(c, gone)
           e == [d EXCEPT !.match_cnt = @ - n]
<1>1. gone = {} \/ \E a \in 1..Len(c.queue) : \E b \in a..Len(c.queue) : gone = a..b
  <2>1. Len(c.queue) \in Nat
    BY DEF Sound
  <2>2. CASE n = 0
    BY <2>2
  <2>3. CASE n # 0
    <3>1. 1 \in 1..Len(c.queue) /\ n \in 1..Len(c.queue)
      BY <2>1, <2>3
    <3> QED BY <3>1
  <2> QED BY <2>2, <2>3
<1>2. e = TakeMatched(c, n)
  BY DEF TakeMatched
<1> HIDE DEF gone
<1>3. From(d, fl) /\ SameModes(c, d)
  BY <1>1, DiscardedFrom
<1> HIDE DEF d
<1>4. SameModes(d, e) /\ e.queue = d.queue
  BY DEF SameModes
<1> HIDE DEF e
<1> QED BY <1>2, <1>3, <1>4 DEF From, SameModes, Single

LEMMA TrimmedFrom ==
    ASSUME NEW c, Sound(c), Typed(c), NEW fl, From(c, fl), NEW mark \in Nat
    PROVE  From(Trim(c, mark), fl) /\ SameModes(c, Trim(c, mark))
<1> DEFINE excess == c.match_cnt - mark
           d == [c EXCEPT !.faults = @ \cup {"spin"}]
<1>1. excess \in Int /\ MatchedAhead(c) \in 0..Len(c.queue) /\ Len(c.queue) \in Nat
  BY Ahead DEF Sound
<1>2. CASE Trim(c, mark) = c
  BY <1>2 DEF SameModes
<1>3. CASE Trim(c, mark) = d
  <2>1. SameModes(c, d) /\ d.queue = c.queue
    BY DEF SameModes
  <2> QED BY <1>3, <2>1 DEF From, SameModes, Single
<1>4. CASE Trim(c, mark) = TakeMatched(c, excess) /\ excess > 0 /\ excess <= MatchedAhead(c)
  <2>1. excess \in 0..Len(c.queue)
    BY <1>1, <1>4
  <2> HIDE DEF excess
  <2> QED BY <1>4, <2>1, TakenFrom
<1> QED BY <1>1, <1>2, <1>3, <1>4 DEF Trim

\* The flush of the preflash leaves no superbuf.
LEMMA FlushedEmpty ==
    ASSUME setup \in Setups, NEW c, Sound(c), Typed(c)
    PROVE  mm_channel_superbuf_flush(c).queue = <<>> /\ SameModes(c, mm_channel_superbuf_flush(c))
<1> DEFINE q == c.queue
           gone == DOMAIN q
           d == Discard(c, gone)
           k == Cardinality(MatchedAt(q))
           e == [d EXCEPT !.match_cnt = @ - k]
<1>1. Len(q) \in Nat /\ q \in Seq(Nodes) /\ gone = 1..Len(q)
  BY DEF Sound
<1>2. Without(q, gone) = <<>>
  <2>1. CASE Len(q) = 0
    BY <1>1, <2>1 DEF Without
  <2>2. CASE Len(q) # 0
    <3>1. 1..Len(q) # {} /\ Min(1..Len(q)) = 1 /\ Max(1..Len(q)) = Len(q)
      BY <1>1, <2>2, Bounds
    <3>2. Without(q, gone) = SubSeq(q, 1, 0) \o SubSeq(q, Len(q) + 1, Len(q))
      BY <1>1, <3>1 DEF Without
    <3> QED BY <1>1, <3>2
  <2> QED BY <2>1, <2>2
<1>3. e = mm_channel_superbuf_flush(c)
  BY DEF mm_channel_superbuf_flush
<1> HIDE DEF k
<1>4. /\ d.queue = <<>>
      /\ \A x \in DOMAIN c : x \notin {"queue", "returned", "faults"} => d[x] = c[x]
  <2>1. gone \subseteq DOMAIN c.queue
    OBVIOUS
  <2> HIDE DEF gone
  <2> QED BY <1>2, <2>1, DiscardedOnce
<1> HIDE DEF d
<1>5. SameModes(c, d)
  BY <1>4 DEF SameModes, Typed, Counters, Flags
<1>6. SameModes(d, e) /\ e.queue = d.queue
  BY DEF SameModes
<1> HIDE DEF e
<1> QED BY <1>3, <1>4, <1>5, <1>6 DEF SameModes

\* Metadata moves what is expected to the first good frame, or for the time until
\* that is known far ahead, with an empty queue then.
LEMMA InformedFrom ==
    ASSUME setup \in Setups, NEW c, Sound(c), NEW l, Tidy(c, l), Single(c),
           NEW f \in Nat, NEW m, Told(m), m.prep \in {"NO", "DO_NOT_NEED_FUTURE_FRAME",
                                                      "NEED_FUTURE_FRAME"}
    PROVE  LET d == mm_channel_handle_metadata(c, f, m)
           IN /\ Single(d)
              /\ d.queue = IF m.prep = "NEED_FUTURE_FRAME" THEN <<>> ELSE c.queue
              /\ d.expected_frame_id = IF m.good # ABSENT THEN f + m.good
                                       ELSE IF m.prep = "NEED_FUTURE_FRAME"
                                       THEN c.expected_frame_id + FutureFrameWait
                                       ELSE c.expected_frame_id
<1> DEFINE need == m.prep = "NEED_FUTURE_FRAME"
           noted == NoteDivert(c, f, m)
           prepared == PrepSnapshotDone(noted, m)
           ranged == GoodFrameRange(prepared, f, m)
<1>1. Sound(noted) /\ Tidy(noted, l)
  BY Noted, NotedTidy DEF Keeps
<1>2. noted.queue = c.queue /\ SameModes(c, noted)
  BY DEF NoteDivert, SameModes
<1> HIDE DEF noted
<1>3. Single(noted) /\ Typed(noted)
  BY <1>1, <1>2 DEF Single, SameModes, Tidy
<1>4. /\ prepared.queue = IF need THEN <<>> ELSE c.queue
      /\ prepared.expected_frame_id = IF need THEN c.expected_frame_id + FutureFrameWait
                                      ELSE c.expected_frame_id
      /\ Single(prepared)
  <2>1. CASE need
    <3> DEFINE wait == [noted EXCEPT !.bWaitForPrepSnapshotDone = FALSE, !.needLEDFlash = TRUE,
                                     !.expected_frame_id = @ + FutureFrameWait]
    <3>1. prepared = mm_channel_superbuf_flush(wait)
      BY <2>1 DEF PrepSnapshotDone
    <3>2. noted.expected_frame_id + FutureFrameWait \in Nat
      BY <1>3 DEF Typed, Counters, FutureFrameWait
    <3>3. /\ Same(noted, wait) /\ Typed(wait) /\ Single(wait)
          /\ wait.expected_frame_id = noted.expected_frame_id + FutureFrameWait
      BY <1>1, <1>3, <3>2 DEF Same, Sound, Typed, Counters, Flags, Single
    <3> HIDE DEF wait
    <3>4. Sound(wait)
      BY <1>1, <3>3, Aside DEF Keeps
    <3>5. prepared.queue = <<>> /\ SameModes(wait, prepared)
      BY <3>1, <3>3, <3>4, FlushedEmpty
    <3> HIDE DEF prepared
    <3> QED BY <2>1, <1>2, <3>3, <3>5 DEF SameModes, Single
  <2>2. CASE ~need
    <3>1. prepared.queue = noted.queue /\ SameModes(noted, prepared)
      BY <2>2 DEF PrepSnapshotDone, SameModes
    <3> HIDE DEF prepared
    <3> QED BY <2>2, <1>2, <1>3, <3>1 DEF SameModes, Single
  <2> QED BY <2>1, <2>2
<1>5. Typed(prepared)
  BY <1>1, PreparedTidy DEF Tidy
<1> HIDE DEF prepared
<1>6. /\ ranged.queue = prepared.queue /\ ranged.expected_frame_id = f + m.good
      /\ Single(ranged)
  <2> DEFINE min == f + m.good
             r == [prepared EXCEPT !.expected_frame_id = min, !.good_frame_id = min]
  <2>1. ~prepared.isFlashBracketingEnabled /\ ~(prepared.burstSnapNum > 1)
    BY <1>4, <1>5 DEF Single, Typed, Counters
  <2>2. ranged = [r EXCEPT !.bracketingState = "ACTIVE"]
    BY <2>1 DEF GoodFrameRange
  <2>3. r.queue = prepared.queue /\ r.expected_frame_id = min /\ Single(r)
        /\ {"expected_frame_id", "bracketingState"} \subseteq DOMAIN r
    <3> HIDE DEF min
    <3> QED BY <1>4, <1>5 DEF Single, Typed, Counters
  <2> HIDE DEF r
  <2> QED BY <2>2, <2>3 DEF Single
<1> HIDE DEF ranged
<1>7. ASSUME NEW d, Single(d), d.burstSnapNum \in Nat PROVE LedBurst(d, f) = d
  BY <1>7 DEF LedBurst, Single
<1>8. ranged.burstSnapNum \in Nat /\ prepared.burstSnapNum \in Nat
  <2>1. ranged.burstSnapNum = prepared.burstSnapNum
    BY DEF GoodFrameRange, ranged
  <2> QED BY <2>1, <1>5 DEF Typed, Counters
<1>9. WaitGoodFrame(prepared, m) = prepared
  BY <1>4 DEF WaitGoodFrame, Single
<1>10. mm_channel_handle_metadata(c, f, m) = IF m.good # ABSENT THEN ranged ELSE prepared
  <2>1. ~c.isZoom1xFrameRequested
    BY DEF Single
  <2>2. LedBurst(ranged, f) = ranged /\ LedBurst(prepared, f) = prepared
    BY <1>4, <1>6, <1>7, <1>8
  <2> QED BY <1>9, <2>1, <2>2 DEF mm_channel_handle_metadata, noted, prepared, ranged
<1> QED BY <1>4, <1>6, <1>10
--------------------------------------------------------------------------------
(* A frame's way into a queue of frames from fl on.                        *)

LEMMA MatchedFrom ==
    ASSUME setup \in Setups, NEW c, Sound(c), Typed(c), NEW fl \in Nat, From(c, fl),
           NEW f \in Nat, f >= fl, NEW pos \in DOMAIN c.queue,
           Whole(c.queue[pos]), NEW older, older \subseteq 1..(pos - 1)
    PROVE  From(Match(c, f, pos, older), fl)
<1> DEFINE node == c.queue[pos]
           e == [[node EXCEPT !.matched = TRUE] EXCEPT !.expected_frame = FALSE]
           next == [c EXCEPT !.expected_frame_id = f + post_frame_skip]
           matched == [next EXCEPT !.queue[pos].matched = TRUE,
                                   !.queue[pos].expected_frame = FALSE,
                                   !.match_cnt = @ + 1]
<1>1. c.queue \in Seq(NodesFrom(fl)) /\ c.queue \in Seq(Nodes) /\ Len(c.queue) \in Nat
      /\ pos \in 1..Len(c.queue) /\ node \in NodesFrom(fl) /\ node \in Nodes
      /\ {"queue", "match_cnt"} \subseteq DOMAIN c
  BY DEF From, Sound
<1>2. post_frame_skip \in Nat
  BY SuperBufAssumption DEF post_frame_skip
<1>3. e \in Nodes /\ e.frame_idx = node.frame_idx /\ e.matched
      /\ FramesOf(e) = FramesOf(node) \cup {}
  <2>1. /\ e \in [frame_idx : Int, frames : [Streams -> Nat], matched : BOOLEAN,
                   expected_frame : BOOLEAN, unmatched_meta_idx : Nat]
        /\ e.frames = node.frames /\ e.frame_idx = node.frame_idx
        /\ e.unmatched_meta_idx = node.unmatched_meta_idx /\ e.matched
    BY <1>1 DEF Nodes
  <2> HIDE DEF e
  <2> QED BY <1>1, <2>1, Flagged
<1>4. e \in NodesFrom(fl)
  BY <1>1, <1>3 DEF NodesFrom
<1>5. Same(c, next) /\ Typed(next) /\ Single(next) /\ next.expected_frame_id >= fl
  <2>1. f + post_frame_skip \in Nat /\ f + post_frame_skip >= fl
    BY <1>2
  <2> HIDE DEF node, e
  <2>2. next.expected_frame_id = f + post_frame_skip
    BY DEF Typed, Counters
  <2> QED BY <2>1, <2>2 DEF Same, Sound, Typed, Counters, Flags, Single, From
<1> HIDE DEF next
<1>6. /\ DOMAIN matched = DOMAIN c /\ matched.returned = c.returned /\ matched.sent = c.sent
      /\ matched.match_cnt = c.match_cnt + 1 /\ matched.pending_cnt = c.pending_cnt
      /\ matched.pending_retro_cnt = c.pending_retro_cnt
      /\ matched.queue = [c.queue EXCEPT ![pos] = e]
  BY <1>1, <1>5 DEF Same, Sound
<1>7. Typed(matched) /\ Single(matched) /\ matched.expected_frame_id >= fl
  <2>1. /\ DOMAIN matched = DOMAIN next
        /\ \A x \in DOMAIN next : x \notin {"queue", "match_cnt"} => matched[x] = next[x]
    OBVIOUS
  <2> HIDE DEF matched
  <2> QED BY <1>5, <2>1 DEF Typed, Counters, Flags, Single
<1> HIDE DEF matched, e, node
<1>8. matched.queue \in Seq(NodesFrom(fl)) /\ Len(matched.queue) = Len(c.queue)
  BY <1>1, <1>4, <1>6, ExceptSeq
<1>9. From(matched, fl)
  BY <1>7, <1>8 DEF From
<1>10. Sound(matched)
  <2>1. {} \cap Total(c) = {} /\ matched.match_cnt \in Int
    BY <1>6 DEF Sound
  <2> QED BY <1>3, <1>6, <2>1, Altered DEF Keeps, node
<1>11. ASSUME older # {} PROVE From(Discard(matched, Min(older)..(pos - 1)), fl)
  <2> DEFINE a == Min(older)
             gone == a..(pos - 1)
  <2>1. a \in 1..(pos - 1)
    <3>1. older \subseteq Nat
      BY <1>1
    <3> QED BY <3>1, <1>11, Least
  <2>2. a \in 1..Len(matched.queue) /\ pos - 1 \in a..Len(matched.queue)
    <3> HIDE DEF a
    <3> QED BY <2>1, <1>1, <1>8
  <2>3. \E x \in 1..Len(matched.queue) : \E y \in x..Len(matched.queue) : gone = x..y
    BY <2>2
  <2> HIDE DEF gone
  <2>4. From(Discard(matched, gone), fl)
    BY <1>7, <1>9, <1>10, <2>3, DiscardedFrom
  <2> QED BY <2>4 DEF gone
<1>12. Match(c, f, pos, older) =
            IF older = {} THEN matched ELSE Discard(matched, Min(older)..(pos - 1))
  BY DEF Match, matched, next, From, Single
<1> QED BY <1>9, <1>11, <1>12

LEMMA FillFrom ==
    ASSUME setup \in Setups, NEW c, Sound(c), Typed(c), NEW fl \in Nat, From(c, fl),
           NEW s \in Streams, NEW f \in Nat \ {NONE}, f >= fl, <<s, f>> \notin Total(c),
           NEW pos \in UnmatchedAt(c.queue), Fits(c.queue[pos], s, f),
           NEW older, older \subseteq 1..(pos - 1)
    PROVE  From(Fill(c, s, f, pos, older), fl)
<1> DEFINE node == c.queue[pos]
           reset == IF node.unmatched_meta_idx > 0
                    THEN [node EXCEPT !.unmatched_meta_idx = 0, !.frame_idx = f] ELSE node
           filled == [reset EXCEPT !.frames[s] = f]
           diverted == c.diverted_frame_id = f
           wait == [filled EXCEPT !.expected_frame = @ \/ diverted]
           x == {<<s, f>>}
           turned == [c EXCEPT !.queue[pos] = reset]
           full == [c EXCEPT !.queue[pos] = filled]
           grown == [c EXCEPT !.queue[pos] = wait,
                              !.diverted_frame_id = IF diverted THEN 0 ELSE @]
<1>1. c.queue \in Seq(Nodes) /\ c.queue \in Seq(NodesFrom(fl)) /\ pos \in 1..Len(c.queue)
      /\ pos \in DOMAIN c.queue
      /\ node \in NodesFrom(fl) /\ node \in Nodes /\ ~node.matched /\ "queue" \in DOMAIN c
  BY DEF Sound, From, UnmatchedAt, MatchedAt
<1>2. ~Alone /\ node.frame_idx \in Int
  BY <1>1 DEF NodesFrom, Nodes
<1>3. reset \in Nodes /\ FramesOf(reset) = FramesOf(node) /\ reset.frame_idx >= fl
  <2>1. reset \in Nodes /\ FramesOf(reset) = FramesOf(node)
    <3> HIDE DEF node
    <3>1. node \in Nodes /\ ~node.matched
      BY <1>1
    <3> QED BY <3>1, Filled, ZenonT(60) DEF node
  <2>2. reset.frame_idx \in {f, node.frame_idx}
    BY <1>1 DEF Nodes
  <2> HIDE DEF reset, node
  <2> QED BY <1>1, <2>1, <2>2 DEF NodesFrom
<1>4. node.frames[s] = NONE =>
        /\ filled \in Nodes /\ ~filled.matched /\ FramesOf(filled) = FramesOf(node) \cup x
        /\ filled.frame_idx = reset.frame_idx
  <2>1. node.frames[s] = NONE =>
          filled \in Nodes /\ ~filled.matched /\ FramesOf(filled) = FramesOf(node) \cup x
    <3> HIDE DEF node
    <3>1. node \in Nodes /\ ~node.matched
      BY <1>1
    <3> QED BY <3>1, Filled, ZenonT(60) DEF node
  <2>2. filled.frame_idx = reset.frame_idx
    <3> HIDE DEF reset
    <3> QED BY <1>3 DEF Nodes
  <2> QED BY <2>1, <2>2
<1>5. x \cap Total(c) = {}
  OBVIOUS
<1> HIDE DEF x, reset, filled, node
<1>6. ASSUME NEW n \in Nodes, n.frame_idx >= fl
      PROVE  [c.queue EXCEPT ![pos] = n] \in Seq(NodesFrom(fl))
  <2>1. n \in NodesFrom(fl)
    BY <1>2, <1>6 DEF NodesFrom
  <2> QED BY <1>1, <2>1, ExceptSeq
<1>7. CASE node.frames[s] # NONE
  <2> DEFINE d == Return(turned, x)
  <2>1. turned.queue = [c.queue EXCEPT ![pos] = reset] /\ SameModes(c, turned)
    BY <1>1 DEF SameModes
  <2>2. Fill(c, s, f, pos, older) = d
    BY <1>7 DEF Fill, reset, node, x
  <2> HIDE DEF turned
  <2>3. d.queue = turned.queue /\ SameModes(turned, d)
    BY DEF Return, SameModes
  <2> HIDE DEF d
  <2> QED BY <1>3, <1>6, <2>1, <2>2, <2>3 DEF From, SameModes, Single
<1>8. CASE node.frames[s] = NONE /\ Whole(filled)
  <2>1. /\ DOMAIN full = DOMAIN c /\ full.queue = [c.queue EXCEPT ![pos] = filled]
        /\ full.returned = c.returned /\ full.sent = c.sent /\ full.match_cnt = c.match_cnt
        /\ full.pending_cnt = c.pending_cnt /\ full.pending_retro_cnt = c.pending_retro_cnt
        /\ SameModes(c, full)
    BY DEF Sound, SameModes
  <2>2. Fill(c, s, f, pos, older) = Match(full, f, pos, older)
    BY <1>8 DEF Fill, reset, filled, node
  <2>3. Typed(full)
    <3>1. \A y \in DOMAIN c : y # "queue" => full[y] = c[y]
      OBVIOUS
    <3> HIDE DEF full
    <3> QED BY <2>1, <3>1 DEF Typed, Counters, Flags
  <2> HIDE DEF full
  <2>4. From(full, fl)
    BY <1>3, <1>4, <1>6, <1>8, <2>1 DEF From, SameModes, Single
  <2>5. Sound(full)
    <3>1. FramesOf(filled) = FramesOf(c.queue[pos]) \cup x /\ full.match_cnt \in Int
      BY <1>4, <1>8, <2>1 DEF node, Sound
    <3>2. Keeps(c, full, x)
      BY <1>1, <1>4, <1>5, <1>8, <2>1, <3>1, Altered
    <3> QED BY <3>2 DEF Keeps
  <2>6. pos \in DOMAIN full.queue /\ full.queue[pos] = filled
    BY <1>1, <2>1
  <2> QED BY <1>8, <2>2, <2>3, <2>4, <2>5, <2>6, MatchedFrom
<1>9. CASE node.frames[s] = NONE /\ ~Whole(filled)
  <2>1. grown.queue = [c.queue EXCEPT ![pos] = wait] /\ SameModes(c, grown)
    BY <1>1 DEF SameModes
  <2>2. Fill(c, s, f, pos, older) = grown
    BY <1>9 DEF Fill, reset, filled, node
  <2> HIDE DEF grown
  <2>3. wait \in Nodes /\ wait.frame_idx = filled.frame_idx
    <3>1. /\ wait \in [frame_idx : Int, frames : [Streams -> Nat], matched : BOOLEAN,
                        expected_frame : BOOLEAN, unmatched_meta_idx : Nat]
          /\ wait.frames = filled.frames /\ wait.frame_idx = filled.frame_idx
          /\ wait.unmatched_meta_idx = filled.unmatched_meta_idx
          /\ wait.matched = filled.matched
      BY <1>4, <1>9 DEF Nodes
    <3> HIDE DEF wait
    <3> QED BY <1>4, <1>9, <3>1, Flagged
  <2> HIDE DEF wait
  <2> QED BY <1>3, <1>4, <1>6, <1>9, <2>1, <2>2, <2>3 DEF From, SameModes, Single
<1> QED BY <1>7, <1>8, <1>9

LEMMA RoomFrom ==
    ASSUME NEW c, Sound(c), Typed(c), NEW fl, From(c, fl),
           NEW older, older # {}, older \subseteq DOMAIN c.queue, NEW newer
    PROVE  From(MakeRoom(c, older, newer), fl) /\ Typed(MakeRoom(c, older, newer))
<1> DEFINE excess == Cardinality(UnmatchedAt(c.queue)) - max_unmatched_frames
           free == {i \in Min(older)..Len(c.queue) :
                       ~c.queue[i].expected_frame /\ (newer # {} => i # Min(newer))}
           S == IF free # {} THEN free ELSE older
           k == Min(S)
           gone == {k}
           d == Discard(c, gone)
           e == [d EXCEPT !.faults = @ \cup IF free # {} /\ excess > 1 THEN {"freed"} ELSE {}]
<1>1. DOMAIN c.queue = 1..Len(c.queue) /\ Len(c.queue) \in Nat
  BY DEF Sound
<1>2. k \in 1..Len(c.queue)
  <2>1. older \subseteq Nat
    BY <1>1
  <2>2. Min(older) \in 1..Len(c.queue)
    BY <1>1, <2>1, Least
  <2>3. free \subseteq 1..Len(c.queue)
    BY <1>1, <2>2
  <2> HIDE DEF free
  <2>4. S # {} /\ S \subseteq 1..Len(c.queue)
    BY <1>1, <2>3
  <2> HIDE DEF S
  <2>5. S \subseteq Nat
    BY <1>1, <2>4
  <2> QED BY <2>4, <2>5, Least
<1>3. MakeRoom(c, older, newer) = IF excess <= 0 THEN c ELSE e
  BY DEF MakeRoom
<1> HIDE DEF k, free, excess, S
<1>4. \E a \in 1..Len(c.queue) : \E b \in a..Len(c.queue) : gone = a..b
  <2>1. gone = k..k /\ k \in k..Len(c.queue)
    BY <1>1, <1>2
  <2> HIDE DEF gone
  <2> QED BY <1>2, <2>1
<1>5. gone \subseteq DOMAIN c.queue
  BY <1>1, <1>2
<1> HIDE DEF gone
<1>6. From(d, fl) /\ Typed(d)
  BY <1>4, <1>5, DiscardedFrom, DiscardedOnce
<1> HIDE DEF d
<1>7. From(e, fl) /\ Typed(e)
  <2>1. DOMAIN e = DOMAIN d /\ \A x \in DOMAIN d : x # "faults" => e[x] = d[x]
    OBVIOUS
  <2>2. e.queue = d.queue /\ SameModes(d, e)
    BY DEF SameModes
  <2> HIDE DEF e
  <2>3. Typed(e)
    BY <1>6, <2>1 DEF Typed, Counters, Flags
  <2> QED BY <1>6, <2>2, <2>3 DEF From, SameModes, Single
<1> QED BY <1>3, <1>6, <1>7

LEMMA InsertedFrom ==
    ASSUME setup \in Setups, NEW c, Sound(c), Typed(c), NEW fl \in Nat, From(c, fl),
           NEW s \in Streams, NEW f \in Nat \ {NONE}, f >= fl
    PROVE  /\ From(InsertNew(c, s, f), fl)
           /\ Alone => InsertNew(c, s, f).expected_frame_id >= f
           /\ ~Alone => InsertNew(c, s, f).expected_frame_id = c.expected_frame_id
                        \/ Streams = {s}
<1> DEFINE newer == {i \in UnmatchedAt(c.queue) : c.queue[i].frame_idx > f}
           k == IF newer # {} THEN Min(newer) ELSE Len(c.queue) + 1
           node == NewNode(c, s, f)
           inserted == [c EXCEPT
               !.queue = InsertAt(@, IF newer # {} THEN Min(newer) ELSE Len(@) + 1, node),
               !.diverted_frame_id = IF f \in {@, c.good_frame_id} THEN 0 ELSE @]
           single == [inserted EXCEPT !.match_cnt = @ + 1,
                                      !.expected_frame_id = f + post_frame_skip]
<1>1. DOMAIN c.queue = 1..Len(c.queue) /\ Len(c.queue) \in Nat
      /\ c.queue \in Seq(NodesFrom(fl)) /\ "queue" \in DOMAIN c
  BY DEF Sound, From
<1>2. k \in 1..Len(c.queue) + 1
  <2>1. newer \subseteq 1..Len(c.queue)
    BY <1>1 DEF UnmatchedAt
  <2>2. newer \subseteq Nat
    BY <1>1, <2>1
  <2> HIDE DEF newer
  <2>3. newer # {} => Min(newer) \in newer
    BY <2>2, Least
  <2>4. newer # {} => Min(newer) \in 1..Len(c.queue)
    BY <2>1, <2>3
  <2> QED BY <2>4, <1>1
<1>3. node \in NodesFrom(fl)
  <2>1. node \in Nodes
    BY Newcomer
  <2>2. node.frame_idx = f /\ (node.matched <=> Streams = {s})
    BY DEF NewNode
  <2>3. Alone => Streams = {s}
    BY DEF Alone
  <2> HIDE DEF node
  <2> QED BY <2>1, <2>2, <2>3 DEF NodesFrom
<1>4. /\ inserted.queue = InsertAt(c.queue, k, node) /\ SameModes(c, inserted)
      /\ "expected_frame_id" \in DOMAIN inserted
  <2> HIDE DEF newer, node
  <2> QED BY <1>1 DEF SameModes, Typed, Counters
<1>5. InsertNew(c, s, f) = IF Streams # {s} THEN inserted ELSE single
  BY DEF InsertNew
<1> HIDE DEF newer, k, node, inserted
<1>6. inserted.queue \in Seq(NodesFrom(fl))
  BY <1>1, <1>2, <1>3, <1>4, PutAt
<1>7. post_frame_skip \in Nat
  BY SuperBufAssumption DEF post_frame_skip
<1>8. single.queue = inserted.queue /\ single.expected_frame_id = f + post_frame_skip
      /\ (Single(inserted) => Single(single))
  BY <1>4 DEF Single
<1> HIDE DEF single
<1>9. From(inserted, fl)
  BY <1>4, <1>6 DEF From, SameModes, Single
<1>10. From(single, fl) /\ single.expected_frame_id >= f
  <2>1. f + post_frame_skip >= f /\ f + post_frame_skip >= fl
    BY <1>7
  <2> QED BY <1>6, <1>8, <1>9, <2>1 DEF From
<1>11. Alone => Streams = {s}
  BY DEF Alone
<1> QED BY <1>4, <1>5, <1>9, <1>10, <1>11 DEF SameModes

LEMMA PlacedFrom ==
    ASSUME setup \in Setups, NEW c, Sound(c), Typed(c), NEW fl \in Nat, From(c, fl),
           NEW s \in Streams, NEW f \in Nat \ {NONE}, f >= fl, <<s, f>> \notin Total(c)
    PROVE  /\ From(Place(c, s, f), fl)
           /\ Alone => Place(c, s, f).expected_frame_id >= f
           /\ c.queue = <<>> /\ ~Alone =>
                Place(c, s, f).expected_frame_id = c.expected_frame_id
<1> DEFINE fits == {i \in UnmatchedAt(c.queue) : Fits(c.queue[i], s, f)}
           pos == Min(fits)
           seen == {i \in UnmatchedAt(c.queue) : fits # {} => i < pos}
           older == {i \in seen : c.queue[i].frame_idx < f}
           newer == {i \in seen : c.queue[i].frame_idx > f}
           room == MakeRoom(c, older, newer)
           x == {<<s, f>>}
<1>1. DOMAIN c.queue = 1..Len(c.queue) /\ Len(c.queue) \in Nat
      /\ UnmatchedAt(c.queue) \subseteq 1..Len(c.queue) /\ c.queue \in Seq(NodesFrom(fl))
  BY DEF Sound, UnmatchedAt, From
<1>2. fits # {} => pos \in fits
  <2>1. fits \subseteq Nat
    BY <1>1
  <2> HIDE DEF fits
  <2> QED BY <2>1, Least
<1>3. older \subseteq DOMAIN c.queue /\ seen \subseteq UnmatchedAt(c.queue)
      /\ fits \subseteq UnmatchedAt(c.queue) /\ older \subseteq seen
  BY <1>1
<1>4. ASSUME fits # {} PROVE From(Fill(c, s, f, pos, older), fl)
  <2>1. pos \in UnmatchedAt(c.queue) /\ Fits(c.queue[pos], s, f)
    BY <1>2, <1>4
  <2>2. older \subseteq 1..(pos - 1)
    <3> HIDE DEF fits, pos
    <3>1. pos \in Nat
      BY <1>1, <2>1
    <3> QED BY <1>1, <1>4, <3>1
  <2> HIDE DEF pos, older
  <2> QED BY <2>1, <2>2, FillFrom
<1>5. From(Return(c, x), fl) /\ Return(c, x).expected_frame_id = c.expected_frame_id
  <2> DEFINE d == Return(c, x)
  <2>1. d.queue = c.queue /\ SameModes(c, d)
    BY DEF Return, SameModes
  <2> HIDE DEF d
  <2>2. From(d, fl) /\ d.expected_frame_id = c.expected_frame_id
    BY <2>1 DEF From, SameModes, Single
  <2> QED BY <2>2 DEF d
<1>6. /\ From(InsertNew(c, s, f), fl)
      /\ Alone => InsertNew(c, s, f).expected_frame_id >= f
      /\ ~Alone => InsertNew(c, s, f).expected_frame_id = c.expected_frame_id \/ Streams = {s}
  BY InsertedFrom
<1>7. ASSUME older # {} PROVE From(InsertNew(room, s, f), fl)
  <2> HIDE DEF older, newer
  <2>1. Sound(room) /\ From(room, fl) /\ Typed(room)
    BY <1>3, <1>7, RoomMade, RoomFrom DEF Keeps
  <2> HIDE DEF room
  <2> QED BY <2>1, InsertedFrom
<1>8. Place(c, s, f) = IF fits # {} THEN Fill(c, s, f, pos, older)
                       ELSE IF older = {}
                       THEN IF Cardinality(seen) > max_unmatched_frames THEN Return(c, x)
                            ELSE InsertNew(c, s, f)
                       ELSE InsertNew(room, s, f)
  BY DEF Place
<1>9. ASSUME UnmatchedAt(c.queue) = {} PROVE Place(c, s, f) = InsertNew(c, s, f)
  <2> HIDE DEF fits, pos, seen, older, newer, room, x
  <2>1. fits = {} /\ older = {} /\ seen = {}
    BY <1>3, <1>9
  <2>2. ~(Cardinality({}) > max_unmatched_frames)
    BY FS_EmptySet, Bundle
  <2> QED BY <1>8, <2>1, <2>2
<1> HIDE DEF fits, pos, seen, older, newer, room, x
<1>10. From(Place(c, s, f), fl)
  BY <1>4, <1>5, <1>6, <1>7, <1>8
<1>11. Alone => UnmatchedAt(c.queue) = {}
  BY <1>1 DEF NodesFrom, UnmatchedAt, MatchedAt
<1>12. c.queue = <<>> => UnmatchedAt(c.queue) = {}
  BY DEF UnmatchedAt
<1>13. Streams = {s} => Alone
  BY Bundle DEF Alone
<1> QED BY <1>6, <1>9, <1>10, <1>11, <1>12, <1>13
--------------------------------------------------------------------------------
(* The end of a command, with frames from fl on.                           *)

LEMMA StartedFrom ==
    ASSUME NEW c, Typed(c), NEW fl, From(c, fl)
    PROVE  From(StartOrStopZsl(c), fl)
           /\ StartOrStopZsl(c).expected_frame_id = c.expected_frame_id
<1> DEFINE start == [c EXCEPT !.startZSlSnapshotCalled = TRUE, !.burstSnapNum = c.pending_cnt,
                              !.bWaitForPrepSnapshotDone = FALSE]
           stop == [StopZsl(c) EXCEPT !.bWaitForPrepSnapshotDone = FALSE]
           d == StartOrStopZsl(c)
<1>1. start.queue = c.queue /\ start.expected_frame_id = c.expected_frame_id
      /\ (Single(c) => Single(start))
  BY DEF Typed, Counters, Flags, Single
<1>2. stop.queue = c.queue /\ stop.expected_frame_id = c.expected_frame_id
      /\ (Single(c) => Single(stop))
  BY DEF Typed, Counters, Flags, Single, StopZsl
<1>3. d = start \/ d = stop \/ d = c
  BY DEF StartOrStopZsl
<1> HIDE DEF start, stop, d
<1>4. From(d, fl) /\ d.expected_frame_id = c.expected_frame_id
  BY <1>1, <1>2, <1>3 DEF From
<1> QED BY <1>4 DEF d

LEMMA DispatchedFrom ==
    ASSUME NEW c, Sound(c), Typed(c), NEW fl, From(c, fl), c.sent = <<>>
    PROVE  /\ From(Dispatch(c), fl) /\ Dispatch(c).sent \in Seq(NodesFrom(fl))
           /\ Dispatch(c).expected_frame_id = c.expected_frame_id
<1> DEFINE n == ToSend(c)
           q == c.queue
           rest == SubSeq(q, n + 1, Len(q))
           sent == SubSeq(q, 1, n)
           taken == [c EXCEPT !.queue = SubSeq(@, n + 1, Len(@)), !.match_cnt = @ - n,
                              !.sent = SubSeq(c.queue, 1, n)]
           less == [taken EXCEPT
                        !.pending_cnt = @ - n,
                        !.pending_retro_cnt = IF @ > 0 THEN @ - n ELSE 0,
                        !.bWaitForPrepSnapshotDone =
                            c.pending_retro_cnt > 0 /\ n = c.pending_retro_cnt]
           counted == IF c.continuous THEN taken ELSE less
           stop == /\ ~c.continuous /\ (counted.pending_cnt = 0 \/ c.stopZslSnapshot)
                   /\ ~c.manualZSLSnapshot /\ c.startZSlSnapshotCalled
           d == IF stop THEN StopZsl(counted) ELSE counted
<1>1. /\ n \in 0..Len(q) /\ q \in Seq(NodesFrom(fl)) /\ Len(q) \in Nat
      /\ c.pending_cnt \in Nat /\ {"queue", "sent"} \subseteq DOMAIN c
      /\ \A i \in 1..Len(q) : q[i] \in NodesFrom(fl)
  BY Sendable DEF Sound, From
<1>2. Dispatch(c) = IF n = 0 THEN c ELSE d
  BY DEF Dispatch
<1> HIDE DEF n
<1>3. rest \in Seq(NodesFrom(fl)) /\ sent \in Seq(NodesFrom(fl))
  <2>1. \A i \in (n + 1)..Len(q) : q[i] \in NodesFrom(fl)
    BY <1>1
  <2>2. \A i \in 1..n : q[i] \in NodesFrom(fl)
    BY <1>1
  <2> HIDE DEF q
  <2> QED BY <1>1, <2>1, <2>2, SubSeqProperties
<1> DEFINE Good(e) == /\ Single(e) /\ e.expected_frame_id = c.expected_frame_id
                      /\ e.queue = rest /\ e.sent = sent
<1>4. Good(taken) /\ taken.pending_cnt = c.pending_cnt /\ "pending_cnt" \in DOMAIN taken
  <2>1. Single(taken) /\ taken.expected_frame_id = c.expected_frame_id
    BY DEF From, Single
  <2> QED BY <1>1, <2>1 DEF Sound
<1> HIDE DEF rest, sent, taken, q
<1>5. Good(less)
  <2>1. c.pending_cnt - n <= 1 /\ less.pending_cnt = c.pending_cnt - n
    BY <1>1, <1>4 DEF From, Single
  <2>2. /\ less.burstSnapNum = taken.burstSnapNum
        /\ less.bracketingState = taken.bracketingState
        /\ less.isFlashBracketingEnabled = taken.isFlashBracketingEnabled
        /\ less.isZoom1xFrameRequested = taken.isZoom1xFrameRequested
        /\ less.expected_frame_id = taken.expected_frame_id
        /\ less.queue = taken.queue /\ less.sent = taken.sent
    OBVIOUS
  <2> HIDE DEF less
  <2> QED BY <1>4, <2>1, <2>2 DEF Single
<1> HIDE DEF less
<1>6. Good(counted)
  BY <1>4, <1>5
<1> HIDE DEF counted
<1>7. Good(StopZsl(counted))
  <2> DEFINE e == StopZsl(counted)
  <2>1. /\ e.queue = counted.queue /\ e.sent = counted.sent
        /\ e.expected_frame_id = counted.expected_frame_id
        /\ Single(counted) => Single(e)
    BY DEF StopZsl, Single
  <2> HIDE DEF e
  <2>2. Good(e)
    BY <1>6, <2>1
  <2> QED BY <2>2 DEF e
<1>8. Good(d)
  <2>1. d = counted \/ d = StopZsl(counted)
    OBVIOUS
  <2> HIDE DEF d
  <2> QED BY <1>6, <1>7, <2>1
<1> HIDE DEF d
<1>9. From(d, fl) /\ d.sent \in Seq(NodesFrom(fl)) /\ d.expected_frame_id = c.expected_frame_id
  BY <1>3, <1>8 DEF From
<1>10. <<>> \in Seq(NodesFrom(fl))
  OBVIOUS
<1> QED BY <1>2, <1>9, <1>10

LEMMA FinishedFrom ==
    ASSUME setup \in Setups, NEW c, Sound(c), NEW l, Tidy(c, l), c.sent = <<>>,
           NEW fl, From(c, fl)
    PROVE  /\ From(Finish(c), fl) /\ Finish(c).sent \in Seq(NodesFrom(fl))
           /\ Finish(c).expected_frame_id = c.expected_frame_id
<1> DEFINE started == StartOrStopZsl(c)
           trimmed == mm_channel_superbuf_bufdone_overflow(started)
<1>1. /\ Sound(started) /\ started.sent = <<>> /\ Tidy(started, l)
      /\ From(started, fl) /\ started.expected_frame_id = c.expected_frame_id
      /\ Typed(started)
  BY Started, StartedTidy, StartedFrom DEF Keeps, Tidy
<1> HIDE DEF started
<1>2. /\ Sound(trimmed) /\ trimmed.sent = <<>> /\ Tidy(trimmed, l) /\ Typed(trimmed)
      /\ From(trimmed, fl) /\ trimmed.expected_frame_id = started.expected_frame_id
  BY <1>1, Bundle, Trimmed, TrimmedTidy, TrimmedFrom
     DEF Keeps, Tidy, mm_channel_superbuf_bufdone_overflow, SameModes
<1> HIDE DEF trimmed
<1>3. /\ From(Dispatch(trimmed), fl) /\ Dispatch(trimmed).sent \in Seq(NodesFrom(fl))
      /\ Dispatch(trimmed).expected_frame_id = trimmed.expected_frame_id
  BY <1>2, DispatchedFrom
<1> QED BY <1>1, <1>2, <1>3 DEF Finish, trimmed, started

LEMMA LowerFrom ==
    ASSUME NEW a \in Nat, NEW b \in Nat, b <= a
    PROVE  /\ \A q \in Seq(NodesFrom(a)) : q \in Seq(NodesFrom(b))
           /\ \A c : From(c, a) /\ c.expected_frame_id \in Nat => From(c, b)
<1>1. ASSUME NEW n \in NodesFrom(a) PROVE n \in NodesFrom(b)
  <2>1. n.frame_idx \in Int
    BY DEF NodesFrom, Nodes
  <2> QED BY <2>1 DEF NodesFrom
<1>2. ASSUME NEW q \in Seq(NodesFrom(a)) PROVE q \in Seq(NodesFrom(b))
  <2> DEFINE S == NodesFrom(a)
             T == NodesFrom(b)
  <2>1. S \subseteq T /\ q \in Seq(S)
    BY <1>1
  <2> HIDE DEF S, T
  <2>2. q \in Seq(T)
    BY <2>1
  <2> QED BY <2>2 DEF T
<1>3. ASSUME NEW c, From(c, a), c.expected_frame_id \in Nat PROVE From(c, b)
  BY <1>2, <1>3 DEF From
<1> QED BY <1>2, <1>3

\* A frame and what its metadata says move the floor, and keep to it.
LEMMA EnqueuedFrom ==
    ASSUME setup \in Setups, NEW l, NEW s, NEW f, NEW h, ReadNext(l, s, f, h), f <= l[s] + 2,
           NEW m, IF s = Metadata
                  THEN Told(m) /\ m.prep \in {"NO", "DO_NOT_NEED_FUTURE_FRAME",
                                              "NEED_FUTURE_FRAME"}
                  ELSE m.good = ABSENT /\ m.prep = "NO",
           NEW c, Sound(c), Tidy(c, l), <<s, f>> \notin Total(c),
           floor \in Nat, From(c, floor), Alone => c.expected_frame_id >= l[Metadata]
    PROVE  LET q == mm_channel_superbuf_comp_and_enqueue(c, s, f, m)
               fl == NewFloor(f, m, q.expected_frame_id)
           IN fl \in Nat /\ From(q, fl) /\ (Alone => q.expected_frame_id >= f)
<1> DEFINE informed == IF s = Metadata THEN mm_channel_handle_metadata(c, f, m) ELSE c
           need == m.prep = "NEED_FUTURE_FRAME"
           x == {<<s, f>>}
           q == mm_channel_superbuf_comp_and_enqueue(c, s, f, m)
           waiting == IF need THEN q.expected_frame_id ELSE floor
           fl == NewFloor(f, m, q.expected_frame_id)
<1>1. s \in Streams /\ f \in Nat \ {NONE} /\ f \in Nat /\ l[s] \in Nat
  BY DEF ReadNext
<1>2. Tidy(informed, l) /\ Sound(informed) /\ <<s, f>> \notin Total(informed)
  <2>1. Keeps(c, informed, {})
    <3>1. Same(c, c)
      BY DEF Same
    <3> QED BY <3>1, Aside, Informed
  <2>2. Tidy(informed, l)
    BY <1>1, InformedTidy
  <2> QED BY <2>1, <2>2 DEF Keeps
<1>3. /\ Single(informed)
      /\ informed.queue = IF need THEN <<>> ELSE c.queue
      /\ informed.expected_frame_id = IF m.good # ABSENT THEN f + m.good
                                      ELSE IF need THEN c.expected_frame_id + FutureFrameWait
                                      ELSE c.expected_frame_id
  <2>1. CASE s = Metadata
    BY <1>1, <2>1, InformedFrom DEF From
  <2>2. CASE s # Metadata
    BY <2>2 DEF From
  <2> QED BY <2>1, <2>2
<1> HIDE DEF informed
<1>4. /\ informed.expected_frame_id \in Nat /\ c.expected_frame_id \in Nat
      /\ q.expected_frame_id \in Nat
      /\ m.good # ABSENT => m.good \in Nat
  <2>1. Tidy(q, h)
    BY EnqueuedTidy
  <2> HIDE DEF q
  <2> QED BY <1>2, <2>1 DEF Tidy, Typed, Counters, Told
<1>5. q = IF /\ f < informed.expected_frame_id
             /\ ~mm_channel_validate_super_buf(informed, f)
          THEN Return(informed, x) ELSE Place(informed, s, f)
  BY DEF mm_channel_superbuf_comp_and_enqueue, informed
<1>6. fl = IF m.good # ABSENT THEN Min({waiting, f + m.good}) ELSE waiting
  BY DEF NewFloor
<1>7. Typed(informed)
  BY <1>2 DEF Tidy
<1>8. \A y : From(informed, y) => From(Return(informed, x), y)
  BY DEF Return, From, Single
<1>9. Return(informed, x).expected_frame_id = informed.expected_frame_id
  BY DEF Return
<1>10. /\ fl \in Nat
       /\ m.good # ABSENT => fl <= f + m.good /\ fl <= waiting
  <2> DEFINE S == {waiting, f + m.good}
  <2>1. waiting \in Nat
    BY <1>4
  <2> HIDE DEF waiting, fl
  <2>2. CASE m.good # ABSENT
    <3>1. f + m.good \in Nat
      BY <1>1, <1>4, <2>2
    <3>2. S \subseteq Nat /\ S # {} /\ waiting \in S /\ f + m.good \in S
      BY <2>1, <3>1
    <3> HIDE DEF S
    <3>3. Min(S) \in S /\ \A y \in S : Min(S) <= y
      BY <3>2, Least
    <3>4. fl = Min(S)
      BY <1>6, <2>2 DEF S
    <3> QED BY <3>2, <3>3, <3>4
  <2>3. CASE m.good = ABSENT
    BY <1>6, <2>1, <2>3
  <2> QED BY <2>2, <2>3
<1> HIDE DEF q, x
<1>11. CASE m.good # ABSENT \/ ~need
  <2>1. From(informed, fl)
    <3>1. informed.expected_frame_id >= fl
      <4>1. CASE m.good # ABSENT
        BY <4>1, <1>3, <1>10
      <4>2. CASE m.good = ABSENT
        <5>1. fl = floor /\ informed.expected_frame_id = c.expected_frame_id
          BY <4>2, <1>3, <1>6, <1>11
        <5> QED BY <5>1 DEF From
      <4> QED BY <4>1, <4>2
    <3>2. informed.queue \in Seq(NodesFrom(fl))
      <4>1. CASE need
        <5> HIDE DEF fl
        <5>1. informed.queue = <<>>
          BY <4>1, <1>3
        <5> QED BY <5>1
      <4>2. CASE ~need
        <5>1. fl <= floor /\ informed.queue = c.queue
          BY <4>2, <1>3, <1>6, <1>10
        <5> HIDE DEF fl
        <5> QED BY <5>1, <1>10, LowerFrom DEF From
      <4> QED BY <4>1, <4>2
    <3> QED BY <1>3, <3>1, <3>2 DEF From
  <2> HIDE DEF fl, waiting
  <2>2. CASE f < informed.expected_frame_id /\ ~mm_channel_validate_super_buf(informed, f)
    BY <1>1, <1>4, <1>5, <1>8, <1>9, <1>10, <2>1, <2>2 DEF fl, q
  <2>3. CASE ~(f < informed.expected_frame_id /\ ~mm_channel_validate_super_buf(informed, f))
    <3>1. f >= fl
      <4>1. CASE f >= informed.expected_frame_id
        BY <4>1, <1>1, <1>4, <1>10, <2>1 DEF From
      <4>2. CASE mm_channel_validate_super_buf(informed, f)
        <5>1. PICK i \in DOMAIN informed.queue : informed.queue[i].frame_idx = f
          BY <4>2 DEF mm_channel_validate_super_buf
        <5>2. informed.queue[i] \in NodesFrom(fl)
          BY <2>1, <5>1 DEF From
        <5> QED BY <5>1, <5>2 DEF NodesFrom
      <4> QED BY <1>1, <1>4, <2>3, <4>1, <4>2
    <3>2. /\ From(Place(informed, s, f), fl)
          /\ Alone => Place(informed, s, f).expected_frame_id >= f
      BY <1>1, <1>2, <1>7, <1>10, <2>1, <3>1, PlacedFrom
    <3>3. q = Place(informed, s, f)
      BY <1>5, <2>3
    <3> QED BY <1>10, <3>2, <3>3 DEF fl, q
  <2> QED BY <2>2, <2>3
<1>12. CASE m.good = ABSENT /\ need
  <2>1. fl = q.expected_frame_id
    BY <1>6, <1>12
  <2>2. informed.queue = <<>> /\ informed.expected_frame_id = c.expected_frame_id + 100
    BY <1>3, <1>12 DEF FutureFrameWait
  <2> HIDE DEF fl, waiting
  <2>3. From(informed, informed.expected_frame_id)
    <3>1. informed.queue \in Seq(NodesFrom(informed.expected_frame_id))
      BY <2>2
    <3>2. informed.expected_frame_id >= informed.expected_frame_id
      BY <1>4
    <3> QED BY <1>3, <3>1, <3>2 DEF From
  <2>4. ~mm_channel_validate_super_buf(informed, f)
    BY <2>2 DEF mm_channel_validate_super_buf
  <2>5. CASE f < informed.expected_frame_id
    <3>1. q = Return(informed, x)
      BY <1>5, <2>4, <2>5
    <3>2. From(q, fl) /\ q.expected_frame_id >= f
      BY <1>1, <1>4, <1>8, <1>9, <2>1, <2>3, <2>5, <3>1
    <3> QED BY <1>10, <3>2 DEF fl, q
  <2>6. CASE ~(f < informed.expected_frame_id)
    <3>1. q = Place(informed, s, f) /\ f >= informed.expected_frame_id
      BY <1>1, <1>4, <1>5, <2>6
    <3>2. ~Alone
      <4> SUFFICES ASSUME Alone PROVE FALSE
        OBVIOUS
      <4>1. s = Metadata
        BY <1>1 DEF Alone
      <4> QED BY <1>1, <1>4, <2>2, <3>1, <4>1
    <3>3. /\ From(Place(informed, s, f), informed.expected_frame_id)
          /\ Place(informed, s, f).expected_frame_id = informed.expected_frame_id
      BY <1>1, <1>2, <1>4, <1>7, <2>2, <2>3, <3>1, <3>2, PlacedFrom
    <3>4. From(q, fl)
      BY <2>1, <3>1, <3>3
    <3> QED BY <1>10, <3>2, <3>4 DEF fl, q
  <2> QED BY <2>5, <2>6
<1> QED BY <1>11, <1>12
--------------------------------------------------------------------------------
(* The commands, with flash.                                               *)

LEMMA DataFrom ==
    ASSUME FloorInv, NEW s \in Streams, Data(s)
    PROVE  /\ floor' \in Nat
           /\ Plain => /\ From(ch', floor') /\ ch'.sent \in Seq(NodesFrom(floor'))
                       /\ Alone => ch'.expected_frame_id >= last'[Metadata]
<1> DEFINE S == {last[s] + 2, MaxFrame}
           top == Min(S)
           M == IF s = Metadata THEN Contents ELSE {[good |-> ABSENT, prep |-> "NO"]}
           queued(f, m) == mm_channel_superbuf_comp_and_enqueue(Fresh, s, f, m)
<1>1. /\ setup \in Setups /\ Inv /\ Tidy(ch, last) /\ MaxFrame \in Nat
      /\ last \in [Streams -> Nat] /\ last[s] \in Nat /\ floor \in Nat
  <2>1. MaxFrame \in Nat
    BY SuperBufAssumption DEF MaxFrame, FloorInv, OrderInv, Inv
  <2> QED BY <2>1 DEF FloorInv, OrderInv, Ordered, Inv
<1>2. top \in Nat /\ top <= last[s] + 2
  <2>1. S \subseteq Nat /\ S # {} /\ last[s] + 2 \in S
    BY <1>1
  <2> HIDE DEF S
  <2> QED BY <1>1, <2>1, Least
<1>3. PICK f \in (last[s] + 1)..top : \E m \in M :
            /\ ch' = Finish(queued(f, m)) /\ last' = [last EXCEPT ![s] = f]
            /\ floor' = NewFloor(f, m, queued(f, m).expected_frame_id)
  <2> HIDE DEF queued
  <2> QED BY DEF Data, queued
<1> HIDE DEF top
<1>4. PICK m \in M : /\ ch' = Finish(queued(f, m)) /\ last' = [last EXCEPT ![s] = f]
                     /\ floor' = NewFloor(f, m, queued(f, m).expected_frame_id)
  BY <1>3
<1>5. f \in Nat \ {NONE} /\ f > last[s] /\ f <= last[s] + 2
  BY <1>1, <1>2 DEF NONE
<1>6. IF s = Metadata
      THEN Told(m) /\ m.prep \in {"NO", "DO_NOT_NEED_FUTURE_FRAME", "NEED_FUTURE_FRAME"}
      ELSE m.good = ABSENT /\ m.prep = "NO"
  <2>1. CASE s = Metadata
    <3>1. m \in Contents
      BY <2>1
    <3>2. /\ Goods \subseteq Nat /\ Diverts \subseteq Int
          /\ Preps \subseteq {"NO", "DO_NOT_NEED_FUTURE_FRAME", "NEED_FUTURE_FRAME"}
      BY <1>1, SuperBufAssumption DEF Goods, Diverts, Preps
    <3>3. m.good \in Goods \cup {ABSENT} /\ m.divert \in Diverts \cup {ABSENT} /\ m.prep \in Preps
      BY <3>1 DEF Contents
    <3>4. ABSENT \in Int
      BY DEF ABSENT
    <3> QED BY <2>1, <3>2, <3>3, <3>4 DEF Told
  <2>2. CASE s # Metadata
    BY <2>2
  <2> QED BY <2>1, <2>2
<1>7. ReadNext(last, s, f, last')
  BY <1>1, <1>4, <1>5 DEF ReadNext
<1>8. Sound(Fresh) /\ Tidy(Fresh, last) /\ <<s, f>> \notin Total(Fresh) /\ Fresh.sent = <<>>
  <2>1. <<s, f>> \in Held(ch.queue) => f <= last[s]
    BY <1>1, <1>5 DEF Inv
  <2> QED BY <1>1, <1>5, <2>1, FreshIsSound, FreshIsTidy
<1> HIDE DEF M
<1> DEFINE q == queued(f, m)
<1>9. Sound(q) /\ q.sent = <<>> /\ Tidy(q, last')
  <2>1. Keeps(Fresh, q, {<<s, f>>})
    BY <1>1, <1>5, <1>8, Enqueued
  <2>2. Tidy(q, last')
    BY <1>1, <1>6, <1>7, <1>8, EnqueuedTidy
  <2> QED BY <1>8, <2>1, <2>2 DEF Keeps
<1>10. floor' \in Nat
  <2>1. q.expected_frame_id \in Nat
    BY <1>9 DEF Tidy, Typed, Counters
  <2> HIDE DEF queued
  <2>2. m.good # ABSENT => m.good \in Nat
    BY <1>6 DEF Told
  <2> DEFINE waiting == IF m.prep = "NEED_FUTURE_FRAME" THEN q.expected_frame_id ELSE floor
             R == {waiting, f + m.good}
  <2>3. waiting \in Nat
    BY <1>1, <2>1
  <2>4. floor' = IF m.good # ABSENT THEN Min(R) ELSE waiting
    BY <1>4 DEF NewFloor
  <2> HIDE DEF waiting, q
  <2>5. m.good # ABSENT => R \subseteq Nat /\ R # {}
    BY <1>5, <2>2, <2>3
  <2> HIDE DEF R
  <2>6. m.good # ABSENT => Min(R) \in Nat
    BY <2>5, Least
  <2> QED BY <2>3, <2>4, <2>6
<1>11. ASSUME Plain
       PROVE  /\ From(ch', floor') /\ ch'.sent \in Seq(NodesFrom(floor'))
              /\ Alone => ch'.expected_frame_id >= last'[Metadata]
  <2>1. From(ch, floor) /\ (Alone => ch.expected_frame_id >= last[Metadata])
    BY <1>11 DEF FloorInv
  <2>2. Fresh.queue = ch.queue /\ SameModes(ch, Fresh)
    BY DEF Fresh, SameModes
  <2>3. From(Fresh, floor) /\ (Alone => Fresh.expected_frame_id >= last[Metadata])
    BY <2>1, <2>2 DEF From, SameModes, Single
  <2>4. From(q, floor') /\ (Alone => q.expected_frame_id >= f)
    BY <1>1, <1>4, <1>5, <1>6, <1>7, <1>8, <2>3, EnqueuedFrom
  <2> HIDE DEF q, queued
  <2>5. /\ From(Finish(q), floor') /\ Finish(q).sent \in Seq(NodesFrom(floor'))
        /\ Finish(q).expected_frame_id = q.expected_frame_id
    BY <1>1, <1>9, <2>4, FinishedFrom
  <2>6. ASSUME Alone PROVE last'[Metadata] = f
    <3>1. s = Metadata
      BY <2>6 DEF Alone
    <3> QED BY <1>1, <1>4, <3>1
  <2> QED BY <1>4, <2>4, <2>5, <2>6 DEF q
<1> QED BY <1>10, <1>11

LEMMA CommandFrom ==
    ASSUME FloorInv,
           RequestSuperBuf \/ FlushQueue \/ AeBracketing \/ FlashBracketing \/ ZoomToOne
           \/ ManualZsl \/ ConfigNotify
    PROVE  /\ floor' \in {0, floor}
           /\ Plain => /\ From(ch', floor') /\ ch'.sent \in Seq(NodesFrom(floor'))
                       /\ Alone => ch'.expected_frame_id >= last[Metadata]
<1>1. /\ setup \in Setups /\ Inv /\ Sound(Fresh) /\ Fresh.sent = <<>> /\ Tidy(Fresh, last)
      /\ floor \in Nat
  BY FreshIsSound, FreshIsTidy DEF FloorInv, OrderInv, Ordered, Inv
<1>2. floor' \in {0, floor}
  BY DEF RequestSuperBuf, FlushQueue, FlushUntil, AeBracketing, FlashBracketing, ZoomToOne,
         ManualZsl, ConfigNotify, Command
<1>3. ASSUME Plain
      PROVE  /\ From(ch', floor') /\ ch'.sent \in Seq(NodesFrom(floor'))
             /\ Alone => ch'.expected_frame_id >= last[Metadata]
  <2> DEFINE retro(r) == IF r[1] = 0 \/ r[2] > r[1] THEN r[1] ELSE r[2]
             asked(r) == [Fresh EXCEPT !.pending_cnt = r[1], !.pending_retro_cnt = retro(r),
                                       !.bWaitForPrepSnapshotDone = FALSE,
                                       !.needLEDFlash = @ /\ retro(r) = 0,
                                       !.stopZslSnapshot = FALSE]
  <2>1. RequestSuperBuf
    BY <1>3 DEF Plain, FlushQueue, AeBracketing, FlashBracketing, ZoomToOne, ManualZsl,
                ConfigNotify
  <2>2. PICK r \in Requests : Command(Finish(mm_channel_superbuf_skip(asked(r))))
    BY <2>1 DEF RequestSuperBuf
  <2> DEFINE c == asked(r)
             d == mm_channel_superbuf_skip(c)
  <2>3. r[1] \in Nat /\ retro(r) \in Nat /\ r[1] <= 1
    BY <1>1, <1>3, Bundle DEF Plain
  <2>4. From(ch, floor) /\ (Alone => ch.expected_frame_id >= last[Metadata])
    BY <1>3 DEF FloorInv
  <2>5. Fresh.queue = ch.queue /\ SameModes(ch, Fresh)
    BY DEF Fresh, SameModes
  <2>6. /\ DOMAIN c = DOMAIN Fresh /\ c.queue = Fresh.queue /\ c.returned = Fresh.returned
        /\ c.sent = Fresh.sent /\ c.match_cnt = Fresh.match_cnt /\ c.faults = Fresh.faults
        /\ c.pending_cnt = r[1] /\ c.pending_retro_cnt = retro(r)
        /\ c.burstSnapNum = Fresh.burstSnapNum /\ c.bracketingState = Fresh.bracketingState
        /\ c.isFlashBracketingEnabled = Fresh.isFlashBracketingEnabled
        /\ c.isZoom1xFrameRequested = Fresh.isZoom1xFrameRequested
        /\ c.expected_frame_id = Fresh.expected_frame_id
    <3> HIDE DEF retro
    <3> QED BY <1>1 DEF Sound
  <2>7. Typed(c)
    <3>1. (retro(r) = 0) \in BOOLEAN
      OBVIOUS
    <3> HIDE DEF retro
    <3> QED BY <1>1, <2>3, <3>1 DEF Tidy, Typed, Counters, Flags
  <2> HIDE DEF retro, asked, c
  <2>8. Sound(c) /\ Tidy(c, last) /\ c.sent = <<>>
    <3>1. Sound(c)
      BY <1>1, <2>3, <2>6 DEF Sound
    <3>2. Tidy(c, last)
      BY <1>1, <2>6, <2>7, Retained
    <3> QED BY <1>1, <2>6, <3>1, <3>2
  <2>9. From(c, floor)
    BY <2>3, <2>4, <2>5, <2>6 DEF From, SameModes, Single
  <2>10. /\ Sound(d) /\ Tidy(d, last) /\ d.sent = <<>> /\ From(d, floor)
         /\ d.expected_frame_id = c.expected_frame_id
    BY <1>1, <2>7, <2>8, <2>9, Bundle, Trimmed, TrimmedTidy, TrimmedFrom
       DEF mm_channel_superbuf_skip, Keeps, SameModes
  <2> HIDE DEF d
  <2>11. /\ From(Finish(d), floor) /\ Finish(d).sent \in Seq(NodesFrom(floor))
         /\ Finish(d).expected_frame_id = ch.expected_frame_id
    BY <1>1, <2>5, <2>6, <2>10, FinishedFrom DEF SameModes
  <2>12. ch' = Finish(d)
    BY <2>2 DEF Command, c, d
  <2>13. ch.expected_frame_id \in Nat
    BY DEF FloorInv, OrderInv, Ordered, Tidy, Typed, Counters
  <2>14. floor' \in Nat /\ floor' <= floor
    BY <1>1, <1>2
  <2>15. From(ch', floor') /\ ch'.sent \in Seq(NodesFrom(floor'))
    BY <1>1, <2>11, <2>12, <2>13, <2>14, LowerFrom
  <2> QED BY <2>4, <2>11, <2>12, <2>15
<1> QED BY <1>2, <1>3
--------------------------------------------------------------------------------
(* The invariant with the floor and what follows from it.                  *)

LEMMA FloorInvInit == Init => FloorInv
<1> SUFFICES ASSUME Init PROVE FloorInv
  OBVIOUS
<1>1. OrderInv
  BY OrderInvInit
<1>2. floor = 0 /\ last = [s \in Streams |-> 0] /\ ch.queue = <<>> /\ ch.sent = <<>>
      /\ ch.expected_frame_id = 0 /\ Single(ch) /\ setup \in Setups
  BY DEF Init, Single
<1>3. <<>> \in Seq(NodesFrom(floor))
  OBVIOUS
<1>4. last[Metadata] = 0
  BY <1>2, Bundle
<1> QED BY <1>1, <1>2, <1>3, <1>4 DEF FloorInv, From

\* What depends on the setup only says the same before and after.
LEMMA SameFloor ==
    ASSUME setup' = setup
    PROVE  /\ Metadata' = Metadata /\ (Plain' <=> Plain) /\ (Alone' <=> Alone)
           /\ \A fl : NodesFrom(fl)' = NodesFrom(fl)
           /\ \A c, fl : From(c, fl)' <=> From(c, fl)
<1>1. /\ Streams' = Streams /\ Metadata' = Metadata /\ Requests' = Requests
      /\ Flushes' = Flushes /\ Generics' = Generics /\ Nodes' = Nodes
  BY SameSetup DEF Streams, Metadata, Requests, Flushes, Generics
<1>2. (Plain' <=> Plain) /\ (Alone' <=> Alone)
  BY <1>1 DEF Plain, Alone
<1>3. \A fl : NodesFrom(fl)' = NodesFrom(fl)
  BY <1>1, <1>2 DEF NodesFrom
<1>4. \A c, fl : From(c, fl)' <=> From(c, fl)
  BY <1>3 DEF From, Single
<1> QED BY <1>1, <1>2, <1>3, <1>4

LEMMA FloorInvNext == FloorInv /\ [Next]_vars => FloorInv'
<1> SUFFICES ASSUME FloorInv, [Next]_vars PROVE FloorInv'
  OBVIOUS
<1>1. OrderInv /\ OrderInv' /\ Inv
  BY OrderInvNext DEF FloorInv, OrderInv
<1>2. setup' = setup
  BY <1>1, Step DEF vars
<1>3. /\ floor' \in Nat
      /\ Plain => /\ From(ch', floor') /\ ch'.sent \in Seq(NodesFrom(floor'))
                  /\ Alone => ch'.expected_frame_id >= last'[Metadata]
  <2>1. ASSUME NEW s \in Streams, Data(s) PROVE <1>3
    BY <2>1, DataFrom
  <2>2. ASSUME RequestSuperBuf \/ FlushQueue \/ AeBracketing \/ FlashBracketing \/ ZoomToOne
               \/ ManualZsl \/ ConfigNotify
        PROVE  <1>3
    <3>1. last' = last
      BY <1>1, <2>2, CommandStep
    <3>2. floor \in Nat
      BY DEF FloorInv
    <3> QED BY <2>2, <3>1, <3>2, CommandFrom
  <2>3. CASE UNCHANGED vars
    BY <2>3 DEF vars, FloorInv
  <2> QED BY <2>1, <2>2, <2>3 DEF Next
<1>4. /\ Metadata' = Metadata /\ (Plain' <=> Plain) /\ (Alone' <=> Alone)
      /\ NodesFrom(floor)' = NodesFrom(floor') /\ (From(ch, floor)' <=> From(ch', floor'))
  BY <1>2, SameFloor
<1> QED BY <1>1, <1>3, <1>4 DEF FloorInv

\* Of a channel asked for one picture at a time, and neither flushed on focus nor
\* told of a mode, nothing is sent from before the frames that the flash lit:
\* mm_channel_handle_metadata empties the queue and moves what is expected beyond
\* any frame the poll threads can have, until the first good one is known.
THEOREM SuperBufNoFrameBeforeFlash == Spec => NoFrameBeforeFlash
<1> DEFINE Lit == \A i \in DOMAIN ch'.sent : ch'.sent[i].frame_idx >= floor'
<1>1. Init => FloorInv
  BY FloorInvInit
<1>2. FloorInv /\ [Next]_vars => FloorInv'
  BY FloorInvNext
<1>3. FloorInv /\ [Next]_vars => [Plain => Lit]_vars
  <2> SUFFICES ASSUME FloorInv, Next, Plain PROVE Lit
    OBVIOUS
  <2>1. Inv /\ FloorInv'
    BY <1>2 DEF FloorInv, OrderInv
  <2>2. setup' = setup
    BY <2>1, Step
  <2>3. ch'.sent \in Seq(NodesFrom(floor'))
    <3>1. Plain' /\ (ch.sent \in Seq(NodesFrom(floor)))'
      BY <2>1, <2>2, SameFloor DEF FloorInv
    <3>2. NodesFrom(floor)' = NodesFrom(floor')
      BY <2>2, SameFloor
    <3> QED BY <3>1, <3>2
  <2> DEFINE sent == ch'.sent
             fl == floor'
  <2>4. sent \in Seq(NodesFrom(fl))
    BY <2>3
  <2> HIDE DEF sent, fl
  <2>5. \A i \in DOMAIN sent : sent[i].frame_idx >= fl
    BY <2>4 DEF NodesFrom
  <2> QED BY <2>5 DEF sent, fl
<1> QED BY <1>1, <1>2, <1>3, PTL DEF Spec, NoFrameBeforeFlash, Plain
================================================================================
