-------------------------- MODULE GnssTrackingProofs --------------------------
(***************************************************************************)
(* For any clients, options and bounds, whatever fails or restarts: no     *)
(* command of a tracking session is answered twice.  What still answers a  *)
(* command is in one of three queues; each handler takes as much from them *)
(* as it puts into them or gives to the client.                            *)
(***************************************************************************)
EXTENDS GnssTracking, FiniteSetTheorems, TLAPS

\* What is to be done with a response that answers a command, ...
Awaited == {"start", "update", "report", "eraseOnError", "restoreOnError", "eraseOnSuccess",
            "startTime", "startDist", "saveOnSuccess"}
\* ... and with one that does not.
Unawaited == {"engineUp", "nothing", "dropOnSuccess"}

Ops == {"open", "startTime", "stopFix", "startDist", "stopDist"}

IsSequence(q) == q \in Seq(Range(q))

\* A request for a session of the owners O, with options of P to be saved.
RequestOK(r, O, P) ==
    /\ r.then \in Awaited \cup Unawaited
    /\ r.then \in Awaited => r.id \in DOMAIN O
    /\ r.then \in {"start", "update", "startTime", "startDist", "saveOnSuccess"} => r.opts \in P
    /\ r.then = "restoreOnError" => r.old \in P
QueueOK(q, O, P) == IsSequence(q) /\ \A i \in DOMAIN q : RequestOK(q[i], O, P)

OpOK(r, O) == r.op \in Ops /\ (r.op = "startDist" => r.id \in DOMAIN O)
OpsOK(q, O) == \A i \in DOMAIN q : OpOK(q[i], O)

\* The requests whose responses wait in the adapter's queue.
Requests(q) == [i \in DOMAIN q |-> q[i].r]
Answers == Requests(inbox)

TimeOptions == {o \in Options : ~ByDistance(o)}
DistOptions == {o \in Options : ByDistance(o)}
MapOK(f, O, P) == DOMAIN f \subseteq DOMAIN O /\ \A s \in DOMAIN f : f[s] \in P

RestOK ==
    /\ setup \in Setups
    /\ clients \subseteq Clients
    /\ {known, up} \subseteq BOOLEAN
    /\ engine = [time |-> engine.time, dist |-> engine.dist] /\ engine.dist \subseteq Ids
    /\ ended \subseteq Ids
OwnersOK == owner \in Seq(Clients) /\ Len(owner) <= MaxSessions
SessionsOK ==
    /\ MapOK(time, owner, TimeOptions)
    /\ MapOK(dist, owner, DistOptions)
    /\ mPowerOn \in BOOLEAN
CountersOK == asked \in [Ids -> Nat] /\ told \in [Ids -> Nat]
QueuesOK ==
    /\ QueueOK(api, owner, Options) /\ OpsOK(api, owner)
    /\ QueueOK(mPendingMsgs, owner, Options)
    /\ \A k \in DOMAIN mPendingMsgs : mPendingMsgs[k].then \in {"start", "update"}
    /\ IsSequence(inbox) /\ QueueOK(Answers, owner, Options)

TInv == RestOK /\ OwnersOK /\ SessionsOK /\ CountersOK /\ QueuesOK

\* How many requests of a queue answer a command of the session.
For(q, id) == {i \in DOMAIN q : q[i].then \in Awaited /\ q[i].id = id}
Count(q, id) == Cardinality(For(q, id))

Live(id) == id \in DOMAIN owner => owner[id] \in clients

\* What was answered and what will be.
CInv ==
    \A id \in Ids :
        /\ told[id] <= asked[id]
        /\ Live(id) =>
             told[id] + Count(api, id) + Count(Answers, id) + Count(mPendingMsgs, id) <= asked[id]

\* At most one request, for the session.
ForOne(q, id, O) ==
    q = <<>> \/ \E r : q = <<r>> /\ r.id = id /\ RequestOK(r, O, Options) /\ OpOK(r, O)

One(i, id) == IF i = id THEN 1 ELSE 0

\* What a handler of the session's messages finds, with the new session's owner, ...
MapsReady ==
    /\ setup \in Setups /\ DOMAIN owner' \subseteq Ids
    /\ MapOK(time, owner', TimeOptions) /\ MapOK(dist, owner', DistOptions)
    /\ mPowerOn \in BOOLEAN
QueuesReady ==
    /\ QueueOK(api, owner', Options) /\ OpsOK(api, owner')
    /\ QueueOK(mPendingMsgs, owner', Options)
    /\ \A k \in DOMAIN mPendingMsgs : mPendingMsgs[k].then \in {"start", "update"}
    /\ told \in [Ids -> Nat]
Ready == MapsReady /\ QueuesReady

\* ... and leaves: the maps, ...
MapsLeft ==
    /\ MapOK(time', owner', TimeOptions) /\ MapOK(dist', owner', DistOptions)
    /\ mPowerOn' \in BOOLEAN
\* ... and at most one answer more, given or to be given to this session.
QueuesLeft ==
    /\ QueueOK(api', owner', Options) /\ OpsOK(api', owner')
    /\ QueueOK(mPendingMsgs', owner', Options)
    /\ \A k \in DOMAIN mPendingMsgs' : mPendingMsgs'[k].then \in {"start", "update"}
    /\ told' \in [Ids -> Nat]
OneMore(id) ==
    \A i \in Ids :
        /\ told'[i] + Count(api', i) + Count(mPendingMsgs', i)
                <= told[i] + Count(api, i) + Count(mPendingMsgs, i) + One(i, id)
        /\ owner'[i] \notin clients => told'[i] = told[i]
Answered(id) == QueuesLeft /\ OneMore(id)
Handled(id) == MapsLeft /\ Answered(id)

----------------------------------------------------------------------------
\* Sequences, and what is counted in them.

LEMMA SequenceOf ==
    ASSUME NEW S, NEW n \in Nat, NEW f \in [1..n -> S]
    PROVE  IsSequence(f) /\ f \in Seq(S) /\ Len(f) = n
<1>1. f \in [1..n -> Range(f)]
  BY DEF Range
<1> QED BY <1>1 DEF IsSequence

LEMMA IsSequenceOf ==
    ASSUME NEW S, NEW q \in Seq(S)
    PROVE  IsSequence(q)
<1>1. q \in [1..Len(q) -> S] /\ Len(q) \in Nat
  OBVIOUS
<1> QED BY <1>1, SequenceOf

LEMMA Joined ==
    ASSUME NEW q, NEW p, IsSequence(q), IsSequence(p)
    PROVE  /\ IsSequence(q \o p)
           /\ Len(q \o p) = Len(q) + Len(p)
           /\ \A i \in 1..Len(q) : (q \o p)[i] = q[i]
           /\ \A i \in 1..Len(p) : (q \o p)[Len(q) + i] = p[i]
<1> DEFINE S == Range(q) \cup Range(p)
<1>1. q \in Seq(S) /\ p \in Seq(S)
  BY DEF IsSequence
<1> HIDE DEF S
<1>2. q \o p \in Seq(S) /\ Len(q \o p) = Len(q) + Len(p)
  BY <1>1
<1>3. /\ \A i \in 1..Len(q) : (q \o p)[i] = q[i]
      /\ \A i \in 1..Len(p) : (q \o p)[Len(q) + i] = p[i]
  BY <1>1
<1> QED BY <1>2, <1>3, IsSequenceOf

LEMMA Appended ==
    ASSUME NEW q, IsSequence(q), NEW r
    PROVE  Append(q, r) = q \o <<r>>
BY DEF IsSequence

LEMMA Counted ==
    ASSUME NEW q, IsSequence(q), NEW id
    PROVE  /\ For(q, id) \subseteq 1..Len(q) /\ Len(q) \in Nat
           /\ IsFiniteSet(For(q, id)) /\ Count(q, id) \in Nat
<1>1. DOMAIN q = 1..Len(q) /\ Len(q) \in Nat
  BY DEF IsSequence
<1>2. IsFiniteSet(1..Len(q))
  BY <1>1, FS_Interval
<1>3. For(q, id) \subseteq 1..Len(q)
  BY <1>1 DEF For
<1> QED BY <1>1, <1>2, <1>3, FS_Subset, FS_CardinalityType DEF Count

\* A set of numbers is as large as the same set further on.
LEMMA Moved ==
    ASSUME NEW m \in Nat, NEW n \in Nat, NEW B \in SUBSET (1..n)
    PROVE  LET C == {m + k : k \in B}
           IN  IsFiniteSet(C) /\ Cardinality(C) = Cardinality(B)
<1> DEFINE C == {m + k : k \in B}
           f == [k \in B |-> m + k]
<1>1. IsFiniteSet(B)
  <2>1. IsFiniteSet(1..n)
    BY FS_Interval
  <2> QED BY <2>1, FS_Subset
<1>2. f \in [B -> C] /\ (\A a, b \in B : f[a] = f[b] => a = b) /\ \A c \in C : \E a \in B : f[a] = c
  OBVIOUS
<1> HIDE DEF f, C
<1>3. f \in Bijection(B, C)
  BY <1>2 DEF Bijection, Injection, Surjection, IsInjective
<1>4. ExistsBijection(B, C)
  BY <1>3 DEF ExistsBijection
<1>5. IsFiniteSet(C) /\ Cardinality(C) = Cardinality(B)
  BY <1>1, <1>4, FS_Bijection
<1> QED BY <1>5 DEF C

LEMMA CountJoined ==
    ASSUME NEW q, NEW p, IsSequence(q), IsSequence(p), NEW id
    PROVE  Count(q \o p, id) = Count(q, id) + Count(p, id)
<1> DEFINE A == For(q, id)
           B == For(p, id)
           C == {Len(q) + k : k \in B}
<1>1. /\ A \subseteq 1..Len(q) /\ B \subseteq 1..Len(p) /\ Len(q) \in Nat /\ Len(p) \in Nat
      /\ IsFiniteSet(A)
      /\ DOMAIN q = 1..Len(q) /\ DOMAIN p = 1..Len(p)
  BY Counted DEF IsSequence
<1>2. IsFiniteSet(C) /\ Cardinality(C) = Cardinality(B)
  BY <1>1, Moved
<1>3. DOMAIN (q \o p) = 1..(Len(q) + Len(p))
  BY Joined DEF IsSequence
<1>4. For(q \o p, id) = A \cup C
  <2>1. \A i \in 1..Len(q) : i \in For(q \o p, id) <=> i \in A
    BY <1>1, <1>3, Joined DEF For
  <2>2. \A i \in 1..Len(p) : Len(q) + i \in For(q \o p, id) <=> i \in B
    BY <1>1, <1>3, Joined DEF For
  <2>3. \A i \in 1..(Len(q) + Len(p)) : i \in 1..Len(q) \/ \E k \in 1..Len(p) : i = Len(q) + k
    <3> TAKE i \in 1..(Len(q) + Len(p))
    <3>1. CASE i > Len(q)
      <4>1. i - Len(q) \in 1..Len(p) /\ i = Len(q) + (i - Len(q))
        BY <1>1, <3>1
      <4> QED BY <4>1
    <3> QED BY <1>1, <3>1
  <2>4. For(q \o p, id) \subseteq 1..(Len(q) + Len(p))
    BY <1>3 DEF For
  <2>5. For(q \o p, id) \subseteq A \cup C
    BY <2>1, <2>2, <2>3, <2>4
  <2>6. A \cup C \subseteq For(q \o p, id)
    BY <1>1, <2>1, <2>2
  <2> QED BY <2>5, <2>6
<1>5. A \cap C = {}
  BY <1>1
<1> HIDE DEF A, B, C
<1>6. Cardinality(A \cup C) = Cardinality(A) + Cardinality(C) - Cardinality({})
  BY <1>1, <1>2, <1>5, FS_Union
<1>7. Cardinality(A) \in Nat /\ Cardinality(C) \in Nat /\ Cardinality({}) = 0
  BY <1>1, <1>2, FS_CardinalityType, FS_EmptySet
<1>8. Cardinality(A \cup C) = Cardinality(A) + Cardinality(B)
  BY <1>2, <1>6, <1>7
<1> QED BY <1>4, <1>8 DEF Count, A, B

LEMMA CountNone ==
    ASSUME NEW q, NEW id, \A i \in DOMAIN q : q[i].then \in Awaited => q[i].id # id
    PROVE  Count(q, id) = 0
<1>1. For(q, id) = {}
  BY DEF For
<1> QED BY <1>1, FS_EmptySet DEF Count

LEMMA CountOne ==
    ASSUME NEW r, NEW id
    PROVE  IsSequence(<<r>>)
           /\ Count(<<r>>, id) = IF r.then \in Awaited /\ r.id = id THEN 1 ELSE 0
<1>1. IsSequence(<<r>>)
  <2>1. <<r>> \in [1..1 -> {r}]
    OBVIOUS
  <2> QED BY <2>1, SequenceOf
<1>2. CASE r.then \in Awaited /\ r.id = id
  <2>1. For(<<r>>, id) = {1}
    BY <1>2 DEF For
  <2> QED BY <1>1, <1>2, <2>1, FS_Singleton DEF Count
<1>3. CASE ~(r.then \in Awaited /\ r.id = id)
  <2>1. For(<<r>>, id) = {}
    BY <1>3 DEF For
  <2> QED BY <1>1, <1>3, <2>1, FS_EmptySet DEF Count
<1> QED BY <1>2, <1>3

LEMMA CountTail ==
    ASSUME NEW q, IsSequence(q), q # <<>>
    PROVE  /\ IsSequence(Tail(q))
           /\ q = <<Head(q)>> \o Tail(q)
           /\ Head(q) = q[1] /\ 1 \in DOMAIN q
           /\ \A i \in DOMAIN Tail(q) : i + 1 \in DOMAIN q /\ Tail(q)[i] = q[i + 1]
           /\ \A id : Count(q, id) = Count(<<Head(q)>>, id) + Count(Tail(q), id)
<1> DEFINE S == Range(q)
<1>1. q \in Seq(S)
  BY DEF IsSequence
<1> HIDE DEF S
<1>2. Tail(q) \in Seq(S) /\ q = <<Head(q)>> \o Tail(q) /\ Head(q) = q[1] /\ 1 \in DOMAIN q
  BY <1>1
<1>3. \A i \in DOMAIN Tail(q) : i + 1 \in DOMAIN q /\ Tail(q)[i] = q[i + 1]
  BY <1>1
<1>5. IsSequence(Tail(q))
  BY <1>2, IsSequenceOf
<1>6. \A id : Count(<<Head(q)>> \o Tail(q), id) = Count(<<Head(q)>>, id) + Count(Tail(q), id)
  BY <1>5, CountOne, CountJoined
<1>7. \A id : Count(q, id) = Count(<<Head(q)>>, id) + Count(Tail(q), id)
  BY <1>2, <1>6
<1> QED BY <1>2, <1>3, <1>5, <1>7

----------------------------------------------------------------------------
\* What the handlers are made of.

LEMMA QueueJoined ==
    ASSUME NEW q, NEW p, NEW O, QueueOK(q, O, Options), QueueOK(p, O, Options)
    PROVE  /\ QueueOK(q \o p, O, Options)
           /\ OpsOK(q, O) /\ OpsOK(p, O) => OpsOK(q \o p, O)
<1>1. IsSequence(q) /\ IsSequence(p)
  BY DEF QueueOK
<1>2. DOMAIN q = 1..Len(q) /\ DOMAIN p = 1..Len(p) /\ DOMAIN (q \o p) = 1..(Len(q) + Len(p))
      /\ Len(q) \in Nat /\ Len(p) \in Nat
  BY <1>1, Joined DEF IsSequence
<1>3. \A i \in DOMAIN (q \o p) :
        (\E k \in DOMAIN q : (q \o p)[i] = q[k]) \/ (\E k \in DOMAIN p : (q \o p)[i] = p[k])
  <2> TAKE i \in DOMAIN (q \o p)
  <2>1. CASE i > Len(q)
    <3>1. i - Len(q) \in 1..Len(p) /\ i = Len(q) + (i - Len(q))
      BY <1>2, <2>1
    <3> QED BY <1>1, <1>2, <3>1, Joined
  <2>2. CASE ~(i > Len(q))
    <3>1. i \in 1..Len(q)
      BY <1>2, <2>2
    <3> QED BY <1>1, <1>2, <3>1, Joined
  <2> QED BY <2>1, <2>2
<1>4. IsSequence(q \o p)
  BY <1>1, Joined
<1> QED BY <1>3, <1>4 DEF QueueOK, OpsOK

LEMMA NoRequest ==
    /\ IsSequence(<<>>)
    /\ \A id : Count(<<>>, id) = 0
    /\ \A O : QueueOK(<<>>, O, Options) /\ OpsOK(<<>>, O)
<1>1. IsSequence(<<>>)
  BY DEF IsSequence
<1>2. \A id : Count(<<>>, id) = 0
  BY CountNone
<1> QED BY <1>1, <1>2 DEF QueueOK, OpsOK

LEMMA OneRequest ==
    ASSUME NEW r, NEW O, RequestOK(r, O, Options), OpOK(r, O)
    PROVE  /\ QueueOK(<<r>>, O, Options) /\ OpsOK(<<r>>, O)
           /\ \A i : Count(<<r>>, i) = IF r.then \in Awaited /\ r.id = i THEN 1 ELSE 0
BY CountOne DEF QueueOK, OpsOK

LEMMA AtMostOneRequest ==
    ASSUME NEW q, NEW id, NEW O, ForOne(q, id, O)
    PROVE  /\ QueueOK(q, O, Options) /\ OpsOK(q, O)
           /\ \A i : Count(q, i) \in Nat /\ Count(q, i) <= One(i, id)
<1>1. CASE q = <<>>
  BY <1>1, NoRequest DEF One
<1>2. CASE \E r : q = <<r>> /\ r.id = id /\ RequestOK(r, O, Options) /\ OpOK(r, O)
  BY <1>2, OneRequest DEF One
<1> QED BY <1>1, <1>2 DEF ForOne

LEMMA Merging ==
    ASSUME NEW S, NEW o
    PROVE  Merged(S, o) = <<>> \/ \E x : Merged(S, o) = <<x>>
BY DEF Merged

LEMMA StartsOne ==
    ASSUME NEW id, NEW x, x = <<>> \/ \E o : x = <<o>>, NEW then, NEW old, NEW O, id \in DOMAIN O,
           then = "eraseOnError" \/ (then = "restoreOnError" /\ old \in Options)
    PROVE  ForOne(StartRequests(id, x, then, old), id, O)
<1>1. CASE x = <<>>
  <2>1. StartRequests(id, x, then, old) = <<>>
    BY <1>1 DEF StartRequests
  <2> QED BY <2>1 DEF ForOne
<1>2. CASE \E o : x = <<o>>
  <2>1. PICK o : x = <<o>>
    BY <1>2
  <2> DEFINE r == Request("startTime", id, o, then, old)
  <2>2. StartRequests(id, x, then, old) = <<r>>
    BY <2>1 DEF StartRequests
  <2>3. r.id = id /\ RequestOK(r, O, Options) /\ OpOK(r, O)
    BY DEF Request, RequestOK, OpOK, Ops, Awaited
  <2> QED BY <2>2, <2>3 DEF ForOne
<1> QED BY <1>1, <1>2

LEMMA StopsOne ==
    ASSUME NEW id, NEW O, id \in DOMAIN O
    PROVE  ForOne(StopRequests(id), id, O)
<1> DEFINE others == DOMAIN time \ {id}
           f == time[Fastest(others)]
           p == LowestPower(others)
           r == Request("stopFix", id, NoOptions, "report", NoOptions)
           x == <<[f EXCEPT !.power = p]>>
<1>1. r.id = id /\ RequestOK(r, O, Options) /\ OpOK(r, O)
  BY DEF Request, RequestOK, OpOK, Ops, Awaited
<1>2. ForOne(<<r>>, id, O)
  BY <1>1 DEF ForOne
<1>3. ForOne(StartRequests(id, x, "eraseOnError", NoOptions), id, O)
  BY StartsOne
<1>4. ForOne(<<>>, id, O)
  BY DEF ForOne
<1>5. \/ StopRequests(id) = <<r>>
      \/ StopRequests(id) = StartRequests(id, x, "eraseOnError", NoOptions)
      \/ StopRequests(id) = <<>>
  BY DEF StopRequests
<1> HIDE DEF r, x
<1> QED BY <1>2, <1>3, <1>4, <1>5

LEMMA Reporting ==
    ASSUME QueuesReady, NEW id \in Ids, Report(id)
    PROVE  /\ told' \in [Ids -> Nat]
           /\ \A i \in Ids : told'[i] <= told[i] + One(i, id)
           /\ \A i \in Ids : owner'[i] \notin clients => told'[i] = told[i]
BY DEF QueuesReady, Report, One

\* Requests that answer at most this session's command, or none and the response.
LEMMA AskedOrReported ==
    ASSUME QueuesReady, NEW id \in Ids, NEW q, UNCHANGED mPendingMsgs,
           QueueOK(q, owner', Options), OpsOK(q, owner'), api' = api \o q,
           \/ told' = told /\ \A i \in Ids : Count(q, i) <= One(i, id)
           \/ Report(id) /\ \A i \in Ids : Count(q, i) = 0
    PROVE  Answered(id)
<1>1. \A i \in Ids : Count(api', i) = Count(api, i) + Count(q, i)
  BY CountJoined DEF QueuesReady, QueueOK
<1>2. \A i \in Ids : Count(api, i) \in Nat /\ Count(q, i) \in Nat /\ Count(mPendingMsgs, i) \in Nat
  BY Counted DEF QueuesReady, QueueOK
<1>3. QueueOK(api', owner', Options) /\ OpsOK(api', owner')
  BY QueueJoined DEF QueuesReady
<1>4. told' \in [Ids -> Nat] /\ \A i \in Ids : told[i] \in Nat /\ told'[i] \in Nat
  BY Reporting DEF QueuesReady
<1>5. QueuesLeft
  BY <1>3, <1>4 DEF QueuesLeft, QueuesReady
<1>6. OneMore(id)
  <2> SUFFICES ASSUME NEW i \in Ids
               PROVE  /\ told'[i] + Count(api', i) + Count(mPendingMsgs', i)
                            <= told[i] + Count(api, i) + Count(mPendingMsgs, i) + One(i, id)
                      /\ owner'[i] \notin clients => told'[i] = told[i]
    BY DEF OneMore
  <2>1. Count(api', i) = Count(api, i) + Count(q, i) /\ mPendingMsgs' = mPendingMsgs
    BY <1>1
  <2>2. Count(api, i) \in Nat /\ Count(q, i) \in Nat /\ Count(mPendingMsgs, i) \in Nat
        /\ told[i] \in Nat /\ told'[i] \in Nat /\ One(i, id) \in Nat
    BY <1>2, <1>4 DEF One
  <2>3. told'[i] + Count(q, i) <= told[i] + One(i, id)
    <3>1. CASE told' = told /\ \A k \in Ids : Count(q, k) <= One(k, id)
      BY <2>2, <3>1
    <3>2. CASE Report(id) /\ \A k \in Ids : Count(q, k) = 0
      BY <2>2, <3>2, Reporting
    <3> QED BY <3>1, <3>2
  <2>4. owner'[i] \notin clients => told'[i] = told[i]
    BY Reporting
  <2> QED BY <2>1, <2>2, <2>3, <2>4
<1> QED BY <1>5, <1>6 DEF Answered

LEMMA NothingAsked ==
    ASSUME QueuesReady, NEW id \in Ids, UNCHANGED <<api, mPendingMsgs>>,
           told' = told \/ Report(id)
    PROVE  Answered(id)
<1>1. \A i \in Ids : Count(api, i) \in Nat /\ Count(mPendingMsgs, i) \in Nat
  BY Counted DEF QueuesReady, QueueOK
<1>2. told' \in [Ids -> Nat] /\ \A i \in Ids : told[i] \in Nat /\ told'[i] \in Nat
  BY Reporting DEF QueuesReady
<1>3. QueuesLeft
  BY <1>2 DEF QueuesLeft, QueuesReady
<1>4. OneMore(id)
  <2>1. CASE told' = told
    BY <1>1, <1>2, <2>1 DEF OneMore, One
  <2>2. CASE Report(id)
    BY <1>1, <1>2, <2>2, Reporting DEF OneMore, One
  <2> QED BY <2>1, <2>2
<1> QED BY <1>3, <1>4 DEF Answered

LEMMA AskingOrReporting ==
    ASSUME QueuesReady, NEW id \in Ids, NEW q, UNCHANGED mPendingMsgs,
           ForOne(q, id, owner'), AskOrReport(id, q)
    PROVE  Answered(id)
<1>1. QueueOK(q, owner', Options) /\ OpsOK(q, owner') /\ \A i \in Ids : Count(q, i) <= One(i, id)
  BY AtMostOneRequest
<1>2. q = <<>> => \A i \in Ids : Count(q, i) = 0
  BY NoRequest
<1> QED BY <1>1, <1>2, AskedOrReported DEF AskOrReport, Ask

LEMMA OptionsRaised ==
    /\ ClientOptions \subseteq Options
    /\ \A o \in Options : Raised(o) \in Options
    /\ Options = TimeOptions \cup DistOptions
<1>1. ClientOptions \subseteq Options
  BY DEF ClientOptions, Options
<1>2. \A o \in Options : Raised(o) \in Options
  BY DEF Options, Raised
<1>3. Options = TimeOptions \cup DistOptions
  BY DEF TimeOptions, DistOptions
<1> QED BY <1>1, <1>2, <1>3

LEMMA MapSet ==
    ASSUME NEW f, NEW O, NEW P, MapOK(f, O, P), NEW id \in DOMAIN O, NEW o \in P
    PROVE  MapOK(With(f, id, o), O, P)
<1>1. With(f, id, o) = [s \in DOMAIN f \cup {id} |-> IF s = id THEN o ELSE f[s]]
  BY DEF With
<1> QED BY <1>1 DEF MapOK

LEMMA MapWithout ==
    ASSUME NEW f, NEW O, NEW P, MapOK(f, O, P), NEW id
    PROVE  MapOK(Without(f, id), O, P)
<1> DEFINE S == DOMAIN f \ {id}
<1>1. Without(f, id) = [x \in S |-> f[x]]
  BY DEF Without, Restrict
<1> QED BY <1>1 DEF MapOK

LEMMA Setting ==
    ASSUME NEW t, NEW d, MapOK(t, owner', TimeOptions), MapOK(d, owner', DistOptions),
           SetSessions(t, d)
    PROVE  MapsLeft
BY DEF SetSessions, MapsLeft

LEMMA Saving ==
    ASSUME NEW t, NEW d, MapOK(t, owner', TimeOptions), MapOK(d, owner', DistOptions),
           NEW id \in DOMAIN owner', NEW o \in Options, Save(t, d, id, o)
    PROVE  MapsLeft
<1>1. CASE ByDistance(o)
  <2>1. MapOK(With(d, id, o), owner', DistOptions)
    BY <1>1, MapSet DEF DistOptions
  <2> QED BY <1>1, <2>1, Setting DEF Save
<1>2. CASE ~ByDistance(o)
  <2>1. MapOK(With(t, id, o), owner', TimeOptions)
    BY <1>2, MapSet DEF TimeOptions
  <2> QED BY <1>2, <2>1, Setting DEF Save
<1> QED BY <1>1, <1>2

LEMMA Erasing ==
    ASSUME MapsReady, NEW id, Erase(id)
    PROVE  MapsLeft
<1>1. MapOK(Without(time, id), owner', TimeOptions) /\ MapOK(Without(dist, id), owner', DistOptions)
  BY MapWithout DEF MapsReady
<1> QED BY <1>1, Setting DEF MapsReady, Erase

LEMMA KeepingMaps ==
    ASSUME MapsReady, UNCHANGED sessions
    PROVE  MapsLeft
BY DEF MapsReady, MapsLeft, sessions

----------------------------------------------------------------------------
\* The handlers.

LEMMA Postponing ==
    ASSUME Ready, NEW id \in DOMAIN owner', NEW o \in Options, NEW what \in {"start", "update"},
           Postpone(what, id, o)
    PROVE  Handled(id)
<1> DEFINE r == Request("", id, o, what, NoOptions)
<1>1. mPendingMsgs' = mPendingMsgs \o <<r>>
  <2>1. IsSequence(mPendingMsgs) /\ mPendingMsgs' = Append(mPendingMsgs, r)
    BY DEF Ready, QueuesReady, QueueOK, Postpone
  <2> QED BY <2>1, Appended
<1>2. r.id = id /\ r.then = what /\ RequestOK(r, owner', Options)
  BY DEF Request, RequestOK, Awaited
<1> HIDE DEF r
<1>3. QueueOK(<<r>>, owner', Options) /\ IsSequence(<<r>>)
  BY <1>2, CountOne DEF QueueOK
<1>4. QueueOK(mPendingMsgs', owner', Options)
  BY <1>1, <1>3, QueueJoined DEF Ready, QueuesReady
<1>5. \A k \in DOMAIN mPendingMsgs' : mPendingMsgs'[k].then \in {"start", "update"}
  <2>1. /\ mPendingMsgs \in Seq(Range(mPendingMsgs))
        /\ \A k \in DOMAIN mPendingMsgs : mPendingMsgs[k].then \in {"start", "update"}
    BY DEF Ready, QueuesReady, QueueOK, IsSequence
  <2>2. mPendingMsgs' = Append(mPendingMsgs, r)
    BY DEF Postpone, r
  <2> QED BY <1>2, <2>1, <2>2
<1>6. QueuesLeft
  BY <1>4, <1>5 DEF Ready, QueuesReady, QueuesLeft, Postpone
<1>7. OneMore(id)
  <2> SUFFICES ASSUME NEW i \in Ids
               PROVE  /\ told'[i] + Count(api', i) + Count(mPendingMsgs', i)
                            <= told[i] + Count(api, i) + Count(mPendingMsgs, i) + One(i, id)
                      /\ owner'[i] \notin clients => told'[i] = told[i]
    BY DEF OneMore
  <2>1. Count(mPendingMsgs', i) = Count(mPendingMsgs, i) + Count(<<r>>, i)
    BY <1>1, <1>3, CountJoined DEF Ready, QueuesReady, QueueOK
  <2>2. Count(<<r>>, i) = One(i, id)
    BY <1>2, CountOne DEF One, Awaited
  <2>3. Count(api, i) \in Nat /\ Count(mPendingMsgs, i) \in Nat /\ told[i] \in Nat /\ One(i, id) \in Nat
    BY Counted DEF Ready, QueuesReady, QueueOK, One
  <2>4. told' = told /\ api' = api
    BY DEF Postpone
  <2> QED BY <2>1, <2>2, <2>3, <2>4
<1>8. MapsLeft
  BY KeepingMaps DEF Ready, Postpone
<1> QED BY <1>6, <1>7, <1>8 DEF Handled, Answered

LEMMA Starting ==
    ASSUME Ready, NEW id \in DOMAIN owner', NEW o \in Options, ProcStart(id, o)
    PROVE  Handled(id)
<1> DEFINE p == Raised(o)
<1>0. p \in Options /\ id \in Ids /\ MapsReady /\ QueuesReady
  BY OptionsRaised DEF Ready, MapsReady
<1>1. CASE ~known /\ o.distance
  BY <1>1, Postponing DEF ProcStart
<1>2. CASE ~(~known /\ o.distance) /\ owner'[id] \notin clients \cap Trackers
  <2>1. UNCHANGED <<sessions, api, told, mPendingMsgs>>
    BY <1>2 DEF ProcStart
  <2> QED BY <1>0, <2>1, NothingAsked, KeepingMaps DEF Handled
<1>3. CASE ~(~known /\ o.distance) /\ owner'[id] \in clients \cap Trackers /\ ByDistance(o)
  <2> DEFINE r == Request("startDist", id, p, "eraseOnError", NoOptions)
  <2>1. Save(time, dist, id, p) /\ Ask(<<r>>) /\ UNCHANGED <<told, mPendingMsgs>>
    BY <1>3 DEF ProcStart
  <2>2. ForOne(<<r>>, id, owner')
    <3>1. r.id = id /\ RequestOK(r, owner', Options) /\ OpOK(r, owner')
      BY <1>0 DEF Request, RequestOK, OpOK, Ops, Awaited
    <3> QED BY <3>1 DEF ForOne
  <2> HIDE DEF r, p
  <2>3. Answered(id)
    BY <1>0, <2>1, <2>2, AtMostOneRequest, AskedOrReported DEF Ask
  <2>4. MapsLeft
    BY <1>0, <2>1, Saving DEF MapsReady
  <2> QED BY <2>3, <2>4 DEF Handled
<1>4. CASE ~(~known /\ o.distance) /\ owner'[id] \in clients \cap Trackers /\ ~ByDistance(o)
  <2> DEFINE q == StartRequests(id, StartOptions(p), "eraseOnError", NoOptions)
  <2>1. Save(time, dist, id, p) /\ AskOrReport(id, q) /\ UNCHANGED mPendingMsgs
    BY <1>4 DEF ProcStart
  <2>2. StartOptions(p) = <<>> \/ \E x : StartOptions(p) = <<x>>
    BY Merging DEF StartOptions
  <2>3. ForOne(q, id, owner')
    BY <2>2, StartsOne
  <2> HIDE DEF q, p
  <2>4. Answered(id)
    BY <1>0, <2>1, <2>3, AskingOrReporting
  <2>5. MapsLeft
    BY <1>0, <2>1, Saving DEF MapsReady
  <2> QED BY <2>4, <2>5 DEF Handled
<1> QED BY <1>1, <1>2, <1>3, <1>4

LEMMA Stopping ==
    ASSUME Ready, NEW id \in DOMAIN owner', ProcStop(id)
    PROVE  Handled(id)
<1>0. id \in Ids /\ MapsReady /\ QueuesReady
  BY DEF Ready, MapsReady
<1>1. CASE id \in DOMAIN time
  <2>1. AskOrReport(id, StopRequests(id)) /\ Erase(id) /\ UNCHANGED mPendingMsgs
    BY <1>1 DEF ProcStop
  <2> QED BY <1>0, <2>1, StopsOne, AskingOrReporting, Erasing DEF Handled
<1>2. CASE id \notin DOMAIN time /\ id \in DOMAIN dist
  <2> DEFINE r == Request("stopDist", id, NoOptions, "eraseOnSuccess", NoOptions)
  <2>1. Ask(<<r>>) /\ UNCHANGED <<sessions, told, mPendingMsgs>>
    BY <1>2 DEF ProcStop
  <2>2. ForOne(<<r>>, id, owner')
    <3>1. r.id = id /\ RequestOK(r, owner', Options) /\ OpOK(r, owner')
      BY DEF Request, RequestOK, OpOK, Ops, Awaited
    <3> QED BY <3>1 DEF ForOne
  <2> HIDE DEF r
  <2>3. Answered(id)
    BY <1>0, <2>1, <2>2, AtMostOneRequest, AskedOrReported DEF Ask
  <2> QED BY <1>0, <2>1, <2>3, KeepingMaps DEF Handled
<1>3. CASE id \notin DOMAIN time /\ id \notin DOMAIN dist
  <2>1. Report(id) /\ UNCHANGED <<sessions, api, mPendingMsgs>>
    BY <1>3 DEF ProcStop
  <2> QED BY <1>0, <2>1, NothingAsked, KeepingMaps DEF Handled
<1> QED BY <1>1, <1>2, <1>3

LEMMA Updating ==
    ASSUME Ready, NEW id \in DOMAIN owner', NEW o \in Options, ProcUpdate(id, o)
    PROVE  Handled(id)
<1> DEFINE p == Raised(o)
<1>0. p \in Options /\ id \in Ids /\ MapsReady /\ QueuesReady
  BY OptionsRaised DEF Ready, MapsReady
<1>1. CASE ~known /\ o.distance
  BY <1>1, Postponing DEF ProcUpdate
<1>2. CASE ~(~known /\ o.distance) /\ id \notin DOMAIN time \cup DOMAIN dist
  <2>1. Report(id) /\ UNCHANGED <<sessions, api, mPendingMsgs>>
    BY <1>2 DEF ProcUpdate
  <2> QED BY <1>0, <2>1, NothingAsked, KeepingMaps DEF Handled
<1>3. ASSUME UNCHANGED mPendingMsgs, TimeToDistance(id, p) PROVE Handled(id)
  <2> DEFINE stop == StopRequests(id)
             r == Request("startDist", id, p, "nothing", NoOptions)
             q == stop \o <<r>>
  <2>1. RequestOK(r, owner', Options) /\ OpOK(r, owner') /\ r.then \notin Awaited
    BY DEF Request, RequestOK, OpOK, Ops, Awaited, Unawaited
  <2>2. ForOne(stop, id, owner')
    BY StopsOne
  <2>3. Ask(Append(stop, r)) /\ (IF stop = <<>> THEN Report(id) ELSE UNCHANGED told)
        /\ Save(Without(time, id), dist, id, p)
    BY <1>3 DEF TimeToDistance
  <2> HIDE DEF stop, r, p
  <2>4. QueueOK(stop, owner', Options) /\ OpsOK(stop, owner')
        /\ \A i : Count(stop, i) \in Nat /\ Count(stop, i) <= One(i, id)
    BY <2>2, AtMostOneRequest
  <2>5. QueueOK(<<r>>, owner', Options) /\ OpsOK(<<r>>, owner') /\ \A i : Count(<<r>>, i) = 0
    BY <2>1, OneRequest
  <2>6. QueueOK(q, owner', Options) /\ OpsOK(q, owner')
    BY <2>4, <2>5, QueueJoined
  <2>7. \A i : Count(q, i) = Count(stop, i)
    <3>1. \A i : Count(q, i) = Count(stop, i) + Count(<<r>>, i)
      BY <2>4, <2>5, CountJoined DEF QueueOK
    <3> QED BY <2>4, <2>5, <3>1
  <2>8. stop = <<>> => \A i : Count(stop, i) = 0
    BY NoRequest
  <2>9. Append(stop, r) = q
    BY <2>4, Appended DEF QueueOK
  <2> HIDE DEF q
  <2>10. api' = api \o q
    BY <2>3, <2>9 DEF Ask
  <2>11. \/ told' = told /\ \A i \in Ids : Count(q, i) <= One(i, id)
         \/ Report(id) /\ \A i \in Ids : Count(q, i) = 0
    BY <2>3, <2>4, <2>7, <2>8
  <2>12. Answered(id)
    BY <1>0, <1>3, <2>6, <2>10, <2>11, AskedOrReported
  <2>13. MapsLeft
    <3>1. MapOK(Without(time, id), owner', TimeOptions)
      BY <1>0, MapWithout DEF MapsReady
    <3> QED BY <1>0, <2>3, <3>1, Saving DEF MapsReady, p
  <2> QED BY <2>12, <2>13 DEF Handled
<1>4. ASSUME UNCHANGED mPendingMsgs, DistanceToTime(id, p) PROVE Handled(id)
  <2> DEFINE r == Request("stopDist", id, p, "startTime", NoOptions)
  <2>1. Erase(id) /\ Ask(<<r>>) /\ UNCHANGED <<told, mPendingMsgs>>
    BY <1>4 DEF DistanceToTime
  <2>2. ForOne(<<r>>, id, owner')
    <3>1. r.id = id /\ RequestOK(r, owner', Options) /\ OpOK(r, owner')
      BY <1>0 DEF Request, RequestOK, OpOK, Ops, Awaited
    <3> QED BY <3>1 DEF ForOne
  <2> HIDE DEF r, p
  <2>3. Answered(id)
    BY <1>0, <2>1, <2>2, AtMostOneRequest, AskedOrReported DEF Ask
  <2> QED BY <1>0, <2>1, <2>3, Erasing DEF Handled
<1>5. ASSUME UNCHANGED mPendingMsgs, id \in DOMAIN time, UpdateTime(id, p) PROVE Handled(id)
  <2> DEFINE x == UpdateOptions(id, p)
             q == StartRequests(id, x, "restoreOnError", time[id])
  <2>1. AskOrReport(id, q) /\ Save(time, dist, id, p)
    BY <1>5 DEF UpdateTime
  <2>2. x = <<>> \/ \E v : x = <<v>>
    BY Merging DEF UpdateOptions
  <2>3. time[id] \in Options
    BY <1>0, <1>5 DEF MapsReady, MapOK, TimeOptions
  <2> HIDE DEF x, p
  <2>4. ForOne(q, id, owner')
    BY <2>2, <2>3, StartsOne
  <2> HIDE DEF q
  <2>5. Answered(id)
    BY <1>0, <1>5, <2>1, <2>4, AskingOrReporting
  <2>6. MapsLeft
    BY <1>0, <2>1, Saving DEF MapsReady
  <2> QED BY <2>5, <2>6 DEF Handled
<1>6. ASSUME UNCHANGED mPendingMsgs, UpdateDistance(id, p) PROVE Handled(id)
  <2> DEFINE r == Request("stopDist", id, p, "startDist", NoOptions)
  <2>1. Ask(<<r>>) /\ UNCHANGED <<sessions, told, mPendingMsgs>>
    BY <1>6 DEF UpdateDistance
  <2>2. ForOne(<<r>>, id, owner')
    <3>1. r.id = id /\ RequestOK(r, owner', Options) /\ OpOK(r, owner')
      BY <1>0 DEF Request, RequestOK, OpOK, Ops, Awaited
    <3> QED BY <3>1 DEF ForOne
  <2> HIDE DEF r, p
  <2>3. Answered(id)
    BY <1>0, <2>1, <2>2, AtMostOneRequest, AskedOrReported DEF Ask
  <2> QED BY <1>0, <2>1, <2>3, KeepingMaps DEF Handled
<1> QED BY <1>1, <1>2, <1>3, <1>4, <1>5, <1>6 DEF ProcUpdate

----------------------------------------------------------------------------
\* The adapter's queue, and what stays.

LEMMA TailOf ==
    ASSUME NEW q, IsSequence(q), q # <<>>
    PROVE  Tail(q) = [i \in 1..(Len(q) - 1) |-> q[i + 1]]
<1>1. IsSequence(Tail(q)) /\ \A i \in DOMAIN Tail(q) : Tail(q)[i] = q[i + 1]
  BY CountTail
<1>2. Len(Tail(q)) = Len(q) - 1
  BY DEF IsSequence
<1>3. DOMAIN Tail(q) = 1..(Len(q) - 1)
  BY <1>1, <1>2 DEF IsSequence
<1>4. Tail(q) = [i \in DOMAIN Tail(q) |-> Tail(q)[i]]
  <2> DEFINE t == Tail(q)
  <2>1. IsSequence(t)
    BY <1>1
  <2> HIDE DEF t
  <2>2. t = [i \in DOMAIN t |-> t[i]]
    BY <2>1 DEF IsSequence
  <2> QED BY <2>2 DEF t
<1> QED BY <1>1, <1>3, <1>4

LEMMA RequestsOf ==
    ASSUME NEW q, IsSequence(q)
    PROVE  /\ IsSequence(Requests(q)) /\ Len(Requests(q)) = Len(q) /\ DOMAIN Requests(q) = DOMAIN q
           /\ q # <<>> => Requests(q) # <<>> /\ Head(Requests(q)) = Head(q).r
                          /\ Requests(Tail(q)) = Tail(Requests(q))
<1>1. DOMAIN q = 1..Len(q) /\ Len(q) \in Nat
  BY DEF IsSequence
<1> DEFINE S == Range(Requests(q))
<1>2. Requests(q) \in [1..Len(q) -> S]
  BY <1>1 DEF Requests, Range
<1>3. IsSequence(Requests(q)) /\ Requests(q) \in Seq(S) /\ Len(Requests(q)) = Len(q)
      /\ DOMAIN Requests(q) = DOMAIN q
  <2> HIDE DEF S
  <2> QED BY <1>1, <1>2, SequenceOf
<1>4. ASSUME q # <<>> PROVE Requests(q) # <<>> /\ Head(Requests(q)) = Head(q).r
                            /\ Requests(Tail(q)) = Tail(Requests(q))
  <2>1. 1 \in DOMAIN q /\ Head(q) = q[1] /\ IsSequence(Tail(q))
        /\ \A i \in DOMAIN Tail(q) : i + 1 \in DOMAIN q /\ Tail(q)[i] = q[i + 1]
    BY <1>4, CountTail
  <2>2. Len(Tail(q)) = Len(q) - 1
    BY <1>4 DEF IsSequence
  <2>3. DOMAIN Tail(q) = 1..(Len(q) - 1)
    BY <2>1, <2>2 DEF IsSequence
  <2>4. Requests(q)[1] = Head(q).r /\ Requests(q) # <<>>
    BY <2>1 DEF Requests
  <2>5. Head(Requests(q)) = Head(q).r
    BY <1>3, <2>4, CountTail
  <2>6. Tail(Requests(q)) = [i \in 1..(Len(q) - 1) |-> Requests(q)[i + 1]]
    BY <1>3, <2>4, TailOf
  <2>7. \A i \in 1..(Len(q) - 1) : Requests(q)[i + 1] = Tail(q)[i].r
    BY <2>1, <2>3 DEF Requests
  <2>8. Requests(Tail(q)) = [i \in 1..(Len(q) - 1) |-> Tail(q)[i].r]
    BY <2>3 DEF Requests
  <2> QED BY <2>4, <2>5, <2>6, <2>7, <2>8
<1> QED BY <1>3, <1>4

LEMMA RequestsJoined ==
    ASSUME NEW q, NEW p, IsSequence(q), IsSequence(p)
    PROVE  Requests(q \o p) = Requests(q) \o Requests(p)
<1> DEFINE a == Requests(q \o p)
           b == Requests(q) \o Requests(p)
           n == Len(q) + Len(p)
<1>1. DOMAIN q = 1..Len(q) /\ DOMAIN p = 1..Len(p) /\ Len(q) \in Nat /\ Len(p) \in Nat
  BY DEF IsSequence
<1>2. IsSequence(q \o p) /\ Len(q \o p) = n /\ DOMAIN (q \o p) = 1..n
  BY Joined DEF IsSequence
<1>3. IsSequence(Requests(q)) /\ IsSequence(Requests(p))
      /\ Len(Requests(q)) = Len(q) /\ Len(Requests(p)) = Len(p)
  BY RequestsOf
<1>4. IsSequence(b) /\ Len(b) = n /\ DOMAIN b = 1..n
  <2>1. IsSequence(b) /\ Len(b) = n
    BY <1>3, Joined
  <2> HIDE DEF b
  <2> QED BY <2>1 DEF IsSequence
<1>5. IsSequence(a) /\ DOMAIN a = 1..n
  BY <1>2, RequestsOf
<1>6. \A i \in 1..Len(q) : a[i] = b[i]
  <2> TAKE i \in 1..Len(q)
  <2>1. i \in 1..n
    BY <1>1
  <2>2. a[i] = (q \o p)[i].r /\ (q \o p)[i] = q[i]
    BY <1>2, <2>1, Joined DEF Requests
  <2>3. b[i] = Requests(q)[i] /\ Requests(q)[i] = q[i].r
    BY <1>1, <1>3, Joined DEF Requests
  <2> QED BY <2>2, <2>3
<1>7. \A i \in 1..Len(p) : a[Len(q) + i] = b[Len(q) + i]
  <2> TAKE i \in 1..Len(p)
  <2>1. Len(q) + i \in 1..n
    BY <1>1
  <2>2. a[Len(q) + i] = (q \o p)[Len(q) + i].r /\ (q \o p)[Len(q) + i] = p[i]
    BY <1>2, <2>1, Joined DEF Requests
  <2>3. b[Len(q) + i] = Requests(p)[i] /\ Requests(p)[i] = p[i].r
    BY <1>1, <1>3, Joined DEF Requests
  <2> QED BY <2>2, <2>3
<1>8. \A i \in 1..n : a[i] = b[i]
  <2> TAKE i \in 1..n
  <2>1. CASE i > Len(q)
    <3>1. i - Len(q) \in 1..Len(p) /\ i = Len(q) + (i - Len(q))
      BY <1>1, <2>1
    <3> QED BY <1>7, <3>1
  <2>2. CASE ~(i > Len(q))
    <3>1. i \in 1..Len(q)
      BY <1>1, <2>2
    <3> QED BY <1>6, <3>1
  <2> QED BY <2>1, <2>2
<1>9. a = [i \in 1..n |-> a[i]] /\ b = [i \in 1..n |-> b[i]]
  <2> HIDE DEF a, b, n
  <2> QED BY <1>4, <1>5 DEF IsSequence
<1> QED BY <1>8, <1>9

LEMMA SetupStays ==
    ASSUME setup' = setup
    PROVE  /\ TimeOptions' = TimeOptions /\ DistOptions' = DistOptions /\ Options' = Options
           /\ Ids' = Ids /\ MaxSessions' = MaxSessions
BY DEF TimeOptions, DistOptions, Options, ByDistance, DistanceSupported, Ids, MaxSessions,
       MinInterval, Intervals, Powers, Distances

LEMMA MoreOwners ==
    ASSUME NEW O, NEW Q, DOMAIN O \subseteq DOMAIN Q
    PROVE  /\ \A f, P : MapOK(f, O, P) => MapOK(f, Q, P)
           /\ \A q : QueueOK(q, O, Options) => QueueOK(q, Q, Options)
           /\ \A q : OpsOK(q, O) => OpsOK(q, Q)
<1>1. \A f, P : MapOK(f, O, P) => MapOK(f, Q, P)
  BY DEF MapOK
<1>2. \A r : RequestOK(r, O, Options) => RequestOK(r, Q, Options)
  BY DEF RequestOK
<1>3. \A r : OpOK(r, O) => OpOK(r, Q)
  BY DEF OpOK
<1> QED BY <1>1, <1>2, <1>3 DEF QueueOK, OpsOK

LEMMA OwnedIds ==
    ASSUME TInv
    PROVE  DOMAIN owner = 1..Len(owner) /\ Len(owner) \in Nat /\ DOMAIN owner \subseteq Ids
           /\ MaxSessions \in Nat
<1>1. MaxSessions \in Nat
  BY GnssTrackingAssumption DEF TInv, RestOK, MaxSessions
<1> QED BY <1>1 DEF TInv, OwnersOK, Ids

LEMMA GetReady ==
    ASSUME TInv, setup' = setup, DOMAIN owner \subseteq DOMAIN owner', DOMAIN owner' \subseteq Ids
    PROVE  Ready
<1>1. MapsReady
  BY MoreOwners DEF TInv, RestOK, SessionsOK, MapsReady
<1>2. QueuesReady
  BY MoreOwners DEF TInv, QueuesOK, CountersOK, QueuesReady
<1> QED BY <1>1, <1>2 DEF Ready

LEMMA Numbers ==
    ASSUME TInv, NEW i \in Ids
    PROVE  /\ told[i] \in Nat /\ asked[i] \in Nat
           /\ Count(api, i) \in Nat /\ Count(Answers, i) \in Nat /\ Count(mPendingMsgs, i) \in Nat
<1>1. told[i] \in Nat /\ asked[i] \in Nat
  BY DEF TInv, CountersOK
<1>2. IsSequence(api) /\ IsSequence(Answers) /\ IsSequence(mPendingMsgs)
  BY DEF TInv, QueuesOK, QueueOK
<1> QED BY <1>1, <1>2, Counted

LEMMA NumbersLeft ==
    ASSUME QueuesLeft, NEW i \in Ids
    PROVE  told'[i] \in Nat /\ Count(api', i) \in Nat /\ Count(mPendingMsgs', i) \in Nat
<1>1. told'[i] \in Nat
  BY DEF QueuesLeft
<1>2. IsSequence(api') /\ IsSequence(mPendingMsgs')
  BY DEF QueuesLeft, QueueOK
<1> QED BY <1>1, <1>2, Counted

\* A client's command and what its handler leaves.
LEMMA Commanded ==
    ASSUME TInv, CInv, NEW id \in DOMAIN owner', Handled(id),
           owner' \in Seq(Clients), Len(owner') <= MaxSessions,
           DOMAIN owner \subseteq DOMAIN owner', \A s \in DOMAIN owner : owner'[s] = owner[s],
           asked' = [asked EXCEPT ![id] = @ + 1],
           UNCHANGED <<setup, clients, known, inbox, up, engine>>, ended' \subseteq Ids
    PROVE  TInv' /\ CInv'
<1>0. DOMAIN owner' \subseteq Ids
  <2>1. MaxSessions \in Nat
    BY OwnedIds
  <2> QED BY <2>1 DEF Ids
<1>1. RestOK'
  BY SetupStays DEF TInv, RestOK
<1>2. OwnersOK'
  BY SetupStays DEF OwnersOK
<1>3. SessionsOK'
  BY SetupStays DEF Handled, MapsLeft, SessionsOK
<1>4. CountersOK'
  <2>1. asked' \in [Ids -> Nat]
    BY <1>0 DEF TInv, CountersOK
  <2> QED BY <2>1, SetupStays DEF CountersOK, Handled, Answered, QueuesLeft
<1>5. QueuesOK'
  <2>1. Answers' = Answers
    BY DEF Answers
  <2>2. QueueOK(Answers', owner', Options)
    BY <2>1, MoreOwners DEF TInv, QueuesOK
  <2> QED BY <2>2, SetupStays DEF TInv, QueuesOK, Handled, Answered, QueuesLeft
<1>6. CInv'
  <2> SUFFICES ASSUME NEW i \in Ids
               PROVE  /\ told'[i] <= asked'[i]
                      /\ Live(i)' => told'[i] + Count(api', i) + Count(Answers', i)
                                         + Count(mPendingMsgs', i) <= asked'[i]
    BY SetupStays DEF CInv
  <2>1. /\ told[i] \in Nat /\ asked[i] \in Nat
        /\ Count(api, i) \in Nat /\ Count(Answers, i) \in Nat /\ Count(mPendingMsgs, i) \in Nat
    BY Numbers
  <2>2. told'[i] \in Nat /\ Count(api', i) \in Nat /\ Count(mPendingMsgs', i) \in Nat
    BY NumbersLeft DEF Handled, Answered
  <2>3. asked'[i] = asked[i] + One(i, id) /\ One(i, id) \in Nat /\ Answers' = Answers
    BY DEF TInv, CountersOK, One, Answers
  <2>4. /\ told'[i] + Count(api', i) + Count(mPendingMsgs', i)
                <= told[i] + Count(api, i) + Count(mPendingMsgs, i) + One(i, id)
        /\ owner'[i] \notin clients => told'[i] = told[i]
    BY DEF Handled, Answered, OneMore
  <2>5. Live(i)' => Live(i)
    BY DEF Live
  <2>6. ~Live(i)' => told'[i] = told[i]
    BY <2>4 DEF Live
  <2>7. told[i] <= asked[i] /\ (Live(i) => told[i] + Count(api, i) + Count(Answers, i)
                                              + Count(mPendingMsgs, i) <= asked[i])
    BY DEF CInv
  <2>8. CASE Live(i)'
    <3>1. told[i] + Count(api, i) + Count(Answers, i) + Count(mPendingMsgs, i) <= asked[i]
      BY <2>5, <2>7, <2>8
    <3>2. told'[i] + Count(api', i) + Count(Answers, i) + Count(mPendingMsgs', i) <= asked'[i]
      <4> DEFINE t == told[i]
                 tt == told'[i]
                 c == asked[i]
                 o == One(i, id)
                 q == Count(api, i)
                 qq == Count(api', i)
                 n == Count(Answers, i)
                 p == Count(mPendingMsgs, i)
                 pp == Count(mPendingMsgs', i)
      <4>1. t \in Nat /\ q \in Nat /\ n \in Nat /\ p \in Nat /\ c \in Nat /\ tt \in Nat
            /\ qq \in Nat /\ pp \in Nat /\ o \in Nat
        BY <2>1, <2>2, <2>3
      <4>2. tt + qq + pp <= t + q + p + o
        BY <2>4
      <4>3. t + q + n + p <= c
        BY <3>1
      <4>4. asked'[i] = c + o
        BY <2>3
      <4> HIDE DEF t, tt, c, o, q, qq, n, p, pp
      <4>5. tt + qq + n + pp <= c + o
        BY <4>1, <4>2, <4>3
      <4> QED BY <4>4, <4>5 DEF tt, qq, n, pp
    <3>3. told'[i] <= asked'[i]
      BY <2>1, <2>2, <2>3, <3>2
    <3> QED BY <2>3, <3>2, <3>3
  <2>9. CASE ~Live(i)'
    BY <2>1, <2>3, <2>6, <2>7, <2>9
  <2> QED BY <2>8, <2>9
<1> QED BY <1>1, <1>2, <1>3, <1>4, <1>5, <1>6 DEF TInv

\* The response at the head of the adapter's queue.
LEMMA AnswerAtHead ==
    ASSUME TInv, inbox # <<>>
    PROVE  /\ Answers # <<>> /\ Head(Answers) = Answer.r
           /\ RequestOK(Answer.r, owner, Options)
           /\ IsSequence(Tail(inbox)) /\ Requests(Tail(inbox)) = Tail(Answers)
           /\ QueueOK(Tail(Answers), owner, Options)
           /\ \A i : Count(Answers, i) = Count(Tail(Answers), i)
                     + (IF Answer.r.then \in Awaited /\ Answer.r.id = i THEN 1 ELSE 0)
<1>1. IsSequence(inbox) /\ QueueOK(Answers, owner, Options) /\ IsSequence(Answers)
  BY DEF TInv, QueuesOK, QueueOK
<1>2. Answers # <<>> /\ Head(Answers) = Answer.r /\ Requests(Tail(inbox)) = Tail(Answers)
  BY <1>1, RequestsOf DEF Answers, Answer
<1>3. Head(Answers) = Answers[1] /\ 1 \in DOMAIN Answers /\ IsSequence(Tail(Answers))
      /\ \A i \in DOMAIN Tail(Answers) : i + 1 \in DOMAIN Answers
                                         /\ Tail(Answers)[i] = Answers[i + 1]
  BY <1>1, <1>2, CountTail
<1>4. \A i : Count(Answers, i) = Count(<<Head(Answers)>>, i) + Count(Tail(Answers), i)
  BY <1>1, <1>2, CountTail
<1>5. RequestOK(Answer.r, owner, Options)
  BY <1>1, <1>2, <1>3 DEF QueueOK
<1>6. QueueOK(Tail(Answers), owner, Options)
  BY <1>1, <1>3 DEF QueueOK
<1>7. \A i : Count(<<Answer.r>>, i) = IF Answer.r.then \in Awaited /\ Answer.r.id = i THEN 1 ELSE 0
  BY CountOne
<1>8. \A i : Count(Tail(Answers), i) \in Nat
  BY <1>3, Counted
<1>9. \A i : Count(Answers, i) = Count(Tail(Answers), i)
                     + (IF Answer.r.then \in Awaited /\ Answer.r.id = i THEN 1 ELSE 0)
  <2> TAKE i
  <2> DEFINE a == Count(Tail(Answers), i)
             o == IF Answer.r.then \in Awaited /\ Answer.r.id = i THEN 1 ELSE 0
  <2>1. Count(Answers, i) = o + a /\ a \in Nat /\ o \in Nat
    <3>1. o = Count(<<Answer.r>>, i) /\ o \in Nat
      BY <1>7
    <3>2. Count(Answers, i) = Count(<<Answer.r>>, i) + a
      <4>1. <<Head(Answers)>> = <<Answer.r>>
        BY <1>2
      <4>2. Count(Answers, i) = Count(<<Head(Answers)>>, i) + a
        BY <1>4, Zenon
      <4> QED BY <4>1, <4>2, Zenon
    <3>3. a \in Nat
      BY <1>8
    <3> HIDE DEF a, o
    <3> QED BY <3>1, <3>2, <3>3
  <2> HIDE DEF a, o
  <2>2. Count(Answers, i) = a + o
    BY <2>1
  <2> QED BY <2>2 DEF a, o
<1>10. IsSequence(Tail(inbox))
  BY <1>1, CountTail
<1> QED BY <1>2, <1>5, <1>6, <1>9, <1>10

\* A response and what its handler leaves: what answered a command is gone from
\* the queue, and at most one such answer took its place.
LEMMA Responded ==
    ASSUME TInv, CInv, NEW thens, Received(thens), MapsLeft, QueuesLeft,
           \/ Answer.r.then \in Awaited /\ OneMore(Answer.r.id)
           \/ UNCHANGED <<api, mPendingMsgs, told>>
    PROVE  TInv' /\ CInv'
<1> DEFINE r == Answer.r
           gone(i) == IF r.then \in Awaited /\ r.id = i THEN 1 ELSE 0
<1>0. /\ inbox # <<>> /\ inbox' = Tail(inbox)
      /\ UNCHANGED <<setup, clients, owner, up, engine, asked, ended, known>>
  BY DEF Received, Message
<1>1. RestOK' /\ OwnersOK'
  BY <1>0, SetupStays DEF TInv, RestOK, OwnersOK
<1>2. SessionsOK'
  BY <1>0, SetupStays DEF MapsLeft, SessionsOK
<1>3. CountersOK'
  BY <1>0, SetupStays DEF TInv, CountersOK, QueuesLeft
<1>4. Answers' = Tail(Answers) /\ IsSequence(inbox') /\ QueueOK(Tail(Answers), owner, Options)
      /\ \A i : Count(Answers, i) = Count(Tail(Answers), i) + gone(i)
  BY <1>0, AnswerAtHead DEF Answers
<1>5. QueuesOK'
  BY <1>0, <1>4, SetupStays DEF QueuesOK, QueuesLeft
<1>6. CInv'
  <2> SUFFICES ASSUME NEW i \in Ids
               PROVE  /\ told'[i] <= asked'[i]
                      /\ Live(i)' => told'[i] + Count(api', i) + Count(Answers', i)
                                         + Count(mPendingMsgs', i) <= asked'[i]
    BY <1>0, SetupStays DEF CInv
  <2> HIDE DEF r
  <2>1. /\ told[i] \in Nat /\ asked[i] \in Nat
        /\ Count(api, i) \in Nat /\ Count(Answers, i) \in Nat /\ Count(mPendingMsgs, i) \in Nat
    BY Numbers
  <2>2. told'[i] \in Nat /\ Count(api', i) \in Nat /\ Count(mPendingMsgs', i) \in Nat
    BY NumbersLeft
  <2>3. Count(Answers', i) \in Nat
    BY <1>4, Counted DEF QueueOK
  <2>4. asked'[i] = asked[i] /\ Count(Answers, i) = Count(Answers', i) + gone(i)
        /\ gone(i) \in Nat
    BY <1>0, <1>4
  <2>5. Live(i)' <=> Live(i)
    BY <1>0 DEF Live
  <2>6. told[i] <= asked[i] /\ (Live(i) => told[i] + Count(api, i) + Count(Answers, i)
                                              + Count(mPendingMsgs, i) <= asked[i])
    BY DEF CInv
  <2>7. /\ told'[i] + Count(api', i) + Count(mPendingMsgs', i)
                <= told[i] + Count(api, i) + Count(mPendingMsgs, i) + gone(i)
        /\ ~Live(i)' => told'[i] = told[i]
    <3>1. CASE r.then \in Awaited /\ OneMore(r.id)
      <4>1. One(i, r.id) = gone(i)
        BY <3>1 DEF One
      <4>2. told'[i] + Count(api', i) + Count(mPendingMsgs', i)
                <= told[i] + Count(api, i) + Count(mPendingMsgs, i) + gone(i)
        BY <3>1, <4>1 DEF OneMore
      <4>3. ~Live(i)' => told'[i] = told[i]
        BY <1>0, <3>1 DEF OneMore, Live
      <4> QED BY <4>2, <4>3
    <3>2. CASE UNCHANGED <<api, mPendingMsgs, told>>
      BY <2>1, <2>4, <3>2
    <3> QED BY <3>1, <3>2 DEF r
  <2>8. CASE Live(i)'
    <3> DEFINE t == told[i]
               tt == told'[i]
               c == asked[i]
               o == gone(i)
               q == Count(api, i)
               qq == Count(api', i)
               n == Count(Answers, i)
               nn == Count(Answers', i)
               p == Count(mPendingMsgs, i)
               pp == Count(mPendingMsgs', i)
    <3>1. t \in Nat /\ q \in Nat /\ n \in Nat /\ p \in Nat /\ c \in Nat /\ tt \in Nat
          /\ qq \in Nat /\ nn \in Nat /\ pp \in Nat /\ o \in Nat
      BY <2>1, <2>2, <2>3, <2>4
    <3>2. tt + qq + pp <= t + q + p + o
      BY <2>7
    <3>3. t + q + n + p <= c
      BY <2>5, <2>6, <2>8
    <3>4. n = nn + o
      BY <2>4
    <3> HIDE DEF t, tt, c, o, q, qq, n, nn, p, pp
    <3>5. tt + qq + nn + pp <= c /\ tt <= c
      BY <3>1, <3>2, <3>3, <3>4
    <3> QED BY <2>4, <3>5 DEF tt, qq, nn, pp, c
  <2>9. CASE ~Live(i)'
    BY <2>4, <2>6, <2>7, <2>9
  <2> QED BY <2>8, <2>9
<1> QED BY <1>1, <1>2, <1>3, <1>5, <1>6 DEF TInv

----------------------------------------------------------------------------
\* The steps of the adapter.

\* What a handler of a response finds.
LEMMA AtResponse ==
    ASSUME TInv, NEW thens, Received(thens)
    PROVE  /\ Ready /\ MapsReady /\ QueuesReady /\ owner' = owner
           /\ Answer.r.then \in thens /\ RequestOK(Answer.r, owner', Options)
           /\ Answer.r.then \in Awaited => Answer.r.id \in DOMAIN owner' /\ Answer.r.id \in Ids
<1>1. inbox # <<>> /\ Answer.r.then \in thens /\ setup' = setup /\ owner' = owner
  BY DEF Received, Message
<1>2. Ready
  BY <1>1, GetReady, OwnedIds
<1>3. RequestOK(Answer.r, owner', Options)
  BY <1>1, AnswerAtHead
<1>4. Answer.r.then \in Awaited => Answer.r.id \in DOMAIN owner' /\ Answer.r.id \in Ids
  BY <1>1, <1>3, OwnedIds DEF RequestOK
<1> QED BY <1>1, <1>2, <1>3, <1>4 DEF Ready

LEMMA KeepingQueues ==
    ASSUME QueuesReady, UNCHANGED <<api, mPendingMsgs, told>>
    PROVE  QueuesLeft
BY DEF QueuesReady, QueuesLeft

LEMMA PendedKeeps ==
    ASSUME TInv, CInv, Pended
    PROVE  TInv' /\ CInv'
<1> DEFINE r == Answer.r
<1>1. CASE Received({"start"}) /\ ProcStart(r.id, r.opts)
  <2>1. Ready /\ r.then \in Awaited /\ r.id \in DOMAIN owner' /\ r.opts \in Options
    BY <1>1, AtResponse DEF Awaited, RequestOK
  <2> HIDE DEF r
  <2>2. Handled(r.id)
    BY <1>1, <2>1, Starting
  <2> QED BY <1>1, <2>1, <2>2, Responded DEF Handled, Answered, r
<1>2. CASE Received({"update"}) /\ ProcUpdate(r.id, r.opts)
  <2>1. Ready /\ r.then \in Awaited /\ r.id \in DOMAIN owner' /\ r.opts \in Options
    BY <1>2, AtResponse DEF Awaited, RequestOK
  <2> HIDE DEF r
  <2>2. Handled(r.id)
    BY <1>2, <2>1, Updating
  <2> QED BY <1>2, <2>1, <2>2, Responded DEF Handled, Answered, r
<1> QED BY <1>1, <1>2 DEF Pended

LEMMA ReportedKeeps ==
    ASSUME TInv, CInv, Reported
    PROVE  TInv' /\ CInv'
<1> DEFINE r == Answer.r
<1>1. CASE Received({"report"}) /\ Report(r.id) /\ UNCHANGED <<sessions, api, mPendingMsgs>>
  <2>1. MapsReady /\ QueuesReady /\ r.then \in Awaited /\ r.id \in Ids
    BY <1>1, AtResponse DEF Awaited
  <2> HIDE DEF r
  <2>2. Answered(r.id) /\ MapsLeft
    BY <1>1, <2>1, NothingAsked, KeepingMaps
  <2> QED BY <1>1, <2>1, <2>2, Responded DEF Answered, r
<1>2. CASE Received({"nothing"}) /\ UNCHANGED <<sessions, api, mPendingMsgs, told>>
  <2>1. MapsReady /\ QueuesReady
    BY <1>2, AtResponse
  <2> QED BY <1>2, <2>1, KeepingMaps, KeepingQueues, Responded
<1> QED BY <1>1, <1>2 DEF Reported

LEMMA StartedKeeps ==
    ASSUME TInv, CInv, Started
    PROVE  TInv' /\ CInv'
<1> DEFINE r == Answer.r
<1>1. MapsReady /\ QueuesReady /\ r.then \in Awaited /\ r.id \in Ids
  BY AtResponse DEF Awaited, Started
<1>2. Received({"eraseOnError"}) /\ Report(r.id) /\ UNCHANGED <<api, mPendingMsgs>>
      /\ (Erase(r.id) \/ UNCHANGED sessions)
  BY DEF Started
<1> HIDE DEF r
<1>3. Answered(r.id) /\ MapsLeft
  BY <1>1, <1>2, NothingAsked, KeepingMaps, Erasing
<1> QED BY <1>1, <1>2, <1>3, Responded DEF Answered, r

LEMMA UpdatedKeeps ==
    ASSUME TInv, CInv, Updated
    PROVE  TInv' /\ CInv'
<1> DEFINE r == Answer.r
<1>1. MapsReady /\ QueuesReady /\ r.then \in Awaited /\ r.id \in Ids
      /\ r.id \in DOMAIN owner' /\ r.old \in Options
  BY AtResponse DEF Awaited, Updated, RequestOK
<1>2. Received({"restoreOnError"}) /\ Report(r.id) /\ UNCHANGED <<api, mPendingMsgs>>
      /\ (Save(time, dist, r.id, r.old) \/ UNCHANGED sessions)
  BY DEF Updated
<1> HIDE DEF r
<1>3. Answered(r.id)
  BY <1>1, <1>2, NothingAsked
<1>4. MapsLeft
  BY <1>1, <1>2, KeepingMaps, Saving DEF MapsReady
<1> QED BY <1>1, <1>2, <1>3, <1>4, Responded DEF Answered, r

LEMMA StoppedDistanceKeeps ==
    ASSUME TInv, CInv, StoppedDistance
    PROVE  TInv' /\ CInv'
<1> DEFINE r == Answer.r
<1>1. /\ Received({"eraseOnSuccess", "dropOnSuccess"}) /\ UNCHANGED <<api, mPendingMsgs>>
      /\ Erase(r.id) \/ UNCHANGED sessions
      /\ IF r.then = "eraseOnSuccess" THEN Report(r.id) ELSE UNCHANGED told
  BY DEF StoppedDistance
<1>2. MapsReady /\ QueuesReady
  BY <1>1, AtResponse
<1>3. MapsLeft
  BY <1>1, <1>2, KeepingMaps, Erasing
<1>4. CASE r.then = "eraseOnSuccess"
  <2>1. r.then \in Awaited /\ r.id \in Ids
    BY <1>1, <1>4, AtResponse DEF Awaited
  <2> HIDE DEF r
  <2>2. Answered(r.id)
    BY <1>1, <1>2, <1>4, <2>1, NothingAsked
  <2> QED BY <1>1, <1>3, <2>1, <2>2, Responded DEF Answered, r
<1>5. CASE r.then # "eraseOnSuccess"
  BY <1>1, <1>2, <1>3, <1>5, KeepingQueues, Responded
<1> QED BY <1>4, <1>5

LEMMA SwitchedToTimeKeeps ==
    ASSUME TInv, CInv, SwitchedToTime
    PROVE  TInv' /\ CInv'
<1> DEFINE r == Answer.r
           x == StartOptions(r.opts)
           q == StartRequests(r.id, x, "eraseOnError", NoOptions)
<1>1. MapsReady /\ QueuesReady /\ r.then \in Awaited /\ r.id \in Ids
      /\ r.id \in DOMAIN owner' /\ r.opts \in Options
  BY AtResponse DEF Awaited, SwitchedToTime, RequestOK
<1>2. Received({"startTime"}) /\ AskOrReport(r.id, q) /\ Save(time, dist, r.id, r.opts)
      /\ UNCHANGED mPendingMsgs
  BY DEF SwitchedToTime
<1>3. x = <<>> \/ \E o : x = <<o>>
  BY Merging DEF StartOptions
<1> HIDE DEF r, x
<1>4. ForOne(q, r.id, owner')
  BY <1>1, <1>3, StartsOne
<1> HIDE DEF q
<1>5. Answered(r.id)
  BY <1>1, <1>2, <1>4, AskingOrReporting
<1>6. MapsLeft
  BY <1>1, <1>2, Saving DEF MapsReady
<1> QED BY <1>1, <1>2, <1>5, <1>6, Responded DEF Answered, r

LEMMA StoppedForUpdateKeeps ==
    ASSUME TInv, CInv, StoppedForUpdate
    PROVE  TInv' /\ CInv'
<1> DEFINE r == Answer.r
           n == Request("startDist", r.id, r.opts, "saveOnSuccess", NoOptions)
<1>1. MapsReady /\ QueuesReady /\ r.then \in Awaited /\ r.id \in Ids
      /\ r.id \in DOMAIN owner' /\ r.opts \in Options
  BY AtResponse DEF Awaited, StoppedForUpdate, RequestOK
<1>2. Received({"startDist"}) /\ (UNCHANGED api \/ Ask(<<n>>))
      /\ UNCHANGED <<sessions, told, mPendingMsgs>>
  BY DEF StoppedForUpdate
<1> HIDE DEF r
<1>3. ForOne(<<n>>, r.id, owner')
  <2>1. n.id = r.id /\ RequestOK(n, owner', Options) /\ OpOK(n, owner')
    BY <1>1 DEF Request, RequestOK, OpOK, Ops, Awaited
  <2> QED BY <2>1 DEF ForOne
<1> HIDE DEF n
<1>4. Answered(r.id)
  <2>1. CASE UNCHANGED api
    BY <1>1, <1>2, <2>1, NothingAsked
  <2>2. CASE Ask(<<n>>)
    BY <1>1, <1>2, <1>3, <2>2, AtMostOneRequest, AskedOrReported DEF Ask
  <2> QED BY <1>2, <2>1, <2>2
<1>5. MapsLeft
  BY <1>1, <1>2, KeepingMaps
<1> QED BY <1>1, <1>2, <1>4, <1>5, Responded DEF Answered, r

LEMMA UpdatedDistanceKeeps ==
    ASSUME TInv, CInv, UpdatedDistance
    PROVE  TInv' /\ CInv'
<1> DEFINE r == Answer.r
<1>1. MapsReady /\ QueuesReady /\ r.then \in Awaited /\ r.id \in Ids
      /\ r.id \in DOMAIN owner' /\ r.opts \in Options
  BY AtResponse DEF Awaited, UpdatedDistance, RequestOK
<1>2. Received({"saveOnSuccess"}) /\ Report(r.id) /\ UNCHANGED <<api, mPendingMsgs>>
      /\ (Save(time, dist, r.id, r.opts) \/ UNCHANGED sessions)
  BY DEF UpdatedDistance
<1> HIDE DEF r
<1>3. Answered(r.id)
  BY <1>1, <1>2, NothingAsked
<1>4. MapsLeft
  BY <1>1, <1>2, KeepingMaps, Saving DEF MapsReady
<1> QED BY <1>1, <1>2, <1>3, <1>4, Responded DEF Answered, r

\* Requests without an answer to a command, one for each element of a sequence.
LEMMA SequenceFrom ==
    ASSUME NEW f, NEW n \in Nat, DOMAIN f = 1..n, f = [k \in DOMAIN f |-> f[k]],
           \A k \in DOMAIN f : RequestOK(f[k], owner, Options) /\ OpOK(f[k], owner)
    PROVE  QueueOK(f, owner, Options) /\ OpsOK(f, owner)
<1> DEFINE S == {f[k] : k \in DOMAIN f}
<1>1. f \in [1..n -> S]
  OBVIOUS
<1> HIDE DEF S
<1>2. IsSequence(f)
  BY <1>1, SequenceOf
<1> QED BY <1>2 DEF QueueOK, OpsOK

LEMMA Ordered ==
    ASSUME TInv, NEW S, S \subseteq DOMAIN owner, NEW q \in InOrder(S)
    PROVE  \E n \in Nat : DOMAIN q = 1..n /\ \A k \in DOMAIN q : q[k] \in S
<1>1. IsFiniteSet(1..Len(owner))
  BY OwnedIds, FS_Interval
<1>2. IsFiniteSet(S)
  BY <1>1, OwnedIds, FS_Subset
<1>3. Cardinality(S) \in Nat
  BY <1>2, FS_CardinalityType
<1>4. q \in [1..Cardinality(S) -> S]
  BY DEF InOrder
<1> QED BY <1>3, <1>4

LEMMA RestartedAsks ==
    ASSUME TInv, Restarted
    PROVE  /\ QueueOK(api', owner, Options) /\ OpsOK(api', owner)
           /\ \A i : Count(api', i) = Count(api, i)
<1> DEFINE again(s) == Request("startDist", s, dist[s], "nothing", NoOptions)
           T == DOMAIN time
           valid == {s \in T : time[s].power # INVALID}
           first == CHOOSE s \in T : \A t \in T : s <= t
           power == IF time[first].power = INVALID THEN INVALID
                    ELSE CHOOSE p \in {time[s].power : s \in valid} :
                             \A s \in valid : p <= time[s].power
           x == [time[Fastest(T)] EXCEPT !.power = power]
<1>1. PICK d \in InOrder(DOMAIN dist) :
        api' = api \o ((IF DOMAIN time = {} THEN <<>>
                        ELSE <<Request("startTime", 0, x, "nothing", NoOptions)>>)
                       \o [k \in DOMAIN d |-> again(d[k])])
  BY Zenon DEF Restarted, Ask
<1> HIDE DEF x
<1> DEFINE r == Request("startTime", 0, x, "nothing", NoOptions)
           a == IF DOMAIN time = {} THEN <<>> ELSE <<r>>
           b == [k \in DOMAIN d |-> again(d[k])]
<1>2. DOMAIN dist \subseteq DOMAIN owner
  BY DEF TInv, SessionsOK, MapOK
<1>3. PICK n \in Nat : DOMAIN d = 1..n /\ \A k \in DOMAIN d : d[k] \in DOMAIN dist
  BY <1>2, Ordered
<1>4. QueueOK(a, owner, Options) /\ OpsOK(a, owner) /\ \A i : Count(a, i) = 0
  <2>1. RequestOK(r, owner, Options) /\ OpOK(r, owner) /\ r.then \notin Awaited
    BY DEF Request, RequestOK, OpOK, Ops, Awaited, Unawaited
  <2> HIDE DEF r
  <2>2. QueueOK(<<r>>, owner, Options) /\ OpsOK(<<r>>, owner) /\ \A i : Count(<<r>>, i) = 0
    BY <2>1, OneRequest
  <2> QED BY <2>2, NoRequest
<1>5. \A k \in DOMAIN b : /\ RequestOK(b[k], owner, Options) /\ OpOK(b[k], owner)
                          /\ b[k].then \notin Awaited
  <2> TAKE k \in DOMAIN b
  <2>1. b[k] = again(d[k]) /\ d[k] \in DOMAIN owner
    BY <1>2, <1>3
  <2> QED BY <2>1 DEF Request, RequestOK, OpOK, Ops, Awaited, Unawaited
<1>6. DOMAIN b = 1..n /\ b = [k \in DOMAIN b |-> b[k]]
  BY <1>3
<1> HIDE DEF a, b
<1>7. QueueOK(b, owner, Options) /\ OpsOK(b, owner)
  BY <1>5, <1>6, SequenceFrom
<1>8. \A i : Count(b, i) = 0
  BY <1>5, CountNone
<1>9. QueueOK(a \o b, owner, Options) /\ OpsOK(a \o b, owner)
  BY <1>4, <1>7, QueueJoined
<1>10. \A i : Count(a \o b, i) = 0
  BY <1>4, <1>7, <1>8, CountJoined DEF QueueOK
<1>11. api' = api \o (a \o b)
  BY <1>1 DEF a, b
<1>12. QueueOK(api, owner, Options) /\ OpsOK(api, owner)
  BY DEF TInv, QueuesOK
<1>13. QueueOK(api', owner, Options) /\ OpsOK(api', owner)
  BY <1>9, <1>11, <1>12, QueueJoined
<1>14. \A i : Count(api', i) = Count(api, i)
  <2> TAKE i
  <2>1. Count(api', i) = Count(api, i) + Count(a \o b, i) /\ Count(api, i) \in Nat
    BY <1>9, <1>11, <1>12, CountJoined, Counted DEF QueueOK
  <2> QED BY <1>10, <2>1
<1> QED BY <1>13, <1>14

LEMMA EngineUpKeeps ==
    ASSUME TInv, CInv, EngineUp
    PROVE  TInv' /\ CInv'
<1> DEFINE p == [k \in 1..Len(mPendingMsgs) |-> [r |-> mPendingMsgs[k], err |-> FALSE]]
<1>0. /\ inbox # <<>> /\ Answer.r.then = "engineUp" /\ Restarted
      /\ inbox' = Tail(inbox) \o p /\ mPendingMsgs' = <<>> /\ known' = TRUE
      /\ UNCHANGED <<setup, clients, owner, up, engine, asked, ended, sessions, told>>
  BY DEF EngineUp, Message
<1>1. RestOK' /\ OwnersOK'
  BY <1>0, SetupStays DEF TInv, RestOK, OwnersOK
<1>2. SessionsOK'
  BY <1>0, SetupStays DEF TInv, SessionsOK, sessions
<1>3. CountersOK'
  BY <1>0, SetupStays DEF TInv, CountersOK
<1>4. QueueOK(mPendingMsgs, owner, Options) /\ IsSequence(mPendingMsgs)
  BY DEF TInv, QueuesOK, QueueOK
<1>5. IsSequence(p) /\ Requests(p) = mPendingMsgs
  <2>1. DOMAIN mPendingMsgs = 1..Len(mPendingMsgs) /\ Len(mPendingMsgs) \in Nat
    BY <1>4 DEF IsSequence
  <2> DEFINE S == {[r |-> mPendingMsgs[k], err |-> FALSE] : k \in 1..Len(mPendingMsgs)}
  <2>2. p \in [1..Len(mPendingMsgs) -> S]
    OBVIOUS
  <2> HIDE DEF S
  <2>3. IsSequence(p)
    BY <2>1, <2>2, SequenceOf
  <2>4. mPendingMsgs = [k \in 1..Len(mPendingMsgs) |-> mPendingMsgs[k]]
    BY <1>4, <2>1 DEF IsSequence
  <2>5. Requests(p) = [k \in 1..Len(mPendingMsgs) |-> mPendingMsgs[k]]
    BY DEF Requests
  <2> QED BY <2>3, <2>4, <2>5
<1> HIDE DEF p
<1>6. IsSequence(Tail(inbox)) /\ Requests(Tail(inbox)) = Tail(Answers)
      /\ QueueOK(Tail(Answers), owner, Options)
      /\ \A i : Count(Answers, i) = Count(Tail(Answers), i)
                     + (IF Answer.r.then \in Awaited /\ Answer.r.id = i THEN 1 ELSE 0)
  BY <1>0, AnswerAtHead
<1>7. IsSequence(inbox') /\ Answers' = Tail(Answers) \o mPendingMsgs
  <2>1. IsSequence(inbox')
    BY <1>0, <1>5, <1>6, Joined
  <2>2. Requests(inbox') = Requests(Tail(inbox)) \o Requests(p)
    BY <1>0, <1>5, <1>6, RequestsJoined
  <2> QED BY <1>5, <1>6, <2>1, <2>2 DEF Answers
<1>8. QueueOK(Answers', owner, Options)
  BY <1>4, <1>6, <1>7, QueueJoined
<1>9. QueueOK(api', owner, Options) /\ OpsOK(api', owner) /\ \A i : Count(api', i) = Count(api, i)
  BY <1>0, RestartedAsks
<1>10. QueuesOK'
  BY <1>0, <1>7, <1>8, <1>9, SetupStays, NoRequest DEF QueuesOK
<1>11. CInv'
  <2> SUFFICES ASSUME NEW i \in Ids
               PROVE  /\ told'[i] <= asked'[i]
                      /\ Live(i)' => told'[i] + Count(api', i) + Count(Answers', i)
                                         + Count(mPendingMsgs', i) <= asked'[i]
    BY <1>0, SetupStays DEF CInv
  <2>1. Answer.r.then \notin Awaited
    BY <1>0 DEF Awaited
  <2>2. Count(Answers, i) = Count(Tail(Answers), i) + 0
    BY <1>6, <2>1
  <2>3. Count(Answers', i) = Count(Tail(Answers), i) + Count(mPendingMsgs, i)
    BY <1>4, <1>6, <1>7, CountJoined DEF QueueOK
  <2>4. Count(mPendingMsgs', i) = 0
    BY <1>0, NoRequest
  <2>5. Count(Tail(Answers), i) \in Nat
    BY <1>6, Counted DEF QueueOK
  <2>6. /\ told[i] \in Nat /\ asked[i] \in Nat
        /\ Count(api, i) \in Nat /\ Count(Answers, i) \in Nat /\ Count(mPendingMsgs, i) \in Nat
    BY Numbers
  <2>7. told' = told /\ asked' = asked /\ (Live(i)' <=> Live(i)) /\ Count(api', i) = Count(api, i)
    BY <1>0, <1>9 DEF Live
  <2>8. told[i] <= asked[i] /\ (Live(i) => told[i] + Count(api, i) + Count(Answers, i)
                                              + Count(mPendingMsgs, i) <= asked[i])
    BY DEF CInv
  <2>9. told'[i] + Count(api', i) + Count(Answers', i) + Count(mPendingMsgs', i)
            = told[i] + Count(api, i) + Count(Answers, i) + Count(mPendingMsgs, i)
    BY <2>2, <2>3, <2>4, <2>5, <2>6, <2>7
  <2> QED BY <2>7, <2>8, <2>9
<1> QED BY <1>1, <1>2, <1>3, <1>10, <1>11 DEF TInv

LEMMA AdapterKeeps ==
    ASSUME TInv, CInv, Adapter
    PROVE  TInv' /\ CInv'
BY EngineUpKeeps, PendedKeeps, ReportedKeeps, StartedKeeps, UpdatedKeeps, StoppedDistanceKeeps,
   SwitchedToTimeKeeps, StoppedForUpdateKeeps, UpdatedDistanceKeeps DEF Adapter

----------------------------------------------------------------------------
\* The steps of the clients.

LEMMA StartTrackingKeeps ==
    ASSUME TInv, CInv, NEW c \in Clients, NEW o \in ClientOptions, StartTracking(c, o)
    PROVE  TInv' /\ CInv'
<1> DEFINE id == Len(owner')
<1>1. /\ owner \in Seq(Clients) /\ MaxSessions \in Nat /\ Len(owner) < MaxSessions
      /\ owner' = Append(owner, c)
  BY OwnedIds DEF StartTracking, TInv, OwnersOK
<1>2. /\ owner' \in Seq(Clients) /\ Len(owner') = Len(owner) + 1 /\ Len(owner) \in Nat
      /\ DOMAIN owner \subseteq DOMAIN owner' /\ \A s \in DOMAIN owner : owner'[s] = owner[s]
      /\ DOMAIN owner' = 1..Len(owner')
  BY <1>1
<1>3. id \in DOMAIN owner' /\ Len(owner') <= MaxSessions /\ DOMAIN owner' \subseteq Ids
  BY <1>1, <1>2 DEF Ids
<1>4. /\ ProcStart(id, o) /\ asked' = [asked EXCEPT ![id] = @ + 1]
      /\ UNCHANGED <<setup, clients, known, inbox, up, engine, ended>>
  BY DEF StartTracking
<1>5. Ready /\ o \in Options
  BY <1>2, <1>3, <1>4, GetReady, OptionsRaised
<1> HIDE DEF id
<1>6. Handled(id)
  BY <1>3, <1>4, <1>5, Starting
<1>7. ended' \subseteq Ids
  BY <1>4 DEF TInv, RestOK
<1> QED BY <1>2, <1>3, <1>4, <1>6, <1>7, Commanded

LEMMA AtCommand ==
    ASSUME TInv, NEW id, Command(id)
    PROVE  /\ Ready /\ id \in DOMAIN owner' /\ id \in Ids /\ owner' = owner
           /\ owner' \in Seq(Clients) /\ Len(owner') <= MaxSessions
           /\ asked' = [asked EXCEPT ![id] = @ + 1]
           /\ UNCHANGED <<setup, clients, known, inbox, up, engine>>
<1>1. id \in DOMAIN owner /\ owner' = owner /\ asked' = [asked EXCEPT ![id] = @ + 1]
      /\ UNCHANGED <<setup, clients, known, inbox, up, engine>>
  BY DEF Command
<1> QED BY <1>1, GetReady, OwnedIds DEF TInv, OwnersOK

LEMMA UpdateTrackingOptionsKeeps ==
    ASSUME TInv, CInv, NEW id \in Ids, NEW o \in ClientOptions, UpdateTrackingOptions(id, o)
    PROVE  TInv' /\ CInv'
<1>1. Command(id) /\ ProcUpdate(id, o) /\ UNCHANGED ended
  BY DEF UpdateTrackingOptions
<1>2. Ready /\ id \in DOMAIN owner' /\ o \in Options /\ owner' = owner
  BY <1>1, AtCommand, OptionsRaised
<1>3. Handled(id)
  BY <1>1, <1>2, Updating
<1>4. ended' \subseteq Ids
  BY <1>1 DEF TInv, RestOK
<1> QED BY <1>1, <1>2, <1>3, <1>4, AtCommand, Commanded

LEMMA StopTrackingKeeps ==
    ASSUME TInv, CInv, NEW id \in Ids, StopTracking(id)
    PROVE  TInv' /\ CInv'
<1>1. Command(id) /\ ProcStop(id) /\ ended' = ended \cup {id}
  BY DEF StopTracking
<1>2. Ready /\ id \in DOMAIN owner' /\ owner' = owner
  BY <1>1, AtCommand
<1>3. Handled(id)
  BY <1>1, <1>2, Stopping
<1>4. ended' \subseteq Ids
  BY <1>1 DEF TInv, RestOK
<1> QED BY <1>1, <1>2, <1>3, <1>4, AtCommand, Commanded

\* A client that goes: what is asked for its sessions is answered to nobody.
LEMMA RemoveClientKeeps ==
    ASSUME TInv, CInv, NEW c, RemoveClient(c)
    PROVE  TInv' /\ CInv'
<1> DEFINE own(f) == {s \in DOMAIN f : owner[s] = c}
           needed == {s \in own(time) : StopRequests(s) # <<>>}
           stopDist(s) == Request("stopDist", s, NoOptions, "dropOnSuccess", NoOptions)
<1>1. PICK t \in InOrder(needed), d \in InOrder(own(dist)) :
        api' = api \o ([k \in DOMAIN t |-> Head(StopRequests(t[k]))]
                       \o [k \in DOMAIN d |-> stopDist(d[k])])
  BY Zenon DEF RemoveClient, Ask
<1>2. /\ clients' = clients \ {c}
      /\ UNCHANGED <<setup, owner, sessions, known, mPendingMsgs, inbox, up, engine, asked, told,
                     ended>>
  BY DEF RemoveClient
<1> DEFINE a == [k \in DOMAIN t |-> Head(StopRequests(t[k]))]
           b == [k \in DOMAIN d |-> stopDist(d[k])]
<1>3. own(dist) \subseteq DOMAIN owner /\ needed \subseteq DOMAIN owner
  BY DEF TInv, SessionsOK, MapOK
<1>4. PICK m \in Nat : DOMAIN t = 1..m /\ \A k \in DOMAIN t : t[k] \in needed
  BY <1>3, Ordered
<1>5. PICK n \in Nat : DOMAIN d = 1..n /\ \A k \in DOMAIN d : d[k] \in own(dist)
  BY <1>3, Ordered
<1>6. \A k \in DOMAIN a : /\ RequestOK(a[k], owner, Options) /\ OpOK(a[k], owner)
                          /\ owner[a[k].id] = c
  <2> TAKE k \in DOMAIN a
  <2>1. t[k] \in needed /\ t[k] \in DOMAIN owner /\ owner[t[k]] = c
    BY <1>3, <1>4
  <2>2. ForOne(StopRequests(t[k]), t[k], owner) /\ StopRequests(t[k]) # <<>>
    BY <2>1, StopsOne
  <2>3. PICK r : StopRequests(t[k]) = <<r>> /\ r.id = t[k] /\ RequestOK(r, owner, Options)
                 /\ OpOK(r, owner)
    BY <2>2 DEF ForOne
  <2>4. a[k] = r
    BY <2>3
  <2> QED BY <2>1, <2>3, <2>4
<1>7. \A k \in DOMAIN b : /\ RequestOK(b[k], owner, Options) /\ OpOK(b[k], owner)
                          /\ b[k].then \notin Awaited
  BY DEF Request, RequestOK, OpOK, Ops, Awaited, Unawaited
<1>8. DOMAIN a = 1..m /\ a = [k \in DOMAIN a |-> a[k]] /\ DOMAIN b = 1..n
      /\ b = [k \in DOMAIN b |-> b[k]]
  BY <1>4, <1>5
<1> HIDE DEF a, b
<1>9. /\ QueueOK(a, owner, Options) /\ OpsOK(a, owner)
      /\ QueueOK(b, owner, Options) /\ OpsOK(b, owner)
  BY <1>6, <1>7, <1>8, SequenceFrom
<1>10. QueueOK(a \o b, owner, Options) /\ OpsOK(a \o b, owner)
  BY <1>9, QueueJoined
<1>11. api' = api \o (a \o b)
  BY <1>1 DEF a, b
<1>12. QueueOK(api, owner, Options) /\ OpsOK(api, owner)
  BY DEF TInv, QueuesOK
<1>13. QueueOK(api', owner, Options) /\ OpsOK(api', owner)
  BY <1>10, <1>11, <1>12, QueueJoined
<1>14. RestOK' /\ OwnersOK'
  BY <1>2, SetupStays DEF TInv, RestOK, OwnersOK
<1>15. SessionsOK' /\ CountersOK'
  BY <1>2, SetupStays DEF TInv, SessionsOK, CountersOK, sessions
<1>16. QueuesOK' /\ Answers' = Answers
  <2>1. Answers' = Answers
    BY <1>2 DEF Answers
  <2> QED BY <1>2, <1>13, <2>1, SetupStays DEF TInv, QueuesOK
<1>17. CInv'
  <2> SUFFICES ASSUME NEW i \in Ids
               PROVE  /\ told'[i] <= asked'[i]
                      /\ Live(i)' => told'[i] + Count(api', i) + Count(Answers', i)
                                         + Count(mPendingMsgs', i) <= asked'[i]
    BY <1>2, SetupStays DEF CInv
  <2>1. told[i] <= asked[i] /\ (Live(i) => told[i] + Count(api, i) + Count(Answers, i)
                                              + Count(mPendingMsgs, i) <= asked[i])
    BY DEF CInv
  <2>2. told' = told /\ asked' = asked /\ mPendingMsgs' = mPendingMsgs /\ Answers' = Answers
    BY <1>2, <1>16
  <2>3. ASSUME Live(i)' PROVE Live(i) /\ Count(api', i) = Count(api, i)
    <3>1. i \in DOMAIN owner => owner[i] \in clients /\ owner[i] # c
      BY <1>2, <2>3 DEF Live
    <3>2. \A k \in DOMAIN a : a[k].then \in Awaited => a[k].id # i
      BY <1>6, <3>1 DEF RequestOK
    <3>3. Count(a, i) = 0 /\ Count(b, i) = 0
      BY <1>7, <3>2, CountNone
    <3>4. Count(a \o b, i) = 0
      <4>1. Count(a \o b, i) = Count(a, i) + Count(b, i)
        BY <1>9, CountJoined DEF QueueOK
      <4> QED BY <3>3, <4>1
    <3>5. Count(api', i) = Count(api, i) + Count(a \o b, i) /\ Count(api, i) \in Nat
      BY <1>10, <1>11, <1>12, CountJoined, Counted DEF QueueOK
    <3>6. Count(api', i) = Count(api, i)
      BY <3>4, <3>5
    <3> QED BY <3>1, <3>6 DEF Live
  <2> QED BY <2>1, <2>2, <2>3
<1> QED BY <1>14, <1>15, <1>16, <1>17 DEF TInv

----------------------------------------------------------------------------
\* The engine.

LEMMA LocApiKeeps ==
    ASSUME TInv, CInv, LocApi
    PROVE  TInv' /\ CInv'
<1> DEFINE r == Head(api)
<1>1. PICK err \in BOOLEAN :
        /\ engine' = IF err THEN engine ELSE Executed(engine, r)
        /\ up' = (up \/ r.op = "open")
        /\ inbox' = Append(inbox, [r |-> r, err |-> err])
  BY Zenon DEF LocApi
<1>2. /\ api # <<>> /\ api' = Tail(api)
      /\ UNCHANGED <<setup, clients, owner, sessions, known, mPendingMsgs, asked, told, ended>>
  BY DEF LocApi
<1>3. QueueOK(api, owner, Options) /\ OpsOK(api, owner) /\ IsSequence(api)
      /\ IsSequence(inbox) /\ QueueOK(Answers, owner, Options)
  BY DEF TInv, QueuesOK, QueueOK
<1>4. /\ IsSequence(Tail(api)) /\ Head(api) = api[1] /\ 1 \in DOMAIN api
      /\ \A i \in DOMAIN Tail(api) : i + 1 \in DOMAIN api /\ Tail(api)[i] = api[i + 1]
  BY <1>2, <1>3, CountTail
<1>5. \A i : Count(api, i) = Count(<<r>>, i) + Count(Tail(api), i)
  BY <1>2, <1>3, CountTail
<1>6. RequestOK(r, owner, Options) /\ OpOK(r, owner)
  BY <1>3, <1>4 DEF QueueOK, OpsOK
<1>7. QueueOK(api', owner, Options) /\ OpsOK(api', owner)
  BY <1>2, <1>3, <1>4 DEF QueueOK, OpsOK
<1> HIDE DEF r
<1>8. engine' = [time |-> engine'.time, dist |-> engine'.dist] /\ engine'.dist \subseteq Ids
  <2>1. engine = [time |-> engine.time, dist |-> engine.dist] /\ engine.dist \subseteq Ids
    BY DEF TInv, RestOK
  <2>2. r.op = "startDist" => r.id \in Ids
    BY <1>6, OwnedIds DEF OpOK
  <2>3. r.op \in {"open", "startTime", "stopFix", "startDist", "stopDist"}
    BY <1>6 DEF OpOK, Ops
  <2>4. CASE err
    BY <1>1, <2>1, <2>4
  <2>5. CASE ~err /\ r.op = "startTime"
    <3>1. engine' = [engine EXCEPT !.time = {r.opts}]
      BY <1>1, <2>5 DEF Executed
    <3> QED BY <2>1, <3>1
  <2>6. CASE ~err /\ r.op = "stopFix"
    <3>1. engine' = [engine EXCEPT !.time = {}]
      BY <1>1, <2>6 DEF Executed
    <3> QED BY <2>1, <3>1
  <2>7. CASE ~err /\ r.op = "startDist"
    <3>1. engine' = [engine EXCEPT !.dist = @ \cup {r.id}]
      BY <1>1, <2>7 DEF Executed
    <3> QED BY <2>1, <2>2, <2>7, <3>1
  <2>8. CASE ~err /\ r.op = "stopDist"
    <3>1. engine' = [engine EXCEPT !.dist = @ \ {r.id}]
      BY <1>1, <2>8 DEF Executed
    <3> QED BY <2>1, <3>1
  <2>9. CASE ~err /\ r.op = "open"
    BY <1>1, <2>1, <2>9 DEF Executed
  <2> QED BY <2>3, <2>4, <2>5, <2>6, <2>7, <2>8, <2>9
<1>9. RestOK'
  <2>1. up' \in BOOLEAN
    BY <1>1
  <2> QED BY <1>2, <1>8, <2>1, SetupStays DEF TInv, RestOK
<1>10. OwnersOK' /\ SessionsOK' /\ CountersOK'
  BY <1>2, SetupStays DEF TInv, OwnersOK, SessionsOK, CountersOK, sessions
<1>11. IsSequence(inbox') /\ Answers' = Answers \o <<r>>
  <2> DEFINE x == [r |-> r, err |-> err]
  <2>1. Requests(<<x>>) = <<r>>
    BY DEF Requests
  <2> HIDE DEF x
  <2>2. inbox' = inbox \o <<x>> /\ IsSequence(<<x>>)
    BY <1>1, <1>3, Appended, CountOne DEF x
  <2>3. IsSequence(inbox') /\ Requests(inbox') = Requests(inbox) \o Requests(<<x>>)
    BY <1>3, <2>2, Joined, RequestsJoined
  <2> QED BY <2>1, <2>3 DEF Answers
<1>12. QueueOK(Answers', owner, Options) /\ \A i : Count(Answers', i) = Count(Answers, i) + Count(<<r>>, i)
  <2>1. QueueOK(<<r>>, owner, Options) /\ IsSequence(<<r>>)
    BY <1>6, OneRequest DEF QueueOK
  <2> QED BY <1>3, <1>11, <2>1, QueueJoined, CountJoined DEF QueueOK
<1>13. QueuesOK'
  BY <1>2, <1>7, <1>11, <1>12, SetupStays DEF TInv, QueuesOK
<1>14. CInv'
  <2> SUFFICES ASSUME NEW i \in Ids
               PROVE  /\ told'[i] <= asked'[i]
                      /\ Live(i)' => told'[i] + Count(api', i) + Count(Answers', i)
                                         + Count(mPendingMsgs', i) <= asked'[i]
    BY <1>2, SetupStays DEF CInv
  <2>1. Count(api, i) = Count(<<r>>, i) + Count(api', i)
    BY <1>2, <1>5
  <2>2. Count(Answers', i) = Count(Answers, i) + Count(<<r>>, i)
    BY <1>12
  <2>3. Count(<<r>>, i) \in Nat /\ Count(api', i) \in Nat
    BY <1>2, <1>4, CountOne, Counted
  <2>4. /\ told[i] \in Nat /\ asked[i] \in Nat
        /\ Count(api, i) \in Nat /\ Count(Answers, i) \in Nat /\ Count(mPendingMsgs, i) \in Nat
    BY Numbers
  <2>5. told' = told /\ asked' = asked /\ (Live(i)' <=> Live(i)) /\ mPendingMsgs' = mPendingMsgs
    BY <1>2 DEF Live
  <2>6. told[i] <= asked[i] /\ (Live(i) => told[i] + Count(api, i) + Count(Answers, i)
                                              + Count(mPendingMsgs, i) <= asked[i])
    BY DEF CInv
  <2>7. told'[i] + Count(api', i) + Count(Answers', i) + Count(mPendingMsgs', i)
            = told[i] + Count(api, i) + Count(Answers, i) + Count(mPendingMsgs, i)
    BY <2>1, <2>2, <2>3, <2>4, <2>5
  <2> QED BY <2>5, <2>6, <2>7
<1> QED BY <1>9, <1>10, <1>13, <1>14 DEF TInv

LEMMA ModemRestartsKeeps ==
    ASSUME TInv, CInv, ModemRestarts
    PROVE  TInv' /\ CInv'
<1>1. /\ api' = api \o <<Open>> /\ up' = FALSE /\ engine' = [time |-> {}, dist |-> {}]
      /\ UNCHANGED <<setup, clients, owner, sessions, known, mPendingMsgs, inbox, asked, told,
                     ended>>
  BY DEF ModemRestarts, Ask
<1>2. RequestOK(Open, owner, Options) /\ OpOK(Open, owner) /\ Open.then \notin Awaited
  BY DEF Open, Request, RequestOK, OpOK, Ops, Awaited, Unawaited
<1>3. QueueOK(<<Open>>, owner, Options) /\ OpsOK(<<Open>>, owner) /\ \A i : Count(<<Open>>, i) = 0
  BY <1>2, OneRequest
<1>4. QueueOK(api, owner, Options) /\ OpsOK(api, owner)
  BY DEF TInv, QueuesOK
<1>5. QueueOK(api', owner, Options) /\ OpsOK(api', owner)
  BY <1>1, <1>3, <1>4, QueueJoined
<1>6. \A i : Count(api', i) = Count(api, i)
  <2> TAKE i
  <2>1. Count(api', i) = Count(api, i) + Count(<<Open>>, i) /\ Count(api, i) \in Nat
    BY <1>1, <1>3, <1>4, CountJoined, Counted DEF QueueOK
  <2> QED BY <1>3, <2>1
<1>7. RestOK' /\ OwnersOK'
  BY <1>1, SetupStays DEF TInv, RestOK, OwnersOK
<1>8. SessionsOK' /\ CountersOK'
  BY <1>1, SetupStays DEF TInv, SessionsOK, CountersOK, sessions
<1>9. Answers' = Answers
  BY <1>1 DEF Answers
<1>10. QueuesOK'
  BY <1>1, <1>5, <1>9, SetupStays DEF TInv, QueuesOK
<1>11. CInv'
  <2>1. \A i : Live(i)' <=> Live(i)
    BY <1>1 DEF Live
  <2> QED BY <1>1, <1>6, <1>9, <2>1, SetupStays DEF CInv
<1> QED BY <1>7, <1>8, <1>10, <1>11 DEF TInv

LEMMA NothingHappens ==
    ASSUME TInv, CInv, UNCHANGED vars
    PROVE  TInv' /\ CInv'
<1>1. UNCHANGED <<setup, clients, owner, time, dist, mPowerOn, known, mPendingMsgs, api, inbox, up,
                  engine, asked, told, ended>>
  BY DEF vars, sessions
<1>2. RestOK' /\ OwnersOK' /\ SessionsOK' /\ CountersOK'
  BY <1>1, SetupStays DEF TInv, RestOK, OwnersOK, SessionsOK, CountersOK
<1>3. Answers' = Answers
  BY <1>1 DEF Answers
<1>4. QueuesOK'
  BY <1>1, <1>3, SetupStays DEF TInv, QueuesOK
<1>5. CInv'
  <2>1. \A i : Live(i)' <=> Live(i)
    BY <1>1 DEF Live
  <2> QED BY <1>1, <1>3, <2>1, SetupStays DEF CInv
<1> QED BY <1>2, <1>4, <1>5 DEF TInv

LEMMA GnssInit == Init => TInv /\ CInv
<1> SUFFICES ASSUME Init PROVE TInv /\ CInv
  OBVIOUS
<1>1. MaxSessions \in Nat
  BY GnssTrackingAssumption DEF Init, MaxSessions
<1>2. RestOK /\ OwnersOK /\ CountersOK
  <2>1. engine = [time |-> {}, dist |-> {}]
    BY DEF Init
  <2>2. RestOK
    <3>1. engine = [time |-> engine.time, dist |-> engine.dist] /\ engine.dist \subseteq Ids
      BY <2>1
    <3>2. setup \in Setups /\ clients \subseteq Clients /\ known = FALSE /\ up = FALSE /\ ended = {}
      BY DEF Init
    <3> QED BY <3>1, <3>2 DEF RestOK
  <2>3. OwnersOK
    BY <1>1 DEF Init, OwnersOK
  <2>4. CountersOK
    BY DEF Init, CountersOK
  <2> QED BY <2>2, <2>3, <2>4
<1>3. SessionsOK
  <2>1. time = <<>> /\ dist = <<>> /\ mPowerOn \in BOOLEAN
    BY DEF Init, Empty
  <2>2. DOMAIN time = {} /\ DOMAIN dist = {}
    BY <2>1
  <2> QED BY <2>1, <2>2 DEF SessionsOK, MapOK
<1>4. RequestOK(Open, owner, Options) /\ OpOK(Open, owner) /\ Open.then \notin Awaited
  BY DEF Open, Request, RequestOK, OpOK, Ops, Awaited, Unawaited
<1>5. QueueOK(api, owner, Options) /\ OpsOK(api, owner) /\ \A i : Count(api, i) = 0
  BY <1>4, OneRequest DEF Init
<1>6. Answers = <<>>
  BY DEF Init, Answers, Requests
<1>7. QueuesOK
  BY <1>5, <1>6, NoRequest DEF Init, QueuesOK
<1>8. CInv
  BY <1>5, <1>6, NoRequest DEF Init, CInv
<1> QED BY <1>2, <1>3, <1>7, <1>8 DEF TInv

LEMMA GnssStep == TInv /\ CInv /\ [Next]_vars => TInv' /\ CInv'
BY StartTrackingKeeps, UpdateTrackingOptionsKeeps, StopTrackingKeeps, RemoveClientKeeps,
   LocApiKeeps, ModemRestartsKeeps, AdapterKeeps, NothingHappens DEF Next

LEMMA GnssSafe == TInv /\ CInv => AnsweredOnce
<1> SUFFICES ASSUME TInv, CInv PROVE AnsweredOnce
  OBVIOUS
<1>1. /\ setup \in Setups /\ clients \subseteq Clients /\ {mPowerOn, known, up} \subseteq BOOLEAN
      /\ owner \in Seq(Clients) /\ Len(owner) <= MaxSessions
      /\ engine.dist \subseteq Ids /\ ended \subseteq Ids
      /\ asked \in [Ids -> Nat] /\ told \in [Ids -> Nat]
  BY DEF TInv, RestOK, OwnersOK, SessionsOK, CountersOK
<1>2. /\ DOMAIN time \cup DOMAIN dist \subseteq DOMAIN owner
      /\ \A s \in DOMAIN time : time[s] \in Options /\ ~ByDistance(time[s])
      /\ \A s \in DOMAIN dist : dist[s] \in Options /\ ByDistance(dist[s])
  BY DEF TInv, SessionsOK, MapOK, TimeOptions, DistOptions
<1>3. /\ \A k \in DOMAIN mPendingMsgs : mPendingMsgs[k].then \in {"start", "update"}
      /\ \A k \in DOMAIN api : api[k].op \in {"open", "startTime", "stopFix", "startDist",
                                              "stopDist"}
  BY DEF TInv, QueuesOK, OpsOK, OpOK, Ops
<1> QED BY <1>1, <1>2, <1>3 DEF AnsweredOnce, TypeOK, CInv

\* No command of a session gets a second response, for any number of clients,
\* sessions and updates, whatever the engine refuses and whenever the modem
\* restarts: what still answers a command is counted in the three queues.
THEOREM GnssAnsweredOnce == Spec => []AnsweredOnce
BY GnssInit, GnssStep, GnssSafe, PTL DEF Spec
=============================================================================
