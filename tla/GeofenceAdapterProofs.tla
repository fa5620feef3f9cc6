------------------------- MODULE GeofenceAdapterProofs -------------------------
(***************************************************************************)
(* For any clients, engine and bounds: the adapter has the engine's fences *)
(* when nothing is under way, and an id it has a number for has the fence  *)
(* of that number.  For clients that stay both follow from what the        *)
(* messages that wait will make of the maps.  For clients that leave, the  *)
(* numbers in the maps and in the answers that wait are all different, in  *)
(* the engine before a restart and in the engine after it, and those of    *)
(* the fences being removed are nobody's.                                  *)
(***************************************************************************)
EXTENDS GeofenceAdapter, FiniteSetTheorems, TLAPS

Everyone == {0} \cup UNION {s.clients : s \in Setups}
JobOps == {"add", "remove", "pause", "resume", "modify"}
Errors == {"none", "ok", "fail", "unknown"}
Jobs == [op : JobOps, client : Everyone, ids : Seq(Nat), errs : Seq(Errors), answered : BOOLEAN]
Beliefs == [state : {"none", "active", "paused", "gone"}, option : {0, 1}]

MessageTypes == {"command", "turn", "answer", "remove_client", "stopped", "engine_up",
                 "restored", "none"}
AnyFence == [id : Nat, paused : BOOLEAN, option : {0, 1}]
Messages == [type : MessageTypes, job : Nat, item : Nat, hw : Nat, ok : BOOLEAN,
             fence : AnyFence, client : Everyone]
Requests == [op : JobOps \cup {"turn", "up"}, hw : Nat, fence : AnyFence, reply : Messages]

\* In terms of the jobs J and the owners O there are: a fence with an id that
\* was handed out, ...
FencesOf(O) == [id : DOMAIN O, paused : BOOLEAN, option : {0, 1}]
HasItem(m, J) == m.job \in DOMAIN J /\ m.item \in DOMAIN J[m.job].ids

\* ... a message that gives a fence the number it got, ...
Adds(m, J) == m.type = "restored" \/ (m.type = "answer" /\ J[m.job].op = "add")
Gives(m, J) == m.ok /\ Adds(m, J)

\* ... and what messages and requests can be.
MessageOK(m, J, O) ==
    /\ m.type # "none"
    /\ m.type = "command" => m.job \in DOMAIN J
    /\ m.type \in {"turn", "answer"} => HasItem(m, J)
    /\ m.type \in {"restored", "answer"} => m.fence \in FencesOf(O)
    /\ Gives(m, J) => m.hw \in HwIds

RequestOK(r, J, O) ==
    /\ r.op = "turn" <=> r.reply.type = "turn"
    /\ r.op = "up" <=> r.reply.type = "engine_up"
    /\ r.reply.type \in {"turn", "engine_up", "answer", "stopped", "restored", "none"}
    /\ r.reply.type \in {"turn", "answer"} => HasItem(r.reply, J)
    /\ r.reply.type = "answer" => r.op = J[r.reply.job].op /\ r.fence \in FencesOf(O)
    /\ r.reply.type = "restored" => r.op = "add" /\ r.fence \in FencesOf(O)
    /\ r.reply.type = "stopped" => r.op = "remove"
    /\ r.reply.type = "none" => r.op = "pause"

RestOK ==
    /\ setup \in Setups
    /\ mClientData \subseteq Clients
    /\ restarts \in Nat
    /\ down \in BOOLEAN
    /\ apart \in BOOLEAN

CommandsOK ==
    /\ owner \in Seq(Everyone) /\ Len(owner) <= MaxFences
    /\ told \in Seq(Beliefs) /\ Len(told) = Len(owner)
    /\ jobs \in Seq(Jobs)
    /\ \A j \in DOMAIN jobs : \A i \in DOMAIN jobs[j].ids : jobs[j].ids[i] \in DOMAIN owner

\* As functions from engine's numbers to fences.
Numbers(O, f) == DOMAIN f \subseteq HwIds /\ \A hw \in DOMAIN f : f[hw] \in FencesOf(O)
MapsOK ==
    /\ Numbers(owner, mGeofences)
    /\ DOMAIN mGeofenceIds \subseteq DOMAIN owner
    /\ \A id \in DOMAIN mGeofenceIds : mGeofenceIds[id] \in HwIds
EngineOK == Numbers(owner, engine)

MessagesOK(q, J, O) ==
    q \in Seq(Messages) /\ \A i \in DOMAIN q : MessageOK(q[i], J, O)
RequestsOK(q, J, O) ==
    q \in Seq(Requests) /\ \A i \in DOMAIN q : RequestOK(q[i], J, O)
AdapterQueueOK == MessagesOK(adapter_queue, jobs, owner)
ApiQueueOK == RequestsOK(api_queue, jobs, owner)

TInv == RestOK /\ CommandsOK /\ MapsOK /\ EngineOK /\ AdapterQueueOK /\ ApiQueueOK

\* The engine that is down comes up once.
IsUp(i) == api_queue[i].op = "up"
UpOnce ==
    /\ \A i, j \in DOMAIN api_queue : IsUp(i) /\ IsUp(j) => i = j
    /\ down <=> \E i \in DOMAIN api_queue : IsUp(i)

\* Numbers given, before or after the engine came up.
GivenAt(i) == Gives(adapter_queue[i], jobs)
UpAt(i) == adapter_queue[i].type = "engine_up"

\* What the engine that runs has given out it does not give out again.
GivenIsUsed ==
    /\ ~down => \A i \in DOMAIN adapter_queue :
           GivenAt(i) /\ (\A j \in DOMAIN adapter_queue : UpAt(j) => j < i)
               => adapter_queue[i].hw \in used
    /\ ~down /\ (\A j \in DOMAIN adapter_queue : ~UpAt(j)) => DOMAIN mGeofences \subseteq used

\* Between two restarts no number is given twice, or one that a fence has.
GivenOnce ==
    /\ \A i, j \in DOMAIN adapter_queue :
           /\ i < j /\ GivenAt(i) /\ GivenAt(j)
           /\ \A k \in DOMAIN adapter_queue : UpAt(k) => k < i \/ j < k
           => adapter_queue[i].hw # adapter_queue[j].hw
    /\ \A i \in DOMAIN adapter_queue :
           GivenAt(i) /\ (\A k \in DOMAIN adapter_queue : UpAt(k) => i < k)
               => adapter_queue[i].hw \notin DOMAIN mGeofences

\* Where no client may leave, and where the engine may not restart.
NobodyLeaves ==
    ~ClientsMayLeave =>
        /\ \A i \in DOMAIN adapter_queue : adapter_queue[i].type \notin {"remove_client", "stopped"}
        /\ \A i \in DOMAIN api_queue : api_queue[i].reply.type # "stopped"
NothingRestarts ==
    MaxRestarts = 0 => ~down /\ \A i \in DOMAIN adapter_queue : ~UpAt(i)

\* The number of a fence whose client has left is nobody's.
Stopping(hw) ==
    \/ \E i \in DOMAIN api_queue : api_queue[i].reply.type = "stopped" /\ api_queue[i].hw = hw
    \/ \E i \in DOMAIN adapter_queue :
           adapter_queue[i].type = "stopped" /\ adapter_queue[i].hw = hw
Nobodys(hw) ==
    /\ hw \in used
    /\ \A id \in DOMAIN mGeofenceIds : mGeofenceIds[id] # hw
    /\ \A i \in DOMAIN adapter_queue : GivenAt(i) => adapter_queue[i].hw # hw
LeftToNobody == \A hw : Stopping(hw) => Nobodys(hw)

HasFence ==
    \A id \in DOMAIN mGeofenceIds : /\ mGeofenceIds[id] \in DOMAIN mGeofences
                                    /\ mGeofences[mGeofenceIds[id]].id = id

\* For an engine whose numbers are fresh, while leaving and restarts are apart.
HInv ==
    Fresh => /\ UpOnce /\ GivenIsUsed /\ GivenOnce
             /\ apart => LeftToNobody /\ HasFence

----------------------------------------------------------------------------
\* Queues: what is appended, what is joined and what is left without the head.

LEMMA Appended ==
    ASSUME NEW S, NEW q \in Seq(S), NEW m \in S
    PROVE  /\ Append(q, m) \in Seq(S)
           /\ Len(q) + 1 \in DOMAIN Append(q, m) /\ Len(q) + 1 \notin DOMAIN q
           /\ Append(q, m)[Len(q) + 1] = m
           /\ \A i \in DOMAIN q : /\ i \in DOMAIN Append(q, m) /\ i < Len(q) + 1
                                  /\ Append(q, m)[i] = q[i]
           /\ \A i \in DOMAIN Append(q, m) : i \in DOMAIN q \/ i = Len(q) + 1
           /\ DOMAIN Append(q, m) \subseteq Nat
OBVIOUS

LEMMA Joined ==
    ASSUME NEW S, NEW q \in Seq(S), NEW p \in Seq(S)
    PROVE  /\ q \o p \in Seq(S)
           /\ \A i \in DOMAIN q : i \in DOMAIN (q \o p) /\ (q \o p)[i] = q[i]
           /\ \A i \in DOMAIN (q \o p) :
                 \/ i \in DOMAIN q
                 \/ i - Len(q) \in DOMAIN p /\ (q \o p)[i] = p[i - Len(q)]
           /\ Len(q \o p) = Len(q) + Len(p)
OBVIOUS

LEMMA TailOf ==
    ASSUME NEW S, NEW q \in Seq(S), q # <<>>
    PROVE  /\ Tail(q) \in Seq(S)
           /\ Head(q) = q[1] /\ Head(q) \in S
           /\ 1 \in DOMAIN q
           /\ \A i \in DOMAIN Tail(q) : /\ i + 1 \in DOMAIN q /\ i + 1 # 1
                                        /\ Tail(q)[i] = q[i + 1]
           /\ \A i \in DOMAIN q : i # 1 => i - 1 \in DOMAIN Tail(q) /\ Tail(q)[i - 1] = q[i]
           /\ DOMAIN q \subseteq Nat \ {0} /\ DOMAIN Tail(q) \subseteq Nat \ {0}
OBVIOUS

\* Jobs and owners are only added; a job keeps its operation and its fences.
Grown(J, O, J2, O2) ==
    /\ DOMAIN J \subseteq DOMAIN J2 /\ DOMAIN O \subseteq DOMAIN O2
    /\ \A j \in DOMAIN J : J2[j].op = J[j].op /\ J2[j].ids = J[j].ids

LEMMA GrownKeeps ==
    ASSUME NEW J, NEW O, NEW J2, NEW O2, Grown(J, O, J2, O2)
    PROVE  /\ FencesOf(O) \subseteq FencesOf(O2)
           /\ \A m : MessageOK(m, J, O) => MessageOK(m, J2, O2) /\ (Gives(m, J2) <=> Gives(m, J))
           /\ \A r : RequestOK(r, J, O) => RequestOK(r, J2, O2)
           /\ \A f : Numbers(O, f) => Numbers(O2, f)
<1>1. FencesOf(O) \subseteq FencesOf(O2)
  BY DEF Grown, FencesOf
<1>2. ASSUME NEW m, MessageOK(m, J, O)
      PROVE  MessageOK(m, J2, O2) /\ (Gives(m, J2) <=> Gives(m, J))
  <2>1. Gives(m, J2) <=> Gives(m, J)
    BY <1>2 DEF Grown, MessageOK, HasItem, Gives, Adds
  <2>2. MessageOK(m, J2, O2)
    BY <1>1, <1>2, <2>1 DEF Grown, MessageOK, HasItem
  <2> QED BY <2>1, <2>2
<1>3. ASSUME NEW r, RequestOK(r, J, O) PROVE RequestOK(r, J2, O2)
  BY <1>1, <1>3 DEF Grown, RequestOK, HasItem
<1>4. ASSUME NEW f, Numbers(O, f) PROVE Numbers(O2, f)
  BY <1>1, <1>4 DEF Numbers
<1> QED BY <1>1, <1>2, <1>3, <1>4

LEMMA QueuesKept ==
    ASSUME NEW J, NEW O, NEW J2, NEW O2, Grown(J, O, J2, O2), NEW q
    PROVE  /\ MessagesOK(q, J, O) => MessagesOK(q, J2, O2)
           /\ RequestsOK(q, J, O) => RequestsOK(q, J2, O2)
BY GrownKeeps DEF MessagesOK, RequestsOK

LEMMA MessagesChange ==
    ASSUME NEW J, NEW O, NEW q, MessagesOK(q, J, O)
    PROVE  /\ \A m \in Messages : MessageOK(m, J, O) => MessagesOK(Append(q, m), J, O)
           /\ q # <<>> => /\ MessagesOK(Tail(q), J, O)
                          /\ Head(q) \in Messages /\ MessageOK(Head(q), J, O)
<1>1. ASSUME NEW m \in Messages, MessageOK(m, J, O) PROVE MessagesOK(Append(q, m), J, O)
  BY <1>1, Appended DEF MessagesOK
<1>2. ASSUME q # <<>>
      PROVE  MessagesOK(Tail(q), J, O) /\ Head(q) \in Messages /\ MessageOK(Head(q), J, O)
  BY <1>2, TailOf DEF MessagesOK
<1> QED BY <1>1, <1>2

LEMMA RequestsChange ==
    ASSUME NEW J, NEW O, NEW q, RequestsOK(q, J, O)
    PROVE  /\ \A r \in Requests : RequestOK(r, J, O) => RequestsOK(Append(q, r), J, O)
           /\ \A p : RequestsOK(p, J, O) => RequestsOK(q \o p, J, O)
           /\ q # <<>> => /\ RequestsOK(Tail(q), J, O)
                          /\ Head(q) \in Requests /\ RequestOK(Head(q), J, O)
<1>1. ASSUME NEW r \in Requests, RequestOK(r, J, O) PROVE RequestsOK(Append(q, r), J, O)
  BY <1>1, Appended DEF RequestsOK
<1>2. ASSUME NEW p, RequestsOK(p, J, O) PROVE RequestsOK(q \o p, J, O)
  BY <1>2, Joined DEF RequestsOK
<1>3. ASSUME q # <<>>
      PROVE  RequestsOK(Tail(q), J, O) /\ Head(q) \in Requests /\ RequestOK(Head(q), J, O)
  BY <1>3, TailOf DEF RequestsOK
<1> QED BY <1>1, <1>2, <1>3

\* Maps with one element more, or fewer.
LEMMA NumbersChange ==
    ASSUME NEW O, NEW f, Numbers(O, f)
    PROVE  /\ \A hw \in HwIds : \A v \in FencesOf(O) : Numbers(O, With(f, hw, v))
           /\ \A hw : Numbers(O, Without(f, hw))
           /\ \A hw \in DOMAIN f : \A b \in BOOLEAN : Numbers(O, [f EXCEPT ![hw].paused = b])
           /\ \A hw \in DOMAIN f : \A o \in {0, 1} : Numbers(O, [f EXCEPT ![hw].option = o])
           /\ Numbers(O, Empty)
<1>1. ASSUME NEW hw \in HwIds, NEW v \in FencesOf(O) PROVE Numbers(O, With(f, hw, v))
  BY DEF Numbers, With
<1>2. ASSUME NEW hw PROVE Numbers(O, Without(f, hw))
  BY DEF Numbers, Without
<1>3. ASSUME NEW hw \in DOMAIN f, NEW b \in BOOLEAN PROVE Numbers(O, [f EXCEPT ![hw].paused = b])
  <2>1. [f[hw] EXCEPT !.paused = b] \in FencesOf(O)
    BY DEF Numbers, FencesOf
  <2> QED BY <2>1 DEF Numbers
<1>4. ASSUME NEW hw \in DOMAIN f, NEW o \in {0, 1} PROVE Numbers(O, [f EXCEPT ![hw].option = o])
  <2>1. [f[hw] EXCEPT !.option = o] \in FencesOf(O)
    BY DEF Numbers, FencesOf
  <2> QED BY <2>1 DEF Numbers
<1>5. Numbers(O, Empty)
  BY DEF Numbers, Empty
<1> QED BY <1>1, <1>2, <1>3, <1>4, <1>5

----------------------------------------------------------------------------
(* Types.                                                                  *)

LEMMA NoFenceType == NoFence \in AnyFence
BY DEF NoFence, Fence, AnyFence

LEMMA MsgType ==
    ASSUME NEW t \in MessageTypes
    PROVE  Msg(t) \in Messages
BY NoFenceType DEF Msg, Messages, Everyone

LEMMA FencesAreFences ==
    ASSUME CommandsOK
    PROVE  /\ FencesOf(owner) \subseteq AnyFence
           /\ DOMAIN owner \subseteq Nat \ {0}
           /\ \A f \in FencesOf(owner) : f.id \in DOMAIN owner
BY DEF CommandsOK, FencesOf, AnyFence

LEMMA GeofenceInitType == Init => TInv
<1> SUFFICES ASSUME Init PROVE TInv
  OBVIOUS
<1> USE GeofenceAdapterAssumption DEF Init
<1>1. RestOK
  BY DEF RestOK
<1>2. CommandsOK
  BY DEF CommandsOK, MaxFences
<1>3. MapsOK /\ EngineOK
  BY DEF MapsOK, EngineOK, Numbers, Empty
<1>4. AdapterQueueOK /\ ApiQueueOK
  BY DEF AdapterQueueOK, ApiQueueOK, MessagesOK, RequestsOK
<1> QED BY <1>1, <1>2, <1>3, <1>4 DEF TInv

\* What follows for the rest when jobs and owners are only added.
LEMMA RestKept ==
    ASSUME TInv, Grown(jobs, owner, jobs', owner')
    PROVE  /\ UNCHANGED maps => MapsOK'
           /\ UNCHANGED engine => EngineOK'
           /\ MessagesOK(adapter_queue, jobs', owner') /\ RequestsOK(api_queue, jobs', owner')
<1>1. MapsOK /\ EngineOK /\ AdapterQueueOK /\ ApiQueueOK
  BY DEF TInv
<1>2. MessagesOK(adapter_queue, jobs', owner') /\ RequestsOK(api_queue, jobs', owner')
  BY <1>1, QueuesKept DEF AdapterQueueOK, ApiQueueOK
<1>3. Numbers(owner', mGeofences) /\ Numbers(owner', engine)
  BY <1>1, GrownKeeps DEF MapsOK, EngineOK
<1>4. DOMAIN owner \subseteq DOMAIN owner'
  BY DEF Grown
<1>5. UNCHANGED maps => MapsOK'
  BY <1>1, <1>3, <1>4 DEF MapsOK, maps
<1>6. UNCHANGED engine => EngineOK'
  BY <1>3 DEF EngineOK
<1> QED BY <1>2, <1>5, <1>6

LEMMA SameGrown ==
    ASSUME UNCHANGED <<jobs, owner>>
    PROVE  Grown(jobs, owner, jobs', owner')
BY DEF Grown

\* A command for fences that were handed out.
LEMMA CommandType ==
    ASSUME TInv, NEW op \in JobOps, NEW c \in Clients, NEW ids \in Seq(Nat), Command(op, c, ids),
           owner' \in Seq(Everyone), Len(owner') <= MaxFences,
           told' \in Seq(Beliefs), Len(told') = Len(owner'), Len(owner) <= Len(owner'),
           \A i \in DOMAIN ids : ids[i] \in DOMAIN owner'
    PROVE  TInv' /\ Grown(jobs, owner, jobs', owner')
<1> DEFINE job == [op |-> op, client |-> c, ids |-> ids,
                   errs |-> [i \in DOMAIN ids |-> "none"], answered |-> FALSE]
           m == [Msg("command") EXCEPT !.job = Len(jobs) + 1]
<1>0. RestOK /\ CommandsOK /\ jobs \in Seq(Jobs)
  BY DEF TInv, CommandsOK
<1>1. job \in Jobs
  <2>1. [i \in DOMAIN ids |-> "none"] \in Seq(Errors)
    BY DEF Errors
  <2>2. c \in Everyone
    BY <1>0 DEF RestOK, Clients, Everyone
  <2> QED BY <2>1, <2>2 DEF Jobs
<1>2. jobs' = Append(jobs, job) /\ adapter_queue' = Append(adapter_queue, m)
  BY DEF Command
<1>3. m \in Messages /\ m.type = "command" /\ m.job = Len(jobs) + 1
  <2>1. Len(jobs) + 1 \in Nat
    BY <1>0
  <2>2. Msg("command") \in Messages
    BY MsgType DEF MessageTypes
  <2> QED BY <2>1, <2>2 DEF Messages, Msg
<1> HIDE DEF job, m
<1>4. DOMAIN owner \subseteq DOMAIN owner'
  BY <1>0 DEF CommandsOK
<1>5. /\ jobs' \in Seq(Jobs) /\ Len(jobs) + 1 \in DOMAIN jobs' /\ jobs'[Len(jobs) + 1] = job
      /\ \A j \in DOMAIN jobs : j \in DOMAIN jobs' /\ jobs'[j] = jobs[j]
      /\ \A j \in DOMAIN jobs' : j \in DOMAIN jobs \/ j = Len(jobs) + 1
  BY <1>0, <1>1, <1>2, Appended
<1>6. Grown(jobs, owner, jobs', owner')
  BY <1>4, <1>5 DEF Grown
<1>7. CommandsOK'
  <2>1. job.ids = ids
    BY DEF job
  <2>2. MaxFences' = MaxFences
    BY DEF Command, MaxFences
  <2>3. ASSUME NEW j \in DOMAIN jobs', NEW i \in DOMAIN jobs'[j].ids
        PROVE  jobs'[j].ids[i] \in DOMAIN owner'
    BY <1>0, <1>4, <1>5, <2>1 DEF CommandsOK
  <2> QED BY <1>5, <2>2, <2>3 DEF CommandsOK
<1>8. MessageOK(m, jobs', owner')
  BY <1>3, <1>5 DEF MessageOK, Gives, Adds
<1>9. MapsOK' /\ EngineOK' /\ MessagesOK(adapter_queue, jobs', owner')
      /\ RequestsOK(api_queue, jobs', owner')
  BY <1>6, RestKept DEF Command, maps
<1>10. AdapterQueueOK'
  BY <1>2, <1>3, <1>8, <1>9, MessagesChange DEF AdapterQueueOK
<1>11. ApiQueueOK'
  BY <1>9 DEF ApiQueueOK, Command
<1>12. RestOK'
  BY <1>0 DEF RestOK, Command, Clients
<1> QED BY <1>6, <1>7, <1>9, <1>10, <1>11, <1>12 DEF TInv

LEMMA AddType ==
    ASSUME TInv, NEW c \in Clients, addGeofencesCommand(c)
    PROVE  TInv' /\ Grown(jobs, owner, jobs', owner')
<1>1. PICK n \in 1..MaxItems :
          /\ Len(owner) + n <= MaxFences
          /\ Command("add", c, [i \in 1..n |-> Len(owner) + i])
          /\ owner' = owner \o [i \in 1..n |-> c]
          /\ told' = told \o [i \in 1..n |-> [state |-> "none", option |-> 0]]
  BY DEF addGeofencesCommand
<1> DEFINE ids == [i \in 1..n |-> Len(owner) + i]
           mine == [i \in 1..n |-> c]
           news == [i \in 1..n |-> [state |-> "none", option |-> 0]]
<1>2. /\ owner \in Seq(Everyone) /\ told \in Seq(Beliefs) /\ Len(told) = Len(owner)
      /\ n \in Nat /\ Len(owner) \in Nat /\ c \in Everyone
  BY GeofenceAdapterAssumption DEF TInv, CommandsOK, RestOK, MaxItems, Clients, Everyone
<1>3. ids \in Seq(Nat) /\ DOMAIN ids = 1..n
  BY <1>2
<1>4. mine \in Seq(Everyone) /\ Len(mine) = n
  BY <1>2
<1>5. news \in Seq(Beliefs) /\ Len(news) = n
  BY <1>2 DEF Beliefs
<1>6. owner' = owner \o mine /\ told' = told \o news
  BY <1>1
<1>7. Command("add", c, ids) /\ "add" \in JobOps
  BY <1>1 DEF JobOps
<1>8. \A i \in DOMAIN ids : ids[i] \in 1..(Len(owner) + n)
  BY <1>2
<1> HIDE DEF ids, mine, news
<1>9. owner' \in Seq(Everyone) /\ Len(owner') = Len(owner) + n
  BY <1>2, <1>4, <1>6, Joined
<1>10. told' \in Seq(Beliefs) /\ Len(told') = Len(owner')
  <2>1. told \in Seq(Beliefs) /\ news \in Seq(Beliefs)
    BY <1>2, <1>5
  <2>2. told \o news \in Seq(Beliefs) /\ Len(told \o news) = Len(told) + Len(news)
    BY <2>1, Joined
  <2> QED BY <1>2, <1>5, <1>6, <1>9, <2>2
<1>11. \A i \in DOMAIN ids : ids[i] \in DOMAIN owner'
  BY <1>8, <1>9
<1>12. Len(owner') <= MaxFences /\ Len(owner) <= Len(owner')
  BY <1>1, <1>2, <1>9
<1> QED BY <1>3, <1>7, <1>9, <1>10, <1>11, <1>12, CommandType

LEMMA OtherType ==
    ASSUME TInv, NEW c \in Clients, NEW op \in {"remove", "pause", "resume", "modify"},
           OtherCommand(op, c)
    PROVE  TInv' /\ Grown(jobs, owner, jobs', owner')
<1>1. PICK I \in SUBSET {id \in DOMAIN owner : owner[id] = c} :
          \E ids \in SetToSeqs(I) : Len(ids) <= MaxItems /\ Command(op, c, ids)
  BY DEF OtherCommand
<1>2. PICK ids \in SetToSeqs(I) : Command(op, c, ids)
  BY <1>1
<1>3. ids \in [1..Cardinality(I) -> I]
  BY <1>2 DEF SetToSeqs
<1>4. owner \in Seq(Everyone) /\ DOMAIN owner \subseteq Nat /\ DOMAIN owner = 1..Len(owner)
  BY DEF TInv, CommandsOK
<1>5. IsFiniteSet(I) /\ Cardinality(I) \in Nat
  <2>1. IsFiniteSet(1..Len(owner)) /\ I \subseteq 1..Len(owner)
    <3>1. Len(owner) \in Int
      BY <1>4
    <3> QED BY <1>4, <3>1, FS_Interval
  <2> QED BY <2>1, FS_Subset, FS_CardinalityType
<1>6. ids \in Seq(Nat) /\ \A i \in DOMAIN ids : ids[i] \in DOMAIN owner
  BY <1>3, <1>4, <1>5
<1>7. UNCHANGED <<owner, told>> /\ op \in JobOps
  BY DEF OtherCommand, JobOps
<1>8. told \in Seq(Beliefs) /\ Len(told) = Len(owner) /\ Len(owner) <= MaxFences
  BY DEF TInv, CommandsOK
<1> QED BY <1>2, <1>4, <1>6, <1>7, <1>8, CommandType

LEMMA RemoveCommandType ==
    ASSUME TInv, NEW c \in Clients, removeClientCommand(c)
    PROVE  TInv' /\ Grown(jobs, owner, jobs', owner')
<1> DEFINE m == [Msg("remove_client") EXCEPT !.client = c]
<1>1. c \in Everyone
  BY DEF TInv, RestOK, Clients, Everyone
<1>2. m \in Messages /\ m.type = "remove_client"
  <2>1. Msg("remove_client") \in Messages
    BY MsgType DEF MessageTypes
  <2> QED BY <1>1, <2>1 DEF Messages, Msg
<1> HIDE DEF m
<1>3. MessageOK(m, jobs, owner)
  BY <1>2 DEF MessageOK, Gives, Adds
<1>4. adapter_queue' = Append(adapter_queue, m)
  BY DEF removeClientCommand, m
<1>5. UNCHANGED <<setup, maps, mClientData, owner, jobs, api_queue, engine, used, down, told, apart, restarts>>
  BY DEF removeClientCommand
<1>6. AdapterQueueOK'
  BY <1>2, <1>3, <1>4, <1>5, MessagesChange DEF TInv, AdapterQueueOK
<1>7. RestOK' /\ CommandsOK' /\ MapsOK' /\ EngineOK' /\ ApiQueueOK'
  BY <1>5 DEF TInv, RestOK, CommandsOK, MapsOK, EngineOK, ApiQueueOK, maps, Clients, MaxFences
<1>8. Grown(jobs, owner, jobs', owner')
  BY <1>5, SameGrown
<1> QED BY <1>6, <1>7, <1>8 DEF TInv

----------------------------------------------------------------------------
(* Types: what the adapter's thread does.                                  *)

LEMMA JobType ==
    ASSUME CommandsOK, NEW j \in DOMAIN jobs
    PROVE  /\ jobs[j] \in Jobs
           /\ jobs[j].op \in JobOps /\ jobs[j].ids \in Seq(Nat) /\ jobs[j].errs \in Seq(Errors)
<1>1. jobs[j] \in Jobs
  <2>1. jobs \in Seq(Jobs)
    BY DEF CommandsOK
  <2> QED BY <2>1
<1> QED BY <1>1 DEF Jobs

LEMMA SequenceOf ==
    ASSUME NEW S, NEW n \in Nat, NEW f \in [1..n -> S]
    PROVE  f \in Seq(S) /\ Len(f) = n
OBVIOUS

\* A job of which other errors are kept, and is answered or not.
LEMMA JobsChange ==
    ASSUME CommandsOK, NEW j \in DOMAIN jobs, NEW job \in Jobs,
           job.op = jobs[j].op, job.ids = jobs[j].ids, jobs' = [jobs EXCEPT ![j] = job],
           UNCHANGED <<setup, owner>>, told' \in Seq(Beliefs), Len(told') = Len(told)
    PROVE  CommandsOK' /\ Grown(jobs, owner, jobs', owner')
<1>1. jobs \in Seq(Jobs)
  BY DEF CommandsOK
<1>2. /\ DOMAIN jobs' = DOMAIN jobs
      /\ \A k \in DOMAIN jobs : k # j => jobs'[k] = jobs[k]
      /\ jobs'[j] = job
  BY <1>1
<1>4. jobs' \in Seq(Jobs)
  <2>1. jobs \in [1..Len(jobs) -> Jobs] /\ Len(jobs) \in Nat
    BY <1>1
  <2>2. jobs' \in [1..Len(jobs) -> Jobs]
    BY <1>2, <2>1
  <2> QED BY <2>1, <2>2, SequenceOf
<1>5. \A k \in DOMAIN jobs : jobs'[k].op = jobs[k].op /\ jobs'[k].ids = jobs[k].ids
  BY <1>2
<1>6. Grown(jobs, owner, jobs', owner')
  BY <1>2, <1>5 DEF Grown
<1>7. \A k \in DOMAIN jobs' : \A i \in DOMAIN jobs'[k].ids : jobs'[k].ids[i] \in DOMAIN owner'
  BY <1>2, <1>5 DEF CommandsOK
<1>8. MaxFences' = MaxFences
  BY DEF MaxFences
<1> QED BY <1>4, <1>6, <1>7, <1>8 DEF CommandsOK

LEMMA BelievesType ==
    ASSUME NEW t \in Beliefs, NEW op \in JobOps, NEW err
    PROVE  Believes(t, op, err) \in Beliefs
BY DEF Beliefs, JobOps, Believes

LEMMA ItemDoneType ==
    ASSUME CommandsOK, NEW j \in DOMAIN jobs, NEW i, NEW err \in Errors \cup {"kept"},
           ItemDone(j, i, err), UNCHANGED <<setup, owner>>
    PROVE  CommandsOK' /\ Grown(jobs, owner, jobs', owner')
<1> DEFINE job == jobs[j]
           errs == [job.errs EXCEPT ![i] = IF err = "kept" THEN @ ELSE err]
           last == i = Len(job.ids)
           answered == job.answered \/ last
<1>1. job \in Jobs /\ job.op \in JobOps /\ job.errs \in Seq(Errors)
  BY JobType
<1>2. errs \in Seq(Errors)
  <2>1. job.errs \in [1..Len(job.errs) -> Errors] /\ Len(job.errs) \in Nat
    BY <1>1
  <2>2. errs \in [1..Len(job.errs) -> Errors]
    BY <2>1
  <2> QED BY <2>1, <2>2
<1>3. answered \in BOOLEAN
  OBVIOUS
<1>4. jobs' = [jobs EXCEPT ![j].errs = errs, ![j].answered = answered]
  BY DEF ItemDone
<1> DEFINE done == [job EXCEPT !.errs = errs, !.answered = answered]
<1>5. told \in Seq(Beliefs) /\ told \in [1..Len(told) -> Beliefs] /\ Len(told) \in Nat
  BY DEF CommandsOK
<1>6. told' \in [1..Len(told) -> Beliefs]
  <2>1. \/ told' = told
        \/ told' = [id \in DOMAIN told |->
                       IF \E n \in DOMAIN errs : job.ids[n] = id
                       THEN Believes(told[id], job.op,
                                     errs[CHOOSE n \in DOMAIN errs : job.ids[n] = id])
                       ELSE told[id]]
    BY DEF ItemDone
  <2>2. \A id \in DOMAIN told : \A e : Believes(told[id], job.op, e) \in Beliefs
    BY <1>1, <1>5, BelievesType
  <2>3. DOMAIN told = 1..Len(told) /\ \A id \in DOMAIN told : told[id] \in Beliefs
    BY <1>5
  <2> HIDE DEF errs, job
  <2>4. CASE told' = told
    BY <1>5, <2>4
  <2>5. CASE told' = [id \in DOMAIN told |->
                       IF \E n \in DOMAIN errs : job.ids[n] = id
                       THEN Believes(told[id], job.op,
                                     errs[CHOOSE n \in DOMAIN errs : job.ids[n] = id])
                       ELSE told[id]]
    BY <2>2, <2>3, <2>5
  <2> QED BY <2>1, <2>4, <2>5
<1>7. told' \in Seq(Beliefs) /\ Len(told') = Len(told)
  BY <1>5, <1>6
<1> HIDE DEF errs, answered
<1>8. jobs' = [jobs EXCEPT ![j] = done]
  BY <1>4
<1>9. done \in Jobs /\ done.op = jobs[j].op /\ done.ids = jobs[j].ids
  BY <1>1, <1>2, <1>3 DEF Jobs
<1> HIDE DEF done, job
<1> QED BY <1>7, <1>8, <1>9, JobsChange

\* A message is taken, the maps change, and the rest stays.
LEMMA TakenType ==
    ASSUME TInv, adapter_queue # <<>>, Done, UNCHANGED <<setup, owner, engine, down, restarts>>,
           mClientData' \subseteq mClientData, apart' = apart \/ apart' \in BOOLEAN,
           CommandsOK', Grown(jobs, owner, jobs', owner'), MapsOK', ApiQueueOK'
    PROVE  TInv'
<1>1. MessagesOK(adapter_queue, jobs', owner')
  BY RestKept
<1>2. AdapterQueueOK'
  BY <1>1, MessagesChange DEF Done, AdapterQueueOK
<1>3. EngineOK'
  BY RestKept
<1>4. RestOK'
  BY DEF TInv, RestOK, Clients
<1> QED BY <1>2, <1>3, <1>4 DEF TInv

LEMMA HeadOK ==
    ASSUME TInv, adapter_queue # <<>>
    PROVE  Head(adapter_queue) \in Messages /\ MessageOK(Head(adapter_queue), jobs, owner)
BY MessagesChange DEF TInv, AdapterQueueOK

LEMMA TurnType ==
    ASSUME NEW j \in Nat, NEW i \in Nat, NEW t \in MessageTypes
    PROVE  LET m == [Turn(j, i) EXCEPT !.type = t]
           IN  m \in Messages /\ m.type = t /\ m.job = j /\ m.item = i
BY MsgType DEF Turn, Msg, Messages, MessageTypes

LEMMA CommandStays ==
    ASSUME TInv, UNCHANGED <<setup, owner, told, jobs>>
    PROVE  CommandsOK' /\ Grown(jobs, owner, jobs', owner')
BY SameGrown DEF TInv, CommandsOK, MaxFences

LEMMA ProcCommandRequests ==
    ASSUME TInv, adapter_queue # <<>>, Head(adapter_queue).type = "command"
    PROVE  LET j == Head(adapter_queue).job
               reqs == [i \in DOMAIN jobs[j].ids |-> Request("turn", 0, NoFence, Turn(j, i))]
           IN  reqs \in Seq(Requests) /\ RequestsOK(reqs, jobs, owner)
<1> DEFINE j == Head(adapter_queue).job
           reqs == [i \in DOMAIN jobs[j].ids |-> Request("turn", 0, NoFence, Turn(j, i))]
<1>1. j \in DOMAIN jobs /\ j \in Nat
  BY HeadOK DEF MessageOK, Messages
<1>2. jobs[j].ids \in Seq(Nat)
  BY <1>1, JobType DEF TInv
<1>3. ASSUME NEW i \in DOMAIN jobs[j].ids
      PROVE  LET r == Request("turn", 0, NoFence, Turn(j, i))
             IN  r \in Requests /\ RequestOK(r, jobs, owner)
  <2> DEFINE m == Turn(j, i)
  <2>0. i \in Nat
    BY <1>2, <1>3
  <2>1. m \in Messages /\ m.type = "turn" /\ m.job = j /\ m.item = i
    BY <1>1, <2>0, MsgType DEF Turn, Msg, Messages, MessageTypes
  <2> HIDE DEF m
  <2>2. Request("turn", 0, NoFence, m) \in Requests
    BY <2>1, NoFenceType DEF Request, Requests
  <2>3. RequestOK(Request("turn", 0, NoFence, m), jobs, owner)
    BY <1>1, <1>3, <2>1 DEF RequestOK, Request, HasItem
  <2> QED BY <2>2, <2>3 DEF m
<1>4. reqs \in Seq(Requests)
  BY <1>2, <1>3
<1>5. \A i \in DOMAIN reqs : RequestOK(reqs[i], jobs, owner)
  BY <1>3
<1> HIDE DEF reqs
<1>6. RequestsOK(reqs, jobs, owner)
  BY <1>4, <1>5 DEF RequestsOK
<1> QED BY <1>4, <1>6 DEF reqs, j

LEMMA ProcCommandType ==
    ASSUME TInv, ProcCommand
    PROVE  TInv' /\ Grown(jobs, owner, jobs', owner')
<1> DEFINE j == Head(adapter_queue).job
           reqs == [i \in DOMAIN jobs[j].ids |-> Request("turn", 0, NoFence, Turn(j, i))]
<1>1. adapter_queue # <<>> /\ Head(adapter_queue).type = "command" /\ Done
  BY DEF ProcCommand, Comes
<1>2. RequestsOK(reqs, jobs, owner)
  BY <1>1, ProcCommandRequests
<1>3. api_queue' = api_queue \o reqs
  BY DEF ProcCommand
<1> HIDE DEF reqs
<1>4. UNCHANGED <<setup, maps, mClientData, owner, jobs, engine, used, down, told, apart, restarts>>
  BY DEF ProcCommand
<1>5. ApiQueueOK'
  BY <1>2, <1>3, <1>4, RequestsChange DEF TInv, ApiQueueOK
<1>6. CommandsOK' /\ Grown(jobs, owner, jobs', owner')
  BY <1>4, CommandStays
<1>7. MapsOK'
  BY <1>4, <1>6, RestKept
<1> QED BY <1>1, <1>4, <1>5, <1>6, <1>7, TakenType

\* What is asked of the engine for an item.
LEMMA AskType ==
    ASSUME CommandsOK, NEW j \in DOMAIN jobs, NEW i \in DOMAIN jobs[j].ids, NEW hw \in Nat,
           NEW option \in {0, 1}
    PROVE  LET r == Request(jobs[j].op, hw, Fence(jobs[j].ids[i], FALSE, option),
                            [Turn(j, i) EXCEPT !.type = "answer"])
           IN  r \in Requests /\ RequestOK(r, jobs, owner)
<1> DEFINE m == [Turn(j, i) EXCEPT !.type = "answer"]
           f == Fence(jobs[j].ids[i], FALSE, option)
           r == Request(jobs[j].op, hw, f, m)
<1>1. jobs[j].op \in JobOps /\ j \in Nat /\ i \in Nat
  <2>1. jobs[j].op \in JobOps /\ jobs[j].ids \in Seq(Nat) /\ jobs \in Seq(Jobs)
    BY JobType DEF CommandsOK
  <2> QED BY <2>1
<1>2. m \in Messages /\ m.type = "answer" /\ m.job = j /\ m.item = i
  <2>1. "answer" \in MessageTypes
    BY DEF MessageTypes
  <2> QED BY <1>1, <2>1, TurnType
<1>3. f \in FencesOf(owner) /\ f \in AnyFence
  <2>1. f \in FencesOf(owner)
    BY DEF Fence, FencesOf, CommandsOK
  <2> QED BY <2>1, FencesAreFences
<1> HIDE DEF m, f
<1>4. /\ r.op = jobs[j].op /\ r.hw = hw /\ r.fence = f /\ r.reply = m
      /\ r \in Requests
  BY <1>1, <1>2, <1>3 DEF Request, Requests
<1> HIDE DEF r
<1>5. RequestOK(r, jobs, owner)
  BY <1>1, <1>2, <1>3, <1>4 DEF RequestOK, HasItem, JobOps
<1> QED BY <1>4, <1>5 DEF r, m, f

LEMMA ProcTurnType ==
    ASSUME TInv, ProcTurn
    PROVE  TInv' /\ Grown(jobs, owner, jobs', owner')
<1> DEFINE j == Head(adapter_queue).job
           i == Head(adapter_queue).item
           job == jobs[j]
           id == job.ids[i]
           option == IF job.op = "modify" THEN 1 ELSE 0
           r(hw) == Request(job.op, hw, Fence(id, FALSE, option), [Turn(j, i) EXCEPT !.type = "answer"])
<1>0. adapter_queue # <<>> /\ CommandsOK
  BY DEF ProcTurn, Comes, TInv
<1>1. j \in DOMAIN jobs /\ i \in DOMAIN job.ids
  BY <1>0, HeadOK DEF ProcTurn, Comes, MessageOK, HasItem
<1>2. ASSUME NEW hw \in Nat
      PROVE  RequestsOK(Append(api_queue, r(hw)), jobs, owner)
  <2>1. option \in {0, 1}
    OBVIOUS
  <2> HIDE DEF j, i, option
  <2>2. r(hw) \in Requests /\ RequestOK(r(hw), jobs, owner)
    BY <1>0, <1>1, <2>1, AskType
  <2> HIDE DEF r
  <2> QED BY <2>2, RequestsChange DEF TInv, ApiQueueOK
<1>3. UNCHANGED <<setup, maps, mClientData, owner, engine, used, down, apart, restarts>>
  BY DEF ProcTurn
<1>4. /\ CommandsOK' /\ Grown(jobs, owner, jobs', owner')
      /\ api_queue' = api_queue \/ \E hw \in Nat : api_queue' = Append(api_queue, r(hw))
  <2>1. CASE api_queue' = Append(api_queue, r(0)) /\ UNCHANGED <<jobs, told>>
    BY <1>3, <2>1, CommandStays
  <2>2. CASE /\ id \in DOMAIN mGeofenceIds
             /\ api_queue' = Append(api_queue, r(mGeofenceIds[id]))
             /\ jobs' = [jobs EXCEPT ![j].errs[i] = "ok"]
             /\ UNCHANGED told
    <3> DEFINE errs == [job.errs EXCEPT ![i] = "ok"]
               done == [job EXCEPT !.errs = errs]
    <3>1. job \in Jobs /\ job.errs \in Seq(Errors)
      BY <1>0, <1>1, JobType
    <3>2. errs \in Seq(Errors)
      <4>1. job.errs \in [1..Len(job.errs) -> Errors] /\ Len(job.errs) \in Nat
        BY <3>1
      <4>2. errs \in [1..Len(job.errs) -> Errors]
        BY <4>1 DEF Errors
      <4> QED BY <4>1, <4>2, SequenceOf
    <3>3. jobs' = [jobs EXCEPT ![j] = done]
      BY <2>2
    <3> HIDE DEF errs
    <3>4. done \in Jobs /\ done.op = job.op /\ done.ids = job.ids
      BY <3>1, <3>2 DEF Jobs
    <3> HIDE DEF done
    <3>5. CommandsOK' /\ Grown(jobs, owner, jobs', owner')
      <4>1. told' \in Seq(Beliefs) /\ Len(told') = Len(told)
        BY <1>0, <2>2 DEF CommandsOK
      <4> QED BY <1>0, <1>1, <1>3, <3>3, <3>4, <4>1, JobsChange
    <3>6. mGeofenceIds[id] \in Nat
      BY <2>2, GeofenceAdapterAssumption DEF TInv, MapsOK
    <3> QED BY <2>2, <3>5, <3>6
  <2>3. CASE ItemDone(j, i, "unknown") /\ UNCHANGED api_queue
    <3>1. "unknown" \in Errors \cup {"kept"}
      BY DEF Errors
    <3> QED BY <1>0, <1>1, <1>3, <2>3, <3>1, ItemDoneType
  <2> QED BY <2>1, <2>2, <2>3 DEF ProcTurn, TurnOf
<1>5. RequestsOK(api_queue', jobs, owner)
  <2> HIDE DEF r
  <2>1. RequestsOK(api_queue, jobs, owner)
    BY DEF TInv, ApiQueueOK
  <2> QED BY <1>2, <1>4, <2>1
<1>6. ApiQueueOK'
  BY <1>4, <1>5, QueuesKept DEF ApiQueueOK
<1>7. MapsOK'
  BY <1>3, <1>4, RestKept
<1> QED BY <1>0, <1>3, <1>4, <1>6, <1>7, TakenType DEF ProcTurn

\* A fence that has its number.
LEMMA SaveType ==
    ASSUME CommandsOK, MapsOK, NEW hw \in HwIds, NEW f \in FencesOf(owner),
           saveGeofenceItem(f, hw), UNCHANGED owner
    PROVE  MapsOK'
<1>1. Numbers(owner, mGeofences')
  BY NumbersChange DEF MapsOK, saveGeofenceItem
<1>2. f.id \in DOMAIN owner
  BY FencesAreFences
<1>3. /\ DOMAIN mGeofenceIds' \subseteq DOMAIN owner
      /\ \A id \in DOMAIN mGeofenceIds' : mGeofenceIds'[id] \in HwIds
  BY <1>2 DEF MapsOK, saveGeofenceItem, With
<1> QED BY <1>1, <1>3 DEF MapsOK

LEMMA AppliedType ==
    ASSUME CommandsOK, MapsOK, NEW op \in JobOps, NEW m \in Messages, Applied(op, m),
           m.fence \in FencesOf(owner), op = "add" => m.hw \in HwIds, UNCHANGED owner
    PROVE  MapsOK'
<1>1. CASE op = "add"
  BY <1>1, SaveType DEF Applied
<1>2. CASE op = "remove"
  <2>1. removeGeofenceItem(m.hw)
    BY <1>2 DEF Applied
  <2>2. CASE UNCHANGED maps
    BY <2>2 DEF MapsOK, maps
  <2>3. CASE /\ mGeofences' = Without(mGeofences, m.hw)
             /\ mGeofenceIds' = Without(mGeofenceIds, mGeofences[m.hw].id)
    <3>1. Numbers(owner, mGeofences')
      BY <2>3, NumbersChange DEF MapsOK
    <3>2. /\ DOMAIN mGeofenceIds' \subseteq DOMAIN owner
          /\ \A id \in DOMAIN mGeofenceIds' : mGeofenceIds'[id] \in HwIds
      BY <2>3 DEF MapsOK, Without
    <3> QED BY <3>1, <3>2 DEF MapsOK
  <2> QED BY <2>1, <2>2, <2>3 DEF removeGeofenceItem
<1>3. CASE op \in {"pause", "resume"}
  <2>1. PICK b \in BOOLEAN : pauseGeofenceItem(m.hw, b)
    BY <1>3 DEF Applied
  <2>2. Numbers(owner, mGeofences')
    BY <2>1, NumbersChange DEF MapsOK, pauseGeofenceItem
  <2>3. UNCHANGED mGeofenceIds
    BY <2>1 DEF pauseGeofenceItem
  <2> QED BY <2>2, <2>3 DEF MapsOK
<1>4. CASE op = "modify"
  <2>1. modifyGeofenceItem(m.hw, m.fence.option) /\ m.fence.option \in {0, 1}
    BY <1>4 DEF Applied, FencesOf
  <2>2. Numbers(owner, mGeofences')
    BY <2>1, NumbersChange DEF MapsOK, modifyGeofenceItem
  <2>3. UNCHANGED mGeofenceIds
    BY <2>1 DEF modifyGeofenceItem
  <2> QED BY <2>2, <2>3 DEF MapsOK
<1> QED BY <1>1, <1>2, <1>3, <1>4 DEF JobOps

LEMMA ProcAnswerType ==
    ASSUME TInv, ProcAnswer
    PROVE  TInv' /\ Grown(jobs, owner, jobs', owner')
<1> DEFINE m == Head(adapter_queue)
           op == jobs[m.job].op
<1>0. adapter_queue # <<>> /\ CommandsOK /\ MapsOK
  BY DEF ProcAnswer, Comes, TInv
<1>1. /\ m \in Messages /\ MessageOK(m, jobs, owner) /\ m.type = "answer"
  BY <1>0, HeadOK DEF ProcAnswer, Comes
<1>2. UNCHANGED <<setup, mClientData, owner, api_queue, engine, used, down, apart, restarts>>
  BY DEF ProcAnswer
<1>3. Answer(m)
  BY DEF ProcAnswer
<1> HIDE DEF m
<1>4. m.job \in DOMAIN jobs /\ m.fence \in FencesOf(owner)
  BY <1>1 DEF MessageOK, HasItem
<1>5. op \in JobOps
  BY <1>0, <1>4, JobType
<1>6. MapsOK'
  <2>1. CASE m.ok /\ Applied(op, m)
    <3>1. op = "add" => m.hw \in HwIds
      BY <1>1, <2>1 DEF MessageOK, Gives, Adds
    <3> HIDE DEF op
    <3> QED BY <1>0, <1>1, <1>2, <1>4, <1>5, <2>1, <3>1, AppliedType
  <2>2. CASE UNCHANGED maps
    BY <1>0, <1>2, <2>2 DEF MapsOK, maps
  <2> QED BY <1>3, <2>1, <2>2 DEF Answer
<1>7. CommandsOK' /\ Grown(jobs, owner, jobs', owner')
  <2>1. CASE UNCHANGED <<jobs, told>>
    BY <1>2, <2>1, CommandStays
  <2>2. ASSUME NEW err \in {"ok", "kept", "fail"}, ItemDone(m.job, m.item, err)
        PROVE  CommandsOK' /\ Grown(jobs, owner, jobs', owner')
    <3>1. err \in Errors \cup {"kept"}
      BY DEF Errors
    <3> QED BY <1>0, <1>2, <1>4, <2>2, <3>1, ItemDoneType
  <2> QED BY <1>3, <2>1, <2>2 DEF Answer
<1>8. ApiQueueOK'
  BY <1>2, <1>7, RestKept DEF ApiQueueOK
<1> QED BY <1>0, <1>2, <1>6, <1>7, <1>8, TakenType DEF ProcAnswer

\* The sequence of the elements of a finite set has these elements.
LEMMA InOrderType ==
    ASSUME NEW S, IsFiniteSet(S), NEW q \in InOrder(S)
    PROVE  q \in Seq(S) /\ \A n \in DOMAIN q : q[n] \in S
<1>1. Cardinality(S) \in Nat /\ q \in [1..Cardinality(S) -> S]
  BY FS_CardinalityType DEF InOrder
<1> QED BY <1>1, SequenceOf

LEMMA FinitelyMany ==
    ASSUME TInv
    PROVE  /\ IsFiniteSet(DOMAIN mGeofences)
           /\ \A S \in SUBSET DOMAIN mGeofenceIds : IsFiniteSet(S)
<1>1. IsFiniteSet(DOMAIN mGeofences)
  BY GeofenceAdapterAssumption, FS_Subset DEF TInv, MapsOK, Numbers
<1>2. DOMAIN mGeofenceIds \subseteq 1..Len(owner) /\ Len(owner) \in Int
  BY DEF TInv, MapsOK, CommandsOK
<1>3. IsFiniteSet(1..Len(owner))
  BY <1>2, FS_Interval
<1>4. ASSUME NEW S \in SUBSET DOMAIN mGeofenceIds PROVE IsFiniteSet(S)
  <2>1. S \subseteq 1..Len(owner)
    BY <1>2
  <2> QED BY <1>3, <2>1, FS_Subset
<1> QED BY <1>1, <1>4

LEMMA ProcRemoveClientType ==
    ASSUME TInv, ProcRemoveClient
    PROVE  TInv' /\ Grown(jobs, owner, jobs', owner')
<1> DEFINE c == Head(adapter_queue).client
           mine == {id \in DOMAIN mGeofenceIds : owner[id] = c}
           r(id) == Request("remove", mGeofenceIds[id], Fence(id, FALSE, 0), Msg("stopped"))
<1>1. /\ UNCHANGED <<setup, mGeofences, owner, jobs, engine, used, down, told, restarts>>
      /\ apart' = (apart /\ (mine = {} \/ ~Restarting))
  BY DEF ProcRemoveClient
<1>2. PICK ids \in InOrder(mine) :
          api_queue' = api_queue \o [n \in DOMAIN ids |-> r(ids[n])]
  BY DEF ProcRemoveClient
<1>3. /\ mClientData' \subseteq mClientData
      /\ mGeofenceIds' = [id \in DOMAIN mGeofenceIds \ mine |-> mGeofenceIds[id]]
  BY DEF ProcRemoveClient
<1>4. MapsOK'
  BY <1>1, <1>3 DEF TInv, MapsOK
<1>5. ASSUME NEW id \in mine PROVE r(id) \in Requests /\ RequestOK(r(id), jobs, owner)
  <2>1. id \in Nat /\ mGeofenceIds[id] \in Nat
    BY <1>5, FencesAreFences, GeofenceAdapterAssumption DEF TInv, MapsOK
  <2>2. Msg("stopped") \in Messages /\ Msg("stopped").type = "stopped"
    BY MsgType DEF MessageTypes, Msg
  <2>3. Fence(id, FALSE, 0) \in AnyFence
    BY <2>1 DEF Fence, AnyFence
  <2> DEFINE m == Msg("stopped")
             f == Fence(id, FALSE, 0)
  <2> HIDE DEF m, f
  <2>4. Request("remove", mGeofenceIds[id], f, m) \in Requests
    BY <2>1, <2>2, <2>3 DEF Request, Requests, m, f, JobOps
  <2>5. RequestOK(Request("remove", mGeofenceIds[id], f, m), jobs, owner)
    BY <2>2 DEF RequestOK, Request, m
  <2> QED BY <2>4, <2>5 DEF m, f
<1> DEFINE reqs == [n \in DOMAIN ids |-> r(ids[n])]
<1>6. RequestsOK(reqs, jobs, owner)
  <2>1. ids \in Seq(mine) /\ \A n \in DOMAIN ids : ids[n] \in mine
    <3>1. IsFiniteSet(mine)
      BY FinitelyMany
    <3> HIDE DEF mine
    <3> QED BY <3>1, InOrderType
  <2> HIDE DEF r, mine
  <2>2. reqs \in Seq(Requests)
    BY <1>5, <2>1
  <2>3. \A n \in DOMAIN reqs : RequestOK(reqs[n], jobs, owner)
    BY <1>5, <2>1
  <2> HIDE DEF reqs
  <2> QED BY <2>2, <2>3 DEF RequestsOK
<1>7. ApiQueueOK'
  <2> HIDE DEF reqs
  <2>1. RequestsOK(api_queue \o reqs, jobs, owner)
    BY <1>6, RequestsChange DEF TInv, ApiQueueOK
  <2> QED BY <1>1, <1>2, <2>1 DEF ApiQueueOK, reqs
<1>8. CommandsOK' /\ Grown(jobs, owner, jobs', owner')
  BY <1>1, CommandStays
<1>9. adapter_queue # <<>> /\ Done
  BY DEF ProcRemoveClient, Comes
<1> QED BY <1>1, <1>3, <1>4, <1>7, <1>8, <1>9, TakenType

LEMMA ProcStoppedType ==
    ASSUME TInv, ProcStopped
    PROVE  TInv' /\ Grown(jobs, owner, jobs', owner')
<1>1. UNCHANGED <<setup, mGeofenceIds, mClientData, owner, jobs, api_queue, engine, used, down, told,
                  apart, restarts>>
  BY DEF ProcStopped
<1>2. MapsOK'
  <2>1. mGeofences' = mGeofences \/ \E hw : mGeofences' = Without(mGeofences, hw)
    BY DEF ProcStopped
  <2>2. Numbers(owner, mGeofences')
    BY <2>1, NumbersChange DEF TInv, MapsOK
  <2> QED BY <1>1, <2>2 DEF TInv, MapsOK
<1>3. CommandsOK' /\ Grown(jobs, owner, jobs', owner')
  BY <1>1, CommandStays
<1>4. ApiQueueOK'
  BY <1>1 DEF TInv, ApiQueueOK
<1>5. adapter_queue # <<>> /\ Done
  BY DEF ProcStopped, Comes
<1> QED BY <1>1, <1>2, <1>3, <1>4, <1>5, TakenType

\* A fence is added again to the engine that has restarted.
LEMMA AddAgainType ==
    ASSUME TInv, NEW hw \in DOMAIN mGeofences
    PROVE  /\ AddAgain(mGeofences[hw]) \in Requests
           /\ RequestOK(AddAgain(mGeofences[hw]), jobs, owner)
<1> DEFINE f == mGeofences[hw]
           m == [Msg("restored") EXCEPT !.fence = f]
<1>1. f \in FencesOf(owner) /\ f \in AnyFence
  BY FencesAreFences DEF TInv, MapsOK, Numbers
<1> HIDE DEF f
<1>2. m \in Messages /\ m.type = "restored"
  <2>1. Msg("restored") \in Messages
    BY MsgType DEF MessageTypes
  <2> QED BY <1>1, <2>1 DEF Messages, Msg
<1> HIDE DEF m
<1>3. Request("add", 0, f, m) \in Requests
  BY <1>1, <1>2 DEF Request, Requests, JobOps
<1>4. RequestOK(Request("add", 0, f, m), jobs, owner)
  BY <1>1, <1>2 DEF RequestOK, Request
<1> QED BY <1>3, <1>4 DEF AddAgain, f, m

LEMMA ProcEngineUpType ==
    ASSUME TInv, ProcEngineUp
    PROVE  TInv' /\ Grown(jobs, owner, jobs', owner')
<1>1. UNCHANGED <<setup, mClientData, owner, jobs, engine, used, down, told, apart, restarts>>
  BY DEF ProcEngineUp
<1>2. CommandsOK' /\ Grown(jobs, owner, jobs', owner')
  BY <1>1, CommandStays
<1>3. adapter_queue # <<>> /\ Done
  BY DEF ProcEngineUp, Comes
<1>4. MapsOK' /\ ApiQueueOK'
  <2>1. CASE UNCHANGED <<maps, api_queue>>
    BY <1>1, <2>1 DEF TInv, MapsOK, ApiQueueOK, maps
  <2>2. ASSUME NEW old \in InOrder(DOMAIN mGeofences),
               mGeofences' = Empty, mGeofenceIds' = Empty,
               api_queue' = api_queue \o [n \in DOMAIN old |-> AddAgain(mGeofences[old[n]])]
        PROVE  MapsOK' /\ ApiQueueOK'
    <3>1. MapsOK'
      BY <1>1, <2>2 DEF MapsOK, Numbers, Empty
    <3> DEFINE reqs == [n \in DOMAIN old |-> AddAgain(mGeofences[old[n]])]
    <3>2. old \in Seq(DOMAIN mGeofences) /\ \A n \in DOMAIN old : old[n] \in DOMAIN mGeofences
      BY FinitelyMany, InOrderType
    <3>3. reqs \in Seq(Requests) /\ \A n \in DOMAIN reqs : RequestOK(reqs[n], jobs, owner)
      BY <3>2, AddAgainType
    <3> HIDE DEF reqs
    <3>4. RequestsOK(api_queue \o reqs, jobs, owner)
      <4>1. RequestsOK(reqs, jobs, owner)
        BY <3>3 DEF RequestsOK
      <4> QED BY <4>1, RequestsChange DEF TInv, ApiQueueOK
    <3> QED BY <1>1, <2>2, <3>1, <3>4 DEF ApiQueueOK, reqs
  <2> QED BY <2>1, <2>2 DEF ProcEngineUp, restartGeofences
<1> QED BY <1>1, <1>2, <1>3, <1>4, TakenType

LEMMA ProcRestoredType ==
    ASSUME TInv, ProcRestored
    PROVE  TInv' /\ Grown(jobs, owner, jobs', owner')
<1> DEFINE m == Head(adapter_queue)
           f == [m.fence EXCEPT !.paused = FALSE]
<1>1. UNCHANGED <<setup, mClientData, owner, jobs, engine, used, down, told, apart, restarts>>
  BY DEF ProcRestored
<1>2. CommandsOK' /\ Grown(jobs, owner, jobs', owner')
  BY <1>1, CommandStays
<1>3. adapter_queue # <<>> /\ Done
  BY DEF ProcRestored, Comes
<1>4. m \in Messages /\ MessageOK(m, jobs, owner) /\ m.type = "restored"
  BY <1>3, HeadOK DEF ProcRestored, Comes
<1>5. \/ /\ m.ok /\ saveGeofenceItem(f, m.hw)
         /\ \/ api_queue' = api_queue
            \/ api_queue' = Append(api_queue, Request("pause", m.hw, m.fence, Msg("none")))
      \/ UNCHANGED <<maps, api_queue>>
  BY DEF ProcRestored
<1> HIDE DEF m
<1>6. m.fence \in FencesOf(owner) /\ m.hw \in Nat /\ m.fence \in AnyFence
  BY <1>4, FencesAreFences DEF MessageOK, TInv, Messages
<1>7. MapsOK'
  <2>1. CASE m.ok /\ saveGeofenceItem(f, m.hw)
    <3>1. f \in FencesOf(owner)
      BY <1>6 DEF FencesOf
    <3>2. m.hw \in HwIds
      BY <1>4, <2>1 DEF MessageOK, Gives, Adds
    <3> HIDE DEF f
    <3> QED BY <1>1, <2>1, <3>1, <3>2, SaveType DEF TInv
  <2>2. CASE UNCHANGED maps
    BY <1>1, <2>2 DEF TInv, MapsOK, maps
  <2> QED BY <1>5, <2>1, <2>2
<1>8. ApiQueueOK'
  <2>1. CASE api_queue' = api_queue
    BY <1>1, <2>1 DEF TInv, ApiQueueOK
  <2>2. CASE api_queue' = Append(api_queue, Request("pause", m.hw, m.fence, Msg("none")))
    <3> DEFINE none == Msg("none")
               r == Request("pause", m.hw, m.fence, none)
    <3>1. none \in Messages /\ none.type = "none"
      BY MsgType DEF MessageTypes, Msg
    <3> HIDE DEF none
    <3>2. r \in Requests
      BY <1>6, <3>1 DEF Request, Requests, JobOps
    <3>3. RequestOK(r, jobs, owner)
      BY <3>1 DEF RequestOK, Request
    <3>4. api_queue' = Append(api_queue, r)
      BY <2>2 DEF none
    <3> HIDE DEF r
    <3> QED BY <1>1, <3>2, <3>3, <3>4, RequestsChange DEF TInv, ApiQueueOK
  <2> QED BY <1>5, <2>1, <2>2
<1> QED BY <1>1, <1>2, <1>3, <1>7, <1>8, TakenType

----------------------------------------------------------------------------
(* Types: the thread of LocApiBase and the engine.                         *)

\* The response to a request.
LEMMA ReturnedType ==
    ASSUME TInv, NEW r \in Requests, RequestOK(r, jobs, owner), NEW hw \in Nat, NEW ok \in BOOLEAN,
           r.op \notin {"turn", "up"}, ok /\ r.op = "add" => hw \in HwIds,
           Returned(r, hw, ok), UNCHANGED <<jobs, owner>>
    PROVE  AdapterQueueOK'
<1> DEFINE m == [r.reply EXCEPT !.hw = hw, !.ok = ok, !.fence = r.fence]
<1>1. CASE adapter_queue' = adapter_queue
  BY <1>1 DEF TInv, AdapterQueueOK
<1>2. CASE r.reply.type # "none" /\ adapter_queue' = Append(adapter_queue, m)
  <2>1. r.reply \in Messages /\ r.fence \in AnyFence
    BY DEF Requests
  <2>2. /\ m \in Messages /\ m.type = r.reply.type /\ m.job = r.reply.job
        /\ m.item = r.reply.item /\ m.hw = hw /\ m.ok = ok /\ m.fence = r.fence
    BY <2>1 DEF Messages
  <2> HIDE DEF m
  <2>3. MessageOK(m, jobs, owner)
    BY <1>2, <2>2 DEF RequestOK, MessageOK, HasItem, Gives, Adds
  <2> QED BY <1>2, <2>2, <2>3, MessagesChange DEF TInv, AdapterQueueOK
<1> QED BY <1>1, <1>2 DEF Returned

LEMMA CarriedType ==
    ASSUME TInv, NEW r \in Requests, RequestOK(r, jobs, owner), r.op \notin {"turn", "up"},
           NEW hw \in HwIds, r.op # "add" => hw \in DOMAIN engine, Carried(r, hw),
           r.op = "modify" => r.fence.option \in {0, 1}, UNCHANGED owner
    PROVE  EngineOK'
<1>1. Numbers(owner, engine)
  BY DEF TInv, EngineOK
<1>2. CASE r.op = "add"
  <2>1. r.fence \in FencesOf(owner)
    BY <1>2 DEF RequestOK
  <2>2. [r.fence EXCEPT !.paused = FALSE] \in FencesOf(owner)
    BY <2>1 DEF FencesOf
  <2> QED BY <1>1, <1>2, <2>2, NumbersChange DEF Carried, EngineOK
<1>3. CASE r.op = "remove"
  BY <1>1, <1>3, NumbersChange DEF Carried, EngineOK
<1>4. CASE r.op = "pause"
  BY <1>1, <1>4, NumbersChange DEF Carried, EngineOK
<1>5. CASE r.op = "resume"
  BY <1>1, <1>5, NumbersChange DEF Carried, EngineOK
<1>6. CASE r.op = "modify"
  BY <1>1, <1>6, NumbersChange DEF Carried, EngineOK
<1>7. r.op \in JobOps
  BY DEF Requests
<1> QED BY <1>2, <1>3, <1>4, <1>5, <1>6, <1>7 DEF JobOps

LEMMA ServeType ==
    ASSUME TInv, Serve
    PROVE  TInv' /\ Grown(jobs, owner, jobs', owner')
<1> DEFINE r == Head(api_queue)
<1>1. api_queue # <<>> /\ api_queue' = Tail(api_queue)
  BY DEF Serve
<1>2. UNCHANGED <<setup, maps, mClientData, owner, jobs, told, apart, restarts>>
  BY DEF Serve
<1>3. r \in Requests /\ RequestOK(r, jobs, owner) /\ RequestsOK(Tail(api_queue), jobs, owner)
  BY <1>1, RequestsChange DEF TInv, ApiQueueOK
<1>4. \/ /\ r.op \in {"turn", "up"}
         /\ adapter_queue' = Append(adapter_queue, r.reply)
         /\ down' = (down /\ r.op = "turn")
         /\ UNCHANGED engine
      \/ /\ r.op \notin {"turn", "up"} /\ Possible(r)
         /\ \E hw \in IF r.op = "add" THEN Free ELSE {r.hw} :
               Carried(r, hw) /\ Returned(r, hw, TRUE)
         /\ UNCHANGED down
      \/ /\ r.op \notin {"turn", "up"}
         /\ Returned(r, r.hw, FALSE)
         /\ UNCHANGED <<engine, down>>
  BY DEF Serve
<1> HIDE DEF r
<1>5. ApiQueueOK'
  BY <1>1, <1>2, <1>3 DEF ApiQueueOK
<1>6. CommandsOK' /\ Grown(jobs, owner, jobs', owner')
  BY <1>2, CommandStays
<1>7. MapsOK' /\ (UNCHANGED engine => EngineOK')
  BY <1>2, <1>6, RestKept
<1>8. AdapterQueueOK' /\ EngineOK' /\ down' \in BOOLEAN
  <2>1. CASE /\ r.op \in {"turn", "up"}
             /\ adapter_queue' = Append(adapter_queue, r.reply)
             /\ down' = (down /\ r.op = "turn")
             /\ UNCHANGED engine
    <3>1. r.reply \in Messages
      BY <1>3 DEF Requests
    <3>2. MessageOK(r.reply, jobs, owner)
      BY <1>3, <2>1 DEF RequestOK, MessageOK, Gives, Adds
    <3>3. AdapterQueueOK'
      BY <1>2, <2>1, <3>1, <3>2, MessagesChange DEF TInv, AdapterQueueOK
    <3> QED BY <1>7, <2>1, <3>3
  <2>2. ASSUME r.op \notin {"turn", "up"}, Possible(r),
               NEW hw \in IF r.op = "add" THEN Free ELSE {r.hw},
               Carried(r, hw), Returned(r, hw, TRUE), UNCHANGED down
        PROVE  AdapterQueueOK' /\ EngineOK' /\ down' \in BOOLEAN
    <3>1. hw \in HwIds /\ hw \in Nat /\ (r.op # "add" => hw \in DOMAIN engine)
      BY <2>2, GeofenceAdapterAssumption DEF Free, Possible, TInv, EngineOK, Numbers
    <3>2. AdapterQueueOK'
      BY <1>2, <1>3, <2>2, <3>1, ReturnedType
    <3>3. r.fence.option \in {0, 1}
      BY <1>3 DEF Requests, AnyFence
    <3>4. EngineOK'
      BY <1>2, <1>3, <2>2, <3>1, <3>3, CarriedType
    <3> QED BY <2>2, <3>2, <3>4 DEF TInv, RestOK
  <2>3. CASE /\ r.op \notin {"turn", "up"}
             /\ Returned(r, r.hw, FALSE)
             /\ UNCHANGED <<engine, down>>
    <3>1. r.hw \in Nat
      BY <1>3 DEF Requests
    <3>2. AdapterQueueOK'
      BY <1>2, <1>3, <2>3, <3>1, ReturnedType
    <3> QED BY <1>7, <2>3, <3>2 DEF TInv, RestOK
  <2> QED BY <1>4, <2>1, <2>2, <2>3
<1>9. RestOK'
  BY <1>2, <1>8 DEF TInv, RestOK, Clients
<1> QED BY <1>5, <1>6, <1>7, <1>8, <1>9 DEF TInv

LEMMA EngineDownType ==
    ASSUME TInv, EngineDown
    PROVE  TInv' /\ Grown(jobs, owner, jobs', owner')
<1> DEFINE m == Msg("engine_up")
           r == Request("up", 0, NoFence, m)
<1>1. UNCHANGED <<setup, maps, mClientData, owner, jobs, adapter_queue, told>>
  BY DEF EngineDown
<1>2. m \in Messages /\ m.type = "engine_up"
  BY MsgType DEF MessageTypes, Msg
<1>3. api_queue' = Append(api_queue, r)
  BY DEF EngineDown
<1> HIDE DEF m
<1>4. r \in Requests
  BY <1>2, NoFenceType DEF Request, Requests
<1>5. RequestOK(r, jobs, owner)
  BY <1>2 DEF RequestOK, Request
<1> HIDE DEF r
<1>6. ApiQueueOK'
  BY <1>1, <1>3, <1>4, <1>5, RequestsChange DEF TInv, ApiQueueOK
<1>7. CommandsOK' /\ Grown(jobs, owner, jobs', owner')
  BY <1>1, CommandStays
<1>8. MapsOK' /\ AdapterQueueOK'
  BY <1>1, <1>7, RestKept DEF TInv, AdapterQueueOK
<1>9. EngineOK'
  BY DEF EngineDown, EngineOK, Numbers, Empty
<1>10. RestOK'
  BY <1>1 DEF TInv, RestOK, Clients, EngineDown
<1> QED BY <1>6, <1>7, <1>8, <1>9, <1>10 DEF TInv

LEMMA StepType ==
    ASSUME TInv, [Next]_vars
    PROVE  TInv' /\ Grown(jobs, owner, jobs', owner')
<1>1. CASE UNCHANGED vars
  <2>1. Grown(jobs, owner, jobs', owner')
    BY <1>1, SameGrown DEF vars
  <2>2. RestOK' /\ CommandsOK' /\ MapsOK' /\ EngineOK'
    BY <1>1 DEF vars, TInv, RestOK, CommandsOK, MapsOK, EngineOK, Clients, MaxFences
  <2>3. AdapterQueueOK' /\ ApiQueueOK'
    BY <1>1 DEF vars, TInv, AdapterQueueOK, ApiQueueOK
  <2> QED BY <2>1, <2>2, <2>3 DEF TInv
<1>2. ASSUME NEW c \in Clients,
             \/ addGeofencesCommand(c)
             \/ \E op \in {"remove", "pause", "resume", "modify"} : OtherCommand(op, c)
             \/ removeClientCommand(c)
      PROVE  TInv' /\ Grown(jobs, owner, jobs', owner')
  BY <1>2, AddType, OtherType, RemoveCommandType
<1> QED
  BY <1>1, <1>2, ProcCommandType, ProcTurnType, ProcAnswerType, ProcRemoveClientType,
     ProcStoppedType, ProcEngineUpType, ProcRestoredType, ServeType, EngineDownType DEF Next

----------------------------------------------------------------------------
(* The numbers given.                                                      *)

\* The adapter's queue with one message more, ...
LEMMA Extended ==
    ASSUME TInv, NEW m \in Messages, adapter_queue' = Append(adapter_queue, m),
           Grown(jobs, owner, jobs', owner'), NEW n, n = Len(adapter_queue) + 1
    PROVE  /\ \A i \in DOMAIN adapter_queue :
                /\ i \in DOMAIN adapter_queue' /\ i < n
                /\ adapter_queue'[i] = adapter_queue[i]
                /\ GivenAt(i)' <=> GivenAt(i)
                /\ UpAt(i)' <=> UpAt(i)
           /\ \A i \in DOMAIN adapter_queue' : i \in DOMAIN adapter_queue \/ i = n
           /\ n \in DOMAIN adapter_queue' /\ adapter_queue'[n] = m
           /\ GivenAt(n)' <=> Gives(m, jobs')
           /\ UpAt(n)' <=> m.type = "engine_up"
<1>1. adapter_queue \in Seq(Messages)
      /\ \A i \in DOMAIN adapter_queue : MessageOK(adapter_queue[i], jobs, owner)
  BY DEF TInv, AdapterQueueOK, MessagesOK
<1>2. /\ \A i \in DOMAIN adapter_queue :
                /\ i \in DOMAIN adapter_queue' /\ i < n
                /\ adapter_queue'[i] = adapter_queue[i]
      /\ \A i \in DOMAIN adapter_queue' : i \in DOMAIN adapter_queue \/ i = n
      /\ n \in DOMAIN adapter_queue' /\ adapter_queue'[n] = m
  BY <1>1, Appended
<1>3. \A i \in DOMAIN adapter_queue : (GivenAt(i)' <=> GivenAt(i)) /\ (UpAt(i)' <=> UpAt(i))
  BY <1>1, <1>2, GrownKeeps DEF GivenAt, UpAt
<1>4. (GivenAt(n)' <=> Gives(m, jobs')) /\ (UpAt(n)' <=> m.type = "engine_up")
  BY <1>2 DEF GivenAt, UpAt
<1> QED BY <1>2, <1>3, <1>4

\* ... and without its head.
LEMMA Taken ==
    ASSUME TInv, adapter_queue # <<>>, Done, Grown(jobs, owner, jobs', owner')
    PROVE  /\ \A i \in DOMAIN adapter_queue' : \A k : k = i + 1 =>
                /\ k \in DOMAIN adapter_queue /\ k > 1 /\ i \in Nat
                /\ adapter_queue'[i] = adapter_queue[k]
                /\ GivenAt(i)' <=> GivenAt(k)
                /\ UpAt(i)' <=> UpAt(k)
           /\ \A k \in DOMAIN adapter_queue :
                k # 1 => \E i \in DOMAIN adapter_queue' : i \in Nat /\ k = i + 1
           /\ 1 \in DOMAIN adapter_queue /\ Head(adapter_queue) = adapter_queue[1]
<1>1. adapter_queue \in Seq(Messages)
      /\ \A i \in DOMAIN adapter_queue : MessageOK(adapter_queue[i], jobs, owner)
  BY DEF TInv, AdapterQueueOK, MessagesOK
<1>2. /\ \A i \in DOMAIN adapter_queue' : /\ i + 1 \in DOMAIN adapter_queue /\ i + 1 # 1
                                          /\ adapter_queue'[i] = adapter_queue[i + 1]
      /\ \A k \in DOMAIN adapter_queue : k # 1 => k - 1 \in DOMAIN adapter_queue'
      /\ DOMAIN adapter_queue \subseteq Nat \ {0} /\ DOMAIN adapter_queue' \subseteq Nat \ {0}
      /\ 1 \in DOMAIN adapter_queue /\ Head(adapter_queue) = adapter_queue[1]
  BY <1>1, TailOf DEF Done
<1>3. ASSUME NEW i \in DOMAIN adapter_queue', NEW k, k = i + 1
      PROVE  /\ k \in DOMAIN adapter_queue /\ k > 1 /\ i \in Nat
             /\ adapter_queue'[i] = adapter_queue[k]
  BY <1>2, <1>3
<1>4. ASSUME NEW i \in DOMAIN adapter_queue', NEW k, k = i + 1
      PROVE  (GivenAt(i)' <=> GivenAt(k)) /\ (UpAt(i)' <=> UpAt(k))
  BY <1>1, <1>3, <1>4, GrownKeeps DEF GivenAt, UpAt
<1>5. ASSUME NEW k \in DOMAIN adapter_queue, k # 1
      PROVE  \E i \in DOMAIN adapter_queue' : i \in Nat /\ k = i + 1
  <2>1. k - 1 \in DOMAIN adapter_queue' /\ k - 1 \in Nat /\ k = (k - 1) + 1
    BY <1>2, <1>5
  <2> QED BY <2>1
<1> QED BY <1>2, <1>3, <1>4, <1>5

\* What is appended gives no number, or one that was not used.
LEMMA AppendKeeps ==
    ASSUME TInv, GivenIsUsed, GivenOnce, NEW m \in Messages,
           adapter_queue' = Append(adapter_queue, m), Grown(jobs, owner, jobs', owner'),
           used \subseteq used', UNCHANGED mGeofences, down' \in BOOLEAN,
           ~down' => ~down \/ m.type = "engine_up",
           Gives(m, jobs') => ~down /\ m.hw \in used' /\ m.hw \notin used
    PROVE  GivenIsUsed' /\ GivenOnce'
<1> DEFINE n == Len(adapter_queue) + 1
<1>1. PICK k : k = n
  OBVIOUS
<1> HIDE DEF n
<1>2. /\ \A i \in DOMAIN adapter_queue :
                /\ i \in DOMAIN adapter_queue' /\ i < k
                /\ adapter_queue'[i] = adapter_queue[i]
                /\ GivenAt(i)' <=> GivenAt(i)
                /\ UpAt(i)' <=> UpAt(i)
      /\ \A i \in DOMAIN adapter_queue' : i \in DOMAIN adapter_queue \/ i = k
      /\ k \in DOMAIN adapter_queue' /\ adapter_queue'[k] = m
      /\ GivenAt(k)' <=> Gives(m, jobs')
      /\ UpAt(k)' <=> m.type = "engine_up"
  BY <1>1, Extended DEF n
<1>3. \A i \in DOMAIN adapter_queue' : i \in Nat
  BY MessagesChange, Appended DEF TInv, AdapterQueueOK, MessagesOK
<1>4. ASSUME ~down' PROVE \A i \in DOMAIN adapter_queue' :
           GivenAt(i)' /\ (\A j \in DOMAIN adapter_queue' : UpAt(j)' => j < i)
               => adapter_queue'[i].hw \in used'
  BY <1>2, <1>3, <1>4 DEF GivenIsUsed
<1>5. ASSUME ~down', \A j \in DOMAIN adapter_queue' : ~UpAt(j)'
      PROVE  DOMAIN mGeofences' \subseteq used'
  BY <1>2, <1>5 DEF GivenIsUsed
<1>6. ASSUME NEW i \in DOMAIN adapter_queue', NEW j \in DOMAIN adapter_queue',
             i < j, GivenAt(i)', GivenAt(j)',
             \A l \in DOMAIN adapter_queue' : UpAt(l)' => l < i \/ j < l
      PROVE  adapter_queue'[i].hw # adapter_queue'[j].hw
  <2>1. i \in DOMAIN adapter_queue
    BY <1>2, <1>3, <1>6
  <2>2. CASE j \in DOMAIN adapter_queue
    BY <1>2, <1>6, <2>1, <2>2 DEF GivenOnce
  <2>3. CASE j = k
    <3>1. \A l \in DOMAIN adapter_queue : UpAt(l) => l < i
      BY <1>2, <1>3, <1>6, <2>3
    <3>2. ~down /\ m.hw \notin used
      BY <1>2, <1>6, <2>3
    <3>3. adapter_queue[i].hw \in used
      BY <1>2, <1>6, <2>1, <3>1, <3>2 DEF GivenIsUsed
    <3> QED BY <1>2, <2>1, <2>3, <3>2, <3>3
  <2> QED BY <1>2, <2>2, <2>3
<1>7. ASSUME NEW i \in DOMAIN adapter_queue', GivenAt(i)',
             \A l \in DOMAIN adapter_queue' : UpAt(l)' => i < l
      PROVE  adapter_queue'[i].hw \notin DOMAIN mGeofences'
  <2>1. CASE i \in DOMAIN adapter_queue
    BY <1>2, <1>7, <2>1 DEF GivenOnce
  <2>2. CASE i = k
    <3>1. \A l \in DOMAIN adapter_queue : ~UpAt(l)
      BY <1>2, <1>3, <1>7, <2>2
    <3>2. ~down /\ m.hw \notin used
      BY <1>2, <1>7, <2>2
    <3> QED BY <1>2, <2>2, <3>1, <3>2 DEF GivenIsUsed
  <2> QED BY <1>2, <2>1, <2>2
<1>8. GivenIsUsed'
  BY <1>4, <1>5 DEF GivenIsUsed
<1>9. GivenOnce'
  BY <1>6, <1>7 DEF GivenOnce
<1> QED BY <1>8, <1>9

\* What a message of the adapter's thread may do to the maps: it enters the
\* number it gives, and engine_up empties them.
MapsFollow(m) ==
    /\ \A hw \in DOMAIN mGeofences' :
          hw \in DOMAIN mGeofences \/ (Gives(m, jobs) /\ hw = m.hw)
    /\ \A id \in DOMAIN mGeofenceIds' :
          \/ id \in DOMAIN mGeofenceIds /\ mGeofenceIds'[id] = mGeofenceIds[id]
          \/ Gives(m, jobs) /\ mGeofenceIds'[id] = m.hw
    /\ m.type = "engine_up" => DOMAIN mGeofences' = {}

LEMMA TakeKeeps ==
    ASSUME TInv, GivenIsUsed, GivenOnce, adapter_queue # <<>>, Done,
           Grown(jobs, owner, jobs', owner'), UNCHANGED <<used, down>>,
           MapsFollow(Head(adapter_queue))
    PROVE  GivenIsUsed' /\ GivenOnce'
<1>1. /\ \A i \in DOMAIN adapter_queue' : \A k : k = i + 1 =>
                /\ k \in DOMAIN adapter_queue /\ k > 1 /\ i \in Nat
                /\ adapter_queue'[i] = adapter_queue[k]
                /\ GivenAt(i)' <=> GivenAt(k)
                /\ UpAt(i)' <=> UpAt(k)
      /\ \A k \in DOMAIN adapter_queue :
                k # 1 => \E i \in DOMAIN adapter_queue' : i \in Nat /\ k = i + 1
      /\ 1 \in DOMAIN adapter_queue /\ Head(adapter_queue) = adapter_queue[1]
  BY Taken
<1>2. /\ \A hw \in DOMAIN mGeofences' :
            hw \in DOMAIN mGeofences \/ (GivenAt(1) /\ hw = adapter_queue[1].hw)
      /\ UpAt(1) => DOMAIN mGeofences' = {}
      /\ GivenAt(1) => ~UpAt(1)
  BY <1>1 DEF MapsFollow, GivenAt, UpAt, Gives, Adds
<1>3. ASSUME ~down', NEW i \in DOMAIN adapter_queue', GivenAt(i)',
             \A j \in DOMAIN adapter_queue' : UpAt(j)' => j < i
      PROVE  adapter_queue'[i].hw \in used'
  <2>1. PICK k : k = i + 1
    OBVIOUS
  <2>2. k \in DOMAIN adapter_queue /\ GivenAt(k) /\ adapter_queue'[i].hw = adapter_queue[k].hw
    BY <1>1, <1>3, <2>1
  <2>3. ASSUME NEW l \in DOMAIN adapter_queue, UpAt(l) PROVE l < k
    <3>1. CASE l = 1
      BY <1>1, <2>1, <3>1
    <3>2. CASE l # 1
      <4>1. PICK j \in DOMAIN adapter_queue' : j \in Nat /\ l = j + 1
        BY <1>1, <3>2
      <4>2. UpAt(j)'
        BY <1>1, <2>3, <4>1
      <4>3. j < i /\ i \in Nat
        BY <1>1, <1>3, <4>2
      <4> QED BY <2>1, <4>1, <4>3
    <3> QED BY <3>1, <3>2
  <2> QED BY <1>3, <2>2, <2>3 DEF GivenIsUsed
<1>4. ASSUME ~down', \A j \in DOMAIN adapter_queue' : ~UpAt(j)'
      PROVE  DOMAIN mGeofences' \subseteq used'
  <2>1. CASE UpAt(1)
    BY <1>2, <2>1
  <2>2. CASE ~UpAt(1)
    <3>1. \A l \in DOMAIN adapter_queue : ~UpAt(l)
      BY <1>1, <1>4, <2>2
    <3>2. DOMAIN mGeofences \subseteq used /\ (GivenAt(1) => adapter_queue[1].hw \in used)
      BY <1>1, <1>4, <3>1 DEF GivenIsUsed
    <3> QED BY <1>2, <3>2
  <2> QED BY <2>1, <2>2
<1>5. ASSUME NEW i \in DOMAIN adapter_queue', NEW j \in DOMAIN adapter_queue',
             i < j, GivenAt(i)', GivenAt(j)',
             \A l \in DOMAIN adapter_queue' : UpAt(l)' => l < i \/ j < l
      PROVE  adapter_queue'[i].hw # adapter_queue'[j].hw
  <2>1. PICK k, n : k = i + 1 /\ n = j + 1
    OBVIOUS
  <2>2. /\ k \in DOMAIN adapter_queue /\ GivenAt(k) /\ adapter_queue'[i].hw = adapter_queue[k].hw
        /\ n \in DOMAIN adapter_queue /\ GivenAt(n) /\ adapter_queue'[j].hw = adapter_queue[n].hw
        /\ i \in Nat /\ j \in Nat
    BY <1>1, <1>5, <2>1
  <2>3. k < n
    BY <1>5, <2>1, <2>2
  <2>4. ASSUME NEW l \in DOMAIN adapter_queue, UpAt(l) PROVE l < k \/ n < l
    <3>1. CASE l = 1
      BY <1>1, <2>1, <3>1
    <3>2. CASE l # 1
      <4>1. PICK h \in DOMAIN adapter_queue' : h \in Nat /\ l = h + 1
        BY <1>1, <3>2
      <4>2. UpAt(h)'
        BY <1>1, <2>4, <4>1
      <4>3. h < i \/ j < h
        BY <1>5, <4>2
      <4> QED BY <2>1, <2>2, <4>1, <4>3
    <3> QED BY <3>1, <3>2
  <2> QED BY <2>2, <2>3, <2>4 DEF GivenOnce
<1>6. ASSUME NEW i \in DOMAIN adapter_queue', GivenAt(i)',
             \A l \in DOMAIN adapter_queue' : UpAt(l)' => i < l
      PROVE  adapter_queue'[i].hw \notin DOMAIN mGeofences'
  <2>1. PICK k : k = i + 1
    OBVIOUS
  <2>2. /\ k \in DOMAIN adapter_queue /\ GivenAt(k) /\ adapter_queue'[i].hw = adapter_queue[k].hw
        /\ i \in Nat /\ 1 < k
    BY <1>1, <1>6, <2>1
  <2>3. CASE UpAt(1)
    BY <1>2, <2>3
  <2>4. CASE ~UpAt(1)
    <3>1. ASSUME NEW l \in DOMAIN adapter_queue, UpAt(l) PROVE k < l /\ 1 < l
      <4>1. PICK h \in DOMAIN adapter_queue' : h \in Nat /\ l = h + 1
        BY <1>1, <2>4, <3>1
      <4>2. UpAt(h)'
        BY <1>1, <3>1, <4>1
      <4>3. i < h
        BY <1>6, <4>2
      <4> QED BY <2>1, <2>2, <4>1, <4>3
    <3>2. adapter_queue[k].hw \notin DOMAIN mGeofences
      BY <2>2, <3>1 DEF GivenOnce
    <3>3. GivenAt(1) => adapter_queue[1].hw # adapter_queue[k].hw
      BY <1>1, <2>2, <3>1 DEF GivenOnce
    <3> QED BY <1>2, <2>2, <3>2, <3>3
  <2> QED BY <2>3, <2>4
<1>7. GivenIsUsed'
  BY <1>3, <1>4 DEF GivenIsUsed
<1>8. GivenOnce'
  BY <1>5, <1>6 DEF GivenOnce
<1> QED BY <1>7, <1>8

\* What the adapter's thread asks of the engine.
Asks == \E p \in Seq(Requests) : /\ api_queue' = api_queue \o p
                                 /\ \A n \in DOMAIN p : p[n].op # "up"
AsksNoStop == \E p \in Seq(Requests) : /\ api_queue' = api_queue \o p
                                       /\ \A n \in DOMAIN p : /\ p[n].op # "up"
                                                              /\ p[n].reply.type # "stopped"

LEMMA AskNothing ==
    ASSUME TInv, UNCHANGED api_queue
    PROVE  AsksNoStop
<1> DEFINE p == <<>>
<1>1. p \in Seq(Requests) /\ api_queue' = api_queue \o p /\ DOMAIN p = {}
  BY DEF TInv, ApiQueueOK, RequestsOK
<1> HIDE DEF p
<1> QED BY <1>1 DEF AsksNoStop

LEMMA AskOne ==
    ASSUME TInv, NEW r \in Requests, api_queue' = Append(api_queue, r),
           r.op # "up", r.reply.type # "stopped"
    PROVE  AsksNoStop
<1> DEFINE p == <<r>>
<1>1. p \in Seq(Requests) /\ api_queue' = api_queue \o p /\ \A n \in DOMAIN p : p[n] = r
  BY DEF TInv, ApiQueueOK, RequestsOK
<1> HIDE DEF p
<1> QED BY <1>1 DEF AsksNoStop

LEMMA UpOnceKept ==
    ASSUME TInv, UpOnce, Asks, UNCHANGED down
    PROVE  UpOnce'
<1>1. PICK p \in Seq(Requests) : /\ api_queue' = api_queue \o p
                                 /\ \A n \in DOMAIN p : p[n].op # "up"
  BY DEF Asks
<1>2. /\ \A i \in DOMAIN api_queue : i \in DOMAIN api_queue' /\ api_queue'[i] = api_queue[i]
      /\ \A i \in DOMAIN api_queue' :
            \/ i \in DOMAIN api_queue
            \/ i - Len(api_queue) \in DOMAIN p /\ api_queue'[i] = p[i - Len(api_queue)]
  BY <1>1, Joined DEF TInv, ApiQueueOK, RequestsOK
<1>3. /\ \A i \in DOMAIN api_queue : i \in DOMAIN api_queue' /\ (IsUp(i)' <=> IsUp(i))
      /\ \A i \in DOMAIN api_queue' : IsUp(i)' => i \in DOMAIN api_queue
  BY <1>1, <1>2 DEF IsUp
<1> QED BY <1>3 DEF UpOnce

LEMMA NoStopAsks == AsksNoStop => Asks
BY DEF AsksNoStop, Asks

\* The numbers that are stopped are those that were.
LEMMA StopsKept ==
    ASSUME TInv, AsksNoStop, adapter_queue # <<>>, Done, Grown(jobs, owner, jobs', owner')
    PROVE  /\ \A hw : Stopping(hw)' => Stopping(hw)
           /\ UNCHANGED setup /\ NobodyLeaves => NobodyLeaves'
<1>1. PICK p \in Seq(Requests) : /\ api_queue' = api_queue \o p
                                 /\ \A n \in DOMAIN p : p[n].reply.type # "stopped"
  BY DEF AsksNoStop
<1>2. \A i \in DOMAIN api_queue' :
          \/ i \in DOMAIN api_queue /\ api_queue'[i] = api_queue[i]
          \/ api_queue'[i].reply.type # "stopped"
  <2>1. /\ \A i \in DOMAIN api_queue : api_queue'[i] = api_queue[i]
        /\ \A i \in DOMAIN api_queue' :
              \/ i \in DOMAIN api_queue
              \/ i - Len(api_queue) \in DOMAIN p /\ api_queue'[i] = p[i - Len(api_queue)]
    BY <1>1, Joined DEF TInv, ApiQueueOK, RequestsOK
  <2> QED BY <1>1, <2>1
<1>3. \A i \in DOMAIN adapter_queue' : \E k \in DOMAIN adapter_queue :
          adapter_queue'[i] = adapter_queue[k]
  BY Taken
<1>4. ASSUME NEW hw, Stopping(hw)' PROVE Stopping(hw)
  BY <1>2, <1>3, <1>4 DEF Stopping
<1>5. ASSUME UNCHANGED setup, NobodyLeaves PROVE NobodyLeaves'
  BY <1>2, <1>3, <1>5 DEF NobodyLeaves, ClientsMayLeave
<1> QED BY <1>4, <1>5

LEMMA NobodysKept ==
    ASSUME TInv, adapter_queue # <<>>, Done, Grown(jobs, owner, jobs', owner'), UNCHANGED used,
           MapsFollow(Head(adapter_queue)), NEW hw, Nobodys(hw)
    PROVE  Nobodys(hw)'
<1>1. /\ \A i \in DOMAIN adapter_queue' : \E k \in DOMAIN adapter_queue :
            /\ adapter_queue'[i] = adapter_queue[k]
            /\ GivenAt(i)' <=> GivenAt(k)
      /\ 1 \in DOMAIN adapter_queue /\ Head(adapter_queue) = adapter_queue[1]
  BY Taken
<1>2. GivenAt(1) => adapter_queue[1].hw # hw
  BY <1>1 DEF Nobodys
<1>3. \A id \in DOMAIN mGeofenceIds' :
          \/ id \in DOMAIN mGeofenceIds /\ mGeofenceIds'[id] = mGeofenceIds[id]
          \/ GivenAt(1) /\ mGeofenceIds'[id] = adapter_queue[1].hw
  BY <1>1 DEF MapsFollow, GivenAt
<1>4. \A id \in DOMAIN mGeofenceIds' : mGeofenceIds'[id] # hw
  BY <1>2, <1>3 DEF Nobodys
<1>5. \A i \in DOMAIN adapter_queue' : GivenAt(i)' => adapter_queue'[i].hw # hw
  BY <1>1 DEF Nobodys
<1> QED BY <1>4, <1>5 DEF Nobodys

\* A message of the adapter's thread that stops nothing.
LEMMA ThreadKeeps ==
    ASSUME TInv, HInv, Fresh, adapter_queue # <<>>, Done, Grown(jobs, owner, jobs', owner'),
           UNCHANGED <<setup, used, down, apart, restarts>>, AsksNoStop,
           MapsFollow(Head(adapter_queue)),
           apart => HasFence'
    PROVE  HInv'
<1>1. UpOnce' /\ GivenIsUsed' /\ GivenOnce'
  BY UpOnceKept, TakeKeeps, NoStopAsks DEF HInv
<1>4. ASSUME apart PROVE LeftToNobody'
  <2>1. LeftToNobody
    BY <1>4 DEF HInv
  <2>2. ASSUME NEW hw, Stopping(hw)' PROVE Nobodys(hw)'
    <3>1. Stopping(hw)
      BY <2>2, StopsKept
    <3>2. Nobodys(hw)
      BY <2>1, <3>1 DEF LeftToNobody
    <3> QED BY <3>2, NobodysKept
  <2> QED BY <2>2 DEF LeftToNobody
<1> QED BY <1>1, <1>4 DEF HInv

\* A message that changes no map.
LEMMA MapsStay ==
    ASSUME UNCHANGED maps, NEW m, m.type # "engine_up"
    PROVE  MapsFollow(m) /\ (HasFence => HasFence')
BY DEF maps, MapsFollow, HasFence

LEMMA ProcCommandKeeps ==
    ASSUME TInv, HInv, Fresh, ProcCommand, Grown(jobs, owner, jobs', owner'), TInv'
    PROVE  HInv'
<1> DEFINE j == Head(adapter_queue).job
           p == [i \in DOMAIN jobs[j].ids |-> Request("turn", 0, NoFence, Turn(j, i))]
<1>1. adapter_queue # <<>> /\ Done /\ Head(adapter_queue).type = "command"
  BY DEF ProcCommand, Comes
<1>2. UNCHANGED <<setup, used, down, apart, restarts>> /\ UNCHANGED maps
  BY DEF ProcCommand
<1>3. api_queue' = api_queue \o p
  BY DEF ProcCommand
<1>4. \A n \in DOMAIN p : p[n].op # "up" /\ p[n].reply.type # "stopped"
  BY DEF Request, Turn, Msg
<1>5. p \in Seq(Requests)
  BY <1>1, ProcCommandRequests
<1> HIDE DEF p
<1>6. AsksNoStop
  BY <1>3, <1>4, <1>5 DEF AsksNoStop
<1>7. MapsFollow(Head(adapter_queue)) /\ (apart => HasFence')
  BY <1>1, <1>2, MapsStay DEF HInv
<1> QED BY <1>1, <1>2, <1>6, <1>7, ThreadKeeps

LEMMA ProcTurnKeeps ==
    ASSUME TInv, HInv, Fresh, ProcTurn, Grown(jobs, owner, jobs', owner')
    PROVE  HInv'
<1> DEFINE j == Head(adapter_queue).job
           i == Head(adapter_queue).item
           job == jobs[j]
           id == job.ids[i]
           option == IF job.op = "modify" THEN 1 ELSE 0
           r(hw) == Request(job.op, hw, Fence(id, FALSE, option), [Turn(j, i) EXCEPT !.type = "answer"])
<1>1. adapter_queue # <<>> /\ Done /\ Head(adapter_queue).type = "turn"
  BY DEF ProcTurn, Comes
<1>2. UNCHANGED <<setup, used, down, apart, restarts>> /\ UNCHANGED maps
  BY DEF ProcTurn
<1>3. j \in DOMAIN jobs /\ i \in DOMAIN job.ids
  BY <1>1, HeadOK DEF MessageOK, HasItem
<1>4. api_queue' = api_queue \/ \E hw \in Nat : api_queue' = Append(api_queue, r(hw))
  <2>1. 0 \in Nat /\ \A x \in DOMAIN mGeofenceIds : mGeofenceIds[x] \in Nat
    BY GeofenceAdapterAssumption DEF TInv, MapsOK
  <2> QED BY <2>1 DEF ProcTurn, TurnOf
<1>5. ASSUME NEW hw \in Nat
      PROVE  r(hw) \in Requests /\ r(hw).op # "up" /\ r(hw).reply.type # "stopped"
  <2>1. option \in {0, 1}
    OBVIOUS
  <2>2. job.op \in JobOps
    BY <1>3, JobType DEF TInv
  <2> HIDE DEF j, i, option
  <2>3. r(hw) \in Requests
    BY <1>3, <2>1, AskType DEF TInv
  <2>4. r(hw).op # "up"
    BY <2>2 DEF Request, JobOps
  <2>5. r(hw).reply.type # "stopped"
    BY DEF Request, Turn, Msg
  <2> QED BY <2>3, <2>4, <2>5
<1>6. AsksNoStop
  <2> HIDE DEF r
  <2> QED BY <1>4, <1>5, AskNothing, AskOne
<1>7. MapsFollow(Head(adapter_queue)) /\ (apart => HasFence')
  BY <1>1, <1>2, MapsStay DEF HInv
<1> QED BY <1>1, <1>2, <1>6, <1>7, ThreadKeeps

\* The head of the queue gives a number that no fence has.
LEMMA HeadIsNew ==
    ASSUME TInv, GivenOnce, adapter_queue # <<>>, Gives(Head(adapter_queue), jobs)
    PROVE  Head(adapter_queue).hw \notin DOMAIN mGeofences
<1>1. /\ adapter_queue \in Seq(Messages) /\ 1 \in DOMAIN adapter_queue
      /\ Head(adapter_queue) = adapter_queue[1]
      /\ DOMAIN adapter_queue \subseteq Nat \ {0}
  BY TailOf DEF TInv, AdapterQueueOK, MessagesOK
<1>2. ~UpAt(1) /\ GivenAt(1)
  BY <1>1 DEF GivenAt, UpAt, Gives, Adds
<1>3. \A k \in DOMAIN adapter_queue : UpAt(k) => 1 < k
  BY <1>1, <1>2
<1> QED BY <1>1, <1>2, <1>3 DEF GivenOnce

\* A fence that gets a new number.
LEMMA SaveKeeps ==
    ASSUME NEW m, NEW f, Gives(m, jobs), m.type # "engine_up", m.hw \notin DOMAIN mGeofences,
           saveGeofenceItem(f, m.hw)
    PROVE  MapsFollow(m) /\ (HasFence => HasFence')
<1>1. /\ DOMAIN mGeofences' = DOMAIN mGeofences \cup {m.hw}
      /\ DOMAIN mGeofenceIds' = DOMAIN mGeofenceIds \cup {f.id}
      /\ mGeofences'[m.hw] = f /\ mGeofenceIds'[f.id] = m.hw
      /\ \A hw \in DOMAIN mGeofences : mGeofences'[hw] = mGeofences[hw]
      /\ \A id \in DOMAIN mGeofenceIds : id # f.id => mGeofenceIds'[id] = mGeofenceIds[id]
  BY DEF saveGeofenceItem, With
<1>2. MapsFollow(m)
  BY <1>1 DEF MapsFollow
<1>3. ASSUME HasFence PROVE HasFence'
  BY <1>1, <1>3 DEF HasFence
<1> QED BY <1>2, <1>3

LEMMA AppliedKeeps ==
    ASSUME NEW op \in JobOps, NEW m, Applied(op, m), m.type # "engine_up",
           op = "add" => Gives(m, jobs) /\ m.hw \notin DOMAIN mGeofences,
           \A hw \in DOMAIN mGeofences : mGeofences[hw] \in AnyFence
    PROVE  MapsFollow(m) /\ (HasFence => HasFence')
<1>1. CASE op = "add"
  BY <1>1, SaveKeeps DEF Applied
<1>2. CASE op = "remove"
  <2>1. removeGeofenceItem(m.hw)
    BY <1>2 DEF Applied
  <2>2. CASE UNCHANGED maps
    BY <2>2, MapsStay
  <2>3. CASE /\ mGeofences' = Without(mGeofences, m.hw)
             /\ mGeofenceIds' = Without(mGeofenceIds, mGeofences[m.hw].id)
    <3>1. MapsFollow(m)
      BY <2>3 DEF MapsFollow, Without
    <3>2. ASSUME HasFence PROVE HasFence'
      BY <2>3, <3>2 DEF HasFence, Without
    <3> QED BY <3>1, <3>2
  <2> QED BY <2>1, <2>2, <2>3 DEF removeGeofenceItem
<1>3. ASSUME mGeofences' = mGeofences \/ \E hw \in DOMAIN mGeofences : \E b :
                 \/ mGeofences' = [mGeofences EXCEPT ![hw].paused = b]
                 \/ mGeofences' = [mGeofences EXCEPT ![hw].option = b],
             UNCHANGED mGeofenceIds
      PROVE  MapsFollow(m) /\ (HasFence => HasFence')
  <2>1. DOMAIN mGeofences' = DOMAIN mGeofences
    BY <1>3
  <2>2. \A hw \in DOMAIN mGeofences : mGeofences'[hw].id = mGeofences[hw].id
    BY <1>3 DEF AnyFence
  <2> QED BY <1>3, <2>1, <2>2 DEF MapsFollow, HasFence
<1>4. CASE op \in {"pause", "resume"}
  <2>1. PICK b \in BOOLEAN : pauseGeofenceItem(m.hw, b)
    BY <1>4 DEF Applied
  <2> QED BY <1>3, <2>1 DEF pauseGeofenceItem
<1>5. CASE op = "modify"
  <2>1. modifyGeofenceItem(m.hw, m.fence.option)
    BY <1>5 DEF Applied
  <2> QED BY <1>3, <2>1 DEF modifyGeofenceItem
<1> QED BY <1>1, <1>2, <1>4, <1>5 DEF JobOps

LEMMA ProcAnswerKeeps ==
    ASSUME TInv, HInv, Fresh, ProcAnswer, Grown(jobs, owner, jobs', owner')
    PROVE  HInv'
<1> DEFINE m == Head(adapter_queue)
           op == jobs[m.job].op
<1>1. adapter_queue # <<>> /\ Done /\ m.type = "answer"
  BY DEF ProcAnswer, Comes
<1>2. UNCHANGED <<setup, used, down, apart, restarts>> /\ UNCHANGED api_queue
  BY DEF ProcAnswer
<1>3. op \in JobOps
  <2>1. m.job \in DOMAIN jobs
    BY <1>1, HeadOK DEF MessageOK, HasItem
  <2> QED BY <2>1, JobType DEF TInv
<1>4. MapsFollow(m) /\ (HasFence => HasFence')
  <2>1. CASE UNCHANGED maps
    BY <1>1, <2>1, MapsStay
  <2>2. CASE m.ok /\ Applied(op, m)
    <3>1. op = "add" => Gives(m, jobs)
      BY <1>1, <2>2 DEF Gives, Adds
    <3>2. Gives(m, jobs) => m.hw \notin DOMAIN mGeofences
      BY <1>1, HeadIsNew DEF HInv
    <3>3. \A hw \in DOMAIN mGeofences : mGeofences[hw] \in AnyFence
      BY FencesAreFences DEF TInv, MapsOK, Numbers
    <3>4. m.type # "engine_up"
      BY <1>1
    <3> HIDE DEF m, op
    <3> QED BY <1>3, <2>2, <3>1, <3>2, <3>3, <3>4, AppliedKeeps
  <2> QED BY <2>1, <2>2 DEF ProcAnswer, Answer
<1>5. AsksNoStop
  BY <1>2, AskNothing
<1> QED BY <1>1, <1>2, <1>4, <1>5, ThreadKeeps DEF HInv

LEMMA ProcRestoredKeeps ==
    ASSUME TInv, HInv, Fresh, ProcRestored, Grown(jobs, owner, jobs', owner')
    PROVE  HInv'
<1> DEFINE m == Head(adapter_queue)
           f == [m.fence EXCEPT !.paused = FALSE]
           r == Request("pause", m.hw, m.fence, Msg("none"))
<1>1. adapter_queue # <<>> /\ Done /\ m.type = "restored"
  BY DEF ProcRestored, Comes
<1>2. UNCHANGED <<setup, used, down, apart, restarts>>
  BY DEF ProcRestored
<1>3. \/ m.ok /\ saveGeofenceItem(f, m.hw)
      \/ UNCHANGED maps
  BY DEF ProcRestored
<1>4. api_queue' = api_queue \/ api_queue' = Append(api_queue, r)
  BY DEF ProcRestored
<1>5. MapsFollow(m) /\ (HasFence => HasFence')
  <2>1. CASE UNCHANGED maps
    BY <1>1, <2>1, MapsStay
  <2>2. CASE m.ok /\ saveGeofenceItem(f, m.hw)
    <3>1. Gives(m, jobs)
      BY <1>1, <2>2 DEF Gives, Adds
    <3>2. m.hw \notin DOMAIN mGeofences
      BY <1>1, <3>1, HeadIsNew DEF HInv
    <3>3. m.type # "engine_up"
      BY <1>1
    <3> HIDE DEF m, f
    <3> QED BY <2>2, <3>1, <3>2, <3>3, SaveKeeps
  <2> QED BY <1>3, <2>1, <2>2
<1>6. AsksNoStop
  <2>1. m \in Messages
    BY <1>1, HeadOK
  <2>2. Msg("none") \in Messages
    BY MsgType DEF MessageTypes
  <2>3. r \in Requests
    BY <2>1, <2>2 DEF Request, Requests, JobOps, Messages
  <2>4. r.op # "up" /\ r.reply.type # "stopped"
    BY DEF Request, Msg
  <2> HIDE DEF r
  <2> QED BY <1>4, <2>3, <2>4, AskNothing, AskOne
<1> QED BY <1>1, <1>2, <1>5, <1>6, ThreadKeeps DEF HInv

LEMMA ProcEngineUpKeeps ==
    ASSUME TInv, HInv, Fresh, ProcEngineUp, Grown(jobs, owner, jobs', owner')
    PROVE  HInv'
<1>1. adapter_queue # <<>> /\ Done /\ Head(adapter_queue).type = "engine_up"
  BY DEF ProcEngineUp, Comes
<1>2. UNCHANGED <<setup, used, down, apart, restarts>>
  BY DEF ProcEngineUp
<1>3. CASE DOMAIN mGeofences = {} /\ UNCHANGED maps /\ UNCHANGED api_queue
  <2>1. MapsFollow(Head(adapter_queue)) /\ (HasFence => HasFence')
    BY <1>3 DEF MapsFollow, HasFence, maps
  <2> QED BY <1>1, <1>2, <1>3, <2>1, AskNothing, ThreadKeeps DEF HInv
<1>4. ASSUME NEW old \in InOrder(DOMAIN mGeofences),
             mGeofences' = Empty, mGeofenceIds' = Empty,
             api_queue' = api_queue \o [n \in DOMAIN old |-> AddAgain(mGeofences[old[n]])]
      PROVE  HInv'
  <2>1. MapsFollow(Head(adapter_queue)) /\ HasFence'
    BY <1>4 DEF MapsFollow, HasFence, Empty
  <2> DEFINE p == [n \in DOMAIN old |-> AddAgain(mGeofences[old[n]])]
  <2>2. old \in Seq(DOMAIN mGeofences) /\ \A n \in DOMAIN old : old[n] \in DOMAIN mGeofences
    BY FinitelyMany, InOrderType
  <2>3. p \in Seq(Requests)
    BY <2>2, AddAgainType
  <2>4. \A n \in DOMAIN p : p[n].op # "up" /\ p[n].reply.type # "stopped"
    BY DEF AddAgain, Request, Msg
  <2> HIDE DEF p
  <2>5. AsksNoStop
    BY <1>4, <2>3, <2>4 DEF AsksNoStop, p
  <2> QED BY <1>1, <1>2, <2>1, <2>5, ThreadKeeps
<1> QED BY <1>3, <1>4 DEF ProcEngineUp, restartGeofences, maps

LEMMA ProcStoppedKeeps ==
    ASSUME TInv, HInv, Fresh, ProcStopped, Grown(jobs, owner, jobs', owner')
    PROVE  HInv'
<1> DEFINE m == Head(adapter_queue)
<1>1. adapter_queue # <<>> /\ Done /\ m.type = "stopped"
  BY DEF ProcStopped, Comes
<1>2. UNCHANGED <<setup, used, down, apart, restarts>> /\ UNCHANGED <<api_queue, mGeofenceIds>>
  BY DEF ProcStopped
<1>3. \/ mGeofences' = mGeofences
      \/ mGeofences' = Without(mGeofences, m.hw)
  BY DEF ProcStopped
<1>4. MapsFollow(m)
  BY <1>1, <1>2, <1>3 DEF MapsFollow, Without
<1>5. ASSUME apart PROVE HasFence'
  <2>1. 1 \in DOMAIN adapter_queue /\ adapter_queue[1] = m
    BY <1>1, TailOf DEF TInv, AdapterQueueOK, MessagesOK
  <2>2. Nobodys(m.hw)
    BY <1>1, <1>5, <2>1 DEF HInv, LeftToNobody, Stopping
  <2>3. HasFence
    BY <1>5 DEF HInv
  <2> HIDE DEF m
  <2> QED BY <1>2, <1>3, <2>2, <2>3 DEF HasFence, Without, Nobodys
<1>6. AsksNoStop
  BY <1>2, AskNothing
<1> QED BY <1>1, <1>2, <1>4, <1>5, <1>6, ThreadKeeps

\* The fences of a client that leaves are nobody's before they are stopped.
LEMMA ProcRemoveClientKeeps ==
    ASSUME TInv, HInv, Fresh, ProcRemoveClient, Grown(jobs, owner, jobs', owner')
    PROVE  HInv'
<1> DEFINE m == Head(adapter_queue)
           mine == {id \in DOMAIN mGeofenceIds : owner[id] = m.client}
           r(id) == Request("remove", mGeofenceIds[id], Fence(id, FALSE, 0), Msg("stopped"))
<1>1. adapter_queue # <<>> /\ Done /\ m.type = "remove_client"
  BY DEF ProcRemoveClient, Comes
<1>2. UNCHANGED <<setup, used, down, restarts>> /\ UNCHANGED mGeofences
  BY DEF ProcRemoveClient
<1>3. mGeofenceIds' = [id \in DOMAIN mGeofenceIds \ mine |-> mGeofenceIds[id]]
  BY DEF ProcRemoveClient
<1>4. PICK ids \in InOrder(mine) : api_queue' = api_queue \o [n \in DOMAIN ids |-> r(ids[n])]
  BY DEF ProcRemoveClient
<1> DEFINE p == [n \in DOMAIN ids |-> r(ids[n])]
<1>5. ids \in Seq(mine) /\ \A n \in DOMAIN ids : ids[n] \in mine
  <2>1. IsFiniteSet(mine)
    BY FinitelyMany
  <2> HIDE DEF mine
  <2> QED BY <2>1, InOrderType
<1>6. p \in Seq(Requests) /\ \A n \in DOMAIN p : p[n].op # "up" /\ p[n].hw = mGeofenceIds[ids[n]]
  <2>1. \A id \in mine : r(id) \in Requests
    <3>1. \A id \in mine : id \in Nat /\ mGeofenceIds[id] \in Nat
      BY FencesAreFences, GeofenceAdapterAssumption DEF TInv, MapsOK
    <3>2. Msg("stopped") \in Messages
      BY MsgType DEF MessageTypes
    <3> QED BY <3>1, <3>2 DEF Request, Requests, JobOps, Fence, AnyFence
  <2>2. \A id : r(id).op # "up" /\ r(id).hw = mGeofenceIds[id]
    BY DEF Request
  <2> HIDE DEF r, mine
  <2> QED BY <1>5, <2>1, <2>2
<1>7. \A n \in DOMAIN p : ids[n] \in mine
  BY <1>5
<1> HIDE DEF p
<1>8. Asks
  BY <1>4, <1>6 DEF Asks, p
<1>9. MapsFollow(m)
  BY <1>1, <1>2, <1>3 DEF MapsFollow
<1>10. UpOnce' /\ GivenIsUsed' /\ GivenOnce'
  BY <1>1, <1>2, <1>8, <1>9, UpOnceKept, TakeKeeps DEF HInv
<1>11. /\ \A i \in DOMAIN adapter_queue' : \E k \in DOMAIN adapter_queue :
             /\ adapter_queue'[i] = adapter_queue[k]
             /\ GivenAt(i)' <=> GivenAt(k)
             /\ UpAt(i)' <=> UpAt(k)
       /\ 1 \in DOMAIN adapter_queue /\ m = adapter_queue[1]
  BY <1>1, Taken
<1>14. apart' => apart /\ (mine = {} \/ ~Restarting)
  BY DEF ProcRemoveClient
<1>15. ASSUME apart' PROVE HasFence'
  BY <1>2, <1>3, <1>14, <1>15 DEF HInv, HasFence
<1>16. ASSUME apart', NEW hw, Stopping(hw)' PROVE Nobodys(hw)'
  <2>1. HasFence /\ LeftToNobody
    BY <1>14, <1>16 DEF HInv
  <2>2. CASE Stopping(hw)
    <3>1. Nobodys(hw)
      BY <2>1, <2>2 DEF LeftToNobody
    <3> QED BY <1>1, <1>2, <1>9, <3>1, NobodysKept
  <2>3. CASE \E id \in mine : hw = mGeofenceIds[id]
    <3>1. PICK id \in mine : hw = mGeofenceIds[id]
      BY <2>3
    <3>2. hw \in DOMAIN mGeofences /\ mGeofences[hw].id = id
      BY <2>1, <3>1 DEF HasFence
    <3>3. ~down /\ \A k \in DOMAIN adapter_queue : ~UpAt(k)
      BY <1>14, <1>16, <2>3 DEF Restarting, UpAt
    <3>4. hw \in used
      BY <3>2, <3>3 DEF HInv, GivenIsUsed
    <3>5. \A k \in DOMAIN adapter_queue : GivenAt(k) => adapter_queue[k].hw # hw
      BY <3>2, <3>3 DEF HInv, GivenOnce
    <3>6. \A x \in DOMAIN mGeofenceIds' : mGeofenceIds'[x] # hw
      BY <1>3, <2>1, <3>1, <3>2 DEF HasFence
    <3>7. \A i \in DOMAIN adapter_queue' : GivenAt(i)' => adapter_queue'[i].hw # hw
      BY <1>11, <3>5
    <3> QED BY <1>2, <3>4, <3>6, <3>7 DEF Nobodys
  <2>4. Stopping(hw) \/ \E id \in mine : hw = mGeofenceIds[id]
    <3>1. \A i \in DOMAIN api_queue' :
              \/ i \in DOMAIN api_queue /\ api_queue'[i] = api_queue[i]
              \/ \E n \in DOMAIN p : api_queue'[i] = p[n]
      <4>1. api_queue' = api_queue \o p /\ api_queue \in Seq(Requests)
        BY <1>4 DEF p, TInv, ApiQueueOK, RequestsOK
      <4>2. /\ \A i \in DOMAIN api_queue : api_queue'[i] = api_queue[i]
            /\ \A i \in DOMAIN api_queue' :
                  \/ i \in DOMAIN api_queue
                  \/ i - Len(api_queue) \in DOMAIN p /\ api_queue'[i] = p[i - Len(api_queue)]
        BY <1>6, <4>1, Joined
      <4> QED BY <4>2
    <3> HIDE DEF mine
    <3>2. CASE \E i \in DOMAIN api_queue' :
                  api_queue'[i].reply.type = "stopped" /\ api_queue'[i].hw = hw
      BY <1>6, <1>7, <3>1, <3>2 DEF Stopping
    <3>3. CASE \E i \in DOMAIN adapter_queue' :
                  adapter_queue'[i].type = "stopped" /\ adapter_queue'[i].hw = hw
      BY <1>11, <3>3 DEF Stopping
    <3> QED BY <1>16, <3>2, <3>3 DEF Stopping
  <2> QED BY <2>2, <2>3, <2>4
<1>17. apart' => LeftToNobody'
  BY <1>16 DEF LeftToNobody
<1> QED BY <1>2, <1>10, <1>15, <1>17 DEF HInv

\* A command, or a client's wish to leave.
LEMMA PostKeeps ==
    ASSUME TInv, HInv, Fresh, NEW m \in Messages, adapter_queue' = Append(adapter_queue, m),
           Grown(jobs, owner, jobs', owner'), m.type \in {"command", "remove_client"},
           UNCHANGED <<setup, maps, api_queue, used, down, apart, restarts>>
    PROVE  HInv'
<1>1. ~Gives(m, jobs')
  BY DEF Gives, Adds
<1>2. PICK n : n = Len(adapter_queue) + 1
  OBVIOUS
<1>3. /\ \A i \in DOMAIN adapter_queue :
                /\ adapter_queue'[i] = adapter_queue[i]
                /\ GivenAt(i)' <=> GivenAt(i)
                /\ UpAt(i)' <=> UpAt(i)
      /\ \A i \in DOMAIN adapter_queue' : i \in DOMAIN adapter_queue \/ i = n
      /\ adapter_queue'[n] = m
      /\ GivenAt(n)' <=> Gives(m, jobs')
      /\ UpAt(n)' <=> m.type = "engine_up"
  BY <1>2, Extended
<1>4. UpOnce'
  BY AskNothing, NoStopAsks, UpOnceKept DEF HInv
<1>5. GivenIsUsed' /\ GivenOnce'
  <2>1. down' \in BOOLEAN /\ UNCHANGED mGeofences
    BY DEF TInv, RestOK, maps
  <2> QED BY <1>1, <2>1, AppendKeeps DEF HInv
<1>7. ASSUME apart PROVE LeftToNobody' /\ HasFence'
  <2>1. HasFence'
    BY <1>7 DEF HInv, HasFence, maps
  <2>2. \A hw : Stopping(hw)' => Stopping(hw)
    BY <1>3 DEF Stopping
  <2>3. \A hw : Nobodys(hw) => Nobodys(hw)'
    BY <1>1, <1>3 DEF Nobodys, maps
  <2>4. LeftToNobody'
    BY <1>7, <2>2, <2>3 DEF HInv, LeftToNobody
  <2> QED BY <2>1, <2>4
<1> QED BY <1>4, <1>5, <1>7 DEF HInv

LEMMA CommandKeeps ==
    ASSUME TInv, HInv, Fresh, NEW op, NEW c, NEW ids, Command(op, c, ids),
           Grown(jobs, owner, jobs', owner')
    PROVE  HInv'
<1> DEFINE m == [Msg("command") EXCEPT !.job = Len(jobs) + 1]
<1>1. m \in Messages /\ m.type = "command"
  <2>1. Len(jobs) + 1 \in Nat
    BY DEF TInv, CommandsOK
  <2>2. Msg("command") \in Messages
    BY MsgType DEF MessageTypes
  <2> QED BY <2>1, <2>2 DEF Messages, Msg
<1>2. /\ adapter_queue' = Append(adapter_queue, m)
      /\ UNCHANGED <<setup, maps, api_queue, used, down, apart, restarts>>
  BY DEF Command, maps
<1> HIDE DEF m
<1> QED BY <1>1, <1>2, PostKeeps

LEMMA ClientKeeps ==
    ASSUME TInv, HInv, Fresh, NEW c \in Clients, Grown(jobs, owner, jobs', owner'),
           \/ addGeofencesCommand(c)
           \/ \E op \in {"remove", "pause", "resume", "modify"} : OtherCommand(op, c)
           \/ removeClientCommand(c)
    PROVE  HInv'
<1>1. CASE removeClientCommand(c)
  <2> DEFINE m == [Msg("remove_client") EXCEPT !.client = c]
  <2>1. m \in Messages /\ m.type = "remove_client"
    <3>1. c \in Everyone
      BY DEF TInv, RestOK, Clients, Everyone
    <3>2. Msg("remove_client") \in Messages
      BY MsgType DEF MessageTypes
    <3> QED BY <3>1, <3>2 DEF Messages, Msg
  <2>2. /\ adapter_queue' = Append(adapter_queue, m)
        /\ UNCHANGED <<setup, maps, api_queue, used, down, apart, restarts>>
    BY <1>1 DEF removeClientCommand, maps
  <2> HIDE DEF m
  <2> QED BY <2>1, <2>2, PostKeeps
<1>2. CASE \E op, ids : Command(op, c, ids)
  BY <1>2, CommandKeeps
<1> QED BY <1>1, <1>2 DEF addGeofencesCommand, OtherCommand

\* What the request that is served leads to, for the numbers given.
LEMMA ServeSends ==
    ASSUME TInv, TInv', Fresh, Serve
    PROVE  LET r == Head(api_queue)
           IN  /\ used \subseteq used'
               /\ r.op # "up" => down' = down
               /\ r.op = "up" => ~down' /\ adapter_queue' = Append(adapter_queue, r.reply)
               /\ \/ adapter_queue' = adapter_queue
                  \/ \E m \in Messages :
                        /\ adapter_queue' = Append(adapter_queue, m)
                        /\ m.type = r.reply.type
                        /\ m.type = "stopped" => m.hw = r.hw
                        /\ Gives(m, jobs) => ~down /\ m.hw \in used' /\ m.hw \notin used
<1> DEFINE r == Head(api_queue)
           m(hw, ok) == [r.reply EXCEPT !.hw = hw, !.ok = ok, !.fence = r.fence]
<1>1. r \in Requests /\ RequestOK(r, jobs, owner) /\ r.reply \in Messages /\ r.hw \in Nat
      /\ r.fence \in AnyFence
  <2>1. r \in Requests /\ RequestOK(r, jobs, owner)
    BY RequestsChange DEF Serve, TInv, ApiQueueOK
  <2> QED BY <2>1 DEF Requests
<1>2. \/ /\ r.op \in {"turn", "up"}
         /\ adapter_queue' = Append(adapter_queue, r.reply)
         /\ down' = (down /\ r.op = "turn")
         /\ UNCHANGED used
      \/ /\ r.op \notin {"turn", "up"} /\ Possible(r)
         /\ \E hw \in IF r.op = "add" THEN Free ELSE {r.hw} :
               used' = used \cup {hw} /\ Returned(r, hw, TRUE)
         /\ UNCHANGED down
      \/ /\ r.op \notin {"turn", "up"}
         /\ Returned(r, r.hw, FALSE)
         /\ UNCHANGED <<used, down>>
  BY DEF Serve, Carried
<1>3. down \in BOOLEAN
  BY DEF TInv, RestOK
<1> HIDE DEF r
<1>4. ASSUME NEW hw \in Nat, NEW ok \in BOOLEAN
      PROVE  /\ m(hw, ok) \in Messages /\ m(hw, ok).type = r.reply.type
             /\ m(hw, ok).hw = hw /\ m(hw, ok).ok = ok /\ m(hw, ok).job = r.reply.job
  BY <1>1 DEF Messages
<1>5. ASSUME NEW hw \in Nat, NEW ok \in BOOLEAN, Gives(m(hw, ok), jobs)
      PROVE  ok /\ r.op = "add"
  <2> HIDE DEF m
  <2> QED BY <1>1, <1>4, <1>5 DEF Gives, Adds, RequestOK
<1>6. CASE /\ r.op \in {"turn", "up"}
           /\ adapter_queue' = Append(adapter_queue, r.reply)
           /\ down' = (down /\ r.op = "turn")
           /\ UNCHANGED used
  <2>1. ~Gives(r.reply, jobs) /\ r.reply.type # "stopped"
    BY <1>1, <1>6 DEF Gives, Adds, RequestOK
  <2> QED BY <1>1, <1>3, <1>6, <2>1 DEF r
<1>7. ASSUME r.op \notin {"turn", "up"}, Possible(r),
             NEW hw \in IF r.op = "add" THEN Free ELSE {r.hw},
             used' = used \cup {hw}, Returned(r, hw, TRUE), UNCHANGED down
      PROVE  \/ adapter_queue' = adapter_queue
             \/ \E n \in Messages :
                   /\ adapter_queue' = Append(adapter_queue, n)
                   /\ n.type = r.reply.type
                   /\ n.type = "stopped" => n.hw = r.hw
                   /\ Gives(n, jobs) => ~down /\ n.hw \in used' /\ n.hw \notin used
  <2>1. hw \in Nat
    BY <1>1, <1>7, GeofenceAdapterAssumption DEF Free
  <2>2. r.op = "add" => hw \notin used /\ ~down
    BY <1>7 DEF Free, Fresh, Possible
  <2>3. adapter_queue' = adapter_queue \/ adapter_queue' = Append(adapter_queue, m(hw, TRUE))
    BY <1>7 DEF Returned
  <2>4. r.reply.type = "stopped" => hw = r.hw
    BY <1>1, <1>7 DEF RequestOK
  <2>5. /\ m(hw, TRUE) \in Messages /\ m(hw, TRUE).type = r.reply.type
        /\ m(hw, TRUE).hw = hw
        /\ Gives(m(hw, TRUE), jobs) => r.op = "add"
    BY <1>4, <1>5, <2>1
  <2> HIDE DEF m
  <2> QED BY <1>7, <2>2, <2>3, <2>4, <2>5
<1>8. CASE /\ r.op \notin {"turn", "up"}
           /\ Returned(r, r.hw, FALSE)
           /\ UNCHANGED <<used, down>>
  <2>1. adapter_queue' = adapter_queue \/ adapter_queue' = Append(adapter_queue, m(r.hw, FALSE))
    BY <1>8 DEF Returned
  <2>2. /\ m(r.hw, FALSE) \in Messages /\ m(r.hw, FALSE).type = r.reply.type
        /\ m(r.hw, FALSE).hw = r.hw /\ ~Gives(m(r.hw, FALSE), jobs)
    BY <1>1, <1>4, <1>5
  <2> HIDE DEF m
  <2> QED BY <1>8, <2>1, <2>2 DEF r
<1> QED BY <1>2, <1>6, <1>7, <1>8 DEF r

\* A request is served.
LEMMA UpOnceServe ==
    ASSUME TInv, UpOnce, Serve
    PROVE  UpOnce'
<1> DEFINE r == Head(api_queue)
<1>1. /\ r.op # "up" => down' = down
      /\ r.op = "up" => ~down'
  <2>1. down \in BOOLEAN
    BY DEF TInv, RestOK
  <2>2. \/ r.op \in {"turn", "up"} /\ down' = (down /\ r.op = "turn")
        \/ r.op # "up" /\ down' = down
    BY DEF Serve
  <2> HIDE DEF r
  <2> QED BY <2>1, <2>2
<1>2. /\ 1 \in DOMAIN api_queue /\ r = api_queue[1]
      /\ \A i \in DOMAIN api_queue' : /\ i + 1 \in DOMAIN api_queue /\ i + 1 # 1 /\ i \in Nat
                                      /\ api_queue'[i] = api_queue[i + 1]
      /\ \A k \in DOMAIN api_queue : k # 1 => k - 1 \in DOMAIN api_queue'
                                             /\ api_queue'[k - 1] = api_queue[k]
  BY TailOf DEF Serve, TInv, ApiQueueOK, RequestsOK
<1> HIDE DEF r
<1>3. ASSUME NEW i \in DOMAIN api_queue', NEW j \in DOMAIN api_queue', IsUp(i)', IsUp(j)'
      PROVE  i = j
  <2>1. IsUp(i + 1) /\ IsUp(j + 1)
    BY <1>2, <1>3 DEF IsUp
  <2>2. i + 1 = j + 1
    BY <1>2, <2>1 DEF UpOnce
  <2> QED BY <1>2, <2>2
<1>4. CASE r.op = "up"
  <2>1. ASSUME NEW i \in DOMAIN api_queue', IsUp(i)' PROVE FALSE
    <3>1. IsUp(1) /\ IsUp(i + 1) /\ i + 1 # 1
      BY <1>2, <1>4, <2>1 DEF IsUp
    <3> QED BY <1>2, <3>1 DEF UpOnce
  <2> QED BY <1>1, <1>4, <2>1 DEF UpOnce
<1>5. CASE r.op # "up"
  <2>1. (\E i \in DOMAIN api_queue' : IsUp(i)') <=> (\E k \in DOMAIN api_queue : IsUp(k))
    BY <1>2, <1>5 DEF IsUp
  <2>2. down' <=> \E i \in DOMAIN api_queue' : IsUp(i)'
    BY <1>1, <1>5, <2>1 DEF UpOnce
  <2> QED BY <1>3, <2>2 DEF UpOnce
<1> QED BY <1>4, <1>5

LEMMA ServeKeeps ==
    ASSUME TInv, TInv', HInv, Fresh, Serve, Grown(jobs, owner, jobs', owner')
    PROVE  HInv'
<1> DEFINE r == Head(api_queue)
<1>1. /\ used \subseteq used'
      /\ r.op # "up" => down' = down
      /\ r.op = "up" => ~down' /\ adapter_queue' = Append(adapter_queue, r.reply)
      /\ \/ adapter_queue' = adapter_queue
         \/ \E m \in Messages :
               /\ adapter_queue' = Append(adapter_queue, m)
               /\ m.type = r.reply.type
               /\ m.type = "stopped" => m.hw = r.hw
               /\ Gives(m, jobs) => ~down /\ m.hw \in used' /\ m.hw \notin used
  BY ServeSends
<1>2. UNCHANGED <<setup, maps, jobs, apart, restarts>>
  BY DEF Serve
<1>3. /\ 1 \in DOMAIN api_queue /\ r = api_queue[1]
      /\ \A i \in DOMAIN api_queue' : /\ i + 1 \in DOMAIN api_queue /\ i + 1 # 1 /\ i \in Nat
                                      /\ api_queue'[i] = api_queue[i + 1]
      /\ \A k \in DOMAIN api_queue : k # 1 => k - 1 \in DOMAIN api_queue'
                                             /\ api_queue'[k - 1] = api_queue[k]
  BY TailOf DEF Serve, TInv, ApiQueueOK, RequestsOK
<1>4. RequestOK(r, jobs, owner)
  BY RequestsChange DEF Serve, TInv, ApiQueueOK
<1>5. down \in BOOLEAN /\ down' \in BOOLEAN
  BY DEF TInv, RestOK
<1> HIDE DEF r
<1>6. UpOnce'
  BY UpOnceServe DEF HInv
<1>8. ASSUME apart PROVE HasFence'
  BY <1>2, <1>8 DEF HInv, HasFence, maps
<1>11. \A i \in DOMAIN api_queue' : \E k \in DOMAIN api_queue : api_queue'[i] = api_queue[k]
  BY <1>3
<1>12. CASE adapter_queue' = adapter_queue
  <2>0. r.op # "up"
    <3>1. adapter_queue # Append(adapter_queue, r.reply)
      <4>1. adapter_queue \in Seq(Messages)
        BY DEF TInv, AdapterQueueOK, MessagesOK
      <4>2. Len(adapter_queue) \in Nat /\ Len(Append(adapter_queue, r.reply)) = Len(adapter_queue) + 1
        BY <4>1
      <4> QED BY <4>2
    <3> QED BY <1>1, <1>12, <3>1
  <2>1. \A i : (GivenAt(i)' <=> GivenAt(i)) /\ (UpAt(i)' <=> UpAt(i))
    BY <1>2, <1>12 DEF GivenAt, UpAt
  <2>2. down' = down
    BY <1>1, <2>0
  <2>3. GivenIsUsed'
    BY <1>1, <1>2, <1>12, <2>1, <2>2 DEF HInv, GivenIsUsed, maps
  <2>4. GivenOnce'
    BY <1>2, <1>12, <2>1 DEF HInv, GivenOnce, maps
  <2>6. ASSUME apart PROVE LeftToNobody'
    <3>1. \A hw : Stopping(hw)' => Stopping(hw)
      BY <1>11, <1>12 DEF Stopping
    <3>2. \A hw : Nobodys(hw) => Nobodys(hw)'
      BY <1>1, <1>2, <1>12, <2>1 DEF Nobodys, maps
    <3> QED BY <2>6, <3>1, <3>2 DEF HInv, LeftToNobody
  <2> QED BY <1>2, <1>6, <1>8, <2>3, <2>4, <2>6 DEF HInv
<1>13. ASSUME NEW m \in Messages, adapter_queue' = Append(adapter_queue, m),
              m.type = r.reply.type, m.type = "stopped" => m.hw = r.hw,
              Gives(m, jobs) => ~down /\ m.hw \in used' /\ m.hw \notin used
       PROVE  HInv'
  <2>1. PICK n : n = Len(adapter_queue) + 1
    OBVIOUS
  <2>2. /\ \A i \in DOMAIN adapter_queue :
                /\ adapter_queue'[i] = adapter_queue[i]
                /\ GivenAt(i)' <=> GivenAt(i)
                /\ UpAt(i)' <=> UpAt(i)
        /\ \A i \in DOMAIN adapter_queue' : i \in DOMAIN adapter_queue \/ i = n
        /\ adapter_queue'[n] = m
        /\ GivenAt(n)' <=> Gives(m, jobs')
        /\ UpAt(n)' <=> m.type = "engine_up"
    BY <1>13, <2>1, Extended
  <2>3. GivenIsUsed' /\ GivenOnce'
    <3>1. ~down' => ~down \/ m.type = "engine_up"
      BY <1>1, <1>4, <1>5, <1>13 DEF RequestOK
    <3>2. Gives(m, jobs') <=> Gives(m, jobs)
      BY <1>2
    <3>3. UNCHANGED mGeofences
      BY <1>2 DEF maps
    <3> QED BY <1>1, <1>5, <1>13, <3>1, <3>2, <3>3, AppendKeeps DEF HInv
  <2>6. ASSUME apart PROVE LeftToNobody'
    <3>1. \A hw : Stopping(hw)' => Stopping(hw)
      BY <1>3, <1>11, <1>13, <2>2 DEF Stopping
    <3>2. ASSUME NEW hw, Nobodys(hw) PROVE Nobodys(hw)'
      <4>1. Gives(m, jobs') => m.hw # hw
        BY <1>2, <1>13, <3>2 DEF Nobodys
      <4> QED BY <1>1, <1>2, <2>2, <3>2, <4>1 DEF Nobodys, maps
    <3> QED BY <2>6, <3>1, <3>2 DEF HInv, LeftToNobody
  <2> QED BY <1>2, <1>6, <1>8, <2>3, <2>6 DEF HInv
<1> QED BY <1>1, <1>12, <1>13

LEMMA EngineDownKeeps ==
    ASSUME TInv, TInv', HInv, Fresh, EngineDown
    PROVE  HInv'
<1> DEFINE r == Request("up", 0, NoFence, Msg("engine_up"))
<1>1. /\ UNCHANGED <<setup, maps, jobs, adapter_queue>> /\ ~down /\ down' = TRUE
      /\ api_queue' = Append(api_queue, r) /\ (apart' => apart /\ ~Removing)
  BY DEF EngineDown
<1>3. r.op = "up" /\ r.reply.type # "stopped"
  BY DEF Request, Msg
<1>4. PICK n : n = Len(api_queue) + 1
  OBVIOUS
<1>5. /\ \A i \in DOMAIN api_queue : api_queue'[i] = api_queue[i]
      /\ \A i \in DOMAIN api_queue' : i \in DOMAIN api_queue \/ i = n
      /\ n \in DOMAIN api_queue' /\ api_queue'[n] = r
  <2>1. r \in Requests
    BY MsgType, NoFenceType DEF Request, Requests, MessageTypes
  <2> HIDE DEF r
  <2> QED BY <1>1, <1>4, <2>1, Appended DEF TInv, ApiQueueOK, RequestsOK
<1> HIDE DEF r
<1>6. UpOnce'
  BY <1>1, <1>3, <1>5 DEF HInv, UpOnce, IsUp
<1>7. \A i : (GivenAt(i)' <=> GivenAt(i)) /\ (UpAt(i)' <=> UpAt(i))
  BY <1>1 DEF GivenAt, UpAt
<1>8. GivenIsUsed' /\ GivenOnce'
  BY <1>1, <1>7 DEF HInv, GivenIsUsed, GivenOnce, maps
<1>10. ASSUME apart' PROVE LeftToNobody'
  <2>1. \A hw : ~Stopping(hw)'
    BY <1>1, <1>3, <1>5, <1>10 DEF Stopping, Removing
  <2> QED BY <2>1 DEF LeftToNobody
<1>11. HasFence => HasFence'
  BY <1>1 DEF HasFence, maps
<1> QED BY <1>1, <1>6, <1>8, <1>10, <1>11 DEF HInv

----------------------------------------------------------------------------
LEMMA GeofenceInit == Init => HInv
<1> SUFFICES ASSUME Init PROVE HInv
  OBVIOUS
<1>1. /\ adapter_queue = <<>> /\ api_queue = <<>> /\ down = FALSE
      /\ mGeofences = Empty /\ mGeofenceIds = Empty
  BY DEF Init
<1>2. DOMAIN adapter_queue = {} /\ DOMAIN api_queue = {} /\ DOMAIN mGeofences = {}
      /\ DOMAIN mGeofenceIds = {}
  BY <1>1 DEF Empty
<1> QED
  BY <1>1, <1>2 DEF HInv, UpOnce, GivenIsUsed, GivenOnce, LeftToNobody, Stopping, HasFence

LEMMA GeofenceStep ==
    ASSUME TInv, HInv, [Next]_vars
    PROVE  TInv' /\ HInv'
<1>1. TInv' /\ Grown(jobs, owner, jobs', owner')
  BY StepType
<1>2. CASE UNCHANGED vars
  <2>0. /\ setup' = setup /\ mGeofences' = mGeofences /\ mGeofenceIds' = mGeofenceIds
        /\ jobs' = jobs /\ adapter_queue' = adapter_queue /\ api_queue' = api_queue
        /\ used' = used /\ down' = down /\ apart' = apart
    BY <1>2 DEF vars
  <2>1. \A i : (IsUp(i)' <=> IsUp(i)) /\ (GivenAt(i)' <=> GivenAt(i)) /\ (UpAt(i)' <=> UpAt(i))
    BY <2>0 DEF IsUp, GivenAt, UpAt
  <2>2. (UpOnce => UpOnce') /\ (GivenIsUsed => GivenIsUsed') /\ (GivenOnce => GivenOnce')
    BY <2>0, <2>1 DEF UpOnce, GivenIsUsed, GivenOnce
  <2>3. \A hw : (Stopping(hw)' <=> Stopping(hw)) /\ (Nobodys(hw)' <=> Nobodys(hw))
    BY <2>0, <2>1 DEF Stopping, Nobodys
  <2>4. HasFence => HasFence'
    BY <2>0 DEF HasFence
  <2>5. /\ LeftToNobody => LeftToNobody'
        /\ Fresh' <=> Fresh
    BY <2>0, <2>3 DEF LeftToNobody, Fresh, EngineReuses
  <2> QED BY <1>1, <2>0, <2>2, <2>4, <2>5 DEF HInv
<1>3. CASE Next
  <2>1. CASE Fresh
    BY <1>1, <1>3, <2>1, ClientKeeps, ProcCommandKeeps, ProcTurnKeeps, ProcAnswerKeeps,
       ProcRemoveClientKeeps, ProcStoppedKeeps, ProcEngineUpKeeps, ProcRestoredKeeps,
       ServeKeeps, EngineDownKeeps DEF Next
  <2>2. CASE ~Fresh
    <3>1. setup' = setup
      BY <1>3 DEF Next, addGeofencesCommand, OtherCommand, Command, removeClientCommand,
           ProcCommand, ProcTurn, ProcAnswer, ProcRemoveClient, ProcStopped, ProcEngineUp,
           ProcRestored, Serve, EngineDown
    <3> QED BY <1>1, <2>2, <3>1 DEF HInv, Fresh, EngineReuses
  <2> QED BY <2>1, <2>2
<1> QED BY <1>2, <1>3

LEMMA TypesOK ==
    ASSUME TInv
    PROVE  TypeOK
<1>1. FencesOf(owner) \subseteq Fences
  <2>1. DOMAIN owner \subseteq 1..MaxFences
    <3>1. owner \in Seq(Everyone) /\ Len(owner) <= MaxFences /\ MaxFences \in Nat
      BY GeofenceAdapterAssumption DEF TInv, RestOK, CommandsOK, MaxFences
    <3> QED BY <3>1
  <2> QED BY <2>1 DEF FencesOf, Fences, Ids
<1>2. ASSUME NEW j \in DOMAIN jobs
      PROVE  Range(jobs[j].errs) \subseteq {"none", "ok", "fail", "unknown"}
  <2>1. jobs[j].errs \in Seq(Errors)
    BY JobType DEF TInv
  <2> QED BY <2>1 DEF Range, Errors
<1>3. DOMAIN told = DOMAIN owner
  BY DEF TInv, CommandsOK
<1>4. /\ DOMAIN mGeofences \subseteq HwIds
      /\ \A hw \in DOMAIN mGeofences : mGeofences[hw] \in Fences
      /\ DOMAIN engine \subseteq HwIds
      /\ \A hw \in DOMAIN engine : engine[hw] \in Fences
  BY <1>1 DEF TInv, MapsOK, EngineOK, Numbers
<1> QED BY <1>2, <1>3, <1>4 DEF TypeOK, TInv, MapsOK, RestOK

----------------------------------------------------------------------------
(***************************************************************************)
(* The adapter's fences and the engine's.  The messages that wait tell     *)
(* what the adapter has not heard: applied one after the other they turn   *)
(* its fences into those of the engine.  For that a removal must find the  *)
(* id of the fence it removes, so that no id may have two fences: it is in *)
(* one place at a time, on its way through the queues and the map.         *)
(***************************************************************************)

\* What the adapter's fences f are after the message m.
After(m, J, f) ==
    CASE m.type = "engine_up"        -> IF DOMAIN f = {} THEN f ELSE Empty
      [] m.type = "restored" /\ m.ok -> With(f, m.hw, [m.fence EXCEPT !.paused = FALSE])
      [] m.type = "answer" /\ m.ok   ->
            (CASE J[m.job].op = "add"    -> With(f, m.hw, m.fence)
               [] J[m.job].op = "remove" -> IF m.hw \in DOMAIN f THEN Without(f, m.hw) ELSE f
               [] J[m.job].op = "pause"  ->
                     IF m.hw \in DOMAIN f THEN [f EXCEPT ![m.hw].paused = TRUE] ELSE f
               [] J[m.job].op = "resume" ->
                     IF m.hw \in DOMAIN f THEN [f EXCEPT ![m.hw].paused = FALSE] ELSE f
               [] J[m.job].op = "modify" ->
                     IF m.hw \in DOMAIN f THEN [f EXCEPT ![m.hw].option = m.fence.option] ELSE f)
      [] OTHER -> f

\* The fences f of the adapter and those of the engine; the engine has paused
\* again what it paused before a restart.
Agree(f, e) ==
    /\ DOMAIN f = DOMAIN e
    /\ \A hw \in DOMAIN e : /\ f[hw].id = e[hw].id /\ f[hw].option = e[hw].option
                            /\ f[hw].paused => e[hw].paused
                            /\ PauseIsKnown => f[hw].paused = e[hw].paused

\* The fences after each of the messages that wait.  A number that is given
\* was no fence's before.
ViewsAgree ==
    \E v : /\ v[0] = mGeofences
           /\ \A i \in DOMAIN adapter_queue : v[i] = After(adapter_queue[i], jobs, v[i - 1])
           /\ \A i \in DOMAIN adapter_queue :
                 GivenAt(i) => adapter_queue[i].hw \notin DOMAIN v[i - 1]
           /\ \A i \in 0..Len(adapter_queue) : Numbers(owner, v[i])
           /\ ~down => Agree(v[Len(adapter_queue)], engine)
DownIsEmpty == down => engine = Empty
EngineUsed == DOMAIN engine \subseteq used

\* The ids for which a message, or a request, may lead to a fence.
Brings(m, J) ==
    {id \in Nat :
        \/ /\ m.type = "command" /\ J[m.job].op = "add"
           /\ \E i \in DOMAIN J[m.job].ids : J[m.job].ids[i] = id
        \/ m.type = "turn" /\ J[m.job].op = "add" /\ J[m.job].ids[m.item] = id
        \/ Gives(m, J) /\ m.fence.id = id}
BringsBack(r, J) ==
    {id \in Nat :
        \/ r.op = "turn" /\ id \in Brings(r.reply, J)
        \/ r.op = "add" /\ r.fence.id = id}

InAdapter(id, i) == i \in DOMAIN adapter_queue /\ id \in Brings(adapter_queue[i], jobs)
InApi(id, k) == k \in DOMAIN api_queue /\ id \in BringsBack(api_queue[k], jobs)
InMap(id, hw) == hw \in DOMAIN mGeofences /\ mGeofences[hw].id = id

OnePlace(id) ==
    /\ \A i, j : InAdapter(id, i) /\ InAdapter(id, j) => i = j
    /\ \A k, l : InApi(id, k) /\ InApi(id, l) => k = l
    /\ \A hw, x : InMap(id, hw) /\ InMap(id, x) => hw = x
    /\ \A i, k : ~(InAdapter(id, i) /\ InApi(id, k))
    /\ \A i, hw : ~(InAdapter(id, i) /\ InMap(id, hw))
    /\ \A k, hw : ~(InApi(id, k) /\ InMap(id, hw))
EachOnce == \A id : OnePlace(id)
AddsOnce ==
    \A j \in DOMAIN jobs : jobs[j].op = "add" =>
        \A i, k \in DOMAIN jobs[j].ids : jobs[j].ids[i] = jobs[j].ids[k] => i = k

FencesHaveIds == \A hw \in DOMAIN mGeofences : mGeofences[hw].id \in DOMAIN mGeofenceIds

\* Where no paused fence can meet a restart, none is paused again.
OpsUsed == \A j \in DOMAIN jobs : jobs[j].op \in Ops
Unpaused(type, fence) ==
    /\ type = "answer" => ~fence.paused
    /\ PauseIsKnown => type # "none" /\ (type = "restored" => ~fence.paused)
NothingPaused ==
    /\ \A k \in DOMAIN api_queue : Unpaused(api_queue[k].reply.type, api_queue[k].fence)
    /\ \A i \in DOMAIN adapter_queue : Unpaused(adapter_queue[i].type, adapter_queue[i].fence)
    /\ "pause" \notin Ops => \A hw \in DOMAIN mGeofences : ~mGeofences[hw].paused

\* For clients that stay, whether or not the engine's numbers are fresh.
EInv ==
    ~ClientsMayLeave =>
        /\ UpOnce /\ NobodyLeaves /\ NothingRestarts
        /\ OpsUsed /\ AddsOnce /\ EachOnce /\ FencesHaveIds /\ HasFence
        /\ NothingPaused /\ DownIsEmpty /\ EngineUsed /\ ViewsAgree

LEMMA AfterType ==
    ASSUME NEW J, NEW O, NEW f, Numbers(O, f), NEW m \in Messages, MessageOK(m, J, O),
           \A j \in DOMAIN J : J[j].op \in JobOps
    PROVE  Numbers(O, After(m, J, f))
<1>1. Numbers(O, Empty) /\ \A hw : Numbers(O, Without(f, hw))
  BY NumbersChange
<1>2. ASSUME Gives(m, J) PROVE \A v \in FencesOf(O) : Numbers(O, With(f, m.hw, v))
  BY <1>2, NumbersChange DEF MessageOK
<1>3. /\ m.hw \in DOMAIN f => /\ Numbers(O, [f EXCEPT ![m.hw].paused = TRUE])
                              /\ Numbers(O, [f EXCEPT ![m.hw].paused = FALSE])
      /\ m.hw \in DOMAIN f /\ m.fence.option \in {0, 1}
            => Numbers(O, [f EXCEPT ![m.hw].option = m.fence.option])
  BY NumbersChange
<1>4. CASE m.type = "engine_up"
  BY <1>1, <1>4 DEF After
<1>5. CASE m.type = "restored" /\ m.ok
  <2>1. m.fence \in FencesOf(O) /\ Gives(m, J)
    BY <1>5 DEF MessageOK, Gives, Adds
  <2>2. [m.fence EXCEPT !.paused = FALSE] \in FencesOf(O)
    BY <2>1 DEF FencesOf
  <2>3. After(m, J, f) = With(f, m.hw, [m.fence EXCEPT !.paused = FALSE])
    BY <1>5 DEF After
  <2> QED BY <1>2, <2>1, <2>2, <2>3
<1>6. CASE m.type = "answer" /\ m.ok
  <2>1. m.fence \in FencesOf(O) /\ m.fence.option \in {0, 1}
    BY <1>6 DEF MessageOK, FencesOf
  <2>2. J[m.job].op = "add" => Numbers(O, With(f, m.hw, m.fence))
    BY <1>2, <1>6, <2>1 DEF Gives, Adds
  <2>3. \/ J[m.job].op = "add" /\ After(m, J, f) = With(f, m.hw, m.fence)
        \/ After(m, J, f) = Without(f, m.hw)
        \/ After(m, J, f) = f
        \/ /\ m.hw \in DOMAIN f
           /\ \/ After(m, J, f) = [f EXCEPT ![m.hw].paused = TRUE]
              \/ After(m, J, f) = [f EXCEPT ![m.hw].paused = FALSE]
              \/ After(m, J, f) = [f EXCEPT ![m.hw].option = m.fence.option]
    <3>1. J[m.job].op \in JobOps
      BY <1>6 DEF MessageOK, HasItem
    <3> QED BY <1>6, <3>1 DEF After, JobOps
  <2> QED BY <1>1, <1>3, <2>1, <2>2, <2>3
<1>7. CASE ~(m.type = "engine_up" \/ (m.type \in {"restored", "answer"} /\ m.ok))
  BY <1>7 DEF After
<1> QED BY <1>4, <1>5, <1>6, <1>7

LEMMA AfterStays ==
    ASSUME NEW J, NEW O, NEW J2, NEW O2, Grown(J, O, J2, O2), NEW m, MessageOK(m, J, O), NEW f
    PROVE  After(m, J2, f) = After(m, J, f)
<1>1. m.type = "answer" => J2[m.job].op = J[m.job].op
  BY DEF Grown, MessageOK, HasItem
<1> QED BY <1>1 DEF After

LEMMA OpsAreOps ==
    ASSUME TInv
    PROVE  \A j \in DOMAIN jobs : jobs[j].op \in JobOps
BY JobType DEF TInv

\* The views when the first message is taken, ...
LEMMA ViewsTake ==
    ASSUME TInv, ViewsAgree, adapter_queue # <<>>, Done, Grown(jobs, owner, jobs', owner'),
           mGeofences' = After(Head(adapter_queue), jobs, mGeofences),
           UNCHANGED <<setup, owner, engine, down>>
    PROVE  ViewsAgree'
<1>1. PICK v : /\ v[0] = mGeofences
               /\ \A i \in DOMAIN adapter_queue : v[i] = After(adapter_queue[i], jobs, v[i - 1])
               /\ \A i \in DOMAIN adapter_queue :
                     GivenAt(i) => adapter_queue[i].hw \notin DOMAIN v[i - 1]
               /\ \A i \in 0..Len(adapter_queue) : Numbers(owner, v[i])
               /\ ~down => Agree(v[Len(adapter_queue)], engine)
  BY DEF ViewsAgree
<1>2. /\ adapter_queue \in Seq(Messages)
      /\ \A i \in DOMAIN adapter_queue : MessageOK(adapter_queue[i], jobs, owner)
  BY DEF TInv, AdapterQueueOK, MessagesOK
<1>3. PICK n \in Nat : n = Len(adapter_queue) - 1
  BY <1>2
<1>4. /\ DOMAIN adapter_queue = 1..(n + 1) /\ DOMAIN adapter_queue' = 1..n
      /\ Len(adapter_queue') = n /\ Len(adapter_queue) = n + 1
      /\ \A i \in 1..n : adapter_queue'[i] = adapter_queue[i + 1]
      /\ Head(adapter_queue) = adapter_queue[1]
  BY <1>2, <1>3 DEF Done
<1> DEFINE w == [i \in 0..n |-> v[i + 1]]
<1>5. w[0] = mGeofences'
  BY <1>1, <1>4
<1>6. ASSUME NEW i \in DOMAIN adapter_queue'
      PROVE  w[i] = After(adapter_queue'[i], jobs', w[i - 1])
  <2>1. i \in 1..n /\ i + 1 \in DOMAIN adapter_queue /\ (i - 1) + 1 = i /\ (i + 1) - 1 = i
    BY <1>4, <1>6
  <2>2. w[i] = v[i + 1] /\ w[i - 1] = v[i]
    BY <2>1
  <2>3. v[i + 1] = After(adapter_queue'[i], jobs, v[i])
    BY <1>1, <1>4, <2>1
  <2>4. MessageOK(adapter_queue'[i], jobs, owner)
    BY <1>2, <1>4, <2>1
  <2> QED BY <2>2, <2>3, <2>4, AfterStays
<1>7. \A i \in 0..Len(adapter_queue') : Numbers(owner', w[i])
  BY <1>1, <1>4
<1>8. w[Len(adapter_queue')] = v[Len(adapter_queue)]
  BY <1>4
<1>10. ASSUME NEW i \in DOMAIN adapter_queue', GivenAt(i)'
       PROVE  adapter_queue'[i].hw \notin DOMAIN w[i - 1]
  <2>1. i \in 1..n /\ i + 1 \in DOMAIN adapter_queue /\ (i - 1) + 1 = i /\ (i + 1) - 1 = i
    BY <1>4, <1>10
  <2>2. w[i - 1] = v[i] /\ adapter_queue'[i] = adapter_queue[i + 1]
    BY <1>4, <2>1
  <2>3. Gives(adapter_queue[i + 1], jobs') <=> Gives(adapter_queue[i + 1], jobs)
    BY <1>2, <2>1, GrownKeeps
  <2>4. GivenAt(i + 1)
    BY <1>10, <2>2, <2>3 DEF GivenAt
  <2> QED BY <1>1, <2>1, <2>2, <2>4
<1> HIDE DEF w
<1>9. ~down' => Agree(w[Len(adapter_queue)], engine)'
  BY <1>1, <1>8 DEF Agree, PauseIsKnown, Ops, MaxRestarts
<1> QED BY <1>5, <1>6, <1>7, <1>9, <1>10 DEF ViewsAgree

\* ... and when one is sent, or none.
LEMMA ViewsExtend ==
    ASSUME TInv, TInv', ViewsAgree, Grown(jobs, owner, jobs', owner'), UNCHANGED <<setup, mGeofences>>,
           NEW m \in Messages, adapter_queue' = Append(adapter_queue, m),
           \A f : (~down => Agree(f, engine)) /\ Gives(m, jobs') => m.hw \notin DOMAIN f,
           \A f : Numbers(owner', f) /\ (~down => Agree(f, engine)) /\ ~down'
                    => Agree(After(m, jobs', f), engine')
    PROVE  ViewsAgree'
<1>1. PICK v : /\ v[0] = mGeofences
               /\ \A i \in DOMAIN adapter_queue : v[i] = After(adapter_queue[i], jobs, v[i - 1])
               /\ \A i \in DOMAIN adapter_queue :
                     GivenAt(i) => adapter_queue[i].hw \notin DOMAIN v[i - 1]
               /\ \A i \in 0..Len(adapter_queue) : Numbers(owner, v[i])
               /\ ~down => Agree(v[Len(adapter_queue)], engine)
  BY DEF ViewsAgree
<1>2. /\ adapter_queue \in Seq(Messages)
      /\ \A i \in DOMAIN adapter_queue : MessageOK(adapter_queue[i], jobs, owner)
      /\ \A i \in DOMAIN adapter_queue' : MessageOK(adapter_queue'[i], jobs', owner')
  BY DEF TInv, AdapterQueueOK, MessagesOK
<1>3. PICK n \in Nat : n = Len(adapter_queue)
  BY <1>2
<1>4. /\ DOMAIN adapter_queue = 1..n /\ DOMAIN adapter_queue' = 1..(n + 1)
      /\ Len(adapter_queue') = n + 1
      /\ \A i \in 1..n : adapter_queue'[i] = adapter_queue[i]
      /\ adapter_queue'[n + 1] = m
  BY <1>2, <1>3
<1> DEFINE last == After(m, jobs', v[n])
           w == [i \in 0..(n + 1) |-> IF i = n + 1 THEN last ELSE v[i]]
<1>5. \A i \in 0..n : Numbers(owner', v[i])
  BY <1>1, <1>3, GrownKeeps
<1>6. MessageOK(m, jobs', owner')
  BY <1>2, <1>4
<1>7. Numbers(owner', last)
  <2>1. Numbers(owner', v[n])
    BY <1>5
  <2>2. \A j \in DOMAIN jobs' : jobs'[j].op \in JobOps
    <3>1. jobs' \in Seq(Jobs)
      BY DEF TInv, CommandsOK
    <3>2. ASSUME NEW j \in DOMAIN jobs' PROVE jobs'[j] \in Jobs
      BY <3>1
    <3> QED BY <3>2 DEF Jobs
  <2> QED BY <1>6, <2>1, <2>2, AfterType
<1>8. Agree(v[n], engine) \/ down
  BY <1>1, <1>3
<1>9. ~down' => Agree(last, engine')
  BY <1>5, <1>8
<1> HIDE DEF last
<1>10. w[0] = mGeofences'
  BY <1>1, <1>3
<1>11. ASSUME NEW i \in DOMAIN adapter_queue'
       PROVE  w[i] = After(adapter_queue'[i], jobs', w[i - 1])
  <2>1. CASE i = n + 1
    <3>1. w[i] = last /\ w[i - 1] = v[n]
      BY <2>1
    <3> QED BY <1>4, <2>1, <3>1 DEF last
  <2>2. CASE i \in 1..n
    <3>1. w[i] = v[i] /\ w[i - 1] = v[i - 1]
      BY <2>2
    <3>2. v[i] = After(adapter_queue[i], jobs, v[i - 1])
      BY <1>1, <1>4, <2>2
    <3>3. MessageOK(adapter_queue[i], jobs, owner) /\ adapter_queue'[i] = adapter_queue[i]
      BY <1>2, <1>4, <2>2
    <3> QED BY <3>1, <3>2, <3>3, AfterStays
  <2> QED BY <1>4, <1>11, <2>1, <2>2
<1>12. \A i \in 0..Len(adapter_queue') : Numbers(owner', w[i])
  BY <1>4, <1>5, <1>7
<1>13. w[Len(adapter_queue')] = last
  BY <1>4
<1>16. ASSUME NEW i \in DOMAIN adapter_queue', GivenAt(i)'
       PROVE  adapter_queue'[i].hw \notin DOMAIN w[i - 1]
  <2>1. CASE i = n + 1
    <3>1. w[i - 1] = v[n] /\ Gives(m, jobs') /\ adapter_queue'[i] = m
      BY <1>4, <1>16, <2>1 DEF GivenAt
    <3> QED BY <1>8, <3>1
  <2>2. CASE i \in 1..n
    <3>1. w[i - 1] = v[i - 1] /\ adapter_queue'[i] = adapter_queue[i] /\ i \in DOMAIN adapter_queue
      BY <1>4, <2>2
    <3>2. Gives(adapter_queue[i], jobs') <=> Gives(adapter_queue[i], jobs)
      BY <1>2, <3>1, GrownKeeps
    <3>3. GivenAt(i)
      BY <1>16, <3>1, <3>2 DEF GivenAt
    <3> QED BY <1>1, <3>1, <3>3
  <2> QED BY <1>4, <1>16, <2>1, <2>2
<1> HIDE DEF w
<1>14. PICK x : x = w
  OBVIOUS
<1>15. ~down' => Agree(x[Len(adapter_queue)], engine)'
  BY <1>9, <1>13, <1>14 DEF Agree, PauseIsKnown, Ops, MaxRestarts
<1> QED BY <1>10, <1>11, <1>12, <1>14, <1>15, <1>16 DEF ViewsAgree

\* The fences after a message are those before it, or the one it gives.
Stems(hw, m, J, f) ==
    \/ /\ hw \in DOMAIN f /\ After(m, J, f)[hw].id = f[hw].id
       /\ m.type # "engine_up"
    \/ Gives(m, J) /\ hw = m.hw /\ After(m, J, f)[hw].id = m.fence.id

LEMMA AfterFences ==
    ASSUME NEW J, NEW O, NEW f, Numbers(O, f), NEW m \in Messages, MessageOK(m, J, O),
           J[m.job].op \in JobOps \/ m.type # "answer"
    PROVE  \A hw \in DOMAIN After(m, J, f) : Stems(hw, m, J, f)
<1>0. SUFFICES \A hw \in DOMAIN After(m, J, f) :
                  \/ /\ hw \in DOMAIN f /\ After(m, J, f)[hw].id = f[hw].id
                     /\ m.type # "engine_up"
                  \/ Gives(m, J) /\ hw = m.hw /\ After(m, J, f)[hw].id = m.fence.id
  BY DEF Stems
<1>1. ASSUME NEW x, NEW v, NEW hw \in DOMAIN With(f, x, v)
      PROVE  \/ hw \in DOMAIN f /\ With(f, x, v)[hw] = f[hw]
             \/ hw = x /\ With(f, x, v)[hw] = v
  BY DEF With
<1>2. ASSUME NEW x, NEW hw \in DOMAIN Without(f, x)
      PROVE  hw \in DOMAIN f /\ Without(f, x)[hw] = f[hw]
  BY DEF Without
<1>3. CASE m.type = "engine_up"
  BY <1>3 DEF After, Empty
<1>4. CASE m.type = "restored" /\ m.ok
  <2>1. After(m, J, f) = With(f, m.hw, [m.fence EXCEPT !.paused = FALSE])
    BY <1>4 DEF After
  <2>2. [m.fence EXCEPT !.paused = FALSE].id = m.fence.id
    BY DEF Messages, AnyFence
  <2>3. Gives(m, J)
    BY <1>4 DEF Gives, Adds
  <2> DEFINE v == [m.fence EXCEPT !.paused = FALSE]
             g == With(f, m.hw, v)
  <2>4. \A hw \in DOMAIN g : \/ hw \in DOMAIN f /\ g[hw] = f[hw]
                             \/ hw = m.hw /\ g[hw] = v
    BY <1>1
  <2>5. After(m, J, f) = g /\ v.id = m.fence.id
    BY <2>1, <2>2
  <2> HIDE DEF g, v
  <2> QED BY <1>4, <2>3, <2>4, <2>5
<1>5. CASE m.type = "answer" /\ m.ok
  <2>1. CASE J[m.job].op = "add"
    <3>1. After(m, J, f) = With(f, m.hw, m.fence) /\ Gives(m, J)
      BY <1>5, <2>1 DEF After, Gives, Adds
    <3> HIDE DEF With
    <3> QED BY <1>1, <1>5, <3>1
  <2>2. CASE J[m.job].op = "remove"
    <3>1. After(m, J, f) \in {f, Without(f, m.hw)}
      BY <1>5, <2>2 DEF After
    <3> QED BY <1>2, <1>5, <3>1
  <2>3. CASE J[m.job].op \in {"pause", "resume", "modify"}
    <3>1. CASE After(m, J, f) = f
      BY <1>5, <3>1
    <3>2. ASSUME NEW b, m.hw \in DOMAIN f, \/ After(m, J, f) = [f EXCEPT ![m.hw].paused = b]
                                           \/ After(m, J, f) = [f EXCEPT ![m.hw].option = b]
          PROVE  \A hw \in DOMAIN After(m, J, f) :
                     hw \in DOMAIN f /\ After(m, J, f)[hw].id = f[hw].id
      BY <3>2 DEF Numbers, FencesOf
    <3>3. \/ After(m, J, f) = f
          \/ \E b : m.hw \in DOMAIN f /\ \/ After(m, J, f) = [f EXCEPT ![m.hw].paused = b]
                                         \/ After(m, J, f) = [f EXCEPT ![m.hw].option = b]
      BY <1>5, <2>3 DEF After
    <3> QED BY <1>5, <3>1, <3>2, <3>3
  <2> QED BY <1>5, <2>1, <2>2, <2>3 DEF JobOps
<1>6. CASE ~(m.type = "engine_up" \/ (m.type \in {"restored", "answer"} /\ m.ok))
  BY <1>6 DEF After
<1> QED BY <1>3, <1>4, <1>5, <1>6

LEMMA MapAfter ==
    ASSUME TInv, NEW h \in Messages, MessageOK(h, jobs, owner)
    PROVE  \A x \in DOMAIN After(h, jobs, mGeofences) : Stems(x, h, jobs, mGeofences)
<1>1. Numbers(owner, mGeofences)
  BY DEF TInv, MapsOK
<1>2. jobs[h.job].op \in JobOps \/ h.type # "answer"
  BY OpsAreOps DEF MessageOK, HasItem
<1> QED BY <1>1, <1>2, AfterFences

LEMMA BringsStay ==
    ASSUME NEW J, NEW O, NEW J2, NEW O2, Grown(J, O, J2, O2)
    PROVE  /\ \A m : MessageOK(m, J, O) => Brings(m, J2) = Brings(m, J)
           /\ \A r : RequestOK(r, J, O) => BringsBack(r, J2) = BringsBack(r, J)
<1>1. ASSUME NEW m, MessageOK(m, J, O) PROVE Brings(m, J2) = Brings(m, J)
  <2>1. Gives(m, J2) <=> Gives(m, J)
    BY <1>1, GrownKeeps
  <2>2. m.type \in {"command", "turn"} => J2[m.job].op = J[m.job].op /\ J2[m.job].ids = J[m.job].ids
    BY <1>1 DEF Grown, MessageOK, HasItem
  <2> QED BY <2>1, <2>2 DEF Brings
<1>2. ASSUME NEW r, RequestOK(r, J, O) PROVE BringsBack(r, J2) = BringsBack(r, J)
  <2>1. r.op = "turn" => Brings(r.reply, J2) = Brings(r.reply, J)
    <3>1. SUFFICES ASSUME r.op = "turn" PROVE Brings(r.reply, J2) = Brings(r.reply, J)
      OBVIOUS
    <3>2. r.reply.type = "turn" /\ HasItem(r.reply, J)
      BY <1>2, <3>1 DEF RequestOK
    <3>3. MessageOK(r.reply, J, O)
      BY <3>2 DEF MessageOK, Gives, Adds
    <3> QED BY <1>1, <3>3
  <2> QED BY <2>1 DEF BringsBack
<1> QED BY <1>1, <1>2

\* What the adapter's thread asks for after a message h: the fences that the
\* message brings, or those the map had before the engine came up.
Asked(p, h) ==
    /\ \A n \in DOMAIN p : /\ p[n].op # "up" /\ p[n].reply.type # "stopped"
                           /\ Unpaused(p[n].reply.type, p[n].fence)
    /\ \A n \in DOMAIN p : \A id \in BringsBack(p[n], jobs) :
          \/ id \in Brings(h, jobs) /\ ~Gives(h, jobs)
          \/ h.type = "engine_up" /\ \E hw : InMap(id, hw)
    /\ \A n, l \in DOMAIN p : \A id : id \in BringsBack(p[n], jobs) /\ id \in BringsBack(p[l], jobs)
                                        => n = l

LEMMA PlacesTake ==
    ASSUME TInv, EachOnce, adapter_queue # <<>>, Done, Grown(jobs, owner, jobs', owner'),
           NEW p \in Seq(Requests), RequestsOK(p, jobs, owner), api_queue' = api_queue \o p,
           Asked(p, Head(adapter_queue)),
           mGeofences' = After(Head(adapter_queue), jobs, mGeofences)
    PROVE  EachOnce'
<1> DEFINE h == Head(adapter_queue)
<1>1. /\ h \in Messages /\ MessageOK(h, jobs, owner)
      /\ 1 \in DOMAIN adapter_queue /\ h = adapter_queue[1]
  BY HeadOK, Taken
<1>2. ASSUME NEW id, NEW i, InAdapter(id, i)'
      PROVE  i \in Nat /\ \E k : k = i + 1 /\ k # 1 /\ InAdapter(id, k)
  <2>1. PICK k : k = i + 1
    OBVIOUS
  <2>2. i \in DOMAIN adapter_queue' /\ id \in Brings(adapter_queue'[i], jobs')
    BY <1>2 DEF InAdapter
  <2>3. /\ k \in DOMAIN adapter_queue /\ k > 1 /\ i \in Nat
        /\ adapter_queue'[i] = adapter_queue[k]
    BY <2>1, <2>2, Taken
  <2>4. MessageOK(adapter_queue[k], jobs, owner)
    BY <2>3 DEF TInv, AdapterQueueOK, MessagesOK
  <2>5. id \in Brings(adapter_queue[k], jobs)
    BY <2>2, <2>3, <2>4, BringsStay
  <2> QED BY <2>1, <2>3, <2>5 DEF InAdapter
<1>3. ASSUME NEW id, NEW k, InApi(id, k)'
      PROVE  \/ InApi(id, k)
             \/ \E n \in DOMAIN p : k = Len(api_queue) + n /\ id \in BringsBack(p[n], jobs)
  <2>1. k \in DOMAIN api_queue' /\ id \in BringsBack(api_queue'[k], jobs')
    BY <1>3 DEF InApi
  <2>2. api_queue \in Seq(Requests) /\ \A i \in DOMAIN api_queue : RequestOK(api_queue[i], jobs, owner)
    BY DEF TInv, ApiQueueOK, RequestsOK
  <2>3. CASE k \in DOMAIN api_queue
    <3>1. api_queue'[k] = api_queue[k]
      BY <2>2, <2>3
    <3> QED BY <2>1, <2>2, <2>3, <3>1, BringsStay DEF InApi
  <2>4. CASE k \notin DOMAIN api_queue
    <3>1. PICK n \in DOMAIN p : k = Len(api_queue) + n /\ api_queue'[k] = p[n]
      <4>1. k - Len(api_queue) \in DOMAIN p /\ api_queue'[k] = p[k - Len(api_queue)]
        BY <2>1, <2>2, <2>4, Joined
      <4>2. k = Len(api_queue) + (k - Len(api_queue))
        BY <2>1, <2>2
      <4> QED BY <4>1, <4>2
    <3>2. id \in BringsBack(p[n], jobs')
      BY <2>1, <3>1
    <3>3. BringsBack(p[n], jobs') = BringsBack(p[n], jobs)
      BY <3>1, BringsStay DEF RequestsOK
    <3> QED BY <3>1, <3>2, <3>3
  <2> QED BY <2>3, <2>4
<1>4. ASSUME NEW id, NEW hw, InMap(id, hw)'
      PROVE  \/ InMap(id, hw) /\ h.type # "engine_up"
             \/ Gives(h, jobs) /\ hw = h.hw /\ id \in Brings(h, jobs)
  <2>3. hw \in DOMAIN After(h, jobs, mGeofences) /\ After(h, jobs, mGeofences)[hw].id = id
    BY <1>4 DEF InMap
  <2>4. h.fence.id \in Nat
    BY <1>1 DEF Messages, AnyFence
  <2> DEFINE g == After(h, jobs, mGeofences)
  <2> HIDE DEF h
  <2>6. \A x \in DOMAIN g :
           \/ x \in DOMAIN mGeofences /\ g[x].id = mGeofences[x].id /\ h.type # "engine_up"
           \/ Gives(h, jobs) /\ x = h.hw /\ g[x].id = h.fence.id
    BY <1>1, MapAfter DEF Stems
  <2> HIDE DEF g
  <2>7. hw \in DOMAIN g /\ g[hw].id = id
    BY <2>3 DEF g
  <2>5. \/ /\ hw \in DOMAIN mGeofences /\ mGeofences[hw].id = id
           /\ h.type # "engine_up"
        \/ Gives(h, jobs) /\ hw = h.hw /\ id = h.fence.id
    BY <2>6, <2>7
  <2> QED BY <2>4, <2>5 DEF InMap, Brings
<1>5. \A id : id \in Brings(h, jobs) => InAdapter(id, 1)
  BY <1>1 DEF InAdapter
<1>6. \A id : OnePlace(id)
  BY DEF EachOnce
<1>7. Gives(h, jobs) => h.type # "engine_up"
  BY DEF Gives, Adds
<1>8. Len(api_queue) \in Nat /\ DOMAIN p \subseteq Nat \ {0} /\ DOMAIN api_queue = 1..Len(api_queue)
  BY DEF TInv, ApiQueueOK, RequestsOK
<1> HIDE DEF h
<1>9. ASSUME NEW id, NEW n \in DOMAIN p, id \in BringsBack(p[n], jobs)
      PROVE  \/ InAdapter(id, 1) /\ ~Gives(h, jobs) /\ id \in Brings(h, jobs)
             \/ h.type = "engine_up" /\ \E hw : InMap(id, hw)
  BY <1>5, <1>9 DEF Asked, h
<1>10. ASSUME NEW id PROVE OnePlace(id)'
  <2>0. OnePlace(id)
    BY <1>6
  <2>1. \A i, j : InAdapter(id, i)' /\ InAdapter(id, j)' => i = j
    BY <1>2, <2>0 DEF OnePlace
  <2>2. ASSUME NEW k, NEW l, InApi(id, k)', InApi(id, l)' PROVE k = l
    <3>1. ASSUME NEW n \in DOMAIN p, id \in BringsBack(p[n], jobs)
          PROVE  \A x : ~InApi(id, x)
      BY <1>9, <2>0, <3>1 DEF OnePlace
    <3>2. \A n, x \in DOMAIN p : id \in BringsBack(p[n], jobs) /\ id \in BringsBack(p[x], jobs) => n = x
      BY DEF Asked
    <3> QED BY <1>3, <2>0, <2>2, <3>1, <3>2 DEF OnePlace
  <2>3. \A hw, x : InMap(id, hw)' /\ InMap(id, x)' => hw = x
    BY <1>4, <1>5, <2>0 DEF OnePlace
  <2>4. ASSUME NEW i, NEW k, InAdapter(id, i)', InApi(id, k)' PROVE FALSE
    <3>1. PICK j : j # 1 /\ InAdapter(id, j)
      BY <1>2, <2>4
    <3>2. InApi(id, k) \/ InAdapter(id, 1) \/ \E hw : InMap(id, hw)
      BY <1>3, <1>9, <2>4
    <3> QED BY <2>0, <3>1, <3>2 DEF OnePlace
  <2>5. ASSUME NEW i, NEW hw, InAdapter(id, i)', InMap(id, hw)' PROVE FALSE
    <3>1. PICK j : j # 1 /\ InAdapter(id, j)
      BY <1>2, <2>5
    <3>2. InMap(id, hw) \/ InAdapter(id, 1)
      BY <1>4, <1>5, <2>5
    <3> QED BY <2>0, <3>1, <3>2 DEF OnePlace
  <2>6. ASSUME NEW k, NEW hw, InApi(id, k)', InMap(id, hw)' PROVE FALSE
    <3>1. \/ InApi(id, k)
          \/ InAdapter(id, 1) /\ ~Gives(h, jobs)
          \/ h.type = "engine_up"
      BY <1>3, <1>9, <2>6
    <3>2. \/ InMap(id, hw) /\ h.type # "engine_up"
          \/ Gives(h, jobs) /\ InAdapter(id, 1)
      BY <1>4, <1>5, <2>6
    <3> QED BY <1>7, <2>0, <3>1, <3>2 DEF OnePlace
  <2> QED BY <2>1, <2>2, <2>3, <2>4, <2>5, <2>6 DEF OnePlace
<1> QED BY <1>10 DEF EachOnce

\* A message more in the adapter's queue.
LEMMA InExtended ==
    ASSUME TInv, NEW m \in Messages, adapter_queue' = Append(adapter_queue, m),
           Grown(jobs, owner, jobs', owner'), NEW id, NEW i, InAdapter(id, i)'
    PROVE  \/ InAdapter(id, i)
           \/ i = Len(adapter_queue) + 1 /\ id \in Brings(m, jobs')
<1>1. PICK n : n = Len(adapter_queue) + 1
  OBVIOUS
<1>2. i \in DOMAIN adapter_queue' /\ id \in Brings(adapter_queue'[i], jobs')
  BY DEF InAdapter
<1>3. CASE i \in DOMAIN adapter_queue
  <2>1. adapter_queue'[i] = adapter_queue[i] /\ MessageOK(adapter_queue[i], jobs, owner)
    BY <1>1, <1>3, Extended DEF TInv, AdapterQueueOK, MessagesOK
  <2> QED BY <1>2, <1>3, <2>1, BringsStay DEF InAdapter
<1>4. CASE i = n
  <2>1. adapter_queue'[n] = m
    BY <1>1, Extended
  <2> QED BY <1>1, <1>2, <1>4, <2>1
<1>5. i \in DOMAIN adapter_queue \/ i = n
  BY <1>1, <1>2, Extended
<1> QED BY <1>3, <1>4, <1>5

\* Where the ids are that were handed out.
LEMMA PlacesOwned ==
    ASSUME TInv, NEW id
    PROVE  /\ \A i : InAdapter(id, i) => id \in DOMAIN owner
           /\ \A k : InApi(id, k) => id \in DOMAIN owner
           /\ \A hw : InMap(id, hw) => id \in DOMAIN owner
<1>1. ASSUME NEW m, MessageOK(m, jobs, owner), id \in Brings(m, jobs)
      PROVE  id \in DOMAIN owner
  <2>1. \A j \in DOMAIN jobs : \A i \in DOMAIN jobs[j].ids : jobs[j].ids[i] \in DOMAIN owner
    BY DEF TInv, CommandsOK
  <2>2. Gives(m, jobs) => m.fence.id \in DOMAIN owner
    BY <1>1 DEF MessageOK, Gives, Adds, FencesOf
  <2> QED BY <1>1, <2>1, <2>2 DEF Brings, MessageOK, HasItem
<1>2. ASSUME NEW r, RequestOK(r, jobs, owner), id \in BringsBack(r, jobs)
      PROVE  id \in DOMAIN owner
  <2>1. CASE r.op = "turn" /\ id \in Brings(r.reply, jobs)
    <3>1. MessageOK(r.reply, jobs, owner)
      BY <1>2, <2>1 DEF RequestOK, MessageOK, Gives, Adds
    <3> QED BY <1>1, <2>1, <3>1
  <2>2. CASE r.op = "add" /\ r.fence.id = id
    <3>1. r.fence \in FencesOf(owner)
      BY <1>2, <2>2 DEF RequestOK
    <3> QED BY <2>2, <3>1 DEF FencesOf
  <2> QED BY <1>2, <2>1, <2>2 DEF BringsBack
<1>3. \A i : InAdapter(id, i) => id \in DOMAIN owner
  BY <1>1 DEF InAdapter, TInv, AdapterQueueOK, MessagesOK
<1>4. \A k : InApi(id, k) => id \in DOMAIN owner
  BY <1>2 DEF InApi, TInv, ApiQueueOK, RequestsOK
<1>5. \A hw : InMap(id, hw) => id \in DOMAIN owner
  BY DEF InMap, TInv, MapsOK, Numbers, FencesOf
<1> QED BY <1>3, <1>4, <1>5

LEMMA InApiStays ==
    ASSUME TInv, Grown(jobs, owner, jobs', owner'), UNCHANGED api_queue
    PROVE  \A id, k : InApi(id, k)' => InApi(id, k)
BY BringsStay DEF InApi, TInv, ApiQueueOK, RequestsOK

\* A command brings ids that are new.
LEMMA PlacesPost ==
    ASSUME TInv, EachOnce, Grown(jobs, owner, jobs', owner'), UNCHANGED <<api_queue, mGeofences>>,
           NEW m \in Messages, adapter_queue' = Append(adapter_queue, m),
           \A id \in Brings(m, jobs') : id \notin DOMAIN owner
    PROVE  EachOnce'
<1>1. ASSUME NEW id PROVE OnePlace(id)'
  <2>0. OnePlace(id)
    BY DEF EachOnce
  <2>1. \A i : InAdapter(id, i)' => \/ InAdapter(id, i)
                                    \/ i = Len(adapter_queue) + 1 /\ id \notin DOMAIN owner
    BY InExtended
  <2>2. /\ \A k : InApi(id, k)' => InApi(id, k)
        /\ \A hw : InMap(id, hw)' => InMap(id, hw)
    BY InApiStays DEF InMap
  <2>3. /\ \A i : InAdapter(id, i) => id \in DOMAIN owner
        /\ \A k : InApi(id, k) => id \in DOMAIN owner
        /\ \A hw : InMap(id, hw) => id \in DOMAIN owner
    BY PlacesOwned
  <2> QED BY <2>0, <2>1, <2>2, <2>3 DEF OnePlace
<1> QED BY <1>1 DEF EachOnce

\* What is served is brought on.
LEMMA InServed ==
    ASSUME TInv, api_queue # <<>>, api_queue' = Tail(api_queue), UNCHANGED jobs,
           NEW id, NEW k, InApi(id, k)'
    PROVE  k \in Nat /\ \E l : l = k + 1 /\ l # 1 /\ InApi(id, l)
<1>1. k \in DOMAIN api_queue' /\ id \in BringsBack(api_queue'[k], jobs)
  BY DEF InApi
<1>2. /\ k + 1 \in DOMAIN api_queue /\ k + 1 # 1 /\ api_queue'[k] = api_queue[k + 1]
      /\ k \in Nat
  BY <1>1, TailOf DEF TInv, ApiQueueOK, RequestsOK
<1>3. InApi(id, k + 1)
  BY <1>1, <1>2 DEF InApi
<1> QED BY <1>2, <1>3

LEMMA PlacesServe ==
    ASSUME TInv, EachOnce, api_queue # <<>>, api_queue' = Tail(api_queue),
           UNCHANGED <<jobs, owner, mGeofences>>,
           \/ adapter_queue' = adapter_queue
           \/ \E m \in Messages : /\ adapter_queue' = Append(adapter_queue, m)
                                  /\ Brings(m, jobs) \subseteq BringsBack(Head(api_queue), jobs)
    PROVE  EachOnce'
<1>1. ASSUME NEW id PROVE OnePlace(id)'
  <2>0. OnePlace(id)
    BY DEF EachOnce
  <2>1. \A k : InApi(id, k)' => k \in Nat /\ \E l : l = k + 1 /\ l # 1 /\ InApi(id, l)
    BY InServed
  <2>2. \A hw : InMap(id, hw)' => InMap(id, hw)
    BY DEF InMap
  <2>3. \A i : InAdapter(id, i)' => \/ InAdapter(id, i)
                                    \/ i = Len(adapter_queue) + 1 /\ InApi(id, 1)
    <3>1. CASE adapter_queue' = adapter_queue
      BY <3>1 DEF InAdapter
    <3>2. ASSUME NEW m \in Messages, adapter_queue' = Append(adapter_queue, m),
                 Brings(m, jobs) \subseteq BringsBack(Head(api_queue), jobs), NEW i, InAdapter(id, i)'
          PROVE  InAdapter(id, i) \/ (i = Len(adapter_queue) + 1 /\ InApi(id, 1))
      <4>1. 1 \in DOMAIN api_queue /\ Head(api_queue) = api_queue[1]
        BY TailOf DEF TInv, ApiQueueOK, RequestsOK
      <4>2. Grown(jobs, owner, jobs', owner')
        BY SameGrown
      <4>3. InAdapter(id, i) \/ (i = Len(adapter_queue) + 1 /\ id \in Brings(m, jobs))
        BY <3>2, <4>2, InExtended
      <4> QED BY <3>2, <4>1, <4>3 DEF InApi
    <3> QED BY <3>1, <3>2
  <2> QED BY <2>0, <2>1, <2>2, <2>3 DEF OnePlace
<1> QED BY <1>1 DEF EachOnce

\* Without pauses no message pauses a fence.
LEMMA AfterUnpaused ==
    ASSUME TInv, OpsUsed, "pause" \notin Ops, \A hw \in DOMAIN mGeofences : ~mGeofences[hw].paused,
           NEW m \in Messages, MessageOK(m, jobs, owner), Unpaused(m.type, m.fence)
    PROVE  \A hw \in DOMAIN After(m, jobs, mGeofences) : ~After(m, jobs, mGeofences)[hw].paused
<1> DEFINE f == mGeofences
<1>1. Numbers(owner, f) /\ \A hw \in DOMAIN f : ~f[hw].paused
  BY DEF TInv, MapsOK
<1> HIDE DEF f
<1>2. ASSUME NEW v, ~v.paused
      PROVE  \A hw \in DOMAIN With(f, m.hw, v) : ~With(f, m.hw, v)[hw].paused
  BY <1>1, <1>2 DEF With
<1>3. \A hw \in DOMAIN Without(f, m.hw) : ~Without(f, m.hw)[hw].paused
  BY <1>1 DEF Without
<1>4. CASE m.type = "engine_up"
  BY <1>1, <1>4 DEF f, After, Empty
<1>5. CASE m.type = "restored" /\ m.ok
  <2>1. ~[m.fence EXCEPT !.paused = FALSE].paused
    BY DEF Messages, AnyFence
  <2>2. After(m, jobs, f) = With(f, m.hw, [m.fence EXCEPT !.paused = FALSE])
    BY <1>5 DEF After
  <2> HIDE DEF With
  <2> QED BY <1>2, <2>1, <2>2 DEF f
<1>6. CASE m.type = "answer" /\ m.ok
  <2>1. ~m.fence.paused
    BY <1>6 DEF Unpaused
  <2>2. jobs[m.job].op \in JobOps /\ jobs[m.job].op # "pause"
    <3>1. m.job \in DOMAIN jobs
      BY <1>6 DEF MessageOK, HasItem
    <3> QED BY <3>1, OpsAreOps DEF OpsUsed
  <2>3. CASE jobs[m.job].op = "add"
    <3>1. After(m, jobs, f) = With(f, m.hw, m.fence)
      BY <1>6, <2>3 DEF After
    <3> HIDE DEF With
    <3> QED BY <1>2, <2>1, <3>1 DEF f
  <2>4. CASE jobs[m.job].op = "remove"
    <3>1. After(m, jobs, f) \in {f, Without(f, m.hw)}
      BY <1>6, <2>4 DEF After
    <3> QED BY <1>1, <1>3, <3>1 DEF f
  <2>5. CASE jobs[m.job].op \in {"resume", "modify"}
    <3>1. \/ After(m, jobs, f) = f
          \/ m.hw \in DOMAIN f /\ \/ After(m, jobs, f) = [f EXCEPT ![m.hw].paused = FALSE]
                                  \/ After(m, jobs, f) = [f EXCEPT ![m.hw].option = m.fence.option]
      BY <1>6, <2>5 DEF After
    <3>2. \A hw \in DOMAIN After(m, jobs, f) : ~After(m, jobs, f)[hw].paused
      BY <1>1, <3>1 DEF Numbers, FencesOf
    <3> QED BY <3>2 DEF f
  <2> QED BY <2>2, <2>3, <2>4, <2>5 DEF JobOps
<1>7. CASE ~(m.type = "engine_up" \/ (m.type \in {"restored", "answer"} /\ m.ok))
  <2>1. After(m, jobs, f) = f
    BY <1>7 DEF After
  <2> QED BY <1>1, <2>1 DEF f
<1> QED BY <1>4, <1>5, <1>6, <1>7

\* The thread takes a message, changes the map as it says, and asks.
Takes(p) ==
    /\ adapter_queue # <<>> /\ Done
    /\ UNCHANGED <<setup, owner, engine, used, down, restarts>> /\ DOMAIN jobs' = DOMAIN jobs
    /\ RequestsOK(p, jobs, owner) /\ api_queue' = api_queue \o p
    /\ Asked(p, Head(adapter_queue))
    /\ mGeofences' = After(Head(adapter_queue), jobs, mGeofences)

LEMMA TakeAgrees ==
    ASSUME TInv, TInv', EInv, ~ClientsMayLeave, Grown(jobs, owner, jobs', owner'),
           NEW p, Takes(p), FencesHaveIds', HasFence'
    PROVE  EInv'
<1> DEFINE h == Head(adapter_queue)
<1>1. /\ UpOnce /\ NobodyLeaves /\ NothingRestarts
      /\ OpsUsed /\ AddsOnce /\ EachOnce /\ NothingPaused
      /\ DownIsEmpty /\ EngineUsed /\ ViewsAgree
  BY DEF EInv
<1>2. /\ adapter_queue # <<>> /\ Done
      /\ UNCHANGED <<setup, owner, engine, used, down, restarts>> /\ DOMAIN jobs' = DOMAIN jobs
      /\ p \in Seq(Requests) /\ RequestsOK(p, jobs, owner) /\ api_queue' = api_queue \o p
      /\ Asked(p, h) /\ mGeofences' = After(h, jobs, mGeofences)
  BY DEF Takes, RequestsOK
<1>3. AsksNoStop
  BY <1>2 DEF AsksNoStop, Asked
<1>4. UpOnce'
  BY <1>1, <1>2, <1>3, NoStopAsks, UpOnceKept
<1>5. NobodyLeaves'
  BY <1>1, <1>2, <1>3, StopsKept
<1>6. NothingRestarts'
  <2>1. \A i \in DOMAIN adapter_queue' : \E k \in DOMAIN adapter_queue : UpAt(i)' <=> UpAt(k)
    BY <1>2, Taken
  <2> QED BY <1>1, <1>2, <2>1 DEF NothingRestarts, MaxRestarts
<1>7. OpsUsed' /\ AddsOnce'
  BY <1>1, <1>2 DEF OpsUsed, AddsOnce, Grown, Ops
<1>8. EachOnce'
  BY <1>1, <1>2, PlacesTake
<1>9. NothingPaused'
  <2>0. PauseIsKnown' = PauseIsKnown /\ Ops' = Ops
    BY <1>2 DEF PauseIsKnown, Ops, MaxRestarts
  <2>1. ASSUME NEW k \in DOMAIN api_queue'
        PROVE  Unpaused(api_queue'[k].reply.type, api_queue'[k].fence)
    <3>1. \/ k \in DOMAIN api_queue /\ api_queue'[k] = api_queue[k]
          \/ \E n \in DOMAIN p : api_queue'[k] = p[n]
      <4>1. api_queue \in Seq(Requests)
        BY DEF TInv, ApiQueueOK, RequestsOK
      <4> QED BY <1>2, <2>1, <4>1, Joined
    <3> QED BY <1>1, <1>2, <3>1 DEF NothingPaused, Asked
  <2>2. ASSUME NEW i \in DOMAIN adapter_queue'
        PROVE  Unpaused(adapter_queue'[i].type, adapter_queue'[i].fence)
    <3>1. \E k \in DOMAIN adapter_queue : adapter_queue'[i] = adapter_queue[k]
      BY <1>2, Taken
    <3> QED BY <1>1, <3>1 DEF NothingPaused
  <2>3. ASSUME "pause" \notin Ops
        PROVE  \A hw \in DOMAIN mGeofences' : ~mGeofences'[hw].paused
    <3>1. /\ h \in Messages /\ MessageOK(h, jobs, owner)
          /\ 1 \in DOMAIN adapter_queue /\ h = adapter_queue[1]
      BY <1>2, HeadOK, Taken
    <3>2. Unpaused(h.type, h.fence)
      BY <1>1, <3>1 DEF NothingPaused
    <3>3. \A hw \in DOMAIN mGeofences : ~mGeofences[hw].paused
      BY <1>1, <2>3 DEF NothingPaused
    <3> HIDE DEF h
    <3> QED BY <1>1, <1>2, <2>3, <3>1, <3>2, <3>3, AfterUnpaused
  <2>4. \A t, f : Unpaused(t, f)' <=> Unpaused(t, f)
    BY <2>0 DEF Unpaused
  <2> QED BY <2>0, <2>1, <2>2, <2>3, <2>4 DEF NothingPaused, Unpaused
<1>10. DownIsEmpty' /\ EngineUsed' /\ ViewsAgree'
  BY <1>1, <1>2, ViewsTake DEF DownIsEmpty, EngineUsed
<1> QED BY <1>4, <1>5, <1>6, <1>7, <1>8, <1>9, <1>10 DEF EInv

\* The messages one by one.
LEMMA HeadUnpaused ==
    ASSUME TInv, NothingPaused, adapter_queue # <<>>
    PROVE  Unpaused(Head(adapter_queue).type, Head(adapter_queue).fence)
<1>1. 1 \in DOMAIN adapter_queue /\ Head(adapter_queue) = adapter_queue[1]
  BY TailOf DEF TInv, AdapterQueueOK, MessagesOK
<1> QED BY <1>1 DEF NothingPaused

LEMMA ProcCommandAgrees ==
    ASSUME TInv, TInv', EInv, ~ClientsMayLeave, Grown(jobs, owner, jobs', owner'), ProcCommand
    PROVE  EInv'
<1> DEFINE h == Head(adapter_queue)
           ids == jobs[h.job].ids
           p == [i \in DOMAIN ids |-> Request("turn", 0, NoFence, Turn(h.job, i))]
<1>1. /\ adapter_queue # <<>> /\ Done /\ h.type = "command"
      /\ UNCHANGED <<setup, maps, owner, jobs, engine, used, down, restarts>>
      /\ api_queue' = api_queue \o p
  BY DEF ProcCommand, Comes
<1>2. RequestsOK(p, jobs, owner) /\ h.job \in DOMAIN jobs
  BY <1>1, ProcCommandRequests, HeadOK DEF MessageOK
<1>3. ASSUME NEW n \in DOMAIN p
      PROVE  /\ p[n].op = "turn" /\ p[n].reply.type = "turn"
             /\ BringsBack(p[n], jobs) = {id \in Nat : jobs[h.job].op = "add" /\ ids[n] = id}
  <2>1. p[n] = Request("turn", 0, NoFence, Turn(h.job, n))
    OBVIOUS
  <2> HIDE DEF p, h
  <2>2. /\ p[n].op = "turn" /\ p[n].reply.type = "turn" /\ ~Gives(p[n].reply, jobs)
        /\ p[n].reply.job = h.job /\ p[n].reply.item = n
    <3> DEFINE t == Turn(h.job, n)
    <3>1. t.type = "turn" /\ t.job = h.job /\ t.item = n
      BY DEF Turn, Msg
    <3> HIDE DEF t
    <3>2. ~Gives(t, jobs)
      BY <3>1 DEF Gives, Adds
    <3>3. p[n].op = "turn" /\ p[n].reply = t
      BY <2>1 DEF Request, t
    <3> QED BY <3>1, <3>2, <3>3
  <2>3. BringsBack(p[n], jobs) = {id \in Nat : jobs[h.job].op = "add" /\ ids[n] = id}
    BY <2>2 DEF BringsBack, Brings
  <2> QED BY <2>2, <2>3
<1>4. DOMAIN p = DOMAIN ids
  OBVIOUS
<1>5. ~Gives(h, jobs)
  BY <1>1 DEF Gives, Adds
<1> HIDE DEF p
<1>6. \A n \in DOMAIN p : \A id \in BringsBack(p[n], jobs) : id \in Brings(h, jobs)
  BY <1>1, <1>3, <1>4 DEF Brings
<1>7. \A n, l \in DOMAIN p : \A id : id \in BringsBack(p[n], jobs) /\ id \in BringsBack(p[l], jobs)
                                        => n = l
  BY <1>2, <1>3, <1>4 DEF EInv, AddsOnce
<1>8. Asked(p, h)
  BY <1>3, <1>5, <1>6, <1>7 DEF Asked, Unpaused
<1>9. After(h, jobs, mGeofences) = mGeofences
  BY <1>1 DEF After
<1>10. Takes(p)
  BY <1>1, <1>2, <1>8, <1>9 DEF Takes, maps
<1>11. FencesHaveIds' /\ HasFence'
  BY <1>1 DEF EInv, FencesHaveIds, HasFence, maps
<1> QED BY <1>10, <1>11, TakeAgrees

\* Nothing is asked, or one thing.
LEMMA AskedNothing ==
    ASSUME TInv, NEW h, UNCHANGED api_queue
    PROVE  \E p : /\ RequestsOK(p, jobs, owner) /\ api_queue' = api_queue \o p
                  /\ Asked(p, h)
<1> DEFINE p == <<>>
<1>1. p \in Seq(Requests) /\ api_queue' = api_queue \o p /\ DOMAIN p = {}
  BY DEF TInv, ApiQueueOK, RequestsOK
<1> HIDE DEF p
<1> QED BY <1>1 DEF Asked, RequestsOK

LEMMA AskedOne ==
    ASSUME TInv, NEW h, NEW r \in Requests, RequestOK(r, jobs, owner),
           api_queue' = Append(api_queue, r), r.op # "up", r.reply.type # "stopped",
           Unpaused(r.reply.type, r.fence), ~Gives(h, jobs) \/ BringsBack(r, jobs) = {},
           BringsBack(r, jobs) \subseteq Brings(h, jobs)
    PROVE  \E p : /\ RequestsOK(p, jobs, owner) /\ api_queue' = api_queue \o p
                  /\ Asked(p, h)
<1> DEFINE p == <<r>>
<1>1. /\ p \in Seq(Requests) /\ api_queue' = api_queue \o p
      /\ DOMAIN p = {1} /\ p[1] = r
  BY DEF TInv, ApiQueueOK, RequestsOK
<1> HIDE DEF p
<1> QED BY <1>1 DEF Asked, RequestsOK

LEMMA ProcTurnAgrees ==
    ASSUME TInv, TInv', EInv, ~ClientsMayLeave, Grown(jobs, owner, jobs', owner'), ProcTurn
    PROVE  EInv'
<1> DEFINE h == Head(adapter_queue)
           j == h.job
           i == h.item
           job == jobs[j]
           id == job.ids[i]
           option == IF job.op = "modify" THEN 1 ELSE 0
           r(hw) == Request(job.op, hw, Fence(id, FALSE, option), [Turn(j, i) EXCEPT !.type = "answer"])
<1>1. /\ adapter_queue # <<>> /\ Done /\ h.type = "turn"
      /\ UNCHANGED <<setup, maps, owner, engine, used, down, restarts>>
  BY DEF ProcTurn, Comes
<1>2. j \in DOMAIN jobs /\ i \in DOMAIN job.ids
  BY <1>1, HeadOK DEF MessageOK, HasItem
<1>3. DOMAIN jobs' = DOMAIN jobs
  BY DEF ProcTurn, TurnOf, ItemDone
<1>4. api_queue' = api_queue \/ \E hw \in Nat : api_queue' = Append(api_queue, r(hw))
  <2>1. 0 \in Nat /\ \A x \in DOMAIN mGeofenceIds : mGeofenceIds[x] \in Nat
    BY GeofenceAdapterAssumption DEF TInv, MapsOK
  <2> QED BY <2>1 DEF ProcTurn, TurnOf
<1>5. ASSUME NEW hw \in Nat
      PROVE  /\ r(hw) \in Requests /\ RequestOK(r(hw), jobs, owner)
             /\ r(hw).op # "up" /\ r(hw).reply.type = "answer" /\ ~r(hw).fence.paused
             /\ BringsBack(r(hw), jobs) \subseteq Brings(h, jobs)
  <2>1. option \in {0, 1}
    OBVIOUS
  <2>2. job.op \in JobOps
    BY <1>2, OpsAreOps
  <2>3. /\ r(hw).op = job.op /\ r(hw).reply.type = "answer"
        /\ r(hw).fence = Fence(id, FALSE, option)
    BY DEF Request, Turn, Msg
  <2>4. ~r(hw).fence.paused /\ r(hw).fence.id = id
    BY <2>3 DEF Fence
  <2> HIDE DEF option
  <2>5. r(hw) \in Requests /\ RequestOK(r(hw), jobs, owner)
    BY <1>2, <2>1, AskType DEF TInv
  <2> HIDE DEF r
  <2>6. BringsBack(r(hw), jobs) \subseteq Brings(h, jobs)
    BY <1>1, <2>2, <2>3, <2>4 DEF BringsBack, Brings, JobOps
  <2> QED BY <2>2, <2>3, <2>4, <2>5, <2>6 DEF JobOps
<1>6. ~Gives(h, jobs)
  BY <1>1 DEF Gives, Adds
<1>7. After(h, jobs, mGeofences) = mGeofences
  BY <1>1 DEF After
<1> HIDE DEF r, h
<1>8. \E p : /\ RequestsOK(p, jobs, owner) /\ api_queue' = api_queue \o p
             /\ Asked(p, h)
  <2>1. CASE api_queue' = api_queue
    BY <2>1, AskedNothing
  <2>2. ASSUME NEW hw \in Nat, api_queue' = Append(api_queue, r(hw))
        PROVE  \E p : /\ RequestsOK(p, jobs, owner) /\ api_queue' = api_queue \o p
                      /\ Asked(p, h)
    <3>1. Unpaused(r(hw).reply.type, r(hw).fence) /\ r(hw).reply.type # "stopped"
      BY <1>5 DEF Unpaused
    <3> QED BY <1>5, <1>6, <2>2, <3>1, AskedOne
  <2> QED BY <1>4, <2>1, <2>2
<1>9. PICK p : Takes(p)
  BY <1>1, <1>3, <1>7, <1>8 DEF Takes, maps, h
<1>10. FencesHaveIds' /\ HasFence'
  BY <1>1 DEF EInv, FencesHaveIds, HasFence, maps
<1> QED BY <1>9, <1>10, TakeAgrees

\* A fence that is saved has its id.
LEMMA SaveHasId ==
    ASSUME FencesHaveIds, NEW f, NEW hw, saveGeofenceItem(f, hw)
    PROVE  FencesHaveIds'
<1>1. /\ DOMAIN mGeofences' = DOMAIN mGeofences \cup {hw}
      /\ DOMAIN mGeofenceIds' = DOMAIN mGeofenceIds \cup {f.id}
      /\ mGeofences'[hw] = f
      /\ \A x \in DOMAIN mGeofences : x # hw => mGeofences'[x] = mGeofences[x]
  BY DEF saveGeofenceItem, With
<1> QED BY <1>1 DEF FencesHaveIds

\* The number that the first message gives is new to the map.
LEMMA FirstIsNew ==
    ASSUME TInv, ViewsAgree, adapter_queue # <<>>, Gives(Head(adapter_queue), jobs)
    PROVE  Head(adapter_queue).hw \notin DOMAIN mGeofences
<1>1. 1 \in DOMAIN adapter_queue /\ Head(adapter_queue) = adapter_queue[1]
  BY TailOf DEF TInv, AdapterQueueOK, MessagesOK
<1>2. PICK v : /\ v[0] = mGeofences
               /\ \A i \in DOMAIN adapter_queue :
                     GivenAt(i) => adapter_queue[i].hw \notin DOMAIN v[i - 1]
  BY DEF ViewsAgree
<1>3. GivenAt(1)
  BY <1>1 DEF GivenAt
<1>4. adapter_queue[1].hw \notin DOMAIN v[1 - 1] /\ 1 - 1 = 0
  BY <1>1, <1>2, <1>3
<1> QED BY <1>1, <1>2, <1>4

LEMMA ProcAnswerAgrees ==
    ASSUME TInv, TInv', EInv, ~ClientsMayLeave, Grown(jobs, owner, jobs', owner'), ProcAnswer
    PROVE  EInv'
<1> DEFINE m == Head(adapter_queue)
           op == jobs[m.job].op
<1>1. /\ adapter_queue # <<>> /\ Done /\ m.type = "answer" /\ Answer(m)
      /\ UNCHANGED <<setup, owner, api_queue, engine, used, down, restarts>>
  BY DEF ProcAnswer, Comes
<1>2. m.job \in DOMAIN jobs /\ op \in JobOps
  BY <1>1, HeadOK, OpsAreOps DEF MessageOK, HasItem
<1>3. FencesHaveIds /\ EachOnce /\ HasFence
  BY DEF EInv
<1>4. Numbers(owner, mGeofences)
  BY DEF TInv, MapsOK
<1>8. Gives(m, jobs) => m.hw \notin DOMAIN mGeofences
  BY <1>1, FirstIsNew DEF EInv
<1> HIDE DEF m
<1>9. HasFence'
  <2>1. CASE UNCHANGED maps
    BY <1>3, <2>1 DEF HasFence, maps
  <2>2. CASE m.ok /\ Applied(op, m)
    <3>1. op = "add" => Gives(m, jobs)
      BY <1>1, <2>2 DEF Gives, Adds
    <3>2. \A hw \in DOMAIN mGeofences : mGeofences[hw] \in AnyFence
      BY FencesAreFences DEF TInv, MapsOK, Numbers
    <3>3. m.type # "engine_up"
      BY <1>1
    <3> HIDE DEF op
    <3> QED BY <1>2, <1>3, <1>8, <2>2, <3>1, <3>2, <3>3, AppliedKeeps
  <2> QED BY <1>1, <2>1, <2>2 DEF Answer
<1>5. DOMAIN jobs' = DOMAIN jobs
  BY <1>1 DEF Answer, ItemDone
<1>6. mGeofences' = After(m, jobs, mGeofences) /\ FencesHaveIds'
  <2>1. CASE ~m.ok
    <3>1. UNCHANGED maps
      BY <1>1, <2>1 DEF Answer
    <3>2. After(m, jobs, mGeofences) = mGeofences
      BY <1>1, <2>1 DEF After
    <3> QED BY <1>3, <3>1, <3>2 DEF maps, FencesHaveIds
  <2>2. CASE m.ok
    <3>0. Applied(op, m)
      BY <1>1, <2>2 DEF Answer
    <3>1. CASE op = "add"
      <4>1. saveGeofenceItem(m.fence, m.hw)
        BY <3>0, <3>1 DEF Applied
      <4>2. After(m, jobs, mGeofences) = With(mGeofences, m.hw, m.fence)
        BY <1>1, <2>2, <3>1 DEF After
      <4> QED BY <1>3, <4>1, <4>2, SaveHasId DEF saveGeofenceItem
    <3>2. CASE op = "remove"
      <4>1. removeGeofenceItem(m.hw)
        BY <3>0, <3>2 DEF Applied
      <4>2. After(m, jobs, mGeofences) =
                IF m.hw \in DOMAIN mGeofences THEN Without(mGeofences, m.hw) ELSE mGeofences
        BY <1>1, <2>2, <3>2 DEF After
      <4>3. CASE m.hw \notin DOMAIN mGeofences
        BY <1>3, <4>1, <4>2, <4>3 DEF removeGeofenceItem, maps, FencesHaveIds
      <4>4. CASE m.hw \in DOMAIN mGeofences
        <5>1. /\ mGeofences' = Without(mGeofences, m.hw)
              /\ mGeofenceIds' = Without(mGeofenceIds, mGeofences[m.hw].id)
          BY <1>3, <4>1, <4>4 DEF removeGeofenceItem, FencesHaveIds
        <5>2. \A hw \in DOMAIN mGeofences :
                  mGeofences[hw].id = mGeofences[m.hw].id => hw = m.hw
          BY <1>3, <4>4 DEF EachOnce, OnePlace, InMap
        <5> QED BY <1>3, <4>2, <4>4, <5>1, <5>2 DEF FencesHaveIds, Without
      <4> QED BY <4>3, <4>4
    <3>3. CASE op \in {"pause", "resume", "modify"}
      <4>1. mGeofenceIds' = mGeofenceIds /\ mGeofences' = After(m, jobs, mGeofences)
        BY <1>1, <2>2, <3>0, <3>3 DEF Applied, After, pauseGeofenceItem, modifyGeofenceItem
      <4>2. \A hw \in DOMAIN mGeofences' :
                hw \in DOMAIN mGeofences /\ mGeofences'[hw].id = mGeofences[hw].id
        <5>1. m \in Messages /\ MessageOK(m, jobs, owner) /\ ~Gives(m, jobs)
          BY <1>1, <3>3, HeadOK DEF m, Gives, Adds
        <5> QED BY <4>1, <5>1, MapAfter DEF Stems
      <4> QED BY <1>3, <4>1, <4>2 DEF FencesHaveIds
    <3> QED BY <1>2, <3>1, <3>2, <3>3 DEF JobOps
  <2> QED BY <2>1, <2>2
<1>7. PICK p : Takes(p)
  <2>1. \E p : RequestsOK(p, jobs, owner) /\ api_queue' = api_queue \o p /\ Asked(p, m)
    BY <1>1, AskedNothing
  <2> QED BY <1>1, <1>5, <1>6, <2>1 DEF Takes, m
<1> QED BY <1>6, <1>7, <1>9, TakeAgrees

LEMMA ProcRestoredAgrees ==
    ASSUME TInv, TInv', EInv, ~ClientsMayLeave, Grown(jobs, owner, jobs', owner'), ProcRestored
    PROVE  EInv'
<1> DEFINE m == Head(adapter_queue)
           f == [m.fence EXCEPT !.paused = FALSE]
           r == Request("pause", m.hw, m.fence, Msg("none"))
<1>1. /\ adapter_queue # <<>> /\ Done /\ m.type = "restored"
      /\ UNCHANGED <<setup, owner, jobs, engine, used, down, restarts>>
  BY DEF ProcRestored, Comes
<1>2. \/ /\ m.ok /\ saveGeofenceItem(f, m.hw)
         /\ \/ api_queue' = api_queue
            \/ m.fence.paused /\ api_queue' = Append(api_queue, r)
      \/ ~m.ok /\ UNCHANGED <<maps, api_queue>>
  BY DEF ProcRestored
<1>3. m \in Messages /\ Unpaused(m.type, m.fence)
  BY <1>1, HeadOK, HeadUnpaused DEF EInv
<1>4. FencesHaveIds /\ HasFence
  BY DEF EInv
<1>9. Gives(m, jobs) => m.hw \notin DOMAIN mGeofences
  BY <1>1, FirstIsNew DEF EInv
<1> HIDE DEF m
<1>10. HasFence'
  <2>1. CASE m.ok /\ saveGeofenceItem(f, m.hw)
    <3>1. Gives(m, jobs) /\ m.type # "engine_up"
      BY <1>1, <2>1 DEF Gives, Adds
    <3> HIDE DEF f
    <3> QED BY <1>4, <1>9, <2>1, <3>1, SaveKeeps
  <2>2. CASE UNCHANGED maps
    BY <1>4, <2>2 DEF HasFence, maps
  <2> QED BY <1>2, <2>1, <2>2
<1>5. mGeofences' = After(m, jobs, mGeofences) /\ FencesHaveIds'
  <2>1. CASE m.ok /\ saveGeofenceItem(f, m.hw)
    <3>1. After(m, jobs, mGeofences) = With(mGeofences, m.hw, f)
      BY <1>1, <2>1 DEF After
    <3> HIDE DEF f
    <3> QED BY <1>4, <2>1, <3>1, SaveHasId DEF saveGeofenceItem
  <2>2. CASE ~m.ok /\ UNCHANGED maps
    <3>1. After(m, jobs, mGeofences) = mGeofences
      BY <1>1, <2>2 DEF After
    <3> QED BY <1>4, <2>2, <3>1 DEF maps, FencesHaveIds
  <2> QED BY <1>2, <2>1, <2>2
<1>6. \E p : RequestsOK(p, jobs, owner) /\ api_queue' = api_queue \o p /\ Asked(p, m)
  <2>1. CASE api_queue' = api_queue
    BY <2>1, AskedNothing
  <2>2. CASE m.fence.paused /\ api_queue' = Append(api_queue, r)
    <3> DEFINE none == Msg("none")
    <3>1. none \in Messages /\ none.type = "none"
      BY MsgType DEF MessageTypes, Msg
    <3> HIDE DEF none
    <3>2. /\ r \in Requests /\ r.op = "pause" /\ r.reply.type = "none" /\ r.fence = m.fence
          /\ RequestOK(r, jobs, owner)
      <4>0. r = Request("pause", m.hw, m.fence, none)
        BY DEF none
      <4> HIDE DEF r
      <4>1. r \in Requests /\ r.op = "pause" /\ r.reply.type = "none" /\ r.fence = m.fence
        BY <1>3, <3>1, <4>0 DEF Request, Requests, JobOps, Messages
      <4>2. RequestOK(r, jobs, owner)
        BY <4>1 DEF RequestOK
      <4> QED BY <4>1, <4>2
    <3>3. ~PauseIsKnown
      BY <1>1, <1>3, <2>2 DEF Unpaused
    <3> HIDE DEF r
    <3>4. BringsBack(r, jobs) = {} /\ Unpaused(r.reply.type, r.fence)
      BY <3>2, <3>3 DEF BringsBack, Unpaused
    <3> QED BY <2>2, <3>2, <3>4, AskedOne
  <2> QED BY <1>2, <2>1, <2>2
<1>7. PICK p : Takes(p)
  BY <1>1, <1>5, <1>6 DEF Takes, m
<1>8. Grown(jobs, owner, jobs', owner')
  OBVIOUS
<1> QED BY <1>5, <1>7, <1>10, TakeAgrees

LEMMA ProcEngineUpAgrees ==
    ASSUME TInv, TInv', EInv, ~ClientsMayLeave, Grown(jobs, owner, jobs', owner'), ProcEngineUp
    PROVE  EInv'
<1> DEFINE h == Head(adapter_queue)
<1>1. /\ adapter_queue # <<>> /\ Done /\ h.type = "engine_up"
      /\ UNCHANGED <<setup, owner, jobs, engine, used, down, restarts>>
  BY DEF ProcEngineUp, Comes
<1>2. FencesHaveIds /\ HasFence /\ EachOnce /\ NothingPaused /\ NothingRestarts
  BY DEF EInv
<1>3. After(h, jobs, mGeofences) = IF DOMAIN mGeofences = {} THEN mGeofences ELSE Empty
  BY <1>1 DEF After
<1>4. CASE DOMAIN mGeofences = {} /\ UNCHANGED <<maps, api_queue>>
  <2> HIDE DEF h
  <2>1. PICK p : RequestsOK(p, jobs, owner) /\ api_queue' = api_queue \o p /\ Asked(p, h)
    BY <1>4, AskedNothing
  <2>2. Takes(p) /\ FencesHaveIds' /\ HasFence'
    BY <1>1, <1>2, <1>3, <1>4, <2>1 DEF Takes, h, maps, FencesHaveIds, HasFence
  <2> QED BY <2>2, TakeAgrees
<1>5. ASSUME NEW old \in InOrder(DOMAIN mGeofences), DOMAIN mGeofences # {},
             mGeofences' = Empty, mGeofenceIds' = Empty,
             api_queue' = api_queue \o [n \in DOMAIN old |-> AddAgain(mGeofences[old[n]])]
      PROVE  EInv'
  <2> DEFINE p == [n \in DOMAIN old |-> AddAgain(mGeofences[old[n]])]
  <2>1. old \in Seq(DOMAIN mGeofences) /\ \A n \in DOMAIN old : old[n] \in DOMAIN mGeofences
    BY FinitelyMany, InOrderType
  <2>2. \A n, l \in DOMAIN old : old[n] = old[l] => n = l
    <3>1. \A n, l \in DOMAIN old : n < l => old[n] < old[l]
      BY <1>5 DEF InOrder
    <3>2. \A n \in DOMAIN old : old[n] \in Nat
      BY <2>1, GeofenceAdapterAssumption DEF TInv, MapsOK, Numbers
    <3>3. DOMAIN old \subseteq Nat
      BY <2>1
    <3> QED BY <3>1, <3>2, <3>3
  <2>3. p \in Seq(Requests) /\ \A n \in DOMAIN p : RequestOK(p[n], jobs, owner)
    BY <2>1, AddAgainType
  <2>4. ASSUME NEW n \in DOMAIN p
        PROVE  /\ p[n].op = "add" /\ p[n].reply.type = "restored"
               /\ p[n].fence = mGeofences[old[n]]
    BY DEF AddAgain, Request, Msg
  <2>5. DOMAIN p = DOMAIN old /\ api_queue' = api_queue \o p
    BY <1>5
  <2> HIDE DEF p
  <2>6. RequestsOK(p, jobs, owner)
    BY <2>3 DEF RequestsOK
  <2>7. \A n \in DOMAIN p : \A id \in BringsBack(p[n], jobs) : InMap(id, old[n])
    BY <2>1, <2>4, <2>5 DEF BringsBack, InMap
  <2>8. \A n, l \in DOMAIN p : \A id : id \in BringsBack(p[n], jobs) /\ id \in BringsBack(p[l], jobs)
                                        => n = l
    BY <1>2, <2>2, <2>5, <2>7 DEF EachOnce, OnePlace
  <2>9. ASSUME NEW n \in DOMAIN p PROVE Unpaused(p[n].reply.type, p[n].fence)
    <3>1. MaxRestarts # 0
      <4>1. 1 \in DOMAIN adapter_queue /\ h = adapter_queue[1]
        BY <1>1, Taken
      <4> QED BY <1>1, <1>2, <4>1 DEF NothingRestarts, UpAt
    <3>2. PauseIsKnown => ~mGeofences[old[n]].paused
      BY <1>2, <2>1, <2>5, <3>1 DEF PauseIsKnown, NothingPaused
    <3> QED BY <2>4, <3>2 DEF Unpaused
  <2>10. Asked(p, h)
    BY <1>1, <2>4, <2>7, <2>8, <2>9 DEF Asked
  <2>11. Takes(p)
    BY <1>1, <1>3, <1>5, <2>5, <2>6, <2>10 DEF Takes
  <2>12. FencesHaveIds' /\ HasFence'
    BY <1>5 DEF FencesHaveIds, HasFence, Empty
  <2> QED BY <2>11, <2>12, TakeAgrees
<1> QED BY <1>4, <1>5 DEF ProcEngineUp, restartGeofences, maps

\* A message more, and what it does not disturb.
LEMMA ExtendUnpaused ==
    ASSUME TInv, NothingPaused, NEW m \in Messages, adapter_queue' = Append(adapter_queue, m),
           Unpaused(m.type, m.fence), UNCHANGED <<setup, mGeofences>>,
           \A k \in DOMAIN api_queue' : \E l \in DOMAIN api_queue : api_queue'[k] = api_queue[l]
    PROVE  NothingPaused'
<1>1. PauseIsKnown' = PauseIsKnown /\ Ops' = Ops
  BY DEF PauseIsKnown, Ops, MaxRestarts
<1>2. \A t, f : Unpaused(t, f)' <=> Unpaused(t, f)
  BY <1>1 DEF Unpaused
<1>3. ASSUME NEW i \in DOMAIN adapter_queue'
      PROVE  Unpaused(adapter_queue'[i].type, adapter_queue'[i].fence)
  <2>1. \/ i \in DOMAIN adapter_queue /\ adapter_queue'[i] = adapter_queue[i]
        \/ adapter_queue'[i] = m
    <3>1. adapter_queue \in Seq(Messages)
      BY DEF TInv, AdapterQueueOK, MessagesOK
    <3> QED BY <3>1, Appended
  <2> QED BY <2>1 DEF NothingPaused
<1>4. \A k \in DOMAIN api_queue' : Unpaused(api_queue'[k].reply.type, api_queue'[k].fence)
  BY DEF NothingPaused
<1> QED BY <1>1, <1>3, <1>4 DEF NothingPaused, Unpaused

LEMMA CommandAgrees ==
    ASSUME TInv, TInv', EInv, ~ClientsMayLeave, Grown(jobs, owner, jobs', owner'),
           NEW op \in Ops \cap JobOps, NEW c, NEW ids \in Seq(Nat), Command(op, c, ids),
           op = "add" => /\ \A i \in DOMAIN ids : ids[i] \notin DOMAIN owner
                         /\ \A i, k \in DOMAIN ids : ids[i] = ids[k] => i = k
    PROVE  EInv'
<1> DEFINE m == [Msg("command") EXCEPT !.job = Len(jobs) + 1]
           job == [op |-> op, client |-> c, ids |-> ids,
                   errs |-> [i \in DOMAIN ids |-> "none"], answered |-> FALSE]
<1>1. /\ UpOnce /\ NobodyLeaves /\ NothingRestarts
      /\ OpsUsed /\ AddsOnce /\ EachOnce /\ FencesHaveIds /\ HasFence
      /\ NothingPaused /\ DownIsEmpty /\ EngineUsed /\ ViewsAgree
  BY DEF EInv
<1>2. /\ adapter_queue' = Append(adapter_queue, m) /\ jobs' = Append(jobs, job)
      /\ UNCHANGED <<setup, maps, api_queue, engine, used, down, restarts>>
  BY DEF Command
<1>3. PICK n : n = Len(jobs) + 1
  OBVIOUS
<1>4. /\ n \in DOMAIN jobs' /\ jobs'[n].op = op /\ jobs'[n].ids = ids
      /\ \A j \in DOMAIN jobs' : j = n \/ (j \in DOMAIN jobs /\ jobs'[j] = jobs[j])
  <2>1. jobs \in Seq(Jobs)
    BY DEF TInv, CommandsOK
  <2>2. job.op = op /\ job.ids = ids
    OBVIOUS
  <2> HIDE DEF job
  <2> QED BY <1>2, <1>3, <2>1, <2>2
<1>5. m \in Messages /\ m.type = "command" /\ m.job = n
  <2>1. Len(jobs) + 1 \in Nat
    BY DEF TInv, CommandsOK
  <2>2. Msg("command") \in Messages
    BY MsgType DEF MessageTypes
  <2> QED BY <1>3, <2>1, <2>2 DEF Messages, Msg
<1> HIDE DEF m, job
<1>6. UpOnce'
  BY <1>1, <1>2, AskNothing, NoStopAsks, UpOnceKept
<1>7. PICK l : l = Len(adapter_queue) + 1
  OBVIOUS
<1>8. /\ \A i \in DOMAIN adapter_queue : /\ adapter_queue'[i] = adapter_queue[i]
                                         /\ UpAt(i)' <=> UpAt(i)
      /\ \A i \in DOMAIN adapter_queue' : i \in DOMAIN adapter_queue \/ i = l
      /\ adapter_queue'[l] = m
      /\ UpAt(l)' <=> m.type = "engine_up"
  BY <1>2, <1>5, <1>7, Extended
<1>9. NobodyLeaves' /\ NothingRestarts'
  BY <1>1, <1>2, <1>5, <1>8 DEF NobodyLeaves, NothingRestarts, ClientsMayLeave, MaxRestarts
<1>10. OpsUsed' /\ AddsOnce'
  BY <1>1, <1>2, <1>4 DEF OpsUsed, AddsOnce, Ops
<1>11. \A id \in Brings(m, jobs') : id \notin DOMAIN owner
  <2>1. ~Gives(m, jobs')
    BY <1>5 DEF Gives, Adds
  <2> QED BY <1>4, <1>5, <2>1 DEF Brings
<1>12. UNCHANGED <<api_queue, mGeofences, mGeofenceIds>>
  BY <1>2 DEF maps
<1>13. EachOnce'
  BY <1>1, <1>2, <1>5, <1>11, <1>12, PlacesPost
<1>14. FencesHaveIds' /\ HasFence' /\ DownIsEmpty' /\ EngineUsed'
  BY <1>1, <1>2, <1>12 DEF FencesHaveIds, HasFence, DownIsEmpty, EngineUsed
<1>15. NothingPaused'
  <2>1. Unpaused(m.type, m.fence)
    BY <1>5 DEF Unpaused
  <2> QED BY <1>1, <1>2, <1>5, <1>12, <2>1, ExtendUnpaused
<1>16. ViewsAgree'
  <2>1. \A f : After(m, jobs', f) = f
    BY <1>5 DEF After
  <2>2. \A f : Numbers(owner', f) /\ (~down => Agree(f, engine)) /\ ~down'
                 => Agree(After(m, jobs', f), engine')
    BY <1>2, <2>1
  <2>3. ~Gives(m, jobs')
    BY <1>5 DEF Gives, Adds
  <2> QED BY <1>1, <1>2, <1>5, <1>12, <2>2, <2>3, ViewsExtend
<1> QED BY <1>6, <1>9, <1>10, <1>13, <1>14, <1>15, <1>16 DEF EInv

LEMMA ClientAgrees ==
    ASSUME TInv, TInv', EInv, ~ClientsMayLeave, Grown(jobs, owner, jobs', owner'), NEW c \in Clients,
           \/ addGeofencesCommand(c)
           \/ \E op \in {"remove", "pause", "resume", "modify"} : OtherCommand(op, c)
           \/ removeClientCommand(c)
    PROVE  EInv'
<1>1. CASE removeClientCommand(c)
  BY <1>1 DEF removeClientCommand
<1>2. CASE addGeofencesCommand(c)
  <2>1. PICK n \in 1..MaxItems : Command("add", c, [i \in 1..n |-> Len(owner) + i])
    BY <1>2 DEF addGeofencesCommand
  <2> DEFINE ids == [i \in 1..n |-> Len(owner) + i]
  <2>2. n \in Nat /\ Len(owner) \in Nat /\ DOMAIN owner = 1..Len(owner)
    BY GeofenceAdapterAssumption DEF TInv, CommandsOK, RestOK, MaxItems
  <2>3. ids \in Seq(Nat) /\ DOMAIN ids = 1..n
    BY <2>2
  <2>4. \A i \in DOMAIN ids : ids[i] \notin DOMAIN owner
    BY <2>2
  <2>5. \A i, k \in DOMAIN ids : ids[i] = ids[k] => i = k
    BY <2>2
  <2>6. "add" \in Ops \cap JobOps
    BY <1>2 DEF addGeofencesCommand, JobOps
  <2> HIDE DEF ids
  <2>7. Command("add", c, ids)
    BY <2>1 DEF ids
  <2> QED BY <2>3, <2>4, <2>5, <2>6, <2>7, CommandAgrees
<1>3. ASSUME NEW op \in {"remove", "pause", "resume", "modify"}, OtherCommand(op, c)
      PROVE  EInv'
  <2>1. PICK I \in SUBSET {id \in DOMAIN owner : owner[id] = c} :
            \E ids \in SetToSeqs(I) : Len(ids) <= MaxItems /\ Command(op, c, ids)
    BY <1>3 DEF OtherCommand
  <2>2. PICK ids \in SetToSeqs(I) : Command(op, c, ids)
    BY <2>1
  <2>3. ids \in [1..Cardinality(I) -> I]
    BY <2>2 DEF SetToSeqs
  <2>4. DOMAIN owner \subseteq Nat /\ DOMAIN owner = 1..Len(owner) /\ Len(owner) \in Nat
    BY DEF TInv, CommandsOK
  <2>5. Cardinality(I) \in Nat
    <3>1. IsFiniteSet(1..Len(owner)) /\ I \subseteq 1..Len(owner)
      BY <2>4, FS_Interval
    <3> QED BY <3>1, FS_Subset, FS_CardinalityType
  <2>6. ids \in Seq(Nat)
    BY <2>3, <2>4, <2>5
  <2>7. op \in Ops \cap JobOps /\ op # "add"
    BY <1>3 DEF OtherCommand, JobOps
  <2> QED BY <2>2, <2>6, <2>7, CommandAgrees
<1> QED BY <1>1, <1>2, <1>3

\* What the engine carries out its response will tell.
LEMMA WithAgrees ==
    ASSUME NEW f, NEW e, NEW hw, NEW v, Agree(f, e)
    PROVE  Agree(With(f, hw, v), With(e, hw, v))
BY DEF Agree, With

LEMMA WithoutAgrees ==
    ASSUME NEW f, NEW e, NEW hw, Agree(f, e)
    PROVE  Agree(Without(f, hw), Without(e, hw))
BY DEF Agree, Without

LEMMA ChangeAgrees ==
    ASSUME NEW O, NEW f, NEW e, Numbers(O, f), Numbers(O, e), Agree(f, e), NEW hw \in DOMAIN e, NEW b
    PROVE  /\ hw \in DOMAIN f
           /\ Agree([f EXCEPT ![hw].paused = b], [e EXCEPT ![hw].paused = b])
           /\ Agree([f EXCEPT ![hw].option = b], [e EXCEPT ![hw].option = b])
           /\ ~PauseIsKnown => Agree(f, [e EXCEPT ![hw].paused = TRUE])
<1>1. DOMAIN f = DOMAIN e /\ hw \in DOMAIN f
  BY DEF Agree
<1>2. /\ \A x \in DOMAIN f : f[x] \in [id : DOMAIN O, paused : BOOLEAN, option : {0, 1}]
      /\ \A x \in DOMAIN e : e[x] \in [id : DOMAIN O, paused : BOOLEAN, option : {0, 1}]
  BY DEF Numbers, FencesOf
<1>3. ASSUME NEW x \in DOMAIN e
      PROVE  /\ f[x].id = e[x].id /\ f[x].option = e[x].option
             /\ f[x].paused => e[x].paused
             /\ PauseIsKnown => f[x].paused = e[x].paused
  BY DEF Agree
<1>4. Agree([f EXCEPT ![hw].paused = b], [e EXCEPT ![hw].paused = b])
  <2> DEFINE f2 == [f EXCEPT ![hw].paused = b]
             e2 == [e EXCEPT ![hw].paused = b]
  <2>1. DOMAIN f2 = DOMAIN e2 /\ DOMAIN e2 = DOMAIN e
    BY <1>1
  <2>2. \A x \in DOMAIN e : x # hw => f2[x] = f[x] /\ e2[x] = e[x]
    BY <1>1
  <2>3. /\ f2[hw].id = f[hw].id /\ f2[hw].option = f[hw].option /\ f2[hw].paused = b
        /\ e2[hw].id = e[hw].id /\ e2[hw].option = e[hw].option /\ e2[hw].paused = b
    BY <1>1, <1>2
  <2> HIDE DEF f2, e2
  <2> QED BY <1>3, <2>1, <2>2, <2>3 DEF Agree
<1>5. Agree([f EXCEPT ![hw].option = b], [e EXCEPT ![hw].option = b])
  <2> DEFINE f2 == [f EXCEPT ![hw].option = b]
             e2 == [e EXCEPT ![hw].option = b]
  <2>1. DOMAIN f2 = DOMAIN e2 /\ DOMAIN e2 = DOMAIN e
    BY <1>1
  <2>2. \A x \in DOMAIN e : x # hw => f2[x] = f[x] /\ e2[x] = e[x]
    BY <1>1
  <2>3. /\ f2[hw].id = f[hw].id /\ f2[hw].paused = f[hw].paused /\ f2[hw].option = b
        /\ e2[hw].id = e[hw].id /\ e2[hw].paused = e[hw].paused /\ e2[hw].option = b
    BY <1>1, <1>2
  <2> HIDE DEF f2, e2
  <2> QED BY <1>3, <2>1, <2>2, <2>3 DEF Agree
<1>6. ASSUME ~PauseIsKnown PROVE Agree(f, [e EXCEPT ![hw].paused = TRUE])
  <2> DEFINE e2 == [e EXCEPT ![hw].paused = TRUE]
  <2>1. DOMAIN f = DOMAIN e2 /\ DOMAIN e2 = DOMAIN e
    BY <1>1
  <2>2. \A x \in DOMAIN e : x # hw => e2[x] = e[x]
    BY <1>1
  <2>3. /\ e2[hw].id = e[hw].id /\ e2[hw].option = e[hw].option /\ e2[hw].paused = TRUE
    BY <1>1, <1>2
  <2> HIDE DEF e2
  <2>4. ASSUME NEW x \in DOMAIN e
        PROVE  f[x].id = e2[x].id /\ f[x].option = e2[x].option /\ (f[x].paused => e2[x].paused)
    <3>1. CASE x = hw
      <4>1. f[x].id = e2[x].id /\ f[x].option = e2[x].option
        BY <1>3, <2>3, <3>1
      <4>2. e2[x].paused
        BY <2>3, <3>1
      <4> QED BY <4>1, <4>2
    <3>2. CASE x # hw
      BY <1>3, <2>2, <3>2
    <3> QED BY <3>1, <3>2
  <2>5. Agree(f, e2)
    BY <1>6, <2>1, <2>4 DEF Agree
  <2> QED BY <2>5 DEF e2
<1> QED BY <1>1, <1>4, <1>5, <1>6

LEMMA CarriedAgrees ==
    ASSUME TInv, NEW r \in Requests, RequestOK(r, jobs, owner), r.op \notin {"turn", "up"},
           r.reply.type # "stopped", Unpaused(r.reply.type, r.fence),
           NEW hw, r.op # "add" => hw = r.hw /\ hw \in DOMAIN engine, Carried(r, hw),
           NEW m, m.type = r.reply.type, m.job = r.reply.job, m.hw = hw, m.ok, m.fence = r.fence,
           NEW f, Numbers(owner, f), Agree(f, engine)
    PROVE  /\ r.reply.type = "none" => Agree(f, engine')
           /\ r.reply.type # "none" => Agree(After(m, jobs, f), engine')
<1>1. DOMAIN f = DOMAIN engine /\ Numbers(owner, engine)
  BY DEF Agree, TInv, EngineOK
<1>2. r.op \in JobOps /\ r.fence \in AnyFence
  BY DEF Requests
<1>3. r.reply.type \in {"answer", "restored", "none"}
  BY DEF RequestOK
<1>4. r.fence.paused = FALSE => [r.fence EXCEPT !.paused = FALSE] = r.fence
  BY <1>2 DEF AnyFence
<1>5. CASE r.reply.type = "restored"
  <2>1. After(m, jobs, f) = With(f, hw, [r.fence EXCEPT !.paused = FALSE])
    BY <1>5 DEF After
  <2>2. engine' = With(engine, hw, [r.fence EXCEPT !.paused = FALSE])
    BY <1>5 DEF Carried, RequestOK
  <2> QED BY <1>5, <2>1, <2>2, WithAgrees
<1>6. CASE r.reply.type = "none"
  <2>1. ~PauseIsKnown
    BY <1>6 DEF Unpaused
  <2>2. r.op = "pause"
    BY <1>6 DEF RequestOK
  <2>3. engine' = [engine EXCEPT ![hw].paused = TRUE] /\ hw \in DOMAIN engine
    BY <2>2 DEF Carried
  <2> QED BY <1>1, <1>6, <2>1, <2>3, ChangeAgrees
<1>7. CASE r.reply.type = "answer"
  <2>0. jobs[m.job].op = r.op
    BY <1>7 DEF RequestOK
  <2>1. CASE r.op = "add"
    <3>1. After(m, jobs, f) = With(f, hw, r.fence)
      BY <1>7, <2>0, <2>1 DEF After
    <3>2. engine' = With(engine, hw, [r.fence EXCEPT !.paused = FALSE])
      BY <2>1 DEF Carried
    <3>3. r.fence.paused = FALSE
      BY <1>2, <1>7 DEF Unpaused, AnyFence
    <3> QED BY <1>4, <1>7, <3>1, <3>2, <3>3, WithAgrees
  <2>2. CASE r.op = "remove"
    <3>1. hw \in DOMAIN f /\ After(m, jobs, f) = Without(f, hw)
      BY <1>1, <1>7, <2>0, <2>2 DEF After
    <3>2. engine' = Without(engine, hw)
      BY <2>2 DEF Carried
    <3> QED BY <1>7, <3>1, <3>2, WithoutAgrees
  <2>3. CASE r.op = "pause"
    <3>1. hw \in DOMAIN engine /\ After(m, jobs, f) = [f EXCEPT ![hw].paused = TRUE]
      BY <1>1, <1>7, <2>0, <2>3 DEF After
    <3>2. engine' = [engine EXCEPT ![hw].paused = TRUE]
      BY <2>3 DEF Carried
    <3>3. Agree([f EXCEPT ![hw].paused = TRUE], [engine EXCEPT ![hw].paused = TRUE])
      BY <1>1, <3>1, ChangeAgrees
    <3> QED BY <1>7, <3>1, <3>2, <3>3
  <2>4. CASE r.op = "resume"
    <3>1. hw \in DOMAIN engine /\ After(m, jobs, f) = [f EXCEPT ![hw].paused = FALSE]
      BY <1>1, <1>7, <2>0, <2>4 DEF After
    <3>2. engine' = [engine EXCEPT ![hw].paused = FALSE]
      BY <2>4 DEF Carried
    <3>3. Agree([f EXCEPT ![hw].paused = FALSE], [engine EXCEPT ![hw].paused = FALSE])
      BY <1>1, <3>1, ChangeAgrees
    <3> QED BY <1>7, <3>1, <3>2, <3>3
  <2>5. CASE r.op = "modify"
    <3>0. PICK o : o = r.fence.option
      OBVIOUS
    <3>1. hw \in DOMAIN engine /\ After(m, jobs, f) = [f EXCEPT ![hw].option = o]
      BY <1>1, <1>7, <2>0, <2>5, <3>0 DEF After
    <3>2. engine' = [engine EXCEPT ![hw].option = o]
      BY <2>5, <3>0 DEF Carried
    <3>3. Agree([f EXCEPT ![hw].option = o], [engine EXCEPT ![hw].option = o])
      BY <1>1, <3>1, ChangeAgrees
    <3> QED BY <1>7, <3>1, <3>2, <3>3
  <2> QED BY <1>2, <2>1, <2>2, <2>3, <2>4, <2>5 DEF JobOps
<1> QED BY <1>3, <1>5, <1>6, <1>7

\* The views when no message is sent.
LEMMA ViewsSame ==
    ASSUME TInv, ViewsAgree, UNCHANGED <<setup, mGeofences, owner, jobs, adapter_queue>>,
           \A f : Numbers(owner, f) /\ (~down => Agree(f, engine)) /\ ~down'
                    => Agree(f, engine')
    PROVE  ViewsAgree'
<1>1. PICK v : /\ v[0] = mGeofences
               /\ \A i \in DOMAIN adapter_queue : v[i] = After(adapter_queue[i], jobs, v[i - 1])
               /\ \A i \in DOMAIN adapter_queue :
                     GivenAt(i) => adapter_queue[i].hw \notin DOMAIN v[i - 1]
               /\ \A i \in 0..Len(adapter_queue) : Numbers(owner, v[i])
               /\ ~down => Agree(v[Len(adapter_queue)], engine)
  BY DEF ViewsAgree
<1>2. Len(adapter_queue) \in 0..Len(adapter_queue)
  BY DEF TInv, AdapterQueueOK, MessagesOK
<1>3. ~down' => Agree(v[Len(adapter_queue)], engine')
  BY <1>1, <1>2
<1>4. ~down' => Agree(v[Len(adapter_queue)], engine)'
  BY <1>3 DEF Agree, PauseIsKnown, Ops, MaxRestarts
<1>5. /\ v[0] = mGeofences'
      /\ \A i \in DOMAIN adapter_queue' : v[i] = After(adapter_queue'[i], jobs', v[i - 1])
      /\ \A i \in DOMAIN adapter_queue' :
            GivenAt(i)' => adapter_queue'[i].hw \notin DOMAIN v[i - 1]
      /\ \A i \in 0..Len(adapter_queue') : Numbers(owner', v[i])
  BY <1>1 DEF GivenAt
<1> QED BY <1>4, <1>5 DEF ViewsAgree

\* The request that is served, and what it leaves alone.
LEMMA Served ==
    ASSUME TInv, EInv, ~ClientsMayLeave, Serve
    PROVE  /\ UNCHANGED <<setup, mGeofences, mGeofenceIds, jobs, owner, restarts>>
           /\ api_queue # <<>> /\ api_queue' = Tail(api_queue)
           /\ Head(api_queue) \in Requests /\ Head(api_queue).reply \in Messages
           /\ RequestOK(Head(api_queue), jobs, owner)
           /\ Head(api_queue).reply.type # "stopped"
           /\ Unpaused(Head(api_queue).reply.type, Head(api_queue).fence)
           /\ MaxRestarts = 0 => Head(api_queue).op # "up" /\ ~down
           /\ \A k \in DOMAIN api_queue' : \E l \in DOMAIN api_queue : api_queue'[k] = api_queue[l]
<1> DEFINE r == Head(api_queue)
<1>1. UpOnce /\ NobodyLeaves /\ NothingRestarts /\ NothingPaused
  BY DEF EInv
<1>2. /\ UNCHANGED <<setup, mGeofences, mGeofenceIds, jobs, owner, restarts>>
      /\ api_queue # <<>> /\ api_queue' = Tail(api_queue)
  BY DEF Serve, maps
<1>3. /\ 1 \in DOMAIN api_queue /\ r = api_queue[1]
      /\ \A k \in DOMAIN api_queue' : \E l \in DOMAIN api_queue : api_queue'[k] = api_queue[l]
  BY <1>2, TailOf DEF TInv, ApiQueueOK, RequestsOK
<1>4. r \in Requests /\ RequestOK(r, jobs, owner)
  BY <1>2, RequestsChange DEF TInv, ApiQueueOK
<1>5. r.reply \in Messages
  BY <1>4 DEF Requests
<1>6. r.reply.type # "stopped" /\ Unpaused(r.reply.type, r.fence)
  BY <1>1, <1>3 DEF NobodyLeaves, NothingPaused
<1>7. MaxRestarts = 0 => r.op # "up" /\ ~down
  BY <1>1, <1>3 DEF NothingRestarts, UpOnce, IsUp
<1> QED BY <1>2, <1>3, <1>4, <1>5, <1>6, <1>7

\* It answers as its reply says, or not at all.
LEMMA AnsweredAgrees ==
    ASSUME TInv, TInv', EInv, ~ClientsMayLeave, Serve, ViewsAgree',
           \/ adapter_queue' = adapter_queue
           \/ \E m \in Messages :
                 /\ adapter_queue' = Append(adapter_queue, m)
                 /\ m.type = Head(api_queue).reply.type /\ Unpaused(m.type, m.fence)
                 /\ Brings(m, jobs) \subseteq BringsBack(Head(api_queue), jobs)
    PROVE  EInv'
<1> DEFINE r == Head(api_queue)
<1>1. /\ UpOnce /\ NobodyLeaves /\ NothingRestarts
      /\ OpsUsed /\ AddsOnce /\ EachOnce /\ FencesHaveIds /\ HasFence
      /\ NothingPaused /\ DownIsEmpty /\ EngineUsed /\ ViewsAgree
  BY DEF EInv
<1>2. /\ UNCHANGED <<setup, mGeofences, mGeofenceIds, jobs, owner, restarts>>
      /\ api_queue # <<>> /\ api_queue' = Tail(api_queue)
      /\ RequestOK(r, jobs, owner) /\ r.reply.type # "stopped"
      /\ MaxRestarts = 0 => r.op # "up" /\ ~down
      /\ \A k \in DOMAIN api_queue' : \E l \in DOMAIN api_queue : api_queue'[k] = api_queue[l]
  BY Served
<1>3. UpOnce'
  BY <1>1, UpOnceServe
<1>13. EngineUsed'
  <2>1. \/ UNCHANGED <<engine, used>>
        \/ r.op \notin {"turn", "up"} /\ \E hw : Carried(r, hw)
    BY DEF Serve
  <2>2. ASSUME NEW hw, r.op \notin {"turn", "up"}, Carried(r, hw)
        PROVE  DOMAIN engine' \subseteq DOMAIN engine \cup {hw}
    <3>1. r.op \in JobOps
      BY <1>2, <2>2, RequestsChange DEF TInv, ApiQueueOK, Requests
    <3> HIDE DEF r
    <3> QED BY <2>2, <3>1 DEF Carried, With, Without, JobOps
  <2>3. \A hw : Carried(r, hw) => used' = used \cup {hw}
    BY DEF Carried
  <2> QED BY <1>1, <2>1, <2>2, <2>3 DEF EngineUsed
<1>4. DownIsEmpty' /\ (down' => down)
  <2>1. down \in BOOLEAN
    BY DEF TInv, RestOK
  <2>2. \/ down' = (down /\ r.op = "turn") /\ engine' = engine
        \/ ~down /\ down' = down
        \/ down' = down /\ engine' = engine
    BY DEF Serve, Possible
  <2> HIDE DEF r
  <2> QED BY <1>1, <2>1, <2>2 DEF DownIsEmpty
<1>5. OpsUsed' /\ AddsOnce' /\ FencesHaveIds' /\ HasFence'
  BY <1>1, <1>2 DEF OpsUsed, AddsOnce, FencesHaveIds, HasFence, Ops
<1>6. EachOnce'
  BY <1>1, <1>2, PlacesServe
<1>7. NothingPaused'
  <2>1. CASE adapter_queue' = adapter_queue
    BY <1>1, <1>2, <2>1 DEF NothingPaused, Unpaused, PauseIsKnown, Ops, MaxRestarts
  <2>2. ASSUME NEW m \in Messages, adapter_queue' = Append(adapter_queue, m), Unpaused(m.type, m.fence)
        PROVE  NothingPaused'
    BY <1>1, <1>2, <2>2, ExtendUnpaused
  <2> QED BY <2>1, <2>2
<1> HIDE DEF r
<1>8. r.op # "up" => r.reply.type # "engine_up"
  BY <1>2 DEF RequestOK
<1>9. r.reply.type # "remove_client"
  BY <1>2 DEF RequestOK
<1>10. \A i \in DOMAIN adapter_queue' :
          \/ i \in DOMAIN adapter_queue /\ adapter_queue'[i] = adapter_queue[i]
          \/ adapter_queue'[i].type = r.reply.type
  <2>1. CASE adapter_queue' = adapter_queue
    BY <2>1
  <2>2. ASSUME NEW m \in Messages, adapter_queue' = Append(adapter_queue, m), m.type = r.reply.type,
               NEW i \in DOMAIN adapter_queue'
        PROVE  \/ i \in DOMAIN adapter_queue /\ adapter_queue'[i] = adapter_queue[i]
               \/ adapter_queue'[i].type = r.reply.type
    <3>1. adapter_queue \in Seq(Messages)
      BY DEF TInv, AdapterQueueOK, MessagesOK
    <3> QED BY <2>2, <3>1, Appended
  <2> QED BY <2>1, <2>2 DEF r
<1>11. NobodyLeaves'
  BY <1>1, <1>2, <1>9, <1>10 DEF NobodyLeaves, ClientsMayLeave
<1>12. NothingRestarts'
  BY <1>1, <1>2, <1>4, <1>8, <1>10 DEF NothingRestarts, UpAt, MaxRestarts
<1> QED BY <1>3, <1>4, <1>5, <1>6, <1>7, <1>11, <1>12, <1>13 DEF EInv

LEMMA TurnServed ==
    ASSUME TInv, TInv', EInv, ~ClientsMayLeave, Serve, Grown(jobs, owner, jobs', owner'),
           Head(api_queue).op \in {"turn", "up"},
           adapter_queue' = Append(adapter_queue, Head(api_queue).reply),
           down' = (down /\ Head(api_queue).op = "turn"), UNCHANGED engine
    PROVE  EInv'
<1> DEFINE r == Head(api_queue)
<1>1. r.reply \in Messages /\ RequestOK(r, jobs, owner)
  BY Served
<1>2. r.op = "turn" => r.reply.type = "turn"
  BY <1>1 DEF RequestOK
<1>3. r.op = "up" => r.reply.type = "engine_up"
  BY <1>1 DEF RequestOK
<1>4. r.op \in {"turn", "up"} /\ ~Gives(r.reply, jobs) /\ Unpaused(r.reply.type, r.reply.fence)
  BY <1>2, <1>3 DEF Gives, Adds, Unpaused
<1>5. Brings(r.reply, jobs) \subseteq BringsBack(r, jobs)
  <2> HIDE DEF r
  <2>1. CASE r.op = "turn"
    BY <2>1 DEF BringsBack, Brings
  <2>2. CASE r.op = "up"
    BY <1>3, <1>4, <2>2 DEF Brings
  <2> QED BY <1>4, <2>1, <2>2
<1>6. ViewsAgree'
  <2>1. DownIsEmpty /\ ViewsAgree /\ UNCHANGED <<setup, mGeofences, jobs, owner>>
    BY Served DEF EInv
  <2>2. ASSUME NEW f, Numbers(owner', f), ~down => Agree(f, engine), ~down'
        PROVE  Agree(After(r.reply, jobs', f), engine')
    <3>1. CASE r.op = "turn"
      <4>1. After(r.reply, jobs', f) = f
        BY <1>2, <3>1 DEF After
      <4>2. down' <=> down
        BY <3>1
      <4> QED BY <2>2, <4>1, <4>2
    <3>2. CASE r.op = "up"
      <4>1. After(r.reply, jobs', f) = IF DOMAIN f = {} THEN f ELSE Empty
        BY <1>3, <3>2 DEF After
      <4>2. DOMAIN After(r.reply, jobs', f) = {}
        BY <4>1 DEF Empty
      <4>3. engine' = Empty
        <5>1. UpOnce /\ 1 \in DOMAIN api_queue /\ r = api_queue[1]
          BY TailOf, Served DEF EInv, TInv, ApiQueueOK, RequestsOK
        <5>2. down
          BY <3>2, <5>1 DEF UpOnce, IsUp
        <5> QED BY <2>1, <5>2 DEF DownIsEmpty
      <4>4. DOMAIN engine' = {}
        BY <4>3 DEF Empty
      <4> HIDE DEF r
      <4> QED BY <4>2, <4>4 DEF Agree
    <3> QED BY <1>4, <3>1, <3>2
  <2> HIDE DEF r
  <2>3. \A f : Numbers(owner', f) /\ (~down => Agree(f, engine)) /\ ~down'
                 => Agree(After(r.reply, jobs', f), engine')
    BY <2>2
  <2>4. adapter_queue' = Append(adapter_queue, r.reply)
    BY DEF r
  <2>5. ~Gives(r.reply, jobs')
    BY <1>4, <2>1
  <2> QED BY <1>1, <2>1, <2>3, <2>4, <2>5, ViewsExtend
<1>7. \E m \in Messages :
         /\ adapter_queue' = Append(adapter_queue, m)
         /\ m.type = Head(api_queue).reply.type /\ Unpaused(m.type, m.fence)
         /\ Brings(m, jobs) \subseteq BringsBack(Head(api_queue), jobs)
  BY <1>1, <1>4, <1>5
<1> QED BY <1>6, <1>7, AnsweredAgrees

\* A request of the engine's, carried out or refused.
LEMMA EngineAnswers ==
    ASSUME TInv, TInv', EInv, ~ClientsMayLeave, Serve, Grown(jobs, owner, jobs', owner'),
           Head(api_queue).op \notin {"turn", "up"}, NEW hw \in Nat, NEW ok \in BOOLEAN,
           Returned(Head(api_queue), hw, ok), UNCHANGED down,
           \/ ~ok /\ UNCHANGED engine
           \/ /\ ok /\ ~down /\ Carried(Head(api_queue), hw)
              /\ Head(api_queue).op # "add" => hw = Head(api_queue).hw /\ hw \in DOMAIN engine
              /\ Head(api_queue).op = "add" => hw \notin DOMAIN engine
    PROVE  EInv'
<1> DEFINE r == Head(api_queue)
           m == [r.reply EXCEPT !.hw = hw, !.ok = ok, !.fence = r.fence]
<1>1. /\ r \in Requests /\ r.reply \in Messages /\ RequestOK(r, jobs, owner)
      /\ r.reply.type # "stopped" /\ Unpaused(r.reply.type, r.fence)
      /\ UNCHANGED <<setup, mGeofences, jobs, owner>>
  BY Served
<1>2. ViewsAgree
  BY DEF EInv
<1>3. /\ m \in Messages /\ m.type = r.reply.type /\ m.job = r.reply.job
      /\ m.hw = hw /\ m.ok = ok /\ m.fence = r.fence
  BY <1>1 DEF Messages, Requests
<1>4. IF r.reply.type = "none" THEN adapter_queue' = adapter_queue
                               ELSE adapter_queue' = Append(adapter_queue, m)
  BY DEF Returned
<1>5. r.op \notin {"turn", "up"} /\ (\/ ~ok /\ UNCHANGED engine
                                     \/ /\ ok /\ ~down /\ Carried(r, hw)
                                        /\ r.op # "add" => hw = r.hw /\ hw \in DOMAIN engine
                                        /\ r.op = "add" => hw \notin DOMAIN engine)
  OBVIOUS
<1> HIDE DEF r, m
<1>6. ASSUME NEW f, Numbers(owner, f), ~down => Agree(f, engine), ~down'
      PROVE  /\ r.reply.type = "none" => Agree(f, engine')
             /\ r.reply.type # "none" => Agree(After(m, jobs, f), engine')
  <2>1. Agree(f, engine)
    BY <1>6
  <2>2. CASE ok
    BY <1>1, <1>3, <1>5, <1>6, <2>1, <2>2, CarriedAgrees
  <2>3. CASE ~ok
    <3>1. engine' = engine
      BY <1>5, <2>3
    <3>2. r.reply.type \in {"answer", "restored", "none"}
      BY <1>1, <1>5 DEF RequestOK
    <3>3. r.reply.type # "none" => After(m, jobs, f) = f
      BY <1>3, <2>3, <3>2 DEF After
    <3> QED BY <2>1, <3>1, <3>3
  <2> QED BY <2>2, <2>3
<1>7. CASE r.reply.type = "none"
  <2>1. ViewsAgree'
    <3>1. \A f : Numbers(owner, f) /\ (~down => Agree(f, engine)) /\ ~down'
                   => Agree(f, engine')
      BY <1>6, <1>7
    <3>2. adapter_queue' = adapter_queue
      BY <1>4, <1>7
    <3> QED BY <1>1, <1>2, <3>1, <3>2, ViewsSame
  <2> QED BY <1>4, <1>7, <2>1, AnsweredAgrees
<1>8. CASE r.reply.type # "none"
  <2>0. adapter_queue' = Append(adapter_queue, m)
    BY <1>4, <1>8
  <2>1. ViewsAgree'
    <3>1. \A f : Numbers(owner', f) /\ (~down => Agree(f, engine)) /\ ~down'
                   => Agree(After(m, jobs', f), engine')
      BY <1>1, <1>6, <1>8
    <3>2. ASSUME NEW f, ~down => Agree(f, engine), Gives(m, jobs') PROVE m.hw \notin DOMAIN f
      <4>1. m.ok /\ r.op = "add"
        BY <1>1, <1>3, <3>2 DEF Gives, Adds, RequestOK
      <4>2. Agree(f, engine) /\ hw \notin DOMAIN engine
        BY <1>3, <1>5, <3>2, <4>1
      <4> QED BY <1>3, <4>2 DEF Agree
    <3> QED BY <1>1, <1>2, <1>3, <2>0, <3>1, <3>2, ViewsExtend
  <2>2. Brings(m, jobs) \subseteq BringsBack(r, jobs)
    <3>1. m.type \notin {"command", "turn"}
      BY <1>1, <1>3, <1>5 DEF RequestOK
    <3>2. Gives(m, jobs) => r.op = "add"
      BY <1>1, <1>3 DEF Gives, Adds, RequestOK
    <3> QED BY <1>3, <3>1, <3>2 DEF Brings, BringsBack
  <2>3. Unpaused(m.type, m.fence)
    BY <1>1, <1>3
  <2> QED BY <1>3, <2>0, <2>1, <2>2, <2>3, AnsweredAgrees DEF r
<1> QED BY <1>7, <1>8

LEMMA ServeAgrees ==
    ASSUME TInv, TInv', EInv, ~ClientsMayLeave, Serve, Grown(jobs, owner, jobs', owner')
    PROVE  EInv'
<1> DEFINE r == Head(api_queue)
<1>1. \/ /\ r.op \in {"turn", "up"}
         /\ adapter_queue' = Append(adapter_queue, r.reply)
         /\ down' = (down /\ r.op = "turn")
         /\ UNCHANGED engine
      \/ /\ r.op \notin {"turn", "up"} /\ Possible(r)
         /\ \E hw \in IF r.op = "add" THEN Free ELSE {r.hw} : Carried(r, hw) /\ Returned(r, hw, TRUE)
         /\ UNCHANGED down
      \/ /\ r.op \notin {"turn", "up"}
         /\ Returned(r, r.hw, FALSE)
         /\ UNCHANGED <<engine, down>>
  BY DEF Serve
<1>2. r.hw \in Nat
  BY Served DEF Requests
<1>3. ASSUME r.op \notin {"turn", "up"}, Possible(r), NEW hw \in IF r.op = "add" THEN Free ELSE {r.hw},
             Carried(r, hw), Returned(r, hw, TRUE), UNCHANGED down
      PROVE  EInv'
  <2>1. hw \in Nat
    BY <1>2, <1>3, GeofenceAdapterAssumption DEF Free
  <2>2. ~down /\ (r.op # "add" => hw = r.hw /\ hw \in DOMAIN engine)
    BY <1>3 DEF Possible
  <2>3. r.op = "add" => hw \notin DOMAIN engine
    BY <1>3 DEF Free, EInv, EngineUsed
  <2> QED BY <1>3, <2>1, <2>2, <2>3, EngineAnswers
<1> QED BY <1>1, <1>2, <1>3, TurnServed, EngineAnswers

\* The engine goes down with all its fences.
LEMMA EngineDownAgrees ==
    ASSUME TInv, TInv', EInv, ~ClientsMayLeave, EngineDown
    PROVE  EInv'
<1> DEFINE r == Request("up", 0, NoFence, Msg("engine_up"))
<1>1. /\ UNCHANGED <<setup, maps, jobs, owner, adapter_queue>> /\ ~down /\ down' = TRUE
      /\ restarts < MaxRestarts /\ api_queue' = Append(api_queue, r) /\ engine' = Empty
  BY DEF EngineDown
<1>2. /\ UpOnce /\ NobodyLeaves /\ NothingRestarts
      /\ OpsUsed /\ AddsOnce /\ EachOnce /\ FencesHaveIds /\ HasFence
      /\ NothingPaused /\ DownIsEmpty /\ EngineUsed /\ ViewsAgree
  BY DEF EInv
<1>3. MaxRestarts # 0
  <2>1. restarts \in Nat /\ setup \in Setups
    BY DEF TInv, RestOK
  <2> QED BY <1>1, <2>1, GeofenceAdapterAssumption DEF MaxRestarts
<1>4. r.op = "up" /\ r.reply.type = "engine_up"
  BY DEF Request, Msg
<1>5. PICK n : n = Len(api_queue) + 1
  OBVIOUS
<1>6. /\ \A i \in DOMAIN api_queue : api_queue'[i] = api_queue[i]
      /\ \A i \in DOMAIN api_queue' : i \in DOMAIN api_queue \/ i = n
      /\ n \in DOMAIN api_queue' /\ api_queue'[n] = r
  <2>1. r \in Requests
    BY MsgType, NoFenceType DEF Request, Requests, MessageTypes
  <2> HIDE DEF r
  <2> QED BY <1>1, <1>5, <2>1, Appended DEF TInv, ApiQueueOK, RequestsOK
<1> HIDE DEF r
<1>7. UpOnce'
  BY <1>1, <1>2, <1>4, <1>6 DEF UpOnce, IsUp
<1>8. NobodyLeaves' /\ NothingRestarts'
  BY <1>1, <1>2, <1>3, <1>4, <1>6 DEF NobodyLeaves, NothingRestarts, ClientsMayLeave, MaxRestarts
<1>9. UNCHANGED <<setup, mGeofences, mGeofenceIds, jobs, owner, adapter_queue>>
  BY <1>1 DEF maps
<1>10. OpsUsed' /\ AddsOnce' /\ FencesHaveIds' /\ HasFence'
  BY <1>2, <1>9 DEF OpsUsed, AddsOnce, FencesHaveIds, HasFence, Ops
<1>11. EachOnce'
  <2>1. ASSUME NEW id, NEW k, InApi(id, k)' PROVE InApi(id, k)
    <3>1. BringsBack(r, jobs) = {}
      BY <1>4 DEF BringsBack
    <3> QED BY <1>6, <1>9, <2>1, <3>1 DEF InApi
  <2>2. \A id, i : InAdapter(id, i)' => InAdapter(id, i)
    BY <1>9 DEF InAdapter
  <2>3. \A id, hw : InMap(id, hw)' => InMap(id, hw)
    BY <1>9 DEF InMap
  <2> QED BY <1>2, <2>1, <2>2, <2>3 DEF EachOnce, OnePlace
<1>12. NothingPaused'
  <2>1. PauseIsKnown' = PauseIsKnown /\ Ops' = Ops
    BY <1>9 DEF PauseIsKnown, Ops, MaxRestarts
  <2>2. Unpaused(r.reply.type, r.fence)
    BY <1>4 DEF Unpaused
  <2>3. \A k \in DOMAIN api_queue' : Unpaused(api_queue'[k].reply.type, api_queue'[k].fence)
    BY <1>2, <1>6, <2>2 DEF NothingPaused
  <2> QED BY <1>2, <1>9, <2>1, <2>3 DEF NothingPaused, Unpaused
<1>13. DownIsEmpty' /\ EngineUsed'
  BY <1>1 DEF DownIsEmpty, EngineUsed, Empty
<1>14. ViewsAgree'
  BY <1>1, <1>2, <1>9, ViewsSame
<1> QED BY <1>7, <1>8, <1>10, <1>11, <1>12, <1>13, <1>14 DEF EInv

----------------------------------------------------------------------------
LEMMA AgreeInit == Init => EInv
<1> SUFFICES ASSUME Init PROVE EInv
  OBVIOUS
<1>1. /\ adapter_queue = <<>> /\ api_queue = <<>> /\ jobs = <<>> /\ down = FALSE
      /\ mGeofences = Empty /\ engine = Empty
  BY DEF Init
<1>2. /\ DOMAIN adapter_queue = {} /\ DOMAIN api_queue = {} /\ DOMAIN jobs = {}
      /\ DOMAIN mGeofences = {} /\ DOMAIN engine = {} /\ Len(adapter_queue) = 0
  BY <1>1 DEF Empty
<1>3. UpOnce /\ NobodyLeaves /\ NothingRestarts
  BY <1>1, <1>2 DEF UpOnce, NobodyLeaves, NothingRestarts
<1>4. /\ OpsUsed /\ AddsOnce /\ FencesHaveIds /\ NothingPaused /\ DownIsEmpty
      /\ HasFence /\ EngineUsed
  <2>1. DOMAIN mGeofenceIds = {}
    BY DEF Init, Empty
  <2> QED BY <1>1, <1>2, <2>1 DEF OpsUsed, AddsOnce, FencesHaveIds, NothingPaused, DownIsEmpty,
                                  HasFence, EngineUsed
<1>5. EachOnce
  BY <1>2 DEF EachOnce, OnePlace, InAdapter, InApi, InMap
<1>6. ViewsAgree
  <2> DEFINE v == [i \in {0} |-> mGeofences]
  <2>1. v[0] = mGeofences /\ 0..Len(adapter_queue) = {0}
    BY <1>2
  <2>2. Numbers(owner, v[0])
    BY <1>2 DEF Numbers
  <2>3. Agree(v[Len(adapter_queue)], engine)
    BY <1>2 DEF Agree
  <2> HIDE DEF v
  <2> QED BY <1>2, <2>1, <2>2, <2>3 DEF ViewsAgree
<1> QED BY <1>3, <1>4, <1>5, <1>6 DEF EInv

LEMMA AgreeStays ==
    ASSUME TInv, TInv', EInv, ~ClientsMayLeave, UNCHANGED vars
    PROVE  EInv'
<1>1. /\ UNCHANGED <<setup, mGeofences, mGeofenceIds, owner, jobs, adapter_queue, api_queue>>
      /\ UNCHANGED <<engine, used, down>>
  BY DEF vars
<1>2. /\ UpOnce /\ NobodyLeaves /\ NothingRestarts
      /\ OpsUsed /\ AddsOnce /\ EachOnce /\ FencesHaveIds /\ HasFence
      /\ NothingPaused /\ DownIsEmpty /\ EngineUsed /\ ViewsAgree
  BY DEF EInv
<1>3. UpOnce' /\ NobodyLeaves' /\ NothingRestarts'
  BY <1>1, <1>2 DEF UpOnce, IsUp, NobodyLeaves, NothingRestarts, UpAt, ClientsMayLeave, MaxRestarts
<1>4. /\ OpsUsed' /\ AddsOnce' /\ FencesHaveIds' /\ HasFence'
      /\ DownIsEmpty' /\ EngineUsed'
  BY <1>1, <1>2 DEF OpsUsed, AddsOnce, FencesHaveIds, HasFence, DownIsEmpty, EngineUsed, Ops
<1>5. EachOnce'
  <2>1. \A id, i : InAdapter(id, i)' => InAdapter(id, i)
    BY <1>1 DEF InAdapter
  <2>2. \A id, k : InApi(id, k)' => InApi(id, k)
    BY <1>1 DEF InApi
  <2>3. \A id, hw : InMap(id, hw)' => InMap(id, hw)
    BY <1>1 DEF InMap
  <2> QED BY <1>2, <2>1, <2>2, <2>3 DEF EachOnce, OnePlace
<1>6. NothingPaused'
  BY <1>1, <1>2 DEF NothingPaused, Unpaused, PauseIsKnown, Ops, MaxRestarts
<1>7. ViewsAgree'
  BY <1>1, <1>2, ViewsSame
<1> QED BY <1>3, <1>4, <1>5, <1>6, <1>7 DEF EInv

LEMMA NobodyIsRemoved ==
    ASSUME TInv, NobodyLeaves, ~ClientsMayLeave
    PROVE  ~ProcRemoveClient /\ ~ProcStopped
<1>1. adapter_queue # <<>> => /\ 1 \in DOMAIN adapter_queue
                              /\ Head(adapter_queue) = adapter_queue[1]
  BY TailOf DEF TInv, AdapterQueueOK, MessagesOK
<1> QED BY <1>1 DEF NobodyLeaves, ProcRemoveClient, ProcStopped, Comes

LEMMA AgreeStep ==
    ASSUME TInv, EInv, [Next]_vars
    PROVE  TInv' /\ EInv'
<1>1. TInv' /\ Grown(jobs, owner, jobs', owner')
  BY StepType
<1>2. setup' = setup
  <2>1. CASE UNCHANGED vars
    BY <2>1 DEF vars
  <2>2. CASE Next
    BY <2>2 DEF Next, addGeofencesCommand, OtherCommand, Command, removeClientCommand,
         ProcCommand, ProcTurn, ProcAnswer, ProcRemoveClient, ProcStopped, ProcEngineUp,
         ProcRestored, Serve, EngineDown
  <2> QED BY <2>1, <2>2
<1>3. CASE ClientsMayLeave
  BY <1>1, <1>2, <1>3 DEF EInv, ClientsMayLeave
<1>4. CASE ~ClientsMayLeave
  <2>1. CASE UNCHANGED vars
    BY <1>1, <1>4, <2>1, AgreeStays
  <2>2. CASE Next
    <3>1. ~ProcRemoveClient /\ ~ProcStopped
      BY <1>4, NobodyIsRemoved DEF EInv
    <3> QED BY <1>1, <1>4, <2>2, <3>1, ClientAgrees, ProcCommandAgrees, ProcTurnAgrees,
               ProcAnswerAgrees, ProcEngineUpAgrees, ProcRestoredAgrees, ServeAgrees,
               EngineDownAgrees DEF Next
  <2> QED BY <2>1, <2>2
<1> QED BY <1>3, <1>4

\* With nothing under way the last view is the map itself.
LEMMA ViewIsMap ==
    ASSUME TInv, EInv
    PROVE  EngineAgrees
<1>0. SUFFICES ASSUME Quiet, ~ClientsMayLeave
               PROVE  /\ DOMAIN mGeofences = DOMAIN engine
                      /\ \A hw \in DOMAIN engine :
                            /\ engine[hw] = [mGeofences[hw] EXCEPT !.paused = engine[hw].paused]
                            /\ mGeofences[hw].paused => engine[hw].paused
                            /\ PauseIsKnown => engine[hw] = mGeofences[hw]
  BY DEF EngineAgrees
<1>1. Agree(mGeofences, engine)
  <2>1. Len(adapter_queue) = 0 /\ ~down
    BY <1>0 DEF Quiet
  <2> QED BY <1>0, <2>1 DEF EInv, ViewsAgree
<1>2. /\ \A hw \in DOMAIN mGeofences : mGeofences[hw] \in FencesOf(owner)
      /\ \A hw \in DOMAIN engine : engine[hw] \in FencesOf(owner)
  BY DEF TInv, MapsOK, EngineOK, Numbers
<1>3. ASSUME NEW f \in FencesOf(owner), NEW e \in FencesOf(owner), f.id = e.id, f.option = e.option
      PROVE  /\ e = [f EXCEPT !.paused = e.paused]
             /\ f.paused = e.paused => e = f
  BY <1>3 DEF FencesOf
<1> QED BY <1>1, <1>2, <1>3 DEF Agree

\* The adapter has the fences that the engine has whenever nothing is under
\* way: for all clients that stay, whatever they ask, however often the engine
\* refuses or restarts, and also when it gives a number again that a removed
\* fence had.
THEOREM GeofenceEngineAgrees == Spec => []EngineAgrees
<1>1. Init => TInv /\ EInv
  BY GeofenceInitType, AgreeInit
<1>2. TInv /\ EInv /\ [Next]_vars => TInv' /\ EInv'
  BY AgreeStep
<1>3. TInv /\ EInv => EngineAgrees
  BY ViewIsMap
<1> QED BY <1>1, <1>2, <1>3, PTL DEF Spec

\* An id with a number of the engine's has the fence of that number, whatever
\* the clients ask and the engine refuses.  For clients that stay that is so
\* however often the engine restarts and whichever numbers it gives again.  For
\* clients that leave it is so when the engine gives no number twice between two
\* restarts and nobody leaves while it restarts; there may be any number of either.
THEOREM GeofenceIdsHaveFences == Spec => []IdsHaveFences
<1>1. Init => TInv /\ HInv /\ EInv
  BY GeofenceInitType, GeofenceInit, AgreeInit
<1>2. TInv /\ HInv /\ EInv /\ [Next]_vars => TInv' /\ HInv' /\ EInv'
  BY GeofenceStep, AgreeStep
<1>3. TInv /\ HInv /\ EInv => IdsHaveFences
  BY TypesOK DEF HInv, EInv, HasFence, IdsHaveFences
<1> QED BY <1>1, <1>2, <1>3, PTL DEF Spec
================================================================================
