---------------------------- MODULE GeofenceAdapter ----------------------------
(***************************************************************************)
(* The geofence adapter (gps/geofence/GeofenceAdapter): the two maps       *)
(* between the clients' fences and the engine's, the commands on several   *)
(* fences at once with their collective response, clients that leave, and  *)
(* the restart of the engine, after which every fence is added again.      *)
(*                                                                         *)
(* Two threads work through queues: the adapter's message thread, and the  *)
(* thread of LocApiBase, which hands the requests to the engine one after  *)
(* the other and sends each response back to the adapter's queue.  The     *)
(* engine itself is external.  A fence is reduced to whether it is paused  *)
(* and to which of two options it has.                                     *)
(***************************************************************************)
EXTENDS Naturals, Sequences, FiniteSets, SequencesExt

CONSTANTS
    HwIds,           \* the engine's numbers for its fences
    Setups           \* the environments and bounds considered

ASSUME GeofenceAdapterAssumption ==
    /\ HwIds \subseteq Nat /\ IsFiniteSet(HwIds)
    /\ \A s \in Setups :
        /\ s.ops \subseteq {"add", "remove", "pause", "resume", "modify"}
        /\ {s.clientsWait, s.clientsLeave, s.engineRefuses, s.engineReuses} \subseteq BOOLEAN
        /\ {s.items, s.commands, s.fences, s.restarts} \subseteq Nat

VARIABLES
    mGeofences,      \* engine's number -> fence
    mGeofenceIds,    \* client's id -> engine's number
    mClientData,     \* the clients there are
    owner,           \* per id handed out: whose it is
    jobs,            \* per command: its items and what was answered
    adapter_queue, api_queue,
    engine,          \* external: engine's number -> fence
    used,            \* external: the numbers it has used since it started
    down,            \* external: restarted, and not opened again
    told,            \* ghost: per id, what its client was last told of it
    apart,           \* ghost: no client left while the engine restarted
    restarts,        \* bound
    setup            \* chosen at the start, never changed

Clients         == setup.clients        \* the LocationAPI objects
Ops             == setup.ops            \* the commands they use
ClientsWait     == setup.clientsWait    \* a client only names fences it was told were added
ClientsMayLeave == setup.clientsLeave
EngineMayRefuse == setup.engineRefuses
EngineReuses    == setup.engineReuses   \* a removed fence's number is given to another
MaxItems        == setup.items          \* fences in a command

\* Bounds.
MaxCommands == setup.commands
MaxFences   == setup.fences
MaxRestarts == setup.restarts

vars == <<setup, mGeofences, mGeofenceIds, mClientData, owner, jobs, adapter_queue, api_queue,
          engine, used, down, told, apart, restarts>>

maps == <<mGeofences, mGeofenceIds>>

Without(f, x) == [y \in DOMAIN f \ {x} |-> f[y]]
With(f, x, v) == [y \in DOMAIN f \cup {x} |-> IF y = x THEN v ELSE f[y]]

Empty == [x \in {} |-> 0]

\* The one sequence of the elements of S in their order, that of the maps.
InOrder(S) == {q \in [1..Cardinality(S) -> S] : \A i, j \in DOMAIN q : i < j => q[i] < q[j]}
Fence(id, paused, option) == [id |-> id, paused |-> paused, option |-> option]
NoFence == Fence(0, FALSE, 0)

\* A message of the adapter's thread.  Those of a command carry its job.
Msg(type) == [type |-> type, job |-> 0, item |-> 0, hw |-> 0, ok |-> TRUE,
              fence |-> NoFence, client |-> 0]
\* A request to the engine, and the message that takes the response back.
Request(op, hw, fence, reply) == [op |-> op, hw |-> hw, fence |-> fence, reply |-> reply]
Turn(j, i) == [Msg("turn") EXCEPT !.job = j, !.item = i]

Init ==
    /\ setup \in Setups
    /\ mGeofences = Empty
    /\ mGeofenceIds = Empty
    /\ mClientData = Clients
    /\ owner = <<>>
    /\ jobs = <<>>
    /\ adapter_queue = <<>>
    /\ api_queue = <<>>
    /\ engine = Empty
    /\ used = {}
    /\ down = FALSE
    /\ told = <<>>
    /\ apart = TRUE
    /\ restarts = 0

----------------------------------------------------------------------------
\* The clients' threads.

\* Commands.  addGeofencesCommand hands out the ids before the fences exist.
Command(op, c, ids) ==
    /\ Len(jobs) < MaxCommands
    /\ jobs' = Append(jobs, [op |-> op, client |-> c, ids |-> ids,
                             errs |-> [i \in DOMAIN ids |-> "none"], answered |-> FALSE])
    /\ adapter_queue' = Append(adapter_queue, [Msg("command") EXCEPT !.job = Len(jobs) + 1])
    /\ UNCHANGED <<setup, maps, mClientData, api_queue, engine, used, down, apart, restarts>>

Leaving(c) == \E i \in DOMAIN adapter_queue : /\ adapter_queue[i].type = "remove_client"
                                              /\ adapter_queue[i].client = c
Here(c) == c \in mClientData /\ ~Leaving(c)

addGeofencesCommand(c) ==
    /\ "add" \in Ops /\ Here(c)
    /\ \E n \in 1..MaxItems :
          /\ Len(owner) + n <= MaxFences
          /\ Command("add", c, [i \in 1..n |-> Len(owner) + i])
          /\ owner' = owner \o [i \in 1..n |-> c]
          /\ told' = told \o [i \in 1..n |-> [state |-> "none", option |-> 0]]

\* remove-, pause-, resume- and modifyGeofencesCommand.
OtherCommand(op, c) ==
    /\ op \in Ops /\ Here(c)
    /\ \E I \in SUBSET {id \in DOMAIN owner : owner[id] = c} :
          /\ I # {} /\ \A id \in I : ClientsWait => told[id].state # "none"
          /\ \E ids \in SetToSeqs(I) : Len(ids) <= MaxItems /\ Command(op, c, ids)
    /\ UNCHANGED <<owner, told>>

removeClientCommand(c) ==
    /\ ClientsMayLeave /\ Here(c)
    /\ adapter_queue' = Append(adapter_queue, [Msg("remove_client") EXCEPT !.client = c])
    /\ UNCHANGED <<setup, maps, mClientData, owner, jobs, api_queue, engine, used, down, told, apart, restarts>>

----------------------------------------------------------------------------
\* The adapter's thread: one message at a time.

Comes(type) == adapter_queue # <<>> /\ Head(adapter_queue).type = type
Done == adapter_queue' = Tail(adapter_queue)

\* Every item of a command waits for its turn in the queue of LocApiBase.
ProcCommand ==
    /\ Comes("command") /\ Done
    /\ LET j == Head(adapter_queue).job
       IN  api_queue' = api_queue \o [i \in DOMAIN jobs[j].ids |->
                                        Request("turn", 0, NoFence, Turn(j, i))]
    /\ UNCHANGED <<setup, maps, mClientData, owner, jobs, engine, used, down, told, apart, restarts>>

\* What a client believes after a response.
Believes(t, op, err) ==
    IF err # "ok" THEN t
    ELSE CASE op = "add"    -> [state |-> "active", option |-> 0]
           [] op = "remove" -> [t EXCEPT !.state = "gone"]
           [] op = "pause"  -> [t EXCEPT !.state = "paused"]
           [] op = "resume" -> [t EXCEPT !.state = "active"]
           [] op = "modify" -> [t EXCEPT !.option = 1]

\* An item has its error, and the last item sends the collective response
\* (reportResponse), after which the arrays of the command are freed.
ItemDone(j, i, err) ==
    LET job == jobs[j]
        errs == [job.errs EXCEPT ![i] = IF err = "kept" THEN @ ELSE err]
        last == i = Len(job.ids)
    IN  /\ jobs' = [jobs EXCEPT ![j].errs = errs, ![j].answered = @ \/ last]
        /\ told' = IF last /\ job.client \in mClientData
                   THEN [id \in DOMAIN told |->
                           IF \E n \in DOMAIN errs : job.ids[n] = id
                           THEN Believes(told[id], job.op,
                                         errs[CHOOSE n \in DOMAIN errs : job.ids[n] = id])
                           ELSE told[id]]
                   ELSE told

\* The mutant leaves the error of an unknown id at its initial value.
TurnOfUnchecked(j, i) ==
    LET job == jobs[j]
        id == job.ids[i]
        option == IF job.op = "modify" THEN 1 ELSE 0
        ask(hw) == Append(api_queue, Request(job.op, hw, Fence(id, FALSE, option),
                                             [Turn(j, i) EXCEPT !.type = "answer"]))
    IN  IF job.op = "add"
        THEN api_queue' = ask(0) /\ UNCHANGED <<jobs, told>>
        ELSE IF id \in DOMAIN mGeofenceIds      \* getHwIdFromClient
        THEN /\ api_queue' = ask(mGeofenceIds[id])
             /\ jobs' = [jobs EXCEPT ![j].errs[i] = "ok"]
             /\ UNCHANGED told
        ELSE ItemDone(j, i, "ok") /\ UNCHANGED api_queue

\* An item's turn: it is looked up, and goes to the engine.  No client under src
\* passes NULL options or infos, after which nothing is reported (:242, :578).
TurnOf(j, i) ==
    LET job == jobs[j]
        id == job.ids[i]
        option == IF job.op = "modify" THEN 1 ELSE 0
        ask(hw) == Append(api_queue, Request(job.op, hw, Fence(id, FALSE, option),
                                             [Turn(j, i) EXCEPT !.type = "answer"]))
    IN  IF job.op = "add"
        THEN api_queue' = ask(0) /\ UNCHANGED <<jobs, told>>
        ELSE IF id \in DOMAIN mGeofenceIds      \* getHwIdFromClient
        THEN /\ api_queue' = ask(mGeofenceIds[id])
             /\ jobs' = [jobs EXCEPT ![j].errs[i] = "ok"]
             /\ UNCHANGED told
        ELSE ItemDone(j, i, "unknown") /\ UNCHANGED api_queue

ProcTurn ==
    /\ Comes("turn") /\ Done
    /\ TurnOf(Head(adapter_queue).job, Head(adapter_queue).item)
    /\ UNCHANGED <<setup, maps, mClientData, owner, engine, used, down, apart, restarts>>

saveGeofenceItem(fence, hw) ==
    /\ mGeofences' = With(mGeofences, hw, fence)
    /\ mGeofenceIds' = With(mGeofenceIds, fence.id, hw)

\* The mutant leaves the id in the other map.
RemoveHalf(hw) ==
    /\ mGeofences' = Without(mGeofences, hw)
    /\ UNCHANGED mGeofenceIds

removeGeofenceItem(hw) ==
    IF hw \in DOMAIN mGeofences /\ mGeofences[hw].id \in DOMAIN mGeofenceIds
    THEN /\ mGeofences' = Without(mGeofences, hw)
         /\ mGeofenceIds' = Without(mGeofenceIds, mGeofences[hw].id)
    ELSE UNCHANGED maps

pauseGeofenceItem(hw, paused) ==
    /\ mGeofences' = IF hw \in DOMAIN mGeofences
                     THEN [mGeofences EXCEPT ![hw].paused = paused] ELSE mGeofences
    /\ UNCHANGED mGeofenceIds

modifyGeofenceItem(hw, option) ==
    /\ mGeofences' = IF hw \in DOMAIN mGeofences
                     THEN [mGeofences EXCEPT ![hw].option = option] ELSE mGeofences
    /\ UNCHANGED mGeofenceIds

Applied(op, m) ==
    CASE op = "add"    -> saveGeofenceItem(m.fence, m.hw)
      [] op = "remove" -> removeGeofenceItem(m.hw)
      [] op = "pause"  -> pauseGeofenceItem(m.hw, TRUE)
      [] op = "resume" -> pauseGeofenceItem(m.hw, FALSE)
      [] op = "modify" -> modifyGeofenceItem(m.hw, m.fence.option)

\* The mutant does for every command what is done for a failed resume.
AnswerSuccessOnly(m) ==
    IF m.ok THEN Applied(jobs[m.job].op, m) /\ ItemDone(m.job, m.item, "ok")
    ELSE UNCHANGED <<maps, jobs, told>>

\* The engine's response for an item.  A failed modify leaves the error of
\* the lookup, and a failed resume does nothing at all.
Answer(m) ==
    LET op == jobs[m.job].op
    IN  /\ IF m.ok THEN Applied(op, m) ELSE UNCHANGED maps
        /\ IF m.ok \/ op # "resume"
           THEN ItemDone(m.job, m.item,
                         IF m.ok THEN "ok" ELSE IF op = "modify" THEN "kept" ELSE "fail")
           ELSE UNCHANGED <<jobs, told>>

ProcAnswer ==
    /\ Comes("answer") /\ Done
    /\ Answer(Head(adapter_queue))
    /\ UNCHANGED <<setup, mClientData, owner, api_queue, engine, used, down, apart, restarts>>

Restarting == down \/ \E i \in DOMAIN adapter_queue : adapter_queue[i].type = "engine_up"

\* stopClientSessions, eraseClient.  The fences go when the engine says so.
ProcRemoveClient ==
    /\ Comes("remove_client") /\ Done
    /\ LET c == Head(adapter_queue).client
           mine == {id \in DOMAIN mGeofenceIds : owner[id] = c}
       IN  /\ mGeofenceIds' = [id \in DOMAIN mGeofenceIds \ mine |-> mGeofenceIds[id]]
           /\ \E ids \in InOrder(mine) :
                 api_queue' = api_queue \o
                     [n \in DOMAIN ids |->
                        Request("remove", mGeofenceIds[ids[n]], Fence(ids[n], FALSE, 0),
                                Msg("stopped"))]
           /\ mClientData' = mClientData \ {c}
           /\ apart' = (apart /\ (mine = {} \/ ~Restarting))
    /\ UNCHANGED <<setup, mGeofences, owner, jobs, engine, used, down, told, restarts>>

ProcStopped ==
    /\ Comes("stopped") /\ Done
    /\ mGeofences' = IF Head(adapter_queue).ok
                     THEN Without(mGeofences, Head(adapter_queue).hw) ELSE mGeofences
    /\ UNCHANGED <<setup, mGeofenceIds, mClientData, owner, jobs, api_queue, engine, used, down, told,
                   apart, restarts>>

----------------------------------------------------------------------------
\* The engine restarts.

AddAgain(fence) == Request("add", 0, fence, [Msg("restored") EXCEPT !.fence = fence])

\* The mutant does not forget the engine's old numbers.
RestartKeepsMaps ==
    /\ \E old \in InOrder(DOMAIN mGeofences) :
          api_queue' = api_queue \o [n \in DOMAIN old |-> AddAgain(mGeofences[old[n]])]
    /\ UNCHANGED maps

restartGeofences ==
    IF DOMAIN mGeofences = {} THEN UNCHANGED <<maps, api_queue>>
    ELSE /\ mGeofences' = Empty
         /\ mGeofenceIds' = Empty
         /\ \E old \in InOrder(DOMAIN mGeofences) :
               api_queue' = api_queue \o [n \in DOMAIN old |-> AddAgain(mGeofences[old[n]])]

ProcEngineUp ==
    /\ Comes("engine_up") /\ Done
    /\ restartGeofences
    /\ UNCHANGED <<setup, mClientData, owner, jobs, engine, used, down, told, apart, restarts>>

\* A fence is there again.  It is saved as one that is not paused.
ProcRestored ==
    /\ Comes("restored") /\ Done
    /\ LET m == Head(adapter_queue)
       IN  IF m.ok
           THEN /\ saveGeofenceItem([m.fence EXCEPT !.paused = FALSE], m.hw)
                /\ api_queue' = IF m.fence.paused
                                THEN Append(api_queue, Request("pause", m.hw, m.fence, Msg("none")))
                                ELSE api_queue
           ELSE UNCHANGED <<maps, api_queue>>
    /\ UNCHANGED <<setup, mClientData, owner, jobs, engine, used, down, told, apart, restarts>>

----------------------------------------------------------------------------
\* The thread of LocApiBase, and the engine (external).  Until the engine was
\* opened again after a restart it refuses everything.

Free == HwIds \ IF EngineReuses THEN DOMAIN engine ELSE used
Possible(r) == ~down /\ IF r.op = "add" THEN Free # {} ELSE r.hw \in DOMAIN engine

Carried(r, hw) ==
    /\ used' = used \cup {hw}
    /\ engine' = CASE r.op = "add"    -> With(engine, hw, [r.fence EXCEPT !.paused = FALSE])
                   [] r.op = "remove" -> Without(engine, hw)
                   [] r.op = "pause"  -> [engine EXCEPT ![hw].paused = TRUE]
                   [] r.op = "resume" -> [engine EXCEPT ![hw].paused = FALSE]
                   [] r.op = "modify" -> [engine EXCEPT ![hw].option = r.fence.option]

\* returnToSender
Returned(r, hw, ok) ==
    adapter_queue' = IF r.reply.type = "none" THEN adapter_queue
                     ELSE Append(adapter_queue, [r.reply EXCEPT !.hw = hw, !.ok = ok, !.fence = r.fence])

Serve ==
    /\ api_queue # <<>>
    /\ api_queue' = Tail(api_queue)
    /\ LET r == Head(api_queue)
       IN  \/ /\ r.op \in {"turn", "up"}         \* addToCallQueue; LocSsrMsg
              /\ adapter_queue' = Append(adapter_queue, r.reply)
              /\ down' = (down /\ r.op = "turn")
              /\ UNCHANGED <<engine, used>>
           \/ /\ r.op \notin {"turn", "up"} /\ Possible(r)
              /\ \E hw \in IF r.op = "add" THEN Free ELSE {r.hw} :
                    Carried(r, hw) /\ Returned(r, hw, TRUE)
              /\ UNCHANGED down
           \/ /\ r.op \notin {"turn", "up"} /\ (EngineMayRefuse \/ ~Possible(r))
              /\ Returned(r, r.hw, FALSE)
              /\ UNCHANGED <<engine, used, down>>
    /\ UNCHANGED <<setup, maps, mClientData, owner, jobs, told, apart, restarts>>

\* The fences of a client that has left are being removed.
Removing == \/ \E i \in DOMAIN api_queue : api_queue[i].reply.type = "stopped"
            \/ \E i \in DOMAIN adapter_queue : adapter_queue[i].type = "stopped"

\* handleEngineDownEvent.
EngineDown ==
    /\ restarts < MaxRestarts /\ ~down
    /\ restarts' = restarts + 1
    /\ apart' = (apart /\ ~Removing)
    /\ engine' = Empty
    /\ used' = {}
    /\ down' = TRUE
    /\ api_queue' = Append(api_queue, Request("up", 0, NoFence, Msg("engine_up")))
    /\ UNCHANGED <<setup, maps, mClientData, owner, jobs, adapter_queue, told>>

Next ==
    \/ \E c \in Clients :
          \/ addGeofencesCommand(c)
          \/ \E op \in {"remove", "pause", "resume", "modify"} : OtherCommand(op, c)
          \/ removeClientCommand(c)
    \/ ProcCommand \/ ProcTurn \/ ProcAnswer
    \/ ProcRemoveClient \/ ProcStopped
    \/ ProcEngineUp \/ ProcRestored
    \/ Serve \/ EngineDown

Adapter ==
    \/ ProcCommand \/ ProcTurn \/ ProcAnswer
    \/ ProcRemoveClient \/ ProcStopped
    \/ ProcEngineUp \/ ProcRestored

\* Both threads go on as long as there is something in their queue.
Spec == Init /\ [][Next]_vars
FairSpec == Spec /\ WF_vars(Adapter) /\ WF_vars(Serve)

----------------------------------------------------------------------------
Ids == 1..MaxFences
Fences == [id : Ids, paused : BOOLEAN, option : {0, 1}]

\* The maps relate engine's numbers and ids that were handed out; an item has
\* one of the errors there are.
TypeOK ==
    /\ DOMAIN mGeofences \subseteq HwIds
    /\ \A hw \in DOMAIN mGeofences : mGeofences[hw] \in Fences
    /\ DOMAIN mGeofenceIds \subseteq DOMAIN owner
    /\ \A id \in DOMAIN mGeofenceIds : mGeofenceIds[id] \in HwIds
    /\ DOMAIN engine \subseteq HwIds
    /\ \A hw \in DOMAIN engine : engine[hw] \in Fences
    /\ mClientData \subseteq Clients
    /\ \A j \in DOMAIN jobs : Range(jobs[j].errs) \subseteq {"none", "ok", "fail", "unknown"}
    /\ DOMAIN told = DOMAIN owner

Quiet == adapter_queue = <<>> /\ api_queue = <<>> /\ ~down

\* The engine gives no number twice between two restarts.
Fresh == ~EngineReuses

\* The engine neither restarts nor refuses what is possible.
Steady == MaxRestarts = 0 /\ ~EngineMayRefuse

\* The two maps of the adapter: an id that has a number of the engine's has
\* the fence of that number.  That is so for clients that stay, over an engine
\* that restarts, refuses and gives numbers again (:249, :165).  It is so too when
\* clients leave, unless one leaves while the engine restarts, where its removals
\* go by numbers from before, or while its own removal of the same fence is under
\* way and the engine gives the number to another fence in between (:61).
IdsHaveFences ==
    /\ TypeOK
    /\ ~ClientsMayLeave \/ (Fresh /\ apart) => \A id \in DOMAIN mGeofenceIds :
        /\ mGeofenceIds[id] \in DOMAIN mGeofences
        /\ mGeofences[mGeofenceIds[id]].id = id

\* When nothing is under way the adapter has the fences the engine has, the
\* ones it would add again after a restart, whatever restarts and refusals met
\* each other and whichever numbers the engine gives again; a client that leaves
\* with a removal under way is the exception.  A fence that was paused before a
\* restart is paused again in the engine only: the adapter has it as active.
PauseIsKnown == "pause" \notin Ops \/ MaxRestarts = 0
EngineAgrees ==
    Quiet /\ ~ClientsMayLeave =>
        /\ DOMAIN mGeofences = DOMAIN engine
        /\ \A hw \in DOMAIN engine :
              /\ engine[hw] = [mGeofences[hw] EXCEPT !.paused = engine[hw].paused]
              /\ mGeofences[hw].paused => engine[hw].paused
              /\ PauseIsKnown => engine[hw] = mGeofences[hw]

\* When nothing is under way the engine has a client's fences as the
\* collective responses have said: in a steady environment, for commands of any
\* clients, in any order, on any fences, with clients that leave in between.
PromiseKept ==
    Quiet /\ Fresh /\ Steady => \A id \in {x \in DOMAIN told : owner[x] \in mClientData} :
        LET there == {hw \in DOMAIN engine : engine[hw].id = id}
        IN  CASE told[id].state = "gone" -> there = {}
              [] told[id].state = "none" -> TRUE
              [] OTHER -> \E hw \in there :
                             /\ engine[hw].paused = (told[id].state = "paused")
                             /\ engine[hw].option = told[id].option

\* Every command gets its collective response, also when the engine refuses or
\* restarts; only a refused resume does not.
EveryCommandAnswered ==
    \A j \in 1..4 : "resume" \notin Ops /\ Len(jobs) >= j
                        ~> (Len(jobs) >= j /\ jobs[j].answered)
=============================================================================
