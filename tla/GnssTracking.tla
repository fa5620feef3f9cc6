------------------------------ MODULE GnssTracking ------------------------------
(***************************************************************************)
(* Tracking sessions of the GNSS adapter (gps/gnss/GnssAdapter.cpp): many  *)
(* sessions of many clients over an engine that runs one time based        *)
(* session, and its restart with the modem.                                *)
(*                                                                         *)
(* Two threads serve queues: the adapter's, and that of LocApiBase, whose  *)
(* requests are answered in order by messages to the adapter.  A handler   *)
(* is one action.  A client's command may come between any two of the      *)
(* adapter's other messages, so it is not queued in the model but run.     *)
(* Options are reduced to what the multiplexing compares, and the fall     *)
(* back from M4 to M2 for long times between measurements is left out.     *)
(***************************************************************************)
EXTENDS Naturals, Sequences, FiniteSets, Functions

CONSTANTS
    Clients,
    Trackers,     \* the clients that have a tracking or measurement callback
    Setups        \* the environments and bounds considered

ASSUME GnssTrackingAssumption ==
    /\ Trackers \subseteq Clients
    /\ \A s \in Setups :
        /\ s.intervals \subseteq Nat /\ s.powers \subseteq 0..5 /\ s.distances \subseteq BOOLEAN
        /\ {s.minInterval, s.sessions, s.updates, s.stops, s.restarts} \subseteq Nat
        /\ {s.distanceSupported, s.restartAnytime, s.mayRemove, s.mayFail} \subseteq BOOLEAN

INVALID == 0
Empty == <<>>

VARIABLES
    clients,      \* mClientData
    owner,        \* the client of each session id handed out
    time, dist,   \* mTimeBasedTrackingSessions, mDistanceBasedTrackingSessions
    mPowerOn,
    known,        \* mIsEngineCapabilitiesKnown
    mPendingMsgs,
    api,          \* queue of the LocApi thread
    inbox,        \* queue of the adapter, without the clients' commands
    up,           \* the connection to the engine is open
    engine,       \* what the engine runs: the time based session, and the others
    asked, told,  \* per session: commands issued, responses given
    ended,        \* the sessions their client asked to stop
    updates, stops, restarts,
    setup         \* chosen at the start, never changed

\* What a client may ask for: minInterval, powerMode, and minDistance > 0.
Intervals == setup.intervals
Powers    == setup.powers
Distances == setup.distances
ClientOptions == [interval : Intervals, power : Powers, distance : Distances]

DistanceSupported == setup.distanceSupported  \* of the engine, isMessageSupported
MinInterval    == setup.minInterval           \* MIN_TRACKING_INTERVAL
RestartAnytime == setup.restartAnytime  \* the modem restarts also with requests under way
MayRemove      == setup.mayRemove       \* a client may be destroyed
MayFail        == setup.mayFail         \* an engine that is up may refuse a request

\* Bounds.
MaxSessions == setup.sessions
MaxUpdates  == setup.updates
MaxStops    == setup.stops
MaxRestarts == setup.restarts

Ids == 1..MaxSessions
Options == [interval : Intervals \cup {MinInterval}, power : Powers, distance : Distances]

sessions == <<time, dist, mPowerOn>>
bounds == <<updates, stops, restarts>>
vars == <<setup, clients, owner, sessions, known, mPendingMsgs, api, inbox, up, engine,
          asked, told, ended, bounds>>

Request(op, id, o, then, old) ==
    [op |-> op, id |-> id, opts |-> o, then |-> then, old |-> old]
NoOptions == [interval |-> 0, power |-> INVALID, distance |-> FALSE]
Open == Request("open", 0, NoOptions, "engineUp", NoOptions)

\* The one sequence of the elements of S in their order, that of the maps.
InOrder(S) == {q \in [1..Cardinality(S) -> S] : \A i, j \in DOMAIN q : i < j => q[i] < q[j]}

Init ==
    /\ setup \in Setups
    /\ clients = Clients
    /\ owner = <<>>
    /\ time = Empty
    /\ dist = Empty
    /\ mPowerOn = FALSE
    /\ known = FALSE
    /\ mPendingMsgs = <<>>
    /\ api = <<Open>>
    /\ inbox = <<>>
    /\ up = FALSE
    /\ engine = [time |-> {}, dist |-> {}]
    /\ asked = [i \in Ids |-> 0]
    /\ told  = [i \in Ids |-> 0]
    /\ ended = {}
    /\ updates = 0 /\ stops = 0 /\ restarts = 0

----------------------------------------------------------------------------
\* The multiplexing.

\* The first session, in the order of the map, with the smallest interval.
Fastest(S) ==
    CHOOSE s \in S : \A t \in S \ {s} :
        \/ time[s].interval < time[t].interval
        \/ time[s].interval = time[t].interval /\ s < t

\* The loops replace an INVALID minimum by whatever comes next.
LowestPower(S) ==
    LET reset == {s \in S : time[s].power = INVALID}
        tail  == {s \in S : \A r \in reset : r < s}
    IN  IF tail = {} THEN INVALID
        ELSE CHOOSE p \in {time[s].power : s \in tail} :
                 \A s \in tail : p <= time[s].power

\* The mutant ignores the interval.
MergedPowerOnly(S, o) ==
    LET f == time[Fastest(S)]
        stronger == o.power < LowestPower(S)
    IN  IF stronger THEN <<[f EXCEPT !.power = o.power]>> ELSE <<>>

\* What the engine is asked to run when a session with options o joins S: at
\* most one request, none if o asks for no more than S does.
Merged(S, o) ==
    LET f == time[Fastest(S)]
        faster   == o.interval < f.interval
        stronger == o.power < LowestPower(S)
    IN  IF faster \/ stronger
        THEN <<[f EXCEPT !.interval = IF faster THEN o.interval ELSE @,
                         !.power = IF stronger THEN o.power ELSE @]>>
        ELSE <<>>

StartOptions(o) ==
    IF time = Empty THEN <<o>> ELSE Merged(DOMAIN time, o)

UpdateOptions(id, o) ==
    LET others == DOMAIN time \ {id}
    IN  IF time[id].interval = o.interval /\ time[id].power = o.power THEN <<>>
        ELSE IF others = {} THEN <<o>>
        ELSE Merged(others, o)

StartRequests(id, options, then, old) ==
    [k \in 1..Len(options) |-> Request("startTime", id, options[k], then, old)]

\* What the engine is asked when a session goes: to stop after the last one,
\* and to change if the session alone needed what the engine runs.
StopRequests(id) ==
    LET others == DOMAIN time \ {id}
        f == time[Fastest(others)]
        p == LowestPower(others)
    IN  IF others = {}
        THEN <<Request("stopFix", id, NoOptions, "report", NoOptions)>>
        ELSE IF time[id].interval < f.interval \/ time[id].power < p
        THEN StartRequests(id, <<[f EXCEPT !.power = p]>>, "eraseOnError", NoOptions)
        ELSE <<>>

----------------------------------------------------------------------------

\* Every change of the maps ends in reportPowerStateIfChanged.
SetSessions(t, d) ==
    /\ time' = t
    /\ dist' = d
    /\ mPowerOn' = (t # Empty \/ d # Empty)

ByDistance(o) == o.distance /\ DistanceSupported

With(f, id, o) == [s \in DOMAIN f \cup {id} |-> IF s = id THEN o ELSE f[s]]

\* saveTrackingSession
Save(t, d, id, o) ==
    IF ByDistance(o) THEN SetSessions(t, With(d, id, o)) ELSE SetSessions(With(t, id, o), d)

Without(f, id) == Restrict(f, DOMAIN f \ {id})

\* eraseTrackingSession
Erase(id) ==
    IF id \in DOMAIN time THEN SetSessions(Without(time, id), dist)
                          ELSE SetSessions(time, Without(dist, id))

\* A response to a client that is not registered is dropped.
Report(id) ==
    told' = IF owner'[id] \in clients THEN [told EXCEPT ![id] = @ + 1] ELSE told

Ask(requests) == api' = api \o requests

\* The mutant answers at once although the engine was asked.
AskAndReport(id, requests) == Ask(requests) /\ Report(id)

\* The response is given at once unless a request was made that answers it.
AskOrReport(id, requests) ==
    /\ Ask(requests)
    /\ IF requests = <<>> THEN Report(id) ELSE UNCHANGED told

Raised(o) == [o EXCEPT !.interval = IF @ < MinInterval THEN MinInterval ELSE @]

----------------------------------------------------------------------------
\* Handlers of the clients' messages.

Postpone(what, id, o) ==
    /\ mPendingMsgs' = Append(mPendingMsgs, Request("", id, o, what, NoOptions))
    /\ UNCHANGED <<sessions, api, told>>

\* A client without a callback gets no response.
ProcStart(id, o) ==
    IF ~known /\ o.distance THEN Postpone("start", id, o)
    ELSE /\ UNCHANGED mPendingMsgs
         /\ IF owner'[id] \notin clients \cap Trackers
            THEN UNCHANGED <<sessions, api, told>>
            ELSE IF ByDistance(o)
            THEN /\ Save(time, dist, id, Raised(o))
                 /\ Ask(<<Request("startDist", id, Raised(o), "eraseOnError", NoOptions)>>)
                 /\ UNCHANGED told
            ELSE /\ AskOrReport(id, StartRequests(id, StartOptions(Raised(o)),
                                                  "eraseOnError", NoOptions))
                 /\ Save(time, dist, id, Raised(o))

\* The stopped session is erased, or saved as one by distance, before the
\* engine has answered.
TimeToDistance(id, o) ==
    LET stop == StopRequests(id)
    IN  /\ Ask(Append(stop, Request("startDist", id, o, "nothing", NoOptions)))
        /\ IF stop = <<>> THEN Report(id) ELSE UNCHANGED told
        /\ Save(Without(time, id), dist, id, o)

DistanceToTime(id, o) ==
    /\ Erase(id)
    /\ Ask(<<Request("stopDist", id, o, "startTime", NoOptions)>>)
    /\ UNCHANGED told

UpdateTime(id, o) ==
    /\ AskOrReport(id, StartRequests(id, UpdateOptions(id, o), "restoreOnError", time[id]))
    /\ Save(time, dist, id, o)

UpdateDistance(id, o) ==
    /\ Ask(<<Request("stopDist", id, o, "startDist", NoOptions)>>)
    /\ UNCHANGED <<sessions, told>>

ProcUpdate(id, o) ==
    IF ~known /\ o.distance THEN Postpone("update", id, o)
    ELSE /\ UNCHANGED mPendingMsgs
         /\ IF id \notin DOMAIN time \cup DOMAIN dist
            THEN Report(id) /\ UNCHANGED <<sessions, api>>
            ELSE IF id \in DOMAIN time /\ o.distance THEN TimeToDistance(id, Raised(o))
            ELSE IF id \in DOMAIN dist /\ ~o.distance THEN DistanceToTime(id, Raised(o))
            ELSE IF id \in DOMAIN time THEN UpdateTime(id, Raised(o))
            ELSE UpdateDistance(id, Raised(o))

ProcStop(id) ==
    /\ UNCHANGED mPendingMsgs
    /\ IF id \in DOMAIN time
       THEN AskOrReport(id, StopRequests(id)) /\ Erase(id)
       ELSE IF id \in DOMAIN dist
       THEN /\ Ask(<<Request("stopDist", id, NoOptions, "eraseOnSuccess", NoOptions)>>)
            /\ UNCHANGED <<sessions, told>>
       ELSE Report(id) /\ UNCHANGED <<sessions, api>>

StartTracking(c, o) ==
    /\ c \in clients
    /\ Len(owner) < MaxSessions
    /\ owner' = Append(owner, c)
    /\ asked' = [asked EXCEPT ![Len(owner')] = @ + 1]
    /\ ProcStart(Len(owner'), o)
    /\ UNCHANGED <<setup, clients, known, inbox, up, engine, ended, bounds>>

Command(id) ==
    /\ id \in DOMAIN owner
    /\ owner[id] \in clients
    /\ owner' = owner
    /\ asked' = [asked EXCEPT ![id] = @ + 1]
    /\ UNCHANGED <<setup, clients, known, inbox, up, engine>>

UpdateTrackingOptions(id, o) ==
    /\ updates < MaxUpdates
    /\ updates' = updates + 1
    /\ Command(id)
    /\ ProcUpdate(id, o)
    /\ UNCHANGED <<ended, stops, restarts>>

StopTracking(id) ==
    /\ stops < MaxStops
    /\ stops' = stops + 1
    /\ ended' = ended \cup {id}
    /\ Command(id)
    /\ ProcStop(id)
    /\ UNCHANGED <<updates, restarts>>

\* MsgRemoveClient: stopClientSessions, eraseClient.  The time based sessions
\* stay in the map.
RemoveClient(c) ==
    LET own(f) == {s \in DOMAIN f : owner[s] = c}
        needed == {s \in own(time) : StopRequests(s) # <<>>}
        stopDist(s) == Request("stopDist", s, NoOptions, "dropOnSuccess", NoOptions)
    IN  /\ MayRemove
        /\ c \in clients
        /\ \E t \in InOrder(needed), d \in InOrder(own(dist)) :
              Ask([k \in DOMAIN t |-> Head(StopRequests(t[k]))]
                  \o [k \in DOMAIN d |-> stopDist(d[k])])
        /\ clients' = clients \ {c}
        /\ UNCHANGED <<setup, owner, sessions, known, mPendingMsgs, inbox, up, engine,
                       asked, told, ended, bounds>>

----------------------------------------------------------------------------
\* The LocApi thread and the engine.

Executed(e, r) ==
    CASE r.op = "startTime" -> [e EXCEPT !.time = {r.opts}]
      [] r.op = "stopFix"   -> [e EXCEPT !.time = {}]
      [] r.op = "startDist" -> [e EXCEPT !.dist = @ \cup {r.id}]
      [] r.op = "stopDist"  -> [e EXCEPT !.dist = @ \ {r.id}]
      [] r.op = "open"      -> e

\* A request to an engine that is down fails.
LocApi ==
    /\ api # <<>>
    /\ api' = Tail(api)
    /\ LET r == Head(api)
       IN  \E err \in BOOLEAN :
           /\ err => r.op # "open" /\ (MayFail \/ ~up)
           /\ ~err => r.op = "open" \/ up
           /\ engine' = IF err THEN engine ELSE Executed(engine, r)
           /\ up'     = (up \/ r.op = "open")
           /\ inbox'  = Append(inbox, [r |-> r, err |-> err])
    /\ UNCHANGED <<setup, clients, owner, sessions, known, mPendingMsgs, asked, told, ended, bounds>>

\* handleEngineDownEvent: LocSsrMsg closes and opens the connection again.
ModemRestarts ==
    /\ up
    /\ restarts < MaxRestarts
    /\ RestartAnytime \/ (api = <<>> /\ inbox = <<>>)
    /\ restarts' = restarts + 1
    /\ up' = FALSE
    /\ engine' = [time |-> {}, dist |-> {}]
    /\ Ask(<<Open>>)
    /\ UNCHANGED <<setup, clients, owner, sessions, known, mPendingMsgs, inbox, asked, told,
                   ended, updates, stops>>

----------------------------------------------------------------------------
\* The adapter: the engine is up, and the responses.

\* restartSessions: an INVALID power of the first session is kept, later ones
\* are passed over.
Restarted ==
    LET T == DOMAIN time
        valid == {s \in T : time[s].power # INVALID}
        first == CHOOSE s \in T : \A t \in T : s <= t
        power == IF time[first].power = INVALID THEN INVALID
                 ELSE CHOOSE p \in {time[s].power : s \in valid} :
                          \A s \in valid : p <= time[s].power
        again(s) == Request("startDist", s, dist[s], "nothing", NoOptions)
    IN  \E d \in InOrder(DOMAIN dist) :
            Ask((IF T = {} THEN <<>>
                 ELSE <<Request("startTime", 0, [time[Fastest(T)] EXCEPT !.power = power],
                                "nothing", NoOptions)>>)
                \o [k \in DOMAIN d |-> again(d[k])])

Answer == Head(inbox)

Message(thens) ==
    /\ inbox # <<>>
    /\ Answer.r.then \in thens
    /\ UNCHANGED <<setup, clients, owner, up, engine, asked, ended, bounds>>

Received(thens) ==
    /\ Message(thens)
    /\ inbox' = Tail(inbox)
    /\ UNCHANGED known

\* The pending messages are posted again.
EngineUp ==
    /\ Message({"engineUp"})
    /\ known' = TRUE
    /\ Restarted
    /\ inbox' = Tail(inbox) \o [k \in 1..Len(mPendingMsgs) |->
                                    [r |-> mPendingMsgs[k], err |-> FALSE]]
    /\ mPendingMsgs' = <<>>
    /\ UNCHANGED <<sessions, told>>

Pended ==
    \/ Received({"start"})  /\ ProcStart(Answer.r.id, Answer.r.opts)
    \/ Received({"update"}) /\ ProcUpdate(Answer.r.id, Answer.r.opts)

\* Responses that only report, or not even that.
Reported ==
    \/ /\ Received({"report"})
       /\ Report(Answer.r.id)
       /\ UNCHANGED <<sessions, api, mPendingMsgs>>
    \/ /\ Received({"nothing"})
       /\ UNCHANGED <<sessions, api, mPendingMsgs, told>>

\* The mutant reports only success.
StartedSilently ==
    /\ Received({"eraseOnError"})
    /\ IF Answer.err THEN Erase(Answer.r.id) /\ UNCHANGED told
                    ELSE Report(Answer.r.id) /\ UNCHANGED sessions
    /\ UNCHANGED <<api, mPendingMsgs>>

Started ==
    /\ Received({"eraseOnError"})
    /\ IF Answer.err THEN Erase(Answer.r.id) ELSE UNCHANGED sessions
    /\ Report(Answer.r.id)
    /\ UNCHANGED <<api, mPendingMsgs>>

Updated ==
    /\ Received({"restoreOnError"})
    /\ IF Answer.err THEN Save(time, dist, Answer.r.id, Answer.r.old)
                    ELSE UNCHANGED sessions
    /\ Report(Answer.r.id)
    /\ UNCHANGED <<api, mPendingMsgs>>

StoppedDistance ==
    /\ Received({"eraseOnSuccess", "dropOnSuccess"})
    /\ IF Answer.err THEN UNCHANGED sessions ELSE Erase(Answer.r.id)
    /\ IF Answer.r.then = "eraseOnSuccess" THEN Report(Answer.r.id) ELSE UNCHANGED told
    /\ UNCHANGED <<api, mPendingMsgs>>

\* The rest of the two updates of a session by distance.
SwitchedToTime ==
    /\ Received({"startTime"})
    /\ AskOrReport(Answer.r.id,
           StartRequests(Answer.r.id, StartOptions(Answer.r.opts), "eraseOnError", NoOptions))
    /\ Save(time, dist, Answer.r.id, Answer.r.opts)
    /\ UNCHANGED mPendingMsgs

StoppedForUpdate ==
    /\ Received({"startDist"})
    /\ IF Answer.err THEN UNCHANGED api
       ELSE Ask(<<Request("startDist", Answer.r.id, Answer.r.opts, "saveOnSuccess", NoOptions)>>)
    /\ UNCHANGED <<sessions, told, mPendingMsgs>>

UpdatedDistance ==
    /\ Received({"saveOnSuccess"})
    /\ IF Answer.err THEN UNCHANGED sessions
                    ELSE Save(time, dist, Answer.r.id, Answer.r.opts)
    /\ Report(Answer.r.id)
    /\ UNCHANGED <<api, mPendingMsgs>>

Adapter ==
    \/ EngineUp \/ Pended \/ Reported \/ Started \/ Updated
    \/ StoppedDistance \/ SwitchedToTime \/ StoppedForUpdate \/ UpdatedDistance

Next ==
    \/ \E c \in Clients, o \in ClientOptions : StartTracking(c, o)
    \/ \E id \in Ids, o \in ClientOptions : UpdateTrackingOptions(id, o)
    \/ \E id \in Ids : StopTracking(id)
    \/ \E c \in Clients : RemoveClient(c)
    \/ LocApi \/ ModemRestarts \/ Adapter

Spec == Init /\ [][Next]_vars

\* Both threads serve their queues.
FairSpec == Spec /\ WF_vars(LocApi) /\ WF_vars(Adapter)

----------------------------------------------------------------------------
TypeOK ==
    /\ setup \in Setups
    /\ clients \subseteq Clients
    /\ owner \in Seq(Clients) /\ Len(owner) <= MaxSessions
    /\ DOMAIN time \cup DOMAIN dist \subseteq DOMAIN owner
    /\ \A s \in DOMAIN time : time[s] \in Options /\ ~ByDistance(time[s])
    /\ \A s \in DOMAIN dist : dist[s] \in Options /\ ByDistance(dist[s])
    /\ {mPowerOn, known, up} \subseteq BOOLEAN
    /\ \A k \in DOMAIN mPendingMsgs : mPendingMsgs[k].then \in {"start", "update"}
    /\ \A k \in DOMAIN api : api[k].op \in {"open", "startTime", "stopFix", "startDist",
                                         "stopDist"}
    /\ engine.dist \subseteq Ids
    /\ asked \in [Ids -> Nat] /\ told \in [Ids -> Nat]
    /\ ended \subseteq Ids

Sessions == DOMAIN time \cup DOMAIN dist

\* Nothing is under way between the adapter and the engine.
Settled == up /\ api = <<>> /\ inbox = <<>> /\ mPendingMsgs = <<>>

\* Settled, in an environment where no request fails and no client goes, and
\* the modem restarts only when nothing is under way.
Gentle == Settled /\ ~MayFail /\ ~MayRemove /\ ~RestartAnytime

\* No client asks for a distance.
TimeOnly == Distances = {FALSE}

\* The engine serves every session by time that is in the map: LocationAPI.h:69
\* answers a start with success "if session was successfully started".
StartedMeansServed ==
    Settled => \A s \in DOMAIN time : \E e \in engine.time : e.interval <= time[s].interval

\* In a gentle environment the engine serves exactly the sessions there are: it
\* runs at an interval that serves every session by time, "the smallest interval,
\* which should be the active one" (GnssAdapter.cpp:2154), and runs every session
\* by distance whose options were updated at most once, also after it restarted
\* (GnssAdapter.cpp:2176); a session by time that its client stopped is over, no
\* late answer brings it back, and the engine does not run for nobody
\* (GnssAdapter.cpp:2829).
EngineServesSessions ==
    Gentle =>
        /\ StartedMeansServed
        /\ (updates <= 1 => DOMAIN dist \subseteq engine.dist)
        /\ (TimeOnly =>
                /\ ended \cap Sessions = {}
                /\ (time = Empty => engine.time = {}))

\* A command gets no second response, whatever fails or restarts.
AnsweredOnce == TypeOK /\ \A id \in Ids : told[id] <= asked[id]

\* Every command gets its response, also when the engine refuses or the modem
\* restarts, as long as all clients have a callback and nobody changes the
\* options of a session.
EveryCommandIsAnswered ==
    \A id \in 1..2 :
        MaxUpdates = 0 /\ ~MayRemove /\ Clients = Trackers
            /\ id \in Ids /\ told[id] < asked[id]
        ~> (id \in Ids => told[id] = asked[id])
=============================================================================
