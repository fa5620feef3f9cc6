--------------------------- MODULE LocationBatching ---------------------------
(***************************************************************************)
(* Batching from the client to the engine: a LocationAPIClientBase, the    *)
(* LocationAPI it calls (gps/location/LocationAPI.cpp), the batching       *)
(* adapter, and the thread of LocApiBase that takes its requests to the    *)
(* engine one after the other and posts the responses back.  The adapter   *)
(* of the tracking sessions is what GnssTracking shows of it: it answers   *)
(* every command once, at any time.  The engine is external: it refuses    *)
(* what it does not have, measures the trip it runs, reports once that it  *)
(* is over, and forgets everything when it restarts.                       *)
(***************************************************************************)
EXTENDS LocationAPIClientBase

CONSTANT Setups  \* what a behaviour may do, see MCLocationBatching

VARIABLES
    setup,      \* the one this behaviour has
    c,          \* LocationAPIClientBase
    a,          \* BatchingAdapter
    inbox,      \* the queue of the adapters' thread
    api,        \* the queue of LocApiBase's thread
    gnss,       \* commands the tracking adapter has not answered
    engine,
    app         \* the destroy of the LocationAPI object, the counts, and what really happened

vars == <<setup, c, a, inbox, api, gnss, engine, app>>

NoTrip == [on |-> FALSE, distance |-> 0, interval |-> 0, acc |-> 0, over |-> FALSE]
NewEngine == [batches |-> NoSessions, trip |-> NoTrip]

Init ==
    /\ setup \in Setups
    /\ c = NewClient
    /\ a = saveClient(NewAdapter(setup.known))
    /\ inbox = <<>> /\ api = <<>> /\ gnss = {}
    /\ engine = NewEngine
    /\ app = [destroy |-> "no", waitAdapterMask |-> {}, late |-> FALSE,
              hasty |-> FALSE,          \* a call on a session that was being removed
              calls |-> 0, sessions |-> 0, updates |-> 0, restarts |-> 0,
              refused |-> <<>>,         \* what the engine refused
              way |-> 0,                \* how far the device has gone
              trips |-> NoSessions,     \* session -> [at, distance], where it started
              early |-> FALSE,          \* a trip was over too early
              forgot |-> FALSE,         \* a new batch while others were on their way
              asked |-> <<>>,           \* per call: what the adapter was asked
              wants |-> NoSessions]     \* session -> options, as the client was told

\* The adapters' thread is in a callback.
Calling == a.says # <<>> \/ IsResponding(c)
Settled == inbox = <<>> /\ api = <<>> /\ gnss = {} /\ a.mPendingMsgs = <<>> /\ ~Calling
--------------------------------------------------------------------------------
(* The client.                                                             *)

MayCall(id) ==
    /\ app.calls < setup.calls /\ app.destroy = "no" /\ ~a.lost
    /\ setup.client = "patient" => Settled
    /\ setup.client \in {"patient", "waits"} => c.open = {}
    /\ setup.client = "orderly" => \A w \in c.open: w.id # id

\* LocationAPI hands the commands of a call on id on to the adapters.
Call(id, d, updates) ==
    LET to(adapter) == SelectSeq(d.cmds, LAMBDA m: m.to = adapter)
        batching == [n \in DOMAIN to("batching") |-> [what |-> "command", command |-> to("batching")[n]]]
    IN /\ d.cmds # <<>>
       /\ c' = [d EXCEPT !.cmds = <<>>]
       /\ inbox' = inbox \o batching
       /\ gnss' = gnss \cup ToSet(to("gnss"))
       /\ app' = [app EXCEPT !.calls = @ + 1, !.updates = @ + updates,
                             !.hasty = @ \/ UnderRemoval(c, id),
                             !.sessions = @ + Cardinality({n \in DOMAIN d.cmds: d.cmds[n].what = "start"}),
                             !.asked = Append(@, IF batching = <<>> THEN <<>> ELSE to("batching")[1])]
       /\ UNCHANGED <<setup, a, api, engine>>

NextSession == app.sessions + 1
NextCall == app.calls + 1

Start(id, o) == MayCall(id) /\ Call(id, locAPIStartSession(c, id, o, NextSession, NextCall), 0)
Stop(id) == /\ MayCall(id)
            /\ \E d \in Within(c, id): Call(id, locAPIStopSession(d, id, NextCall), 0)
Update(id, o) ==
    /\ MayCall(id) /\ app.updates < setup.updates
    /\ \E d \in WithinUpdate(c, id):
           Call(id, locAPIUpdateSessionOptions(d, id, o, NextSession, NextCall), 1)
GetBatched(id) ==
    /\ setup.gets /\ MayCall(id)
    /\ \E d \in Within(c, id): Call(id, locAPIGetBatchedLocations(d, id, NextCall), 0)
Track == /\ setup.tracks /\ MayCall(0)
         /\ \/ Call(0, locAPIStartTracking(c, NextSession, NextCall), 0)
            \/ Call(0, locAPIStopTracking(c, NextCall), 0)
            \/ Call(0, locAPIUpdateTrackingOptions(c, NextCall), 0)

\* LocationAPI::destroy, of a client of both adapters.
Destroy ==
    /\ setup.destroys /\ app.destroy = "no" /\ ~a.lost
    /\ app' = [app EXCEPT !.destroy = "asked", !.waitAdapterMask = {"gnss", "batching"}]
    /\ inbox' = inbox \o <<[what |-> "removeClient", adapter |-> "gnss"],
                           [what |-> "removeClient", adapter |-> "batching"]>>
    /\ UNCHANGED <<setup, c, a, api, gnss, engine>>
--------------------------------------------------------------------------------
(* The adapters' thread.                                                   *)

\* What the client may rely on after a response.
Wanted(wants, m) ==
    IF m.call = 0 \/ ~m.ok THEN wants
    ELSE LET asked == app.asked[m.call]
         IN CASE asked.what \in {"start", "update"} -> (m.id :> asked.options) @@ wants
              [] asked.what = "stop" -> Without(wants, m.id)
              [] OTHER -> wants

TooEarly(m) == \E id \in m.ids: app.way < app.trips[id].at + app.trips[id].distance

\* The thread is through with a message, after which the adapter is b and has
\* the callbacks in says before it.
Through(b) ==
    /\ a' = [b EXCEPT !.asks = <<>>, !.posts = <<>>]
    /\ api' = api \o b.asks
    /\ inbox' = Tail(inbox) \o [n \in DOMAIN b.posts |-> [what |-> "command", command |-> b.posts[n]]]

Comes(what) == inbox # <<>> /\ Head(inbox).what = what /\ ~Calling /\ ~a.lost

HandleCommand == /\ Comes("command") /\ Through(Command(a, Head(inbox).command))
                 /\ UNCHANGED <<setup, c, gnss, engine, app>>

HandleAnswer == /\ Comes("answer")
                /\ Through(Answered(a, Head(inbox).request, Head(inbox).ok, Head(inbox).acc))
                /\ UNCHANGED <<setup, c, gnss, engine, app>>

HandleCompleted == /\ Comes("completed")
                   /\ \E tbf, distance \in BOOLEAN:
                          Through(CompletedTrips(a, Head(inbox).acc, tbf, distance))
                   /\ UNCHANGED <<setup, c, gnss, engine, app>>

HandleEngineUp == /\ Comes("up") /\ Through(MsgSSREvent(a))
                  /\ UNCHANGED <<setup, c, gnss, engine, app>>

\* onRemoveClientCompleteCb: the last adapter ends the destroy.
RemovedFrom(wait, adapter) ==
    [wait |-> wait \ {adapter}, destroy |-> IF wait \ {adapter} = {} THEN "done" ELSE "asked"]

HandleRemoveClient ==
    /\ Comes("removeClient")
    /\ LET m == Head(inbox)
           b == IF m.adapter = "batching" THEN MsgRemoveClient(a) ELSE a
       IN /\ Through([b EXCEPT !.says = Append(@, [what |-> "removed", adapter |-> m.adapter])])
          /\ gnss' = IF m.adapter = "gnss" THEN {} ELSE gnss
          /\ app' = [app EXCEPT !.wants = IF m.adapter = "batching" THEN NoSessions ELSE @]
    /\ UNCHANGED <<setup, c, engine>>

\* The thread calls back, up to the removal of a session if there is one.
CallBack ==
    /\ a.says # <<>> /\ ~IsResponding(c)
    /\ LET m == Head(a.says)
           heard == [app EXCEPT !.late = @ \/ app.destroy = "done"]
       IN \/ /\ m.what = "response"
             /\ c' = onResponseCb(c, m)
             /\ app' = [heard EXCEPT !.wants = Wanted(@, m)]
          \/ /\ m.what = "completed"
             /\ c' = beforeBatchingStatusCb(c, m.ids)
             /\ app' = [heard EXCEPT !.early = @ \/ TooEarly(m)]
          \/ /\ m.what = "removed"
             /\ LET left == RemovedFrom(app.waitAdapterMask, m.adapter)
                IN app' = [heard EXCEPT !.waitAdapterMask = left.wait, !.destroy = left.destroy]
             /\ UNCHANGED c
    /\ a' = [a EXCEPT !.says = Tail(@)]
    /\ UNCHANGED <<setup, inbox, api, gnss, engine>>

RemoveSessions == /\ IsResponding(c) /\ c' = finishResponse(c)
                  /\ UNCHANGED <<setup, a, inbox, api, gnss, engine, app>>

\* The tracking adapter answers a command.
TrackingAnswers(m, ok) ==
    /\ ~Calling /\ ~a.lost /\ (ok \/ Len(app.refused) < setup.refusals)
    /\ gnss' = gnss \ {m}
    /\ c' = onResponseCb(c, [ok |-> ok, id |-> m.id, call |-> m.call])
    /\ app' = [app EXCEPT !.refused = IF ok THEN @ ELSE Append(@, m.what),
                          !.late = @ \/ app.destroy = "done"]
    /\ UNCHANGED <<setup, a, inbox, api, engine>>
--------------------------------------------------------------------------------
(* The engine and LocApiBase's thread.                                     *)

Carried(r) ==
    CASE r.what = "startBatching" -> [engine EXCEPT !.batches = (r.id :> r.options) @@ @]
      [] r.what = "stopBatching" -> [engine EXCEPT !.batches = Without(@, r.id)]
      [] r.what \in {"startTrip", "restartTrip"} ->
             [engine EXCEPT !.trip = [on |-> TRUE, distance |-> r.options.distance,
                                      interval |-> r.options.interval, acc |-> 0, over |-> FALSE]]
      [] r.what = "stopTrip" -> [engine EXCEPT !.trip = NoTrip]
      [] r.what \in {"query", "get", "getTrip"} -> engine

Possible(r) ==
    /\ r.what = "stopBatching" => r.id \in DOMAIN engine.batches
    /\ r.what \in {"query", "restartTrip", "stopTrip"} => engine.trip.on

Serve(ok) ==
    /\ api # <<>>
    /\ LET r == Head(api)
           began == r.then \in {"tripStarted", "joins"}
           refused == ~ok /\ Possible(r)
       IN /\ ok => Possible(r)
          /\ refused => Len(app.refused) < setup.refusals
          /\ engine' = IF ok THEN Carried(r) ELSE engine
          /\ inbox' = Append(inbox, [what |-> "answer", request |-> r, ok |-> ok,
                                     acc |-> IF ok THEN engine.trip.acc ELSE 0])
          /\ app' = [app EXCEPT
                !.refused = IF refused THEN Append(@, r.what) ELSE @,
                !.trips = IF began THEN (r.id :> [at |-> app.way, distance |-> r.options.distance]) @@ @
                          ELSE @,
                !.forgot = @ \/ (/\ ok /\ r.what = "restartTrip" /\ engine.trip.acc > 0
                                 /\ r.then = "joined" \/ r.restart)]
    /\ api' = Tail(api)
    /\ UNCHANGED <<setup, c, a, gnss>>

\* The device moves.  A behaviour without races moves when all is quiet.
Travel ==
    /\ app.way < setup.way /\ (Settled \/ setup.races)
    /\ app' = [app EXCEPT !.way = @ + 1]
    /\ LET t == engine.trip
           over == t.on /\ ~t.over /\ t.acc + 1 >= t.distance
       IN /\ engine' = IF t.on THEN [engine EXCEPT !.trip.acc = @ + 1, !.trip.over = @ \/ over]
                       ELSE engine
          /\ inbox' = IF over THEN Append(inbox, [what |-> "completed", acc |-> t.acc + 1]) ELSE inbox
    /\ UNCHANGED <<setup, c, a, api, gnss>>

\* The engine comes up, for the first time or again.
EngineUp ==
    /\ ~a.lost
    /\ IF ~setup.known /\ app.restarts = 0 THEN TRUE
       ELSE app.restarts < setup.restarts /\ (Settled \/ setup.races)
    /\ engine' = NewEngine
    /\ inbox' = Append(inbox, [what |-> "up"])
    /\ app' = [app EXCEPT !.restarts = @ + 1]
    /\ UNCHANGED <<setup, c, a, api, gnss>>
--------------------------------------------------------------------------------
Client == \/ \E id \in setup.ids, o \in setup.options: Start(id, o) \/ Update(id, o)
          \/ \E id \in setup.ids: Stop(id) \/ GetBatched(id)
          \/ Track \/ Destroy
AdapterThread == \/ HandleCommand \/ HandleAnswer \/ HandleCompleted \/ HandleEngineUp
                 \/ HandleRemoveClient \/ CallBack \/ RemoveSessions
Tracking == \E m \in gnss, ok \in BOOLEAN: TrackingAnswers(m, ok)
ApiThread == \E ok \in BOOLEAN: Serve(ok)

Next == Client \/ AdapterThread \/ Tracking \/ ApiThread \/ Travel \/ EngineUp

\* The threads run, commands are answered, and an engine that was never up comes up.
Fairness == /\ WF_vars(AdapterThread) /\ WF_vars(Tracking) /\ WF_vars(ApiThread)
            /\ WF_vars(EngineUp /\ ~a.known)

Spec == Init /\ [][Next]_vars /\ Fairness
--------------------------------------------------------------------------------
Asked(what, modes) ==
    Cardinality({n \in DOMAIN app.asked: /\ app.asked[n] # <<>> /\ app.asked[n].what = what
                                         /\ app.asked[n].options.mode \in modes})
Refused(what) == what \in ToSet(app.refused)
AllModes == {"routine", "none", "trip"}

\* The engine runs exactly the sessions by time that the client was told of,
\* with the options it was told, and as long as one of them wants reports the
\* adapter listens for full batches.  (A stop that is refused restores other
\* options, BatchingAdapter.cpp:512.)
TimedServed ==
    LET timed == {id \in DOMAIN app.wants: app.wants[id].mode # "trip"}
    IN /\ engine.batches = [id \in timed |-> app.wants[id]]
       /\ (\E id \in timed: app.wants[id].mode # "none") /\ ~Refused("stopBatching") => a.full

\* Trips are started and stopped one at a time, while the device stands, and
\* the engine does what it is asked to.
OneTripCallAtATime ==
    /\ setup.client = "patient" /\ ~setup.races /\ app.destroy = "no"
    /\ \A what \in {"query", "restartTrip", "stopTrip"}: ~Refused(what)

\* The engine runs a trip exactly while the adapter has one, and reports no
\* more slowly than any of them asks for.
TripsServed ==
    /\ engine.trip.on <=> ~NoTrips(a)
    /\ \A id \in DOMAIN a.mTripSessions: engine.trip.interval <= a.mTripSessions[id].tripTBFInterval

\* When nothing is under way the engine runs what the client was told it does,
\* whatever was refused and although it restarted: "start" saves a session and
\* "remove session if not" started (BatchingAdapter.cpp:383), "stop" erases one
\* and "restore session if not" stopped (:505), restartSessions runs them again.
EngineRunsSessions ==
    Settled /\ a.known /\ ~a.lost => TimedServed /\ (OneTripCallAtATime => TripsServed)

\* No new batch forgets how far the trips have come, see README 4.2.
Undisturbed == /\ OneTripCallAtATime /\ ~app.forgot /\ app.restarts = 0
               /\ Asked("stop", AllModes) = 0 /\ Asked("update", {"trip"}) = 0

\* A trip that starts while others are on their way shares their batch, each
\* with its own offset (startTripBatchingMultiplex, restartTripBatching), and is
\* told to be over when the device has gone its distance since it started:
\* neither earlier nor later.
TripsEndInTime ==
    Undisturbed =>
        /\ ~app.early
        /\ Settled => \A id \in DOMAIN a.mTripSessions:
                          app.way < app.trips[id].at + app.trips[id].distance

\* The responses come in the order of the calls: one call at a time, or only
\* batching of an engine that is up.
InOrder ==
    \/ setup.client \in {"patient", "waits"}
    \/ /\ setup.client = "orderly" /\ setup.known
       /\ \A o \in setup.options: o.mode \in {"routine", "none"}

\* A callback of the client is for the call whose response it carries, although
\* the request is taken from the head of one queue for all sessions
\* (getRequestBySession, LocationAPIClientBase.cpp:933), as long as no call was
\* made on a session between the callback of its stop and its removal
\* (LocationAPIClientBase.h:456); and after its destroy was completed an object
\* of LocationAPI calls back no more (onRemoveClientCompleteCb, LocationAPI.cpp:104).
AnswerIsOwn ==
    /\ InOrder /\ Asked("update", AllModes) = 0 /\ app.destroy = "no" /\ ~app.hasty => ~c.crossed
    /\ ~app.late

\* What the code answers twice or never, see README 4.2.
Excused == \/ setup.client = "free" \/ Asked("start", {"trip"}) > 1
           \/ app.updates > 0 \/ app.destroy # "no" \/ a.lost \/ app.hasty

\* Every call gets its callback, also one that waits for the engine to come up
\* or that the engine refuses, and a destroy that was asked for ends.  Not one
\* on a session that is being removed: its response finds no session.
EveryCallIsAnswered ==
    <>[](/\ c.open = {} \/ Excused
         /\ app.destroy # "asked" \/ a.lost)
================================================================================
