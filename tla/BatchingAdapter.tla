---------------------------- MODULE BatchingAdapter ----------------------------
(***************************************************************************)
(* The batching adapter (gps/batching/BatchingAdapter.cpp), as operators   *)
(* on the record of its state: sessions by time, which the engine runs     *)
(* side by side, and trips, of which the engine runs one that is measured  *)
(* for the nearest of all the adapter has.  One client: sessions are keyed *)
(* by client and id, a second client adds only names.                      *)
(*                                                                         *)
(* Every operator is what a handler of the adapter's thread does: it       *)
(* returns the record with the requests for the engine in asks, the        *)
(* messages posted to its own queue in posts and what the client is told   *)
(* in says.  A request carries what the handler of its response captured.  *)
(* call names the client's call behind it, 0 if there is none.             *)
(***************************************************************************)
EXTENDS Naturals, Sequences, SequencesExt, TLC

CONSTANT Width  \* bits of a distance, uint32_t in the source

Minus(x, y) == (x + 2^Width - y) % 2^Width
Plus(x, y) == (x + y) % 2^Width

NoSessions == [id \in {} |-> 0]
Without(f, x) == [y \in DOMAIN f \ {x} |-> f[y]]

Options(mode, distance, interval) == [mode |-> mode, distance |-> distance, interval |-> interval]
DefaultOptions == Options("routine", 0, 0)

\* TripSessionStatus
Trip(batch, o) ==
    [accumulatedDistanceOngoingBatch |-> batch, accumulatedDistanceThisTrip |-> 0,
     accumulatedDistanceOnTripRestart |-> 0, tripDistance |-> o.distance,
     tripTBFInterval |-> o.interval]

NewAdapter(known) ==
    [known |-> known, client |-> FALSE,
     mBatchingSessions |-> NoSessions, mTripSessions |-> NoSessions,
     mOngoingTripDistance |-> 0, mOngoingTripTBFInterval |-> 0,
     mTripWithOngoingTBFDropped |-> FALSE, mTripWithOngoingTripDistanceDropped |-> FALSE,
     mPendingMsgs |-> <<>>, full |-> FALSE, \* BATCH_FULL in the event mask
     lost |-> FALSE,                        \* a trip was looked up that is not there
     asks |-> <<>>, posts |-> <<>>, says |-> <<>>]

Ask(a, request) == [a EXCEPT !.asks = Append(@, request)]
Request(what, then, id, call) ==
    [what |-> what, then |-> then, id |-> id, call |-> call, options |-> DefaultOptions,
     was |-> DefaultOptions, restart |-> FALSE, acc |-> 0]

reportResponse(a, ok, id, call) ==
    IF a.client THEN [a EXCEPT !.says = Append(@, [what |-> "response", ok |-> ok, id |-> id,
                                                   call |-> call, ids |-> {}])]
    ELSE a

saveBatchingSession(a, id, o) == [a EXCEPT !.mBatchingSessions = (id :> o) @@ @]
eraseBatchingSession(a, id) == [a EXCEPT !.mBatchingSessions = Without(@, id)]
eraseTrip(a, id) == [a EXCEPT !.mTripSessions = Without(@, id)]
isBatchingSession(a, id) == id \in DOMAIN a.mBatchingSessions
isTripSession(a, id) == id \in DOMAIN a.mTripSessions
NoTrips(a) == DOMAIN a.mTripSessions = {}

\* A trip counts twice while it is in both maps.
autoReportBatchingSessionsCount(a) ==
    Cardinality({id \in DOMAIN a.mBatchingSessions: a.mBatchingSessions[id].mode # "none"})
        + Cardinality(DOMAIN a.mTripSessions)
Unregister(a, condition) == IF condition THEN [a EXCEPT !.full = FALSE] ELSE a
LastIsGone(a) == autoReportBatchingSessionsCount(a) = 0

\* The smallest value of f over the trips; a 0 is taken for none so far.
Least(a, f) ==
    FoldLeft(LAMBDA least, id: IF least = 0 \/ least > f[id] THEN f[id] ELSE least, 0,
             SetToSortSeq(DOMAIN a.mTripSessions, <))
Remaining(a) ==
    [id \in DOMAIN a.mTripSessions |-> Minus(a.mTripSessions[id].tripDistance,
                                             a.mTripSessions[id].accumulatedDistanceThisTrip)]
Intervals(a) == [id \in DOMAIN a.mTripSessions |-> a.mTripSessions[id].tripTBFInterval]
--------------------------------------------------------------------------------
(* Sessions by time.                                                       *)

startBatching(a, id, o, call) ==
    LET b == IF o.mode # "none" /\ LastIsGone(a) THEN [a EXCEPT !.full = TRUE] ELSE a
    IN Ask(saveBatchingSession(b, id, o),
           [Request("startBatching", "started", id, call) EXCEPT !.options = o])

BatchingStartFailsSilently(a, r, ok) ==
    IF ok THEN reportResponse(a, ok, r.id, r.call)
    ELSE Unregister(eraseBatchingSession(a, r.id), LastIsGone(eraseBatchingSession(a, r.id)))
BatchingStarted(a, r, ok) ==
    LET b == IF ok THEN a ELSE eraseBatchingSession(a, r.id)
    IN reportResponse(Unregister(b, ~ok /\ r.options.mode # "none" /\ LastIsGone(b)),
                      ok, r.id, r.call)

stopBatching(a, id, restart, o, call) ==
    IF ~isBatchingSession(a, id) THEN a
    ELSE Ask(eraseBatchingSession(a, id),
             [Request("stopBatching", "stopped", id, call) EXCEPT
                 !.was = a.mBatchingSessions[id], !.restart = restart, !.options = o])
--------------------------------------------------------------------------------
(* Trips.                                                                  *)

\* The first trip starts the engine's, a later one asks how far that is.
startTripBatchingMultiplex(a, id, o, call) ==
    IF NoTrips(a)
    THEN LET b == IF LastIsGone(a) THEN [a EXCEPT !.full = TRUE] ELSE a
         IN Ask([saveBatchingSession(b, id, o) EXCEPT !.mTripSessions = id :> Trip(0, o)],
                [Request("startTrip", "tripStarted", id, call) EXCEPT !.options = o])
    ELSE Ask(a, [Request("query", "joins", id, call) EXCEPT !.options = o])

FirstTripStarted(a, r, ok) ==
    LET b == eraseTrip(eraseBatchingSession(a, r.id), r.id)
    IN reportResponse(IF ok THEN [a EXCEPT !.mOngoingTripDistance = r.options.distance,
                                           !.mOngoingTripTBFInterval = r.options.interval]
                      ELSE Unregister(b, LastIsGone(b)), ok, r.id, r.call)

\* The trips start a new batch of the engine with what they have.
Rebased(trips) ==
    [id \in DOMAIN trips |-> [trips[id] EXCEPT
        !.accumulatedDistanceOngoingBatch = 0,
        !.accumulatedDistanceOnTripRestart = trips[id].accumulatedDistanceThisTrip]]

\* Another trip joins, which the engine's batch may be too long or too slow for.
TripJoins(a, r, ok, acc) ==
    LET o == r.options
        b == IF ok THEN [a EXCEPT !.mTripSessions = (r.id :> Trip(acc, o)) @@ @] ELSE a
        rest == IF ok THEN Minus(a.mOngoingTripDistance, acc) ELSE a.mOngoingTripDistance
        faster == o.interval < a.mOngoingTripTBFInterval
        shorter == o.distance < rest
        batch == Options("trip", IF shorter THEN o.distance ELSE rest,
                         IF faster THEN o.interval ELSE a.mOngoingTripTBFInterval)
    IN IF faster \/ shorter
       THEN Ask([b EXCEPT !.mOngoingTripDistance = batch.distance,
                          !.mOngoingTripTBFInterval = batch.interval,
                          !.mTripSessions = Rebased(@)],
                [Request("restartTrip", "joined", r.id, r.call) EXCEPT !.options = batch])
       ELSE reportResponse(b, TRUE, r.id, r.call)

\* One trip less.  acc is what the engine reported, otherwise it is asked.
restartTripBatching(a, query, acc) ==
    IF NoTrips(a)
    THEN LET b == Ask([a EXCEPT !.mOngoingTripDistance = 0, !.mOngoingTripTBFInterval = 0],
                      Request("stopTrip", "nothing", 0, 0))
         IN Unregister(b, LastIsGone(b))
    ELSE Ask(a, [Request("query", "remeasure", 0, 0) EXCEPT
                    !.options = Options("trip", Least(a, Remaining(a)), Least(a, Intervals(a))),
                    !.restart = query, !.acc = acc])

\* Do the trips left need another batch of the engine?
Remeasure(a, r, acc) ==
    LET accumulated == IF r.restart THEN acc ELSE r.acc
        rest == Minus(a.mOngoingTripDistance, accumulated)
        least == r.options
        other == IF ~a.mTripWithOngoingTripDistanceDropped /\ rest # 0
                 THEN least.distance < rest ELSE least.distance # 0
        slower == a.mTripWithOngoingTBFDropped /\ least.interval # a.mOngoingTripTBFInterval
        faster == least.interval < a.mOngoingTripTBFInterval
        batch == Options("trip", IF other THEN least.distance ELSE a.mOngoingTripDistance,
                         IF faster \/ slower THEN least.interval ELSE a.mOngoingTripTBFInterval)
    IN IF other \/ faster \/ slower
       THEN Ask(a, [Request("restartTrip", "remeasured", 0, 0) EXCEPT
                       !.options = batch, !.restart = r.restart, !.acc = accumulated])
       ELSE a

\* How far a trip is when the engine's batch has gone acc.
TravelledWithoutOffset(trip, acc) ==
    [trip EXCEPT !.accumulatedDistanceThisTrip = Plus(trip.accumulatedDistanceOnTripRestart, acc)]
Travelled(trip, acc) ==
    [trip EXCEPT !.accumulatedDistanceThisTrip =
        Plus(trip.accumulatedDistanceOnTripRestart,
             Minus(acc, trip.accumulatedDistanceOngoingBatch))]

Remeasured(a, r, ok) ==
    IF ~ok THEN a
    ELSE [a EXCEPT !.mOngoingTripDistance = r.options.distance,
                   !.mOngoingTripTBFInterval = r.options.interval,
                   !.mTripSessions = Rebased([id \in DOMAIN @ |-> Travelled(@[id], r.acc)])]

\* The engine's batch is over.  A completed trip is compared with the batch
\* after it was erased: whatever is found there may be equal or not.
CompletedTrips(a, acc, tbfFound, distanceFound) ==
    LET trips == [id \in DOMAIN a.mTripSessions |-> Travelled(a.mTripSessions[id], acc)]
        done == {id \in DOMAIN trips: trips[id].tripDistance <= trips[id].accumulatedDistanceThisTrip}
        b == [a EXCEPT !.mTripSessions = [id \in DOMAIN trips \ done |-> trips[id]]]
        told == IF a.client THEN <<[what |-> "completed", ok |-> TRUE, id |-> 0, call |-> 0,
                                    ids |-> done]>> ELSE <<>>
    IN IF done = {} THEN b
       ELSE restartTripBatching([b EXCEPT
                !.mTripWithOngoingTBFDropped = @ \/ tbfFound,
                !.mTripWithOngoingTripDistanceDropped = @ \/ distanceFound,
                !.says = @ \o told], FALSE, acc)
--------------------------------------------------------------------------------
(* Both.                                                                   *)

StartSession(a, id, o, call) ==
    IF o.mode = "trip" THEN startTripBatchingMultiplex(a, id, o, call)
    ELSE startBatching(a, id, o, call)

StoppedAlwaysUnregisters(a, r, ok) ==
    LET b == Unregister(a, r.was.mode # "none")
    IN reportResponse(IF ~ok THEN saveBatchingSession(a, r.id, r.options)
                      ELSE IF r.restart THEN StartSession(b, r.id, r.options, r.call)
                      ELSE b, ok, r.id, r.call)
BatchingStopped(a, r, ok) ==
    LET b == Unregister(a, LastIsGone(a) /\ r.was.mode # "none")
    IN reportResponse(IF ~ok THEN saveBatchingSession(a, r.id, r.options)
                      ELSE IF r.restart THEN StartSession(b, r.id, r.options, r.call)
                      ELSE b, ok, r.id, r.call)

\* A trip that is not there is what the code finds at the end of the map.
stopTripBatchingMultiplexCommon(a, ok, id, restart, o, call) ==
    IF ~isTripSession(a, id) THEN [a EXCEPT !.lost = TRUE]
    ELSE LET trip == a.mTripSessions[id]
             b == [eraseTrip(a, id) EXCEPT
                      !.mTripWithOngoingTBFDropped =
                          @ \/ trip.tripTBFInterval = a.mOngoingTripTBFInterval,
                      !.mTripWithOngoingTripDistanceDropped =
                          @ \/ trip.tripDistance = a.mOngoingTripDistance]
             c == IF NoTrips(b) THEN [b EXCEPT !.mOngoingTripDistance = 0,
                                               !.mOngoingTripTBFInterval = 0]
                  ELSE restartTripBatching(b, TRUE, 0)
         IN reportResponse(IF restart THEN StartSession(eraseBatchingSession(c, id), id, o, call)
                           ELSE c, ok, id, call)

\* The last trip stops the engine's first.
stopTripBatchingMultiplex(a, id, restart, o, call) ==
    IF Cardinality(DOMAIN a.mTripSessions) = 1
    THEN Ask(a, [Request("stopTrip", "tripStopped", id, call) EXCEPT
                    !.restart = restart, !.options = o])
    ELSE stopTripBatchingMultiplexCommon(a, TRUE, id, restart, o, call)

LastTripStopped(a, r, ok) ==
    stopTripBatchingMultiplexCommon(Unregister(a, ok /\ autoReportBatchingSessionsCount(a) = 1),
                                    ok, r.id, r.restart, r.options, r.call)

\* The response to a request.
Answered(a, r, ok, acc) ==
    CASE r.then = "started" -> BatchingStarted(a, r, ok)
      [] r.then = "stopped" -> BatchingStopped(a, r, ok)
      [] r.then = "tripStarted" -> FirstTripStarted(a, r, ok)
      [] r.then = "tripStopped" -> LastTripStopped(a, r, ok)
      [] r.then = "joins" -> TripJoins(a, r, ok, acc)
      [] r.then \in {"joined", "got"} -> reportResponse(a, ok, r.id, r.call)
      [] r.then = "remeasure" -> Remeasure(a, r, acc)
      [] r.then = "remeasured" -> Remeasured(a, r, ok)
      [] r.then = "resumed" -> IF ok THEN a ELSE [a EXCEPT !.mOngoingTripDistance = 0,
                                                           !.mOngoingTripTBFInterval = 0]
      [] r.then = "nothing" -> a
--------------------------------------------------------------------------------
(* The messages.  A command of a session that is not there is answered     *)
(* only if it asks for locations.                                          *)

MsgStartBatching(a, m) == IF a.client THEN StartSession(a, m.id, m.options, m.call) ELSE a

MsgUpdateBatching(a, m) ==
    IF ~isBatchingSession(a, m.id) THEN a
    ELSE IF isTripSession(a, m.id)
    THEN stopTripBatchingMultiplex(a, m.id, TRUE, m.options, m.call)
    ELSE stopBatching(a, m.id, TRUE, m.options, m.call)

MsgStopBatching(a, m) ==
    IF ~isBatchingSession(a, m.id) THEN a
    ELSE IF isTripSession(a, m.id)
    THEN stopTripBatchingMultiplex(a, m.id, FALSE, DefaultOptions, m.call)
    ELSE stopBatching(a, m.id, FALSE, DefaultOptions, m.call)

MsgGetBatchedLocations(a, m) ==
    IF a.client /\ isBatchingSession(a, m.id)
    THEN Ask(a, Request(IF isTripSession(a, m.id) THEN "getTrip" ELSE "get", "got", m.id, m.call))
    ELSE reportResponse(a, FALSE, m.id, m.call)

\* Commands that come before the engine is known wait.
Command(a, m) ==
    IF ~a.known THEN [a EXCEPT !.mPendingMsgs = Append(@, m)]
    ELSE CASE m.what = "start" -> MsgStartBatching(a, m)
           [] m.what = "update" -> MsgUpdateBatching(a, m)
           [] m.what = "stop" -> MsgStopBatching(a, m)
           [] m.what = "get" -> MsgGetBatchedLocations(a, m)

updateClientsEventMask(a) == [a EXCEPT !.full = autoReportBatchingSessionsCount(a) > 0]
saveClient(a) == updateClientsEventMask([a EXCEPT !.client = TRUE])

stopClientSessions(a) ==
    FoldLeft(LAMBDA b, id: IF a.mBatchingSessions[id].mode = "trip"
                           THEN stopTripBatchingMultiplex(b, id, FALSE, DefaultOptions, 0)
                           ELSE stopBatching(b, id, FALSE, DefaultOptions, 0),
             a, SetToSortSeq(DOMAIN a.mBatchingSessions, <))
MsgRemoveClient(a) == updateClientsEventMask([stopClientSessions(a) EXCEPT !.client = FALSE])

\* The engine runs everything again.  The trips keep what they had of the
\* batch that is gone: it is reset in copies.
restartSessions(a) ==
    LET timed == SelectSeq(SetToSortSeq(DOMAIN a.mBatchingSessions, <),
                           LAMBDA id: a.mBatchingSessions[id].mode # "trip")
        start(id) == [Request("startBatching", "nothing", id, 0) EXCEPT
                         !.options = a.mBatchingSessions[id]]
        batch == Options("trip", Least(a, Remaining(a)), Least(a, Intervals(a)))
        b == [a EXCEPT !.full = @ \/ ~LastIsGone(a), !.asks = @ \o [n \in DOMAIN timed |-> start(timed[n])]]
    IN IF NoTrips(a) THEN b
       ELSE Ask([b EXCEPT !.mOngoingTripDistance = batch.distance,
                          !.mOngoingTripTBFInterval = batch.interval],
                [Request("startTrip", "resumed", 0, 0) EXCEPT !.options = batch])

\* handleEngineUpEvent.  What waited goes behind what came meanwhile.
MsgSSREvent(a) ==
    [restartSessions([a EXCEPT !.known = TRUE]) EXCEPT
        !.posts = @ \o a.mPendingMsgs, !.mPendingMsgs = <<>>]
================================================================================
