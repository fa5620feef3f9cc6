--------------------------- MODULE MCLocationBatching ---------------------------
(***************************************************************************)
(* LocationBatching for TLC.  A client is "patient" and calls when nothing *)
(* is under way, "waits" for its last call's callback, is "orderly" and    *)
(* waits for the callback of the same session, or is "free".  calls,       *)
(* updates, refusals and restarts bound what happens, way how far the      *)
(* device goes; gets, tracks, destroys and races say what may happen.      *)
(***************************************************************************)
EXTENDS LocationBatching

Routine == Options("routine", 0, 1)
NoReport == Options("none", 0, 1)
Fix == Options("fix", 0, 1)
Short == Options("trip", 2, 2)
Long == Options("trip", 3, 1)

Plain == [client |-> "orderly", ids |-> {1, 2}, options |-> {Routine, NoReport}, calls |-> 4,
          updates |-> 0, gets |-> TRUE, tracks |-> FALSE, refusals |-> 0, restarts |-> 0,
          known |-> TRUE, way |-> 0, races |-> FALSE, destroys |-> FALSE]

\* Sessions by time: with a refusal, unordered calls, an engine that comes up
\* late and restarts, and updates.
ByTime == {[Plain EXCEPT !.refusals = 1],
           [Plain EXCEPT !.client = "free"],
           [Plain EXCEPT !.known = FALSE, !.restarts = 2],
           [Plain EXCEPT !.updates = 1]}

\* Sessions that become tracking sessions and back, next to the tracking session.
WithTracking == {[Plain EXCEPT !.client = "waits", !.updates = 2, !.options = {Routine, Fix}],
                 [Plain EXCEPT !.client = "waits", !.tracks = TRUE, !.options = {Routine, Fix},
                                !.refusals = 1]}

\* The object is destroyed under its calls.
Destroyed == {[Plain EXCEPT !.client = "free", !.calls = 3, !.ids = {1}, !.tracks = TRUE,
                            !.options = {Routine, Fix}, !.destroys = TRUE]}

\* Two trips, of which the shorter one is slower; refused, restarted, next to a
\* session by time, and anyhow.
Trips == [Plain EXCEPT !.client = "patient", !.options = {Short, Long}, !.gets = FALSE, !.way = 4]
OfTrips == {Trips,
            [Trips EXCEPT !.calls = 3, !.way = 3, !.refusals = 1],
            [Trips EXCEPT !.calls = 3, !.way = 3, !.restarts = 1],
            [Trips EXCEPT !.options = {Short, Routine}, !.updates = 1, !.ids = {1}, !.gets = TRUE,
                          !.way = 2],
            [Trips EXCEPT !.client = "free", !.options = {Short}, !.calls = 3, !.way = 2,
                          !.races = TRUE]}

MCSetups == ByTime \cup WithTracking \cup Destroyed \cup OfTrips
================================================================================
