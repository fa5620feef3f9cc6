---------------------------- MODULE MCGnssTracking ----------------------------
(* GnssTracking for TLC: one client that tracks, in several environments. *)
EXTENDS GnssTracking

Common == [intervals |-> {0, 2}, powers |-> {1}, distances |-> {FALSE, TRUE},
           distanceSupported |-> TRUE, minInterval |-> 1,
           sessions |-> 2, updates |-> 1, stops |-> 1, restarts |-> 1,
           restartAnytime |-> FALSE, mayRemove |-> FALSE, mayFail |-> FALSE]

\* Sessions by time only: three of them, or two whose options change.
ByTime == {[Common EXCEPT !.distances = {FALSE}],
           [Common EXCEPT !.powers = {1, 2}, !.distances = {FALSE}, !.sessions = 3,
                          !.updates = 0]}

\* Both kinds, and sessions that change from one to the other.
Mixed == {Common, [Common EXCEPT !.sessions = 1, !.updates = 2]}

\* Requests fail, or the client goes.
Faults == {[Common EXCEPT !.intervals = {1}, !.restarts = 0, !.mayFail = TRUE],
           [Common EXCEPT !.intervals = {1}, !.restarts = 0, !.updates = 0,
                          !.mayRemove = TRUE, !.mayFail = TRUE]}

\* The modem restarts at any moment, requests fail.
Restarts == {[Common EXCEPT !.updates = 0, !.restartAnytime = TRUE, !.mayFail = TRUE]}

MCSetups == ByTime \cup Mixed \cup Faults \cup Restarts
=============================================================================
