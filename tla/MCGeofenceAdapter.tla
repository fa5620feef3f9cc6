-------------------------- MODULE MCGeofenceAdapter --------------------------
(* GeofenceAdapter for TLC, in several environments. *)
EXTENDS GeofenceAdapter

Common == [clients |-> {1}, ops |-> {"add", "remove", "pause", "resume", "modify"},
           clientsWait |-> FALSE, clientsLeave |-> FALSE,
           engineRefuses |-> FALSE, engineReuses |-> FALSE,
           items |-> 1, commands |-> 3, fences |-> 2, restarts |-> 0]

\* Every command in any order, and a client that leaves.
Calls == [Common EXCEPT !.clientsLeave = TRUE]

\* Two clients, of which each may leave.
Two == [Common EXCEPT !.clients = {1, 2}, !.ops = {"add", "modify"}, !.clientsLeave = TRUE]

\* The engine restarts, twice at most, and refuses requests.
Restart == [Common EXCEPT !.ops = {"add", "remove", "modify"},
                          !.engineRefuses = TRUE, !.restarts = 2]

\* Several fences in a command; an engine that refuses.
Batches == [Common EXCEPT !.ops = {"add", "pause", "modify"}, !.clientsWait = TRUE,
                          !.engineRefuses = TRUE, !.items = 2]

\* A fence that is paused when the engine restarts, and numbers given again.
Paused == [Common EXCEPT !.ops = {"add", "pause"}, !.engineReuses = TRUE, !.restarts = 2]

\* Numbers given again while fences come and go and the engine refuses.
Reuse == [Common EXCEPT !.ops = {"add", "remove", "modify"}, !.engineReuses = TRUE,
                        !.engineRefuses = TRUE, !.commands = 4]

\* A client leaves, and the engine restarts.
LeaveAndRestart == [Common EXCEPT !.clients = {1, 2}, !.ops = {"add", "remove"}, !.commands = 2,
                                  !.clientsLeave = TRUE, !.restarts = 1]

MCSetups == {Paused, Reuse, Calls, Two, Restart, Batches, LeaveAndRestart}
=============================================================================
