------------------------- MODULE LocationAPIClientBase -------------------------
(***************************************************************************)
(* The client side of the location stack                                   *)
(* (gps/location/LocationAPIClientBase.{h,cpp}), as operators on the       *)
(* record of its state: the sessions of its user, each a batching or a     *)
(* tracking session of LocationAPI, the one tracking session, and the      *)
(* requests that wait for a response.  Those of the sessions wait in one   *)
(* queue for whichever response comes.                                     *)
(*                                                                         *)
(* A call holds mMutex, and so does a callback while it looks for the      *)
(* request.  The session is removed later and without mMutex: a callback   *)
(* leaves it in removing, and in answering a request that is told only     *)
(* after that, and finishResponse is the rest.  A call that a removal      *)
(* falls into starts from a record of Within.                              *)
(*                                                                         *)
(* A call returns the record with the commands for LocationAPI in cmds.    *)
(* call is its number, which commands and responses carry so that the      *)
(* record can tell whose response a request was given; session is the      *)
(* number LocationAPI would give next.                                     *)
(***************************************************************************)
EXTENDS BatchingAdapter

NewClient ==
    [mForwardMap |-> NoSessions,            \* mSessionBiDict: user's id -> session
     mExtMap |-> NoSessions,                \* mSessionBiDict: session -> [id, sessionMode]
     requests |-> <<>>,                     \* mRequestQueues[REQUEST_SESSION]
     tracking |-> <<>>, trackingSession |-> 0, mTracking |-> FALSE,
     cmds |-> <<>>, removing |-> {}, answering |-> {},
     open |-> {},                           \* calls whose callback has not come
     crossed |-> FALSE]                     \* a callback came for another call's response

Waits(kind, id, call) == [kind |-> kind, id |-> id, call |-> call]
PushSession(c, kind, id, call) ==
    [c EXCEPT !.requests = Append(@, Waits(kind, id, call)), !.open = @ \cup {Waits(kind, id, call)}]
PushTracking(c, kind, call) ==
    [c EXCEPT !.tracking = Append(@, Waits(kind, 0, call)), !.open = @ \cup {Waits(kind, 0, call)}]

\* A command for the adapter "batching" or "gnss".
Send(c, to, what, session, o, call) ==
    [c EXCEPT !.cmds = Append(@, [to |-> to, what |-> what, id |-> session, options |-> o, call |-> call])]

hasId(c, id) == id \in DOMAIN c.mForwardMap
hasSession(c, session) == session \in DOMAIN c.mExtMap
setSession(c, id, session, mode) ==
    [c EXCEPT !.mForwardMap = (id :> session) @@ @,
              !.mExtMap = (session :> [id |-> id, sessionMode |-> mode]) @@ @]
rmById(c, id) == [c EXCEPT !.mExtMap = Without(@, c.mForwardMap[id]),
                           !.mForwardMap = Without(@, id)]
removeSession(c, session) ==
    IF ~hasSession(c, session) THEN c
    ELSE [c EXCEPT !.mForwardMap = Without(@, c.mExtMap[session].id),
                   !.mExtMap = Without(@, session)]

\* An id without a session is found with zeros.
getExtById(c, id) ==
    LET session == c.mForwardMap[id]
    IN IF session > 0 /\ hasSession(c, session)
       THEN [session |-> session, sessionMode |-> c.mExtMap[session].sessionMode]
       ELSE [session |-> 0, sessionMode |-> "none"]

UnderRemoval(c, id) == hasId(c, id) /\ c.mForwardMap[id] \in c.removing

\* A removal between hasId and getExtById, which puts the id back in without a session.
Torn(c, id) == [removeSession(c, c.mForwardMap[id]) EXCEPT
                   !.mForwardMap = (id :> 0) @@ @, !.removing = @ \ {c.mForwardMap[id]}]
\* One between getExtById and set, which puts the session back in.
Overwritten(c, id) == [c EXCEPT !.removing = @ \ {c.mForwardMap[id]}]

\* What a call on id may start from.
Within(c, id) == IF UnderRemoval(c, id) THEN {c, Torn(c, id)} ELSE {c}
WithinUpdate(c, id) == Within(c, id) \cup (IF UnderRemoval(c, id) THEN {Overwritten(c, id)} ELSE {})
--------------------------------------------------------------------------------
(* The calls.  o.mode "fix" asks for a tracking session.                   *)

locAPIStartSession(c, id, o, session, call) ==
    IF hasId(c, id) THEN c                      \* ALREADY_STARTED
    ELSE setSession(IF o.mode = "fix"
                    THEN Send(PushSession(c, "start", id, call), "gnss", "start", session, o, call)
                    ELSE Send(PushSession(c, "start", id, call), "batching", "start", session, o, call),
                    id, session, o.mode)

StopWithoutRequest(c, id, call) ==
    IF ~hasId(c, id) THEN c
    ELSE LET s == getExtById(c, id)
         IN Send(c, IF s.sessionMode = "fix" THEN "gnss" ELSE "batching",
                 "stop", s.session, DefaultOptions, call)
locAPIStopSession(c, id, call) ==
    IF ~hasId(c, id) THEN c                     \* ID_UNKNOWN
    ELSE LET s == getExtById(c, id)
         IN Send(PushSession(c, "stop", id, call),
                 IF s.sessionMode = "fix" THEN "gnss" ELSE "batching",
                 "stop", s.session, DefaultOptions, call)

\* One request even when a session is stopped and another is started.  The
\* options of a batching session that stays one are not handed on.
locAPIUpdateSessionOptions(c, id, o, session, call) ==
    IF ~hasId(c, id) THEN c
    ELSE LET s == getExtById(c, id)
             b == PushSession(c, "update", id, call)
             kept(m) == setSession(rmById(m, id), id, s.session, o.mode)
             other(from, to) ==
                 setSession(rmById(Send(Send(b, from, "stop", s.session, DefaultOptions, call),
                                        to, "start", session, o, call), id),
                            id, session, o.mode)
         IN CASE o.mode = "fix" /\ s.sessionMode = "fix" ->
                     kept(Send(b, "gnss", "update", s.session, o, call))
              [] o.mode = "fix" /\ s.sessionMode # "fix" -> other("batching", "gnss")
              [] o.mode # "fix" /\ s.sessionMode = "fix" -> other("gnss", "batching")
              [] OTHER -> kept(Send(b, "batching", "update", s.session,
                                    [DefaultOptions EXCEPT !.mode = o.mode], call))

locAPIGetBatchedLocations(c, id, call) ==
    IF ~hasId(c, id) THEN c
    ELSE LET s == getExtById(c, id)
         IN IF s.sessionMode = "fix" THEN c
            ELSE Send(PushSession(c, "get", id, call), "batching", "get", s.session,
                      DefaultOptions, call)

\* A new tracking session drops the requests of the last one.
locAPIStartTracking(c, session, call) ==
    IF c.mTracking THEN c
    ELSE Send(PushTracking([c EXCEPT !.tracking = <<>>, !.trackingSession = session,
                                     !.mTracking = TRUE], "start", call),
              "gnss", "start", session, DefaultOptions, call)

locAPIStopTracking(c, call) ==
    IF c.trackingSession = 0 THEN c
    ELSE Send([PushTracking(c, "stop", call) EXCEPT !.mTracking = FALSE],
              "gnss", "stop", c.trackingSession, DefaultOptions, call)

locAPIUpdateTrackingOptions(c, call) ==
    IF c.trackingSession = 0 THEN c
    ELSE Send(PushTracking(c, "update", call), "gnss", "update", c.trackingSession, DefaultOptions, call)
--------------------------------------------------------------------------------
(* The callbacks.                                                          *)

\* The request that a response is given to: of the tracking session by its
\* number, otherwise the first of any session.
getRequestBySession(c, session) ==
    IF c.trackingSession = session /\ c.tracking # <<>> THEN Head(c.tracking)
    ELSE IF hasSession(c, session) /\ c.requests # <<>> THEN Head(c.requests)
    ELSE Waits("none", 0, 0)
Popped(c, session) ==
    IF c.trackingSession = session /\ c.tracking # <<>> THEN [c EXCEPT !.tracking = Tail(@)]
    ELSE IF hasSession(c, session) /\ c.requests # <<>> THEN [c EXCEPT !.requests = Tail(@)]
    ELSE c

\* A stop that succeeded is told before its session is removed, a start that
\* failed after.
onResponseCb(c, r) ==
    LET request == getRequestBySession(c, r.id)
        failed == request.kind = "start" /\ ~r.ok
        stopped == request.kind = "stop" /\ r.ok
        after == IF failed THEN {request} ELSE {}
    IN [Popped(c, r.id) EXCEPT
           !.crossed = @ \/ (request.kind # "none" /\ request.call # r.call),
           !.open = @ \ ({request} \ after),
           !.answering = after,
           !.removing = IF failed \/ stopped THEN {r.id} ELSE {}]

\* Completed trips are sessions no longer.
beforeBatchingStatusCb(c, ids) ==
    [c EXCEPT !.removing = {s \in ids: hasSession(c, s) /\ c.mExtMap[s].sessionMode = "trip"}]

IsResponding(c) == c.removing # {} \/ c.answering # {}
finishResponse(c) ==
    [FoldSet(LAMBDA session, d: removeSession(d, session), c, c.removing) EXCEPT
        !.removing = {}, !.open = @ \ c.answering, !.answering = {}]
================================================================================
