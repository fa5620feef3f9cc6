------------------------------ MODULE NiSession ------------------------------
(***************************************************************************)
(* Network-initiated (NI) location requests in the GNSS adapter            *)
(* (gps/gnss/GnssAdapter.cpp).                                             *)
(*                                                                         *)
(* The modem asks for the user's consent.  The adapter keeps one session   *)
(* for ordinary and one for emergency SUPL requests; for every request it  *)
(* admits it spawns a thread that waits for the user's answer or for a     *)
(* timeout and then sends the answer to the modem.  The message thread     *)
(* (requests, user answers) and these threads share the session: some      *)
(* fields are written under its lock, rawRequest is tested, and reqID and  *)
(* respTimeLeft are cleared, outside it.  An action is what one thread     *)
(* does between two points where the other can get in.                     *)
(*                                                                         *)
(* A request is named by the id it gets when it is admitted; the modem's   *)
(* data that goes with it (rawRequest) has the same name, 0 is NULL.       *)
(***************************************************************************)
EXTENDS Naturals, Sequences, Functions

CONSTANTS
    MaxRequests,   \* bound: requests admitted
    MaxAnswers,    \* bound: answers the user gives to one request
    Kinds          \* the kinds of requests that arrive

ASSUME NiAssumption ==
    /\ MaxRequests \in Nat
    /\ MaxAnswers \in Nat
    /\ Kinds \subseteq {"session", "sessionEs"}

Sessions    == {"session", "sessionEs"}
Ids         == 1..MaxRequests
UserResponses == {"ACCEPT", "DENY"}
Responses   == UserResponses \cup {"NO_RESPONSE", "IGNORE"}
ThreadStates == {"none", "failed", "new", "wait", "took", "timeCleared", "done"}
Idle        == [pc |-> "idle"]
Handlers    == {Idle} \cup
               [pc : {"ignore"}, to : {"sessionEs"}, answer : {"ACCEPT"}] \cup
               [pc : {"apply"}, to : Sessions, answer : UserResponses]

VARIABLES
    listener,      \* some client has a gnssNiCb
    reqIDCounter,  \* mNiData.reqIDCounter
    rawRequest, reqID, respRecvd, resp,
    respTimeLeft,  \* the fields of each session, respTimeLeft as nonzero or not
    kind,          \* the session a request was admitted to
    thread,        \* where the thread of each request is
    local,         \* the answer a thread took with it, "IGNORE" if none
    handler,       \* the answer the message thread is about to apply
    given,         \* the user's answers to each request so far
    outcome,       \* what became of each request's data
    silenced       \* requests told to give way to an emergency; 0 once the
                   \* order came when the session was empty again

session == <<rawRequest, reqID, respRecvd, resp, respTimeLeft>>
vars == <<listener, reqIDCounter, session, kind, thread, local, handler,
          given, outcome, silenced>>

TypeOK ==
    /\ listener \in BOOLEAN
    /\ reqIDCounter \in 0..MaxRequests
    /\ rawRequest \in [Sessions -> 0..MaxRequests]
    /\ reqID \in [Sessions -> 0..MaxRequests]
    /\ respRecvd \in [Sessions -> BOOLEAN]
    /\ resp \in [Sessions -> Responses]
    /\ respTimeLeft \in [Sessions -> BOOLEAN]
    /\ kind \in [Ids -> Sessions]
    /\ thread \in [Ids -> ThreadStates]
    /\ local \in [Ids -> Responses]
    /\ handler \in Handlers
    /\ given \in [Ids -> Seq(UserResponses)]
    /\ outcome \in [Ids -> {"open", "freed"} \cup Responses]
    /\ silenced \subseteq 0..MaxRequests

Init ==
    /\ listener     = FALSE
    /\ reqIDCounter = 0
    /\ rawRequest   = [s \in Sessions |-> 0]
    /\ reqID        = [s \in Sessions |-> 0]
    /\ respRecvd    = [s \in Sessions |-> FALSE]
    /\ resp         = [s \in Sessions |-> "NO_RESPONSE"]
    /\ respTimeLeft = [s \in Sessions |-> FALSE]
    /\ kind     = [r \in Ids |-> "session"]
    /\ thread   = [r \in Ids |-> "none"]
    /\ local    = [r \in Ids |-> "IGNORE"]
    /\ handler  = Idle
    /\ given    = [r \in Ids |-> <<>>]
    /\ outcome  = [r \in Ids |-> "open"]
    /\ silenced = {}

----------------------------------------------------------------------------
\* The message thread: requests of the modem.

\* The mutant admits a request whatever is in progress.
AdmitsAlways(s) == TRUE

\* An ordinary request gives way to any request in progress, an emergency one
\* to an emergency only; the data of a refused request is freed.
Admits(s) == /\ rawRequest["sessionEs"] = 0
             /\ s = "session" => rawRequest["session"] = 0

\* requestNiNotify: save the request and spawn its thread.  A thread that
\* cannot be created is only logged.
RequestNiNotify(s) ==
    LET id == reqIDCounter + 1
    IN
    /\ listener
    /\ handler.pc = "idle"
    /\ reqIDCounter < MaxRequests
    /\ Admits(s)
    /\ reqIDCounter' = id
    /\ rawRequest'   = [rawRequest EXCEPT ![s] = id]
    /\ reqID'        = [reqID EXCEPT ![s] = id]
    /\ respTimeLeft' = [respTimeLeft EXCEPT ![s] = TRUE]
    /\ kind'         = [kind EXCEPT ![id] = s]
    /\ \E created \in {"new", "failed"} : thread' = [thread EXCEPT ![id] = created]
    /\ UNCHANGED <<listener, respRecvd, resp, local, handler, given, outcome,
                   silenced>>

\* Under the session's lock: its answer is v, and its thread is woken.
SetResponse(s, v) ==
    /\ resp'      = [resp EXCEPT ![s] = v]
    /\ respRecvd' = [respRecvd EXCEPT ![s] = TRUE]

\* requestNiNotify with nobody to ask: an emergency request is accepted at
\* once, and the ordinary session, if its request is still there, gives way.
AcceptWithoutListener ==
    /\ "sessionEs" \in Kinds
    /\ ~listener
    /\ handler.pc = "idle"
    /\ rawRequest["session"] # 0
    /\ SetResponse("session", "IGNORE")
    /\ silenced' = silenced \cup {rawRequest["session"]}
    /\ UNCHANGED <<listener, reqIDCounter, rawRequest, reqID, respTimeLeft,
                   kind, thread, local, handler, given, outcome>>

\* Clients come and go (mClientData).
ClientsChange ==
    /\ handler.pc = "idle"
    /\ listener' = ~listener
    /\ UNCHANGED <<reqIDCounter, session, kind, thread, local, handler, given,
                   outcome, silenced>>

----------------------------------------------------------------------------
\* The message thread: the user's answer, gnssNiResponseCommand(client, ...).

\* The session an answer is for; the emergency one is looked at first.
AnsweredSessions(id) ==
    LET match == {s \in Sessions : reqID[s] = id /\ rawRequest[s] # 0}
    IN IF "sessionEs" \in match THEN {"sessionEs"} ELSE match

\* The ordinary request gives way when an emergency is accepted.
GivesWay(s, a) ==
    s = "sessionEs" /\ a = "ACCEPT" /\ rawRequest["session"] # 0

\* The id is compared and rawRequest tested without the lock.
GnssNiResponse(id, a) ==
    /\ listener
    /\ handler.pc = "idle"
    /\ id <= reqIDCounter
    /\ Len(given[id]) < MaxAnswers
    /\ given' = [given EXCEPT ![id] = Append(@, a)]
    /\ \/ /\ AnsweredSessions(id) = {}
          /\ UNCHANGED handler
       \/ \E s \in AnsweredSessions(id) :
            handler' = [pc |-> IF GivesWay(s, a) THEN "ignore" ELSE "apply",
                        to |-> s, answer |-> a]
    /\ UNCHANGED <<listener, reqIDCounter, session, kind, thread, local,
                   outcome, silenced>>

\* An accepted emergency makes the ordinary session give way.
IgnoreOrdinary ==
    /\ handler.pc = "ignore"
    /\ SetResponse("session", "IGNORE")
    /\ silenced' = silenced \cup {rawRequest["session"]}
    /\ handler'  = [pc |-> "apply", to |-> handler.to, answer |-> handler.answer]
    /\ UNCHANGED <<listener, reqIDCounter, rawRequest, reqID, respTimeLeft,
                   kind, thread, local, given, outcome>>

ApplyAnswer ==
    /\ handler.pc = "apply"
    /\ SetResponse(handler.to, handler.answer)
    /\ handler' = Idle
    /\ UNCHANGED <<listener, reqIDCounter, rawRequest, reqID, respTimeLeft,
                   kind, thread, local, given, outcome, silenced>>

----------------------------------------------------------------------------
\* The thread of request r, niThreadProc.

\* The mutant keeps the user's answer for the next session.
TakeKeepingFlag(r, v) ==
    LET s == kind[r]
    IN
    /\ thread'     = [thread EXCEPT ![r] = "took"]
    /\ resp'       = [resp EXCEPT ![s] = v]
    /\ rawRequest' = [rawRequest EXCEPT ![s] = 0]
    /\ local'      = [local EXCEPT ![r] = IF rawRequest[s] # 0 THEN v ELSE "IGNORE"]
    /\ outcome'    = [x \in Ids |-> IF x = rawRequest[s] /\ v = "IGNORE"
                                    THEN "freed" ELSE outcome[x]]
    /\ UNCHANGED <<listener, reqIDCounter, reqID, respTimeLeft, respRecvd, kind,
                   handler, given, silenced>>

\* End of the wait, still under the lock: the answer and the data leave the
\* session, the data of an ignored request is freed.
Take(r, v) ==
    LET s == kind[r]
    IN
    /\ thread'     = [thread EXCEPT ![r] = "took"]
    /\ resp'       = [resp EXCEPT ![s] = v]
    /\ respRecvd'  = [respRecvd EXCEPT ![s] = FALSE]
    /\ rawRequest' = [rawRequest EXCEPT ![s] = 0]
    /\ local'      = [local EXCEPT ![r] = IF rawRequest[s] # 0 THEN v ELSE "IGNORE"]
    /\ outcome'    = [x \in Ids |-> IF x = rawRequest[s] /\ v = "IGNORE"
                                    THEN "freed" ELSE outcome[x]]
    /\ UNCHANGED <<listener, reqIDCounter, reqID, respTimeLeft, kind, handler,
                   given, silenced>>

\* The thread locks the session and computes its deadline from respTimeLeft; an
\* answer that is already there is taken at once.
Start(r) ==
    /\ thread[r] = "new"
    /\ \/ respRecvd[kind[r]] /\ Take(r, resp[kind[r]])
       \/ /\ ~respRecvd[kind[r]]
          /\ thread' = [thread EXCEPT ![r] = "wait"]
          /\ UNCHANGED <<listener, reqIDCounter, session, kind, local, handler,
                         given, outcome, silenced>>

Woken(r) ==
    /\ thread[r] = "wait"
    /\ respRecvd[kind[r]]
    /\ Take(r, resp[kind[r]])

\* The mutant waits again when it times out.
NeverTimesOut(r) == FALSE /\ UNCHANGED vars

\* A timed wait may report the timeout although an answer has come as well.
TimedOut(r) ==
    /\ thread[r] = "wait"
    /\ Take(r, "NO_RESPONSE")

\* After the unlock: respTimeLeft, then reqID.
ClearTimeLeft(r) ==
    /\ thread[r] = "took"
    /\ thread' = [thread EXCEPT ![r] = "timeCleared"]
    /\ respTimeLeft' = [respTimeLeft EXCEPT ![kind[r]] = FALSE]
    /\ UNCHANGED <<listener, reqIDCounter, rawRequest, reqID, respRecvd, resp,
                   kind, local, handler, given, outcome, silenced>>

\* The mutant sends the answer of an ignored request as well.
ClearIdAndSendAlways(r) ==
    /\ thread[r] = "timeCleared"
    /\ thread'  = [thread EXCEPT ![r] = "done"]
    /\ reqID'   = [reqID EXCEPT ![kind[r]] = 0]
    /\ outcome' = [outcome EXCEPT ![r] = local[r]]
    /\ UNCHANGED <<listener, reqIDCounter, rawRequest, respRecvd, resp,
                   respTimeLeft, kind, local, handler, given, silenced>>

\* reqID is cleared, and the message with the answer and the data is sent; it
\* does nothing but hand them to the modem.
ClearIdAndSend(r) ==
    /\ thread[r] = "timeCleared"
    /\ thread'  = [thread EXCEPT ![r] = "done"]
    /\ reqID'   = [reqID EXCEPT ![kind[r]] = 0]
    /\ outcome' = IF local[r] = "IGNORE" THEN outcome
                  ELSE [outcome EXCEPT ![r] = local[r]]
    /\ UNCHANGED <<listener, reqIDCounter, rawRequest, respRecvd, resp,
                   respTimeLeft, kind, local, handler, given, silenced>>

ThreadStep(r) ==
    Start(r) \/ Woken(r) \/ TimedOut(r) \/ ClearTimeLeft(r) \/ ClearIdAndSend(r)

Next ==
    \/ \E s \in Kinds : RequestNiNotify(s)
    \/ AcceptWithoutListener
    \/ ClientsChange
    \/ \E id \in Ids, a \in UserResponses : GnssNiResponse(id, a)
    \/ IgnoreOrdinary
    \/ ApplyAnswer
    \/ \E r \in Ids : ThreadStep(r)

Spec == Init /\ [][Next]_vars

\* Threads that can run do run, and a wait does not outlast its timeout.
FairSpec == Spec /\ \A r \in Ids : WF_vars(ThreadStep(r))

----------------------------------------------------------------------------
Holding(r) == thread[r] \in {"new", "wait", "failed"}

\* A session holds the data of exactly the request whose thread waits on it, or
\* could not be created, so that no thread takes, frees or sends the data of
\* another request, and no second request overwrites data nobody has freed.
HeldHasItsThread ==
    \A s \in Sessions, r \in Ids :
        (Holding(r) /\ kind[r] = s) <=> rawRequest[s] = r

\* The data of a request is sent to the modem or freed at most once.
OutcomeIsFinal ==
    [][\A r \in Ids : outcome[r] # "open" => outcome'[r] = outcome[r]]_vars

\* Every admitted request that got its thread is answered or freed, whatever
\* the user does (GnssAdapter.cpp:3870, "spawn a thread at this point to timeout
\* to clear up the notification status").
EveryRequestEnds ==
    \A r \in Ids : thread[r] \notin {"none", "failed"} ~> outcome[r] # "open"

\* So far every user answered once and in time, and no session had to give way.
Prompt ==
    /\ silenced = {}
    /\ \A r \in Ids : /\ Len(given[r]) <= 1
                      /\ "NO_RESPONSE" \notin {outcome[r], local[r]}

\* What is sent for a request is what the user answered to that request
\* (GnssAdapter.cpp:3775, "Reset the user response flag for the next session").
\* (Once a timeout or an order to give way crosses an answer, that answer stays
\* in the session and is taken for the next request; so does an order that comes
\* when its request is through, and it may cross the next one's answer.)
AnswerIsOwn ==
    \A r \in Ids : Prompt /\ outcome[r] \in UserResponses => outcome[r] \in Range(given[r])
=============================================================================
