--------------------------- MODULE NiSessionProofs ---------------------------
(***************************************************************************)
(* For any number of requests and answers: a session holds exactly the     *)
(* data of the request whose thread waits on it or could not be created,   *)
(* the data of a request leaves the adapter at most once, and what is sent *)
(* with it is the answer to that request as long as users are prompt.      *)
(***************************************************************************)
EXTENDS NiSession, TLAPS

\* Requests that have not arrived have no thread and are held nowhere.
Fresh ==
    /\ \A r \in Ids : r > reqIDCounter => thread[r] = "none"
    /\ \A s \in Sessions : rawRequest[s] <= reqIDCounter

\* The data of a request has left the adapter only if its thread is through, or
\* is on its way out with nothing to send.
LeftMeansThrough ==
    \A r \in Ids : outcome[r] # "open" =>
        \/ thread[r] = "done"
        \/ thread[r] \in {"took", "timeCleared"} /\ local[r] = "IGNORE"

IInv == TypeOK /\ Fresh /\ HeldHasItsThread /\ LeftMeansThrough

\* Before its thread takes its answer a request has none.
NothingTaken == \A r \in Ids : thread[r] = "none" \/ Holding(r) => local[r] = "IGNORE"

\* A session that holds a request has that request's id, or none.
IdIsOwn == \A s \in Sessions : rawRequest[s] # 0 => reqID[s] \in {0, rawRequest[s]}

\* While users are prompt, an answer is on its way to its own request, and to
\* one that has none yet: through the handler, in the session, with the thread.
AnswersOnTheirWay ==
    Prompt =>
        /\ handler.pc # "idle" =>
              /\ rawRequest[handler.to] # 0
              /\ handler.answer \in Range(given[rawRequest[handler.to]])
              /\ ~respRecvd[handler.to]
        /\ \A s \in Sessions : respRecvd[s] =>
              /\ rawRequest[s] # 0
              /\ resp[s] \in Range(given[rawRequest[s]])
        /\ \A r \in Ids : thread[r] \in {"took", "timeCleared"} =>
              local[r] \in Range(given[r])

AnswerInv == NothingTaken /\ IdIsOwn /\ AnswersOnTheirWay /\ AnswerIsOwn

LEMMA NiInit == Init => IInv
<1> USE NiAssumption DEF Ids
<1>1. ASSUME Init PROVE TypeOK
  <2>1. listener \in BOOLEAN /\ respRecvd \in [Sessions -> BOOLEAN]
        /\ respTimeLeft \in [Sessions -> BOOLEAN]
    BY <1>1 DEF Init
  <2>2. /\ reqIDCounter \in 0..MaxRequests
        /\ rawRequest \in [Sessions -> 0..MaxRequests]
        /\ reqID \in [Sessions -> 0..MaxRequests]
        /\ resp \in [Sessions -> Responses]
        /\ silenced \subseteq 0..MaxRequests
    BY <1>1 DEF Init, Responses
  <2>3. /\ kind \in [Ids -> Sessions]
        /\ thread \in [Ids -> ThreadStates]
        /\ local \in [Ids -> Responses]
        /\ given \in [Ids -> Seq(UserResponses)]
        /\ outcome \in [Ids -> {"open", "freed"} \cup Responses]
    BY <1>1 DEF Init, Sessions, Responses, ThreadStates
  <2>4. handler \in Handlers
    BY <1>1 DEF Init, Handlers
  <2> QED BY <2>1, <2>2, <2>3, <2>4 DEF TypeOK
<1>2. ASSUME Init PROVE Fresh
  BY <1>2 DEF Init, Fresh
<1>3. ASSUME Init PROVE HeldHasItsThread
  BY <1>3 DEF Init, HeldHasItsThread, Holding
<1>4. ASSUME Init PROVE LeftMeansThrough
  BY <1>4 DEF Init, LeftMeansThrough
<1> QED BY <1>1, <1>2, <1>3, <1>4 DEF IInv

\* Admission: the new id is fresh and its session is free.
LEMMA NiRequest ==
    ASSUME IInv, NEW s \in Kinds, RequestNiNotify(s)
    PROVE  IInv'
<1> USE NiAssumption DEF IInv, Ids
<1> DEFINE id == reqIDCounter + 1
<1>0. s \in Sessions /\ id \in Ids /\ rawRequest[s] = 0
      /\ \E created \in {"new", "failed"} : thread' = [thread EXCEPT ![id] = created]
      /\ rawRequest' = [rawRequest EXCEPT ![s] = id]
      /\ kind' = [kind EXCEPT ![id] = s]
      /\ reqIDCounter' = id
  <2>1. s \in Sessions /\ id \in Ids /\ rawRequest[s] = 0
    BY DEF RequestNiNotify, Admits, Sessions, TypeOK
  <2> QED BY <2>1 DEF RequestNiNotify
<1>1. TypeOK'
  <2>1. /\ listener' \in BOOLEAN /\ respRecvd' \in [Sessions -> BOOLEAN]
        /\ resp' \in [Sessions -> Responses] /\ local' \in [Ids -> Responses]
        /\ given' \in [Ids -> Seq(UserResponses)]
        /\ outcome' \in [Ids -> {"open", "freed"} \cup Responses]
        /\ silenced' \subseteq 0..MaxRequests
    BY DEF RequestNiNotify, TypeOK
  <2>2. handler' = handler
    BY DEF RequestNiNotify
  <2>3. /\ reqIDCounter' \in 0..MaxRequests
        /\ rawRequest' \in [Sessions -> 0..MaxRequests]
        /\ reqID' \in [Sessions -> 0..MaxRequests]
        /\ respTimeLeft' \in [Sessions -> BOOLEAN]
        /\ kind' \in [Ids -> Sessions]
        /\ thread' \in [Ids -> ThreadStates]
    BY <1>0 DEF RequestNiNotify, TypeOK, ThreadStates
  <2> QED BY <2>1, <2>2, <2>3 DEF TypeOK
<1>2. Fresh'
  <2>1. \A x \in Ids : x > id => thread'[x] = "none"
    BY <1>0 DEF Fresh, TypeOK
  <2>2. \A t \in Sessions : rawRequest'[t] <= id
    BY <1>0 DEF Fresh, TypeOK
  <2> QED BY <1>0, <2>1, <2>2 DEF Fresh
<1>3. HeldHasItsThread'
  BY <1>0 DEF HeldHasItsThread, Holding, Fresh, TypeOK
<1>4. LeftMeansThrough'
  BY <1>0 DEF RequestNiNotify, LeftMeansThrough, Fresh, TypeOK
<1> QED BY <1>1, <1>2, <1>3, <1>4

\* Everything the message thread does to a session besides leaves the data and
\* the threads alone.
LEMMA NiMessage ==
    ASSUME IInv,
           \/ AcceptWithoutListener
           \/ ClientsChange
           \/ \E id \in Ids, a \in UserResponses : GnssNiResponse(id, a)
           \/ IgnoreOrdinary
           \/ ApplyAnswer
    PROVE  IInv'
<1> USE NiAssumption DEF IInv, Ids
<1>0. rawRequest["session"] \in 0..MaxRequests
  BY DEF TypeOK, Sessions
<1>1. UNCHANGED <<reqIDCounter, rawRequest, kind, thread, local, outcome>>
  BY DEF AcceptWithoutListener, ClientsChange, GnssNiResponse, IgnoreOrdinary,
     ApplyAnswer, session
<1>2. TypeOK'
  <2>1. CASE AcceptWithoutListener
    <3>1. silenced' \subseteq 0..MaxRequests
      BY <1>0, <2>1 DEF AcceptWithoutListener, TypeOK
    <3> QED BY <2>1, <3>1 DEF AcceptWithoutListener, SetResponse, TypeOK, Responses
  <2>2. CASE ClientsChange
    BY <2>2 DEF ClientsChange, session, TypeOK
  <2>3. ASSUME NEW id \in Ids, NEW a \in UserResponses, GnssNiResponse(id, a)
        PROVE  TypeOK'
    <3>1. given' \in [Ids -> Seq(UserResponses)]
      BY <2>3 DEF GnssNiResponse, TypeOK
    <3>2. handler' \in Handlers
      <4>1. \/ handler' = handler
            \/ \E s \in Sessions :
                 handler' = [pc |-> IF GivesWay(s, a) THEN "ignore" ELSE "apply",
                             to |-> s, answer |-> a]
        BY <2>3 DEF GnssNiResponse, AnsweredSessions
      <4>2. ASSUME NEW s \in Sessions,
                   handler' = [pc |-> IF GivesWay(s, a) THEN "ignore" ELSE "apply",
                               to |-> s, answer |-> a]
            PROVE  handler' \in Handlers
        BY <4>2 DEF GivesWay, Handlers
      <4> QED BY <4>1, <4>2 DEF TypeOK
    <3>3. UNCHANGED <<listener, reqIDCounter, rawRequest, reqID, respRecvd, resp,
                      respTimeLeft, kind, thread, local, outcome, silenced>>
      BY <2>3 DEF GnssNiResponse, session
    <3> QED BY <3>1, <3>2, <3>3 DEF TypeOK
  <2>4. CASE IgnoreOrdinary
    <3>1. handler \in [pc : {"ignore"}, to : {"sessionEs"}, answer : {"ACCEPT"}]
      BY <2>4 DEF IgnoreOrdinary, TypeOK, Handlers, Idle
    <3>2. handler' \in Handlers
      BY <2>4, <3>1 DEF IgnoreOrdinary, Handlers, Sessions, UserResponses
    <3>3. silenced' \subseteq 0..MaxRequests
      BY <1>0, <2>4 DEF IgnoreOrdinary, TypeOK
    <3> QED BY <2>4, <3>2, <3>3 DEF IgnoreOrdinary, SetResponse, TypeOK, Responses
  <2>5. CASE ApplyAnswer
    <3>1. handler.to \in Sessions /\ handler.answer \in UserResponses
      BY <2>5 DEF ApplyAnswer, TypeOK, Handlers, Idle, Sessions, UserResponses
    <3>2. handler' \in Handlers
      BY <2>5 DEF ApplyAnswer, Handlers
    <3> QED BY <2>5, <3>1, <3>2 DEF ApplyAnswer, SetResponse, TypeOK, Responses
  <2> QED BY <2>1, <2>2, <2>3, <2>4, <2>5
<1> QED BY <1>1, <1>2 DEF Fresh, HeldHasItsThread, LeftMeansThrough, Holding

\* The end of a wait: what the thread finds in its session is its own request.
LEMMA NiTake ==
    ASSUME IInv, NEW r \in Ids, Holding(r), NEW v \in Responses, Take(r, v)
    PROVE  IInv'
<1> USE NiAssumption DEF IInv, Ids
<1>0. /\ kind[r] \in Sessions /\ rawRequest[kind[r]] = r
      /\ thread' = [thread EXCEPT ![r] = "took"]
      /\ rawRequest' = [rawRequest EXCEPT ![kind[r]] = 0]
      /\ local' = [local EXCEPT ![r] = v]
      /\ outcome' = [x \in Ids |-> IF x = r /\ v = "IGNORE" THEN "freed" ELSE outcome[x]]
      /\ UNCHANGED <<kind, reqIDCounter>>
  <2>1. kind[r] \in Sessions /\ rawRequest[kind[r]] = r /\ r # 0
    BY DEF HeldHasItsThread, TypeOK
  <2>2. /\ thread' = [thread EXCEPT ![r] = "took"]
        /\ rawRequest' = [rawRequest EXCEPT ![kind[r]] = 0]
        /\ local' = [local EXCEPT ![r] = IF rawRequest[kind[r]] # 0 THEN v ELSE "IGNORE"]
        /\ outcome' = [x \in Ids |-> IF x = rawRequest[kind[r]] /\ v = "IGNORE"
                                      THEN "freed" ELSE outcome[x]]
        /\ UNCHANGED <<kind, reqIDCounter>>
    BY DEF Take
  <2> QED BY <2>1, <2>2
<1>1. TypeOK'
  <2>1. respRecvd' \in [Sessions -> BOOLEAN]
    BY <1>0 DEF Take, TypeOK
  <2>2. outcome' \in [Ids -> {"open", "freed"} \cup Responses]
    BY <1>0 DEF TypeOK
  <2>3. /\ rawRequest' \in [Sessions -> 0..MaxRequests]
        /\ resp' \in [Sessions -> Responses]
        /\ local' \in [Ids -> Responses]
        /\ thread' \in [Ids -> ThreadStates]
    BY <1>0 DEF Take, TypeOK, ThreadStates
  <2> QED BY <2>1, <2>2, <2>3 DEF Take, TypeOK
<1>2. Fresh'
  BY <1>0 DEF Fresh, TypeOK, Holding
<1>3. HeldHasItsThread'
  BY <1>0 DEF HeldHasItsThread, Holding, TypeOK
<1>4. LeftMeansThrough'
  BY <1>0 DEF LeftMeansThrough, Holding, TypeOK
<1> QED BY <1>1, <1>2, <1>3, <1>4

LEMMA NiThread ==
    ASSUME IInv, NEW r \in Ids, ThreadStep(r)
    PROVE  IInv'
<1> USE NiAssumption DEF IInv, Ids
<1>0. kind[r] \in Sessions /\ resp[kind[r]] \in Responses
  BY DEF TypeOK
<1>1. CASE Start(r)
  <2>1. CASE respRecvd[kind[r]]
    BY <1>0, <1>1, <2>1, NiTake DEF Start, Holding
  <2>2. CASE ~respRecvd[kind[r]]
    <3>1. /\ thread[r] = "new" /\ thread' = [thread EXCEPT ![r] = "wait"]
          /\ UNCHANGED <<listener, reqIDCounter, rawRequest, reqID, respRecvd,
                         resp, respTimeLeft, kind, local, handler, given,
                         outcome, silenced>>
      BY <1>1, <2>2 DEF Start, session
    <3>2. TypeOK'
      BY <3>1 DEF TypeOK, ThreadStates
    <3>3. Fresh' /\ LeftMeansThrough'
      BY <3>1 DEF Fresh, LeftMeansThrough, TypeOK
    <3>4. HeldHasItsThread'
      BY <3>1 DEF HeldHasItsThread, Holding, TypeOK
    <3> QED BY <3>2, <3>3, <3>4
  <2> QED BY <2>1, <2>2
<1>2. CASE Woken(r)
  BY <1>0, <1>2, NiTake DEF Woken, Holding
<1>3. CASE TimedOut(r)
  BY <1>3, NiTake DEF TimedOut, Holding, Responses
<1>4. CASE ClearTimeLeft(r)
  <2>1. /\ thread[r] = "took" /\ thread' = [thread EXCEPT ![r] = "timeCleared"]
        /\ UNCHANGED <<reqIDCounter, rawRequest, kind, local, outcome>>
    BY <1>4 DEF ClearTimeLeft
  <2>2. TypeOK'
    BY <1>0, <1>4 DEF ClearTimeLeft, TypeOK, ThreadStates
  <2>3. Fresh' /\ LeftMeansThrough'
    BY <2>1 DEF Fresh, LeftMeansThrough, TypeOK
  <2>4. HeldHasItsThread'
    BY <2>1 DEF HeldHasItsThread, Holding, TypeOK
  <2> QED BY <2>2, <2>3, <2>4
<1>5. CASE ClearIdAndSend(r)
  <2>1. /\ thread[r] = "timeCleared" /\ thread' = [thread EXCEPT ![r] = "done"]
        /\ \A x \in Ids : x # r => outcome'[x] = outcome[x]
        /\ UNCHANGED <<reqIDCounter, rawRequest, kind, local>>
    BY <1>5 DEF ClearIdAndSend, TypeOK
  <2>2. TypeOK'
    BY <1>0, <1>5 DEF ClearIdAndSend, TypeOK, ThreadStates
  <2>3. Fresh' /\ LeftMeansThrough'
    BY <2>1 DEF Fresh, LeftMeansThrough, TypeOK
  <2>4. HeldHasItsThread'
    BY <2>1 DEF HeldHasItsThread, Holding, TypeOK
  <2> QED BY <2>2, <2>3, <2>4
<1> QED BY <1>1, <1>2, <1>3, <1>4, <1>5 DEF ThreadStep

LEMMA NiNext ==
    ASSUME IInv, [Next]_vars
    PROVE  IInv'
<1>1. CASE UNCHANGED vars
  BY <1>1 DEF vars, session, IInv, TypeOK, Fresh, HeldHasItsThread,
     LeftMeansThrough, Holding
<1>2. CASE Next
  BY <1>2, NiRequest, NiMessage, NiThread DEF Next
<1> QED BY <1>1, <1>2

\* The step that ends a request's data does so once: from an open outcome.
LEMMA NiOutcomeStep ==
    ASSUME IInv, [Next]_vars, NEW r \in Ids, outcome[r] # "open"
    PROVE  outcome'[r] = outcome[r]
<1> USE DEF IInv
<1>1. ASSUME NEW q \in Ids, NEW v, Holding(q), Take(q, v)
      PROVE  outcome'[r] = outcome[r]
  BY <1>1 DEF Take, HeldHasItsThread, LeftMeansThrough, Holding, TypeOK
<1>2. ASSUME NEW q \in Ids, ThreadStep(q)
      PROVE  outcome'[r] = outcome[r]
  <2>1. CASE ClearIdAndSend(q)
    BY <2>1 DEF ClearIdAndSend, LeftMeansThrough, TypeOK
  <2> QED BY <1>1, <1>2, <2>1 DEF ThreadStep, Start, Woken, TimedOut,
             ClearTimeLeft, Holding
<1> QED BY <1>2 DEF Next, vars, RequestNiNotify, AcceptWithoutListener,
           ClientsChange, GnssNiResponse, IgnoreOrdinary, ApplyAnswer

----------------------------------------------------------------------------
(* Answers.                                                                *)

LEMMA NiAnswerInit == Init => AnswerInv
<1> SUFFICES ASSUME Init PROVE AnswerInv
  OBVIOUS
<1>1. NothingTaken /\ IdIsOwn
  BY DEF Init, NothingTaken, IdIsOwn
<1>2. AnswersOnTheirWay
  BY DEF Init, AnswersOnTheirWay, Idle
<1>3. AnswerIsOwn
  BY DEF Init, AnswerIsOwn, UserResponses
<1> QED BY <1>1, <1>2, <1>3 DEF AnswerInv

\* What a thread that takes its answer changes, and what it leaves.
LEMMA NiTakes ==
    ASSUME IInv, NEW r \in Ids, Holding(r), NEW v, Take(r, v)
    PROVE  /\ kind[r] \in Sessions /\ rawRequest[kind[r]] = r /\ r # 0
           /\ thread' = [thread EXCEPT ![r] = "took"]
           /\ local' = [local EXCEPT ![r] = v]
           /\ rawRequest' = [rawRequest EXCEPT ![kind[r]] = 0]
           /\ respRecvd' = [respRecvd EXCEPT ![kind[r]] = FALSE]
           /\ resp' = [resp EXCEPT ![kind[r]] = v]
           /\ \A x \in Ids : outcome'[x] = IF x = r /\ v = "IGNORE" THEN "freed" ELSE outcome[x]
           /\ UNCHANGED <<reqID, handler, given, silenced, kind>>
<1>1. kind[r] \in Sessions /\ rawRequest[kind[r]] = r /\ r # 0
  BY NiAssumption DEF IInv, HeldHasItsThread, TypeOK, Ids
<1> QED BY <1>1 DEF Take

\* A thread either takes an answer at the end of its wait or is on its way.
LEMMA NiThreadCases ==
    ASSUME NEW r \in Ids, ThreadStep(r)
    PROVE  \/ Holding(r) /\ respRecvd[kind[r]] /\ Take(r, resp[kind[r]])
           \/ Holding(r) /\ Take(r, "NO_RESPONSE")
           \/ /\ thread[r] = "new" /\ thread' = [thread EXCEPT ![r] = "wait"]
              /\ UNCHANGED <<session, kind, local, handler, given, outcome, silenced>>
           \/ ClearTimeLeft(r)
           \/ ClearIdAndSend(r)
BY DEF ThreadStep, Start, Woken, TimedOut, Holding

LEMMA NiNothingTaken ==
    ASSUME IInv, NothingTaken, [Next]_vars
    PROVE  NothingTaken'
<1> USE NiAssumption DEF IInv, TypeOK, Ids, NothingTaken, Holding
<1>1. ASSUME NEW r \in Ids, ThreadStep(r) PROVE NothingTaken'
  <2>1. ASSUME NEW v, Holding(r), Take(r, v) PROVE NothingTaken'
    <3>1. /\ kind[r] \in Sessions
          /\ thread' = [thread EXCEPT ![r] = "took"]
          /\ local' = [local EXCEPT ![r] = v]
          /\ rawRequest' = [rawRequest EXCEPT ![kind[r]] = 0]
          /\ reqID' = reqID
      BY <2>1, NiTakes
    <3> QED BY <3>1
  <2>2. CASE ~Holding(r) \/ ~\E v : Take(r, v)
    BY <1>1, <2>2, NiThreadCases DEF ClearTimeLeft, ClearIdAndSend, session
  <2> QED BY <2>1, <2>2
<1>2. ASSUME NEW s \in Kinds, RequestNiNotify(s) PROVE NothingTaken'
  BY <1>2 DEF RequestNiNotify, Fresh
<1> QED BY <1>1, <1>2 DEF Next, vars, session, AcceptWithoutListener, ClientsChange,
           GnssNiResponse, IgnoreOrdinary, ApplyAnswer

LEMMA NiIdIsOwn ==
    ASSUME IInv, IdIsOwn, [Next]_vars
    PROVE  IdIsOwn'
<1> USE NiAssumption DEF IInv, TypeOK, Ids, IdIsOwn
<1>1. ASSUME NEW r \in Ids, ThreadStep(r) PROVE IdIsOwn'
  <2>1. ASSUME NEW v, Holding(r), Take(r, v) PROVE IdIsOwn'
    <3>1. /\ kind[r] \in Sessions
          /\ thread' = [thread EXCEPT ![r] = "took"]
          /\ local' = [local EXCEPT ![r] = v]
          /\ rawRequest' = [rawRequest EXCEPT ![kind[r]] = 0]
          /\ reqID' = reqID
      BY <2>1, NiTakes
    <3> QED BY <3>1
  <2>2. CASE ~Holding(r) \/ ~\E v : Take(r, v)
    BY <1>1, <2>2, NiThreadCases DEF ClearTimeLeft, ClearIdAndSend, session
  <2> QED BY <2>1, <2>2
<1>2. ASSUME NEW s \in Kinds, RequestNiNotify(s) PROVE IdIsOwn'
  BY <1>2 DEF RequestNiNotify
<1> QED BY <1>1, <1>2 DEF Next, vars, session, AcceptWithoutListener, ClientsChange,
           GnssNiResponse, IgnoreOrdinary, ApplyAnswer

\* Nobody becomes prompt again.
LEMMA NiPromptBefore ==
    ASSUME IInv, NothingTaken, [Next]_vars, Prompt'
    PROVE  Prompt
<1> USE DEF IInv, TypeOK
<1>1. silenced \subseteq silenced'
  <2>1. ASSUME NEW r \in Ids, ThreadStep(r) PROVE silenced' = silenced
    BY <2>1, NiTakes, NiThreadCases DEF ClearTimeLeft, ClearIdAndSend
  <2> QED BY <2>1 DEF Next, vars, RequestNiNotify, AcceptWithoutListener, ClientsChange,
             GnssNiResponse, IgnoreOrdinary, ApplyAnswer
<1>2. ASSUME NEW r \in Ids PROVE Len(given[r]) <= Len(given'[r])
  <2>1. ASSUME NEW q \in Ids, ThreadStep(q) PROVE given' = given
    BY <2>1, NiTakes, NiThreadCases DEF ClearTimeLeft, ClearIdAndSend
  <2>2. ASSUME NEW id \in Ids, NEW a \in UserResponses, GnssNiResponse(id, a)
        PROVE  Len(given[r]) <= Len(given'[r])
    <3>1. given' = [given EXCEPT ![id] = Append(given[id], a)]
      BY <2>2 DEF GnssNiResponse
    <3>2. /\ given[r] \in Seq(UserResponses)
          /\ given'[r] = IF r = id THEN Append(given[r], a) ELSE given[r]
      BY <3>1
    <3> QED BY <3>2
  <2>3. given' = given => Len(given[r]) <= Len(given'[r])
    BY DEF Ids
  <2> QED BY <2>1, <2>2, <2>3 DEF Next, vars, RequestNiNotify, AcceptWithoutListener,
             ClientsChange, IgnoreOrdinary, ApplyAnswer
<1>3. ASSUME NEW r \in Ids, local[r] = "NO_RESPONSE" PROVE local'[r] = local[r]
  <2>1. ASSUME NEW q \in Ids, ThreadStep(q) PROVE local'[r] = local[r]
    <3>1. ASSUME NEW v, Holding(q), Take(q, v) PROVE local'[r] = local[r]
      <4>1. q # r
        BY <1>3, <3>1 DEF NothingTaken
      <4>2. local' = [local EXCEPT ![q] = v]
        BY <3>1, NiTakes
      <4> QED BY <4>1, <4>2
    <3> QED BY <2>1, <3>1, NiThreadCases DEF ClearTimeLeft, ClearIdAndSend
  <2> QED BY <2>1 DEF Next, vars, RequestNiNotify, AcceptWithoutListener,
             ClientsChange, GnssNiResponse, IgnoreOrdinary, ApplyAnswer
<1>4. \A r \in Ids : outcome[r] = "NO_RESPONSE" => outcome'[r] = "NO_RESPONSE"
  BY NiOutcomeStep
<1>5. \A r \in Ids : Len(given[r]) \in Nat /\ Len(given'[r]) \in Nat
  BY NiNext
<1>6. \A r \in Ids : local[r] # "NO_RESPONSE" /\ outcome[r] # "NO_RESPONSE"
  BY <1>3, <1>4 DEF Prompt
<1>7. ASSUME NEW r \in Ids PROVE Len(given[r]) <= 1
  <2>1. Len(given'[r]) <= 1
    BY DEF Prompt
  <2> QED BY <1>2, <1>5, <2>1
<1> QED BY <1>1, <1>6, <1>7 DEF Prompt

\* A user who answers a request for the first time finds no answer to it yet.
LEMMA NiAnswers ==
    ASSUME IInv, AnswerInv, NEW id \in Ids, NEW a \in UserResponses,
           GnssNiResponse(id, a), Prompt, Prompt'
    PROVE  AnswersOnTheirWay' /\ AnswerIsOwn'
<1> USE NiAssumption DEF IInv, TypeOK, Ids
<1>1. /\ given' = [given EXCEPT ![id] = Append(given[id], a)]
      /\ UNCHANGED <<rawRequest, respRecvd, resp, thread, local, outcome>>
      /\ handler.pc = "idle"
  BY DEF GnssNiResponse, session
<1>2. given[id] = <<>> /\ given'[id] = <<a>>
  <2>1. given[id] \in Seq(UserResponses) /\ given'[id] = Append(given[id], a)
    BY <1>1
  <2>2. Len(given'[id]) <= 1 /\ Len(given'[id]) = Len(given[id]) + 1
    BY <2>1 DEF Prompt
  <2>3. given[id] = <<>>
    BY <2>1, <2>2
  <2> QED BY <2>1, <2>3
<1>3. Range(given[id]) = {} /\ a \in Range(given'[id])
  BY <1>2 DEF Range
<1>4. \A x \in Ids : Range(given[x]) \subseteq Range(given'[x])
  BY <1>1, <1>3
<1>5. ASSUME NEW s \in AnsweredSessions(id)
      PROVE  s \in Sessions /\ rawRequest[s] = id /\ ~respRecvd[s]
  <2>1. s \in Sessions /\ reqID[s] = id /\ rawRequest[s] # 0
    BY <1>5 DEF AnsweredSessions
  <2>2. rawRequest[s] = id
    BY <2>1 DEF AnswerInv, IdIsOwn
  <2> QED BY <1>3, <2>1, <2>2 DEF AnswerInv, AnswersOnTheirWay
<1>6. handler'.pc # "idle" => /\ rawRequest'[handler'.to] # 0
                              /\ handler'.answer \in Range(given'[rawRequest'[handler'.to]])
                              /\ ~respRecvd'[handler'.to]
  <2>1. \/ handler' = handler
        \/ \E s \in AnsweredSessions(id) : handler'.to = s /\ handler'.answer = a
    BY DEF GnssNiResponse
  <2> QED BY <1>1, <1>3, <1>5, <2>1
<1>7. \A s \in Sessions : respRecvd'[s] =>
        rawRequest'[s] # 0 /\ resp'[s] \in Range(given'[rawRequest'[s]])
  BY <1>1, <1>4 DEF AnswerInv, AnswersOnTheirWay
<1>8. \A r \in Ids : thread'[r] \in {"took", "timeCleared"} => local'[r] \in Range(given'[r])
  BY <1>1, <1>4 DEF AnswerInv, AnswersOnTheirWay
<1>9. AnswerIsOwn'
  BY <1>1, <1>4 DEF AnswerInv, AnswerIsOwn
<1> QED BY <1>6, <1>7, <1>8, <1>9 DEF AnswersOnTheirWay

\* A thread takes the answer that is in its session, which is its own; one that
\* times out is not prompt.
LEMMA NiTakesOwn ==
    ASSUME IInv, AnswerInv, NEW r \in Ids, Holding(r), NEW v, Take(r, v),
           v = "NO_RESPONSE" \/ (respRecvd[kind[r]] /\ v = resp[kind[r]]),
           Prompt, Prompt'
    PROVE  AnswersOnTheirWay' /\ AnswerIsOwn'
<1> DEFINE s == kind[r]
<1>1. /\ s \in Sessions /\ rawRequest[s] = r /\ r # 0
      /\ thread' = [thread EXCEPT ![r] = "took"]
      /\ local' = [local EXCEPT ![r] = v]
      /\ rawRequest' = [rawRequest EXCEPT ![s] = 0]
      /\ respRecvd' = [respRecvd EXCEPT ![s] = FALSE]
      /\ resp' = [resp EXCEPT ![s] = v]
      /\ \A x \in Ids : outcome'[x] = IF x = r /\ v = "IGNORE" THEN "freed" ELSE outcome[x]
      /\ handler' = handler /\ given' = given
  BY NiTakes
<1> USE NiAssumption DEF IInv, TypeOK, Ids
<1>2. v # "NO_RESPONSE"
  BY <1>1 DEF Prompt
<1>3. respRecvd[s] /\ v \in Range(given[r])
  BY <1>1, <1>2 DEF AnswerInv, AnswersOnTheirWay
<1>4. handler.pc # "idle" => handler.to # s /\ handler.to \in Sessions
  <2>1. handler.pc # "idle" => handler.to \in Sessions
    BY DEF Handlers, Idle, Sessions
  <2> QED BY <1>3, <2>1 DEF AnswerInv, AnswersOnTheirWay
<1>5. handler'.pc # "idle" => /\ rawRequest'[handler'.to] # 0
                              /\ handler'.answer \in Range(given'[rawRequest'[handler'.to]])
                              /\ ~respRecvd'[handler'.to]
  BY <1>1, <1>4 DEF AnswerInv, AnswersOnTheirWay
<1>6. \A t \in Sessions : respRecvd'[t] =>
        rawRequest'[t] # 0 /\ resp'[t] \in Range(given'[rawRequest'[t]])
  BY <1>1 DEF AnswerInv, AnswersOnTheirWay
<1>7. \A x \in Ids : thread'[x] \in {"took", "timeCleared"} => local'[x] \in Range(given'[x])
  BY <1>1, <1>3 DEF AnswerInv, AnswersOnTheirWay
<1>8. AnswerIsOwn'
  BY <1>1 DEF AnswerInv, AnswerIsOwn, UserResponses
<1> QED BY <1>5, <1>6, <1>7, <1>8 DEF AnswersOnTheirWay

LEMMA NiAnswerThread ==
    ASSUME IInv, AnswerInv, NEW r \in Ids, ThreadStep(r), Prompt, Prompt'
    PROVE  AnswersOnTheirWay' /\ AnswerIsOwn'
<1> USE DEF IInv, TypeOK, AnswerInv
<1>1. CASE Holding(r) /\ respRecvd[kind[r]] /\ Take(r, resp[kind[r]])
  BY <1>1, NiTakesOwn
<1>2. CASE Holding(r) /\ Take(r, "NO_RESPONSE")
  BY <1>2, NiTakesOwn
<1>3. CASE thread[r] = "new" /\ thread' = [thread EXCEPT ![r] = "wait"]
           /\ UNCHANGED <<session, kind, local, handler, given, outcome, silenced>>
  BY <1>3 DEF AnswersOnTheirWay, AnswerIsOwn, session
<1>4. CASE ClearTimeLeft(r)
  BY <1>4 DEF ClearTimeLeft, AnswersOnTheirWay, AnswerIsOwn
<1>5. CASE ClearIdAndSend(r)
  <2>1. local[r] \in Range(given[r])
    BY <1>5 DEF ClearIdAndSend, AnswersOnTheirWay
  <2>2. /\ thread' = [thread EXCEPT ![r] = "done"]
        /\ \A x \in Ids : outcome'[x] \in {outcome[x]} \cup IF x = r THEN {local[r]} ELSE {}
        /\ UNCHANGED <<rawRequest, respRecvd, resp, handler, local, given>>
    BY <1>5 DEF ClearIdAndSend
  <2> QED BY <2>1, <2>2 DEF AnswersOnTheirWay, AnswerIsOwn
<1> QED BY <1>1, <1>2, <1>3, <1>4, <1>5, NiThreadCases

LEMMA NiAnswerNext ==
    ASSUME IInv, AnswerInv, [Next]_vars
    PROVE  AnswerInv'
<1> USE NiAssumption DEF AnswerInv
<1>1. NothingTaken' /\ IdIsOwn'
  BY NiNothingTaken, NiIdIsOwn
<1>2. CASE ~Prompt'
  BY <1>1, <1>2 DEF AnswersOnTheirWay, AnswerIsOwn
<1>3. CASE Prompt'
  <2>1. Prompt
    BY <1>3, NiPromptBefore
  <2>2. ASSUME NEW s \in Kinds, RequestNiNotify(s)
        PROVE  AnswersOnTheirWay' /\ AnswerIsOwn'
    <3>1. s \in Sessions /\ rawRequest[s] = 0 /\ reqIDCounter + 1 \in Ids
      BY <2>2 DEF RequestNiNotify, Admits, IInv, TypeOK, Sessions, Ids
    <3>2. /\ rawRequest' = [rawRequest EXCEPT ![s] = reqIDCounter + 1]
          /\ UNCHANGED <<respRecvd, resp, handler, local, given, outcome>>
          /\ handler.pc = "idle"
          /\ \A x \in Ids : thread'[x] \in {"took", "timeCleared"} => thread'[x] = thread[x]
      BY <2>2 DEF RequestNiNotify, IInv, TypeOK
    <3> QED BY <2>1, <3>1, <3>2 DEF AnswersOnTheirWay, AnswerIsOwn, IInv, TypeOK
  <2>3. CASE AcceptWithoutListener \/ IgnoreOrdinary
    <3>1. rawRequest["session"] \in silenced'
      BY <2>3 DEF AcceptWithoutListener, IgnoreOrdinary
    <3> QED BY <1>3, <3>1 DEF Prompt
  <2>4. CASE ClientsChange \/ UNCHANGED vars
    <3>1. UNCHANGED <<rawRequest, respRecvd, resp, thread, handler, local, given, outcome>>
      BY <2>4 DEF ClientsChange, vars, session
    <3>2. AnswersOnTheirWay'
      BY <2>1, <3>1 DEF AnswersOnTheirWay
    <3>3. AnswerIsOwn'
      BY <2>1, <3>1 DEF AnswerIsOwn
    <3> QED BY <1>1, <3>2, <3>3
  <2>5. ASSUME NEW id \in Ids, NEW a \in UserResponses, GnssNiResponse(id, a)
        PROVE  AnswersOnTheirWay' /\ AnswerIsOwn'
    BY <1>3, <2>1, <2>5, NiAnswers
  <2>6. CASE ApplyAnswer
    <3>1. handler.to \in Sessions
      BY <2>6 DEF ApplyAnswer, IInv, TypeOK, Handlers, Idle, Sessions
    <3>2. /\ resp' = [resp EXCEPT ![handler.to] = handler.answer]
          /\ respRecvd' = [respRecvd EXCEPT ![handler.to] = TRUE]
          /\ handler'.pc = "idle" /\ handler.pc # "idle"
          /\ UNCHANGED <<rawRequest, thread, local, given, outcome>>
      BY <2>6 DEF ApplyAnswer, SetResponse, Idle
    <3>3. \A s \in Sessions : respRecvd'[s] =>
            rawRequest'[s] # 0 /\ resp'[s] \in Range(given'[rawRequest'[s]])
      BY <2>1, <3>1, <3>2 DEF AnswersOnTheirWay, IInv, TypeOK
    <3>4. \A r \in Ids :
            thread'[r] \in {"took", "timeCleared"} => local'[r] \in Range(given'[r])
      BY <2>1, <3>2 DEF AnswersOnTheirWay
    <3>5. AnswerIsOwn'
      BY <2>1, <3>2 DEF AnswerIsOwn
    <3> QED BY <1>1, <3>2, <3>3, <3>4, <3>5 DEF AnswersOnTheirWay
  <2>7. ASSUME NEW r \in Ids, ThreadStep(r)
        PROVE  AnswersOnTheirWay' /\ AnswerIsOwn'
    BY <1>3, <2>1, <2>7, NiAnswerThread
  <2> QED BY <1>1, <2>2, <2>3, <2>4, <2>5, <2>6, <2>7 DEF Next
<1> QED BY <1>2, <1>3

\* The state of both sessions, of the threads and of the message thread is
\* well-formed for any number of requests.
THEOREM NiTypeOK ==
    Spec => []TypeOK
<1>1. IInv /\ [Next]_vars => IInv'
  BY NiNext
<1>2. IInv => TypeOK
  BY DEF IInv
<1> QED BY NiInit, <1>1, <1>2, PTL DEF Spec

\* However the message thread and the timeout threads interleave, a session
\* holds the data of exactly the request whose thread waits on it: niThreadProc
\* never takes another request's data, requestNiNotify never overwrites any.
THEOREM NiHeldHasItsThread ==
    Spec => []HeldHasItsThread
<1>1. IInv /\ [Next]_vars => IInv'
  BY NiNext
<1>2. IInv => HeldHasItsThread
  BY DEF IInv
<1> QED BY NiInit, <1>1, <1>2, PTL DEF Spec

\* The data of a request is handed to the modem or freed at most once.
THEOREM NiOutcomeIsFinal ==
    Spec => OutcomeIsFinal
<1>1. IInv /\ [Next]_vars => IInv'
  BY NiNext
<1>2. IInv /\ [Next]_vars =>
        [\A r \in Ids : outcome[r] # "open" => outcome'[r] = outcome[r]]_vars
  BY NiOutcomeStep
<1> QED BY NiInit, <1>1, <1>2, PTL DEF Spec, OutcomeIsFinal
\* As long as every user answers once and in time and no session has to give way,
\* what is sent for a request is what the user answered to it: neither the next
\* request of the session nor the other session's takes it.
THEOREM NiAnswerIsOwn ==
    Spec => []AnswerIsOwn
<1>1. IInv /\ AnswerInv /\ [Next]_vars => (IInv /\ AnswerInv)'
  BY NiNext, NiAnswerNext
<1>2. AnswerInv => AnswerIsOwn
  BY DEF AnswerInv
<1> QED BY NiInit, NiAnswerInit, <1>1, <1>2, PTL DEF Spec
=============================================================================
