------------------------------- MODULE Agps --------------------------------
(***************************************************************************)
(* The AGPS data-call manager of the GNSS HAL (gps/gnss/Agps.cpp).         *)
(*                                                                         *)
(* The modem asks for a data call by handle (requestATL) and gives it back *)
(* (releaseATL); the framework answers (reportAtlOpenSuccess, -Failed,     *)
(* -Closed).  One state machine (a "NIF") per bearer class multiplexes all *)
(* handles on one framework data connection.  Every handler runs to its    *)
(* end in the adapter's message thread, so a handler is one action.        *)
(*                                                                         *)
(* The environment is arbitrary: any report may arrive in any state, which *)
(* covers answers that are late, repeated or unasked for.                  *)
(***************************************************************************)
EXTENDS Naturals, FiniteSets

CONSTANTS
    Handles,          \* connection handles the modem uses
    Apns,             \* access point names the framework may report
    NoApn,            \* mAPN == NULL
    Setups            \* the configurations and environments considered

ASSUME AgpsAssumption ==
    /\ NoApn \notin Apns
    /\ Setups \subseteq [emergencyPdn : BOOLEAN, closeWaiters : SUBSET Handles,
                         modemRestarts : BOOLEAN, badApns : BOOLEAN]

Nifs      == {"AGNSS", "INTERNET"}
AgpsTypes == {"SUPL", "SUPL_ES", "WWAN_ANY"}
States    == {"RELEASED", "PENDING", "ACQUIRED", "RELEASING"}

VARIABLES
    created,   \* the NIFs that exist (mAgnssNif, mInternetNif not NULL)
    state,     \* mState of each NIF
    subs,      \* mSubscriberList: handle -> absent, active, inactive
    agpsType,  \* mAgpsType, overwritten by every request
    apn,       \* mAPN
    asked,     \* type of the data connection asked of the framework and
               \* not given back since, "NONE" otherwise
    owed,      \* the NIFs whose request the framework has yet to answer
    told,      \* the last ATL status the modem holds for each handle
    setup      \* chosen at the start, never changed

smVars == <<setup, created, state, subs, agpsType, apn, asked, owed>>
vars   == <<setup, created, state, subs, agpsType, apn, asked, owed, told>>

UseEmergencyPdn == setup.emergencyPdn   \* USE_EMERGENCY_PDN_FOR_EMERGENCY_SUPL # 0
CloseWaiters    == setup.closeWaiters   \* handles subscribed with
    \* mWaitForCloseComplete; the manager creates every subscriber without it
ModemMayRestart == setup.modemRestarts  \* the modem may forget its handles (SSR)
BadApnPossible  == setup.badApns        \* the framework may report an unusable APN

Subscribed(n) == {h \in Handles : subs[n][h] # "absent"}
Active(n)     == {h \in Handles : subs[n][h] = "active"}
Inactive(n)   == {h \in Handles : subs[n][h] = "inactive"}

\* The mutant stops after the first subscriber.
NotifyFirstOnly(H, s) ==
    [h \in Handles |-> IF H # {} /\ h = CHOOSE x \in H : TRUE THEN s ELSE told[h]]

\* The status of every handle in H becomes s (notifyEventToSubscriber).
Notify(H, s) == [h \in Handles |-> IF h \in H THEN s ELSE told[h]]

\* The mutant deletes the subscribers but leaves them in the list.
WithoutErase(n, H) ==
    [h \in Handles |-> IF h \in H /\ subs[n][h] # "absent" THEN "deleted"
                                                           ELSE subs[n][h]]

\* The list of n without the handles in H (notifyAllSubscribers, deleting).
Without(n, H) == [h \in Handles |-> IF h \in H THEN "absent" ELSE subs[n][h]]

\* requestATL: emergency SUPL is plain SUPL unless it has a PDN of its own.
EffectiveType(t) ==
    IF t = "SUPL_ES" /\ ~UseEmergencyPdn THEN "SUPL" ELSE t

\* getAgpsStateMachine
NifOf(t) == IF t \in {"SUPL", "SUPL_ES"} THEN "AGNSS" ELSE "INTERNET"

----------------------------------------------------------------------------
Init ==
    /\ setup \in Setups
    /\ created  = {}
    /\ state    = [n \in Nifs |-> "RELEASED"]
    /\ subs     = [n \in Nifs |-> [h \in Handles |-> "absent"]]
    /\ agpsType = [n \in Nifs |-> IF n = "AGNSS" THEN "SUPL" ELSE "WWAN_ANY"]
    /\ apn      = [n \in Nifs |-> NoApn]
    /\ asked    = [n \in Nifs |-> "NONE"]
    /\ owed     = {}
    /\ told     = [h \in Handles |-> "NONE"]

\* initAgps: a NIF comes into being once, when a callback for it arrives.
CreateStateMachine(n) ==
    /\ n \notin created
    /\ created' = created \cup {n}
    /\ UNCHANGED <<setup, state, subs, agpsType, apn, asked, owed, told>>

\* AGPS_EVENT_SUBSCRIBE: the first subscriber asks for the connection, a
\* later one joins; in ACQUIRED it is granted at once.  A handle already in
\* the list is not added again.
Subscribe(n, h, t) ==
    /\ agpsType' = [agpsType EXCEPT ![n] = t]
    /\ subs'  = [subs EXCEPT ![n][h] = IF @ = "absent" THEN "active" ELSE @]
    /\ told'  = [told EXCEPT ![h] = IF state[n] = "ACQUIRED" THEN "OPEN"
                                                             ELSE "WAITING"]
    /\ state' = [state EXCEPT ![n] = IF @ = "RELEASED" THEN "PENDING" ELSE @]
    /\ asked' = [asked EXCEPT ![n] = IF state[n] = "RELEASED" THEN t ELSE @]
    /\ owed'  = IF state[n] = "RELEASED" THEN owed \cup {n} ELSE owed
    /\ UNCHANGED <<setup, created, apn>>

\* AGPS_EVENT_UNSUBSCRIBE: a handle that waits for the close turns inactive,
\* another is told and deleted; the connection goes when nobody active is left.
Unsubscribe(n, h) ==
    LET left  == IF h \in CloseWaiters \/ state[n] = "RELEASED"
                 THEN Subscribed(n) ELSE Subscribed(n) \ {h}
        users == Active(n) \ {h}
    IN
    /\ subs'  = IF state[n] = "RELEASED" THEN subs ELSE
                [subs EXCEPT ![n][h] = IF h \in CloseWaiters THEN "inactive"
                                                             ELSE "absent"]
    /\ told'  = IF h \in CloseWaiters /\ state[n] # "RELEASED" THEN told
                ELSE [told EXCEPT ![h] = "CLOSED"]
    /\ state' = [state EXCEPT ![n] =
                   IF left = {} THEN "RELEASED"
                   ELSE IF users = {} /\ @ \in {"PENDING", "ACQUIRED"}
                        THEN "RELEASING" ELSE @]
    /\ asked' = [asked EXCEPT ![n] = IF users = {} THEN "NONE" ELSE @]
    /\ owed'  = IF users = {} THEN owed \ {n} ELSE owed
    /\ UNCHANGED <<setup, created, agpsType, apn>>

\* A release in progress ends: the inactive handles are told and deleted; if
\* active ones joined meanwhile the connection is asked for again.
ReleaseDone(n) ==
    /\ told'  = Notify(Inactive(n), "CLOSED")
    /\ subs'  = [subs EXCEPT ![n] = Without(n, Inactive(n))]
    /\ state' = [state EXCEPT ![n] = IF Active(n) # {} THEN "PENDING"
                                                       ELSE "RELEASED"]
    /\ asked' = [asked EXCEPT ![n] = IF Active(n) # {} THEN agpsType[n]
                                                       ELSE "NONE"]
    /\ owed'  = IF Active(n) # {} THEN owed \cup {n} ELSE owed \ {n}
    /\ UNCHANGED <<setup, created, agpsType, apn>>

\* Everybody is told s and deleted; the state machine is back in RELEASED.
DropAll(n, s) ==
    /\ told'  = Notify(Subscribed(n), s)
    /\ subs'  = [subs EXCEPT ![n] = Without(n, Handles)]
    /\ state' = [state EXCEPT ![n] = "RELEASED"]
    /\ asked' = [asked EXCEPT ![n] = "NONE"]
    /\ owed'  = owed \ {n}
    /\ UNCHANGED <<setup, created, agpsType, apn>>

----------------------------------------------------------------------------
\* The modem side.

\* requestATL, for a handle the modem does not hold.
RequestATL(h, t) ==
    LET type == EffectiveType(t)
        n    == NifOf(type)
    IN
    /\ told[h] \notin {"WAITING", "OPEN"}
    /\ \/ /\ n \notin created
          /\ told' = [told EXCEPT ![h] = "DENIED"]
          /\ UNCHANGED smVars
       \/ /\ n \in created
          /\ Subscribe(n, h, type)

\* releaseATL: the AGNSS list is searched first; an unknown handle is ignored.
ReleaseATL(h) ==
    \/ h \in Subscribed("AGNSS") /\ Unsubscribe("AGNSS", h)
    \/ /\ h \notin Subscribed("AGNSS")
       /\ h \in Subscribed("INTERNET")
       /\ Unsubscribe("INTERNET", h)

\* Subsystem restart of the modem: it comes back without its handles.  The
\* engine-up message of the adapter does not touch the AGPS manager.
ModemRestart ==
    /\ ModemMayRestart
    /\ told' = [h \in Handles |-> "NONE"]
    /\ UNCHANGED smVars

----------------------------------------------------------------------------
\* The framework side.

SetAPN(n, a) == apn' = [apn EXCEPT ![n] = a]

\* dataConnOpenCommand with a usable APN, then AGPS_EVENT_GRANTED.  Bearer and
\* APN are stored whatever the state; only PENDING moves.
ReportAtlOpenSuccess(n, a) ==
    /\ n \in created
    /\ SetAPN(n, a)
    /\ \/ /\ state[n] = "PENDING"
          /\ state' = [state EXCEPT ![n] = "ACQUIRED"]
          /\ told'  = Notify(Active(n), "OPEN")
       \/ /\ state[n] # "PENDING"
          /\ UNCHANGED <<setup, state, told>>
    /\ owed' = owed \ {n}
    /\ UNCHANGED <<setup, created, subs, agpsType, asked>>

\* The mutant treats a denial in PENDING as it treats a close.
ReportAtlOpenFailedIgnored(n) ==
    /\ n \in owed
    /\ owed' = owed \ {n}
    /\ UNCHANGED <<setup, created, state, subs, agpsType, apn, asked, told>>

\* reportAtlOpenFailed: AGPS_EVENT_DENIED.
ReportAtlOpenFailed(n) ==
    /\ n \in created
    /\ \/ state[n] = "PENDING"   /\ DropAll(n, "DENIED")
       \/ state[n] = "RELEASING" /\ ReleaseDone(n)
       \/ state[n] \in {"RELEASED", "ACQUIRED"} /\ UNCHANGED vars

\* reportAtlClosed: AGPS_EVENT_RELEASED; ignored in RELEASED and in PENDING.
ReportAtlClosed(n) ==
    /\ n \in created
    /\ \/ state[n] = "ACQUIRED"  /\ DropAll(n, "CLOSED")
       \/ state[n] = "RELEASING" /\ ReleaseDone(n)
       \/ state[n] \in {"RELEASED", "PENDING"} /\ UNCHANGED vars

\* dataConnOpenCommand with an APN that is null, empty, too long or of another
\* length than it says: the framework has answered, and the answer is turned
\* into a close.
DataConnOpenBadApn(n) ==
    /\ BadApnPossible
    /\ n \in created
    /\ \/ state[n] = "ACQUIRED"  /\ DropAll(n, "CLOSED")
       \/ state[n] = "RELEASING" /\ ReleaseDone(n)
       \/ /\ state[n] \in {"RELEASED", "PENDING"}
          /\ owed' = owed \ {n}
          /\ UNCHANGED <<setup, created, state, subs, agpsType, apn, asked, told>>

Next ==
    \/ \E n \in Nifs : CreateStateMachine(n)
    \/ \E h \in Handles, t \in AgpsTypes : RequestATL(h, t)
    \/ \E h \in Handles : ReleaseATL(h)
    \/ ModemRestart
    \/ \E n \in Nifs, a \in Apns : ReportAtlOpenSuccess(n, a)
    \/ \E n \in Nifs : ReportAtlOpenFailed(n)
    \/ \E n \in Nifs : ReportAtlClosed(n)
    \/ \E n \in Nifs : DataConnOpenBadApn(n)

Spec == Init /\ [][Next]_vars

\* The framework answers every request once, and does answer it.
Answer(n) == /\ n \in owed
             /\ \/ \E a \in Apns : ReportAtlOpenSuccess(n, a)
                \/ ReportAtlOpenFailed(n)

FairSpec == Spec /\ \A n \in Nifs : WF_vars(Answer(n))

----------------------------------------------------------------------------
TypeOK ==
    /\ setup \in Setups
    /\ created  \subseteq Nifs
    /\ state    \in [Nifs -> States]
    /\ subs     \in [Nifs -> [Handles -> {"absent", "active", "inactive"}]]
    /\ agpsType \in [Nifs -> AgpsTypes]
    /\ apn      \in [Nifs -> Apns \cup {NoApn}]
    /\ asked    \in [Nifs -> AgpsTypes \cup {"NONE"}]
    /\ owed     \subseteq created
    /\ told     \in [Handles -> {"NONE", "WAITING", "OPEN", "DENIED", "CLOSED"}]

\* A data connection is held exactly while some active handle uses it: the
\* first one asks, the last one gives it back, whoever leaves in between, and
\* a state machine at rest has an empty list (Agps.cpp:201).
ConnectionHasUser ==
    \A n \in Nifs :
        /\ state[n] = "RELEASED" <=> Subscribed(n) = {}
        /\ state[n] \in {"PENDING", "ACQUIRED"} <=> asked[n] # "NONE"
        /\ asked[n] # "NONE" => Active(n) # {}

\* The modem's view agrees with the lists.  Whatever it waits on or holds open is
\* subscribed somewhere: no request is forgotten by a grant, a denial, a forced
\* close or a release that crosses them.  A restart of the modem leaves stale
\* handles in the lists; without one the lists hold nothing else, and what a
\* handle was told is what the state says.
ModemViewAgrees ==
    /\ \A h \in Handles :
        told[h] \in {"WAITING", "OPEN"} => \E n \in Nifs : h \in Subscribed(n)
    /\ ~ModemMayRestart => \A n \in Nifs :
        /\ \A h \in Subscribed(n) : told[h] \in {"WAITING", "OPEN"}
        /\ \A h \in Active(n) :
            told[h] = (IF state[n] = "ACQUIRED" THEN "OPEN" ELSE "WAITING")

\* When emergency SUPL shares the SUPL connection, the type that names the
\* connection when it is given back is the type it was asked for with.
AskedTypeIsCurrent ==
    ~UseEmergencyPdn => \A n \in Nifs : asked[n] \in {"NONE", agpsType[n]}

\* What the modem and the framework were told agrees with the state machines.
OutsideAgrees == ModemViewAgrees /\ AskedTypeIsCurrent

\* The framework never answers with an unusable APN.
GoodApns == ~BadApnPossible

\* A handle that waits is eventually answered, whatever the other handles do.
EveryWaitEnds ==
    \A h \in Handles : GoodApns /\ told[h] = "WAITING" ~> told[h] # "WAITING"

\* Nobody waits for an answer that has already been given: a state machine is
\* in PENDING only while the framework still owes it the answer.
WaitIsOwed == \A n \in Nifs : state[n] = "PENDING" => n \in owed

\* GnssAdapter.cpp:4380 says that an open with an unusable APN is "reported":
\* then no subscriber may be left in PENDING after the answer was given.
BadApnReported == WaitIsOwed
=============================================================================
