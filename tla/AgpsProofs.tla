----------------------------- MODULE AgpsProofs ----------------------------
(***************************************************************************)
(* Theorems about the AGPS manager, for any handles, APNs and choice of    *)
(* the options.  TypeOK and ConnectionHasUser are inductive together:      *)
(* every handler decides between keeping and giving back the connection    *)
(* from the lists it leaves behind.  What the modem and the framework were *)
(* told follows on top of them, in the second half.                        *)
(***************************************************************************)
EXTENDS Agps, TLAPS

IInv == TypeOK /\ ConnectionHasUser

LEMMA InitIInv == Init => IInv
  BY DEF Init, IInv, TypeOK, ConnectionHasUser, Nifs, States, AgpsTypes,
         Subscribed, Active

\* The type of a request names a NIF, and its effective type is a type.
LEMMA NifOfType ==
  ASSUME NEW t \in AgpsTypes
  PROVE  /\ EffectiveType(t) \in AgpsTypes
         /\ NifOf(EffectiveType(t)) \in Nifs
  BY DEF EffectiveType, NifOf, AgpsTypes, Nifs

LEMMA SubscribeIInv ==
  ASSUME NEW n \in Nifs, NEW h \in Handles, NEW t \in AgpsTypes,
         n \in created, IInv, Subscribe(n, h, t)
  PROVE  IInv'
  <1> USE DEF IInv, Subscribe, TypeOK, Nifs, States
  <1>1. TypeOK'
    OBVIOUS
  <1>2. /\ subs'[n][h] # "absent"
        /\ subs[n][h] = "absent" => subs'[n][h] = "active"
        /\ \A x \in Handles : x # h => subs'[n][x] = subs[n][x]
        /\ \A k \in Nifs : k # n => subs'[k] = subs[k]
    OBVIOUS
  <1>3. ASSUME NEW k \in Nifs
        PROVE  /\ state'[k] = "RELEASED" <=> Subscribed(k)' = {}
               /\ state'[k] \in {"PENDING", "ACQUIRED"} <=> asked'[k] # "NONE"
               /\ asked'[k] # "NONE" => Active(k)' # {}
    <2>1. CASE k # n
      <3>1. Subscribed(k)' = Subscribed(k) /\ Active(k)' = Active(k)
        BY <2>1, <1>2 DEF Subscribed, Active
      <3>2. state'[k] = state[k] /\ asked'[k] = asked[k]
        BY <2>1
      <3> QED
        BY <3>1, <3>2 DEF ConnectionHasUser
    <2>2. CASE k = n
      <3>1. h \in Subscribed(k)' /\ Active(k) \subseteq Active(k)'
        BY <2>2, <1>2 DEF Subscribed, Active
      <3>2. state'[k] # "RELEASED"
        BY <2>2
      <3>3. Subscribed(k) = {} => h \in Active(k)'
        BY <2>2, <1>2 DEF Subscribed, Active
      <3>4. state'[k] \in {"PENDING", "ACQUIRED"} <=> asked'[k] # "NONE"
        BY <2>2 DEF ConnectionHasUser, AgpsTypes
      <3>5. asked'[k] # "NONE" => Active(k)' # {}
        BY <2>2, <3>1, <3>3 DEF ConnectionHasUser
      <3> QED
        BY <3>1, <3>2, <3>4, <3>5
    <2> QED
      BY <2>1, <2>2
  <1> QED
    BY <1>1, <1>3 DEF ConnectionHasUser

LEMMA UnsubscribeIInv ==
  ASSUME NEW n \in Nifs, NEW h \in Handles,
         h \in Subscribed(n), IInv, Unsubscribe(n, h)
  PROVE  IInv'
  <1> USE DEF IInv, TypeOK, Nifs, States
  <1>0. state[n] # "RELEASED"
    BY DEF ConnectionHasUser
  <1>1. /\ \A x \in Handles : x # h => subs'[n][x] = subs[n][x]
        /\ subs'[n][h] = IF h \in CloseWaiters THEN "inactive" ELSE "absent"
        /\ \A k \in Nifs : k # n => subs'[k] = subs[k]
    BY <1>0 DEF Unsubscribe
  <1>2. TypeOK'
    BY <1>0 DEF Unsubscribe
  <1>3. /\ Active(n)' = Active(n) \ {h}
        /\ Subscribed(n)' = IF h \in CloseWaiters THEN Subscribed(n)
                                                  ELSE Subscribed(n) \ {h}
    BY <1>1 DEF Active, Subscribed
  <1>4. state'[n] = IF Subscribed(n)' = {} THEN "RELEASED"
                    ELSE IF Active(n)' = {} /\ state[n] \in {"PENDING", "ACQUIRED"}
                         THEN "RELEASING" ELSE state[n]
    BY <1>0, <1>3 DEF Unsubscribe
  <1>5. asked'[n] = IF Active(n)' = {} THEN "NONE" ELSE asked[n]
    BY <1>3 DEF Unsubscribe
  <1>6. Active(n)' \subseteq Subscribed(n)'
    BY DEF Active, Subscribed
  <1>7. ASSUME NEW k \in Nifs
        PROVE  /\ state'[k] = "RELEASED" <=> Subscribed(k)' = {}
               /\ state'[k] \in {"PENDING", "ACQUIRED"} <=> asked'[k] # "NONE"
               /\ asked'[k] # "NONE" => Active(k)' # {}
    <2>1. CASE k # n
      <3>1. Subscribed(k)' = Subscribed(k) /\ Active(k)' = Active(k)
        BY <2>1, <1>1 DEF Subscribed, Active
      <3>2. state'[k] = state[k] /\ asked'[k] = asked[k]
        BY <2>1 DEF Unsubscribe
      <3> QED
        BY <3>1, <3>2 DEF ConnectionHasUser
    <2>2. CASE k = n
      BY <2>2, <1>0, <1>4, <1>5, <1>6 DEF ConnectionHasUser
    <2> QED
      BY <2>1, <2>2
  <1> QED
    BY <1>2, <1>7 DEF ConnectionHasUser

LEMMA ReleaseDoneIInv ==
  ASSUME NEW n \in Nifs, n \in created, IInv, ReleaseDone(n)
  PROVE  IInv'
  <1> USE DEF IInv, TypeOK, Nifs, States
  <1>1. /\ subs'[n] = Without(n, Inactive(n))
        /\ \A k \in Nifs : k # n => subs'[k] = subs[k]
    BY DEF ReleaseDone
  <1>2. Active(n)' = Active(n) /\ Subscribed(n)' = Active(n)
    BY <1>1 DEF Active, Subscribed, Inactive, Without
  <1>3. TypeOK'
    <2>1. Without(n, Inactive(n)) \in [Handles -> {"absent", "active", "inactive"}]
      BY DEF Without
    <2> QED
      BY <2>1 DEF ReleaseDone, Notify
  <1>4. ASSUME NEW k \in Nifs
        PROVE  /\ state'[k] = "RELEASED" <=> Subscribed(k)' = {}
               /\ state'[k] \in {"PENDING", "ACQUIRED"} <=> asked'[k] # "NONE"
               /\ asked'[k] # "NONE" => Active(k)' # {}
    <2>1. CASE k # n
      <3>1. Subscribed(k)' = Subscribed(k) /\ Active(k)' = Active(k)
        BY <2>1, <1>1 DEF Subscribed, Active
      <3>2. state'[k] = state[k] /\ asked'[k] = asked[k]
        BY <2>1 DEF ReleaseDone
      <3> QED
        BY <3>1, <3>2 DEF ConnectionHasUser
    <2>2. CASE k = n
      BY <2>2, <1>2 DEF ReleaseDone, AgpsTypes
    <2> QED
      BY <2>1, <2>2
  <1> QED
    BY <1>3, <1>4 DEF ConnectionHasUser

LEMMA DropAllIInv ==
  ASSUME NEW n \in Nifs, NEW s \in {"DENIED", "CLOSED"}, IInv, DropAll(n, s)
  PROVE  IInv'
  <1> USE DEF IInv, TypeOK, Nifs, States
  <1>1. /\ subs'[n] = Without(n, Handles)
        /\ \A k \in Nifs : k # n => subs'[k] = subs[k]
    BY DEF DropAll
  <1>2. Active(n)' = {} /\ Subscribed(n)' = {}
    BY <1>1 DEF Active, Subscribed, Without
  <1>3. TypeOK'
    <2>1. Without(n, Handles) \in [Handles -> {"absent", "active", "inactive"}]
      BY DEF Without
    <2> QED
      BY <2>1 DEF DropAll, Notify
  <1>4. ASSUME NEW k \in Nifs
        PROVE  /\ state'[k] = "RELEASED" <=> Subscribed(k)' = {}
               /\ state'[k] \in {"PENDING", "ACQUIRED"} <=> asked'[k] # "NONE"
               /\ asked'[k] # "NONE" => Active(k)' # {}
    <2>1. CASE k # n
      <3>1. Subscribed(k)' = Subscribed(k) /\ Active(k)' = Active(k)
        BY <2>1, <1>1 DEF Subscribed, Active
      <3>2. state'[k] = state[k] /\ asked'[k] = asked[k]
        BY <2>1 DEF DropAll
      <3> QED
        BY <3>1, <3>2 DEF ConnectionHasUser
    <2>2. CASE k = n
      BY <2>2, <1>2 DEF DropAll
    <2> QED
      BY <2>1, <2>2
  <1> QED
    BY <1>3, <1>4 DEF ConnectionHasUser

\* The steps that leave the lists and the asked connections alone, and move
\* the state at most between PENDING and ACQUIRED.
LEMMA QuietIInv ==
  ASSUME IInv, TypeOK', UNCHANGED <<subs, asked>>,
         \A k \in Nifs : \/ state'[k] = state[k]
                         \/ {state[k], state'[k]} \subseteq {"PENDING", "ACQUIRED"}
  PROVE  IInv'
  <1>1. \A k \in Nifs : Subscribed(k)' = Subscribed(k) /\ Active(k)' = Active(k)
    BY DEF Subscribed, Active
  <1> QED
    BY <1>1 DEF IInv, ConnectionHasUser

LEMMA NextIInv == IInv /\ [Next]_vars => IInv'
  <1> SUFFICES ASSUME IInv, [Next]_vars PROVE IInv'
    OBVIOUS
  <1>1. ASSUME NEW n \in Nifs, CreateStateMachine(n) PROVE IInv'
    <2>1. TypeOK'
      BY <1>1 DEF CreateStateMachine, IInv, TypeOK
    <2> QED
      BY <1>1, <2>1, QuietIInv DEF CreateStateMachine
  <1>2. ASSUME NEW h \in Handles, NEW t \in AgpsTypes, RequestATL(h, t)
        PROVE  IInv'
    <2>1. CASE NifOf(EffectiveType(t)) \notin created
      <3>1. TypeOK' /\ UNCHANGED <<state, subs, asked>>
        BY <1>2, <2>1 DEF RequestATL, smVars, IInv, TypeOK
      <3> QED
        BY <3>1, QuietIInv
    <2>2. CASE NifOf(EffectiveType(t)) \in created
      <3>1. Subscribe(NifOf(EffectiveType(t)), h, EffectiveType(t))
        BY <1>2, <2>2 DEF RequestATL
      <3> QED
        BY <3>1, <2>2, NifOfType, SubscribeIInv
    <2> QED
      BY <2>1, <2>2
  <1>3. ASSUME NEW h \in Handles, ReleaseATL(h) PROVE IInv'
    BY <1>3, UnsubscribeIInv DEF ReleaseATL, Nifs
  <1>4. CASE ModemRestart
    <2>1. TypeOK' /\ UNCHANGED <<state, subs, asked>>
      BY <1>4 DEF ModemRestart, smVars, IInv, TypeOK
    <2> QED
      BY <2>1, QuietIInv
  <1>5. ASSUME NEW n \in Nifs, NEW a \in Apns, ReportAtlOpenSuccess(n, a)
        PROVE  IInv'
    <2>1. TypeOK'
      BY <1>5 DEF ReportAtlOpenSuccess, SetAPN, Notify, IInv, TypeOK, States
    <2>2. \A k \in Nifs : \/ state'[k] = state[k]
                          \/ {state[k], state'[k]} \subseteq {"PENDING", "ACQUIRED"}
      BY <1>5 DEF ReportAtlOpenSuccess, IInv, TypeOK
    <2> QED
      BY <1>5, <2>1, <2>2, QuietIInv DEF ReportAtlOpenSuccess
  <1>6. ASSUME NEW n \in Nifs,
               \/ ReportAtlOpenFailed(n)
               \/ ReportAtlClosed(n)
               \/ DataConnOpenBadApn(n)
        PROVE  IInv'
    <2>1. CASE DropAll(n, "DENIED") \/ DropAll(n, "CLOSED")
      BY <2>1, DropAllIInv
    <2>2. CASE n \in created /\ ReleaseDone(n)
      BY <2>2, ReleaseDoneIInv
    <2>3. CASE UNCHANGED vars
      BY <2>3 DEF IInv, TypeOK, ConnectionHasUser, vars, Subscribed, Active
    <2>4. CASE owed' = owed \ {n} /\ UNCHANGED <<setup, created, state, subs, agpsType, apn, asked, told>>
      <3>1. TypeOK'
        BY <2>4 DEF IInv, TypeOK
      <3> QED
        BY <2>4, <3>1, QuietIInv
    <2> QED
      BY <1>6, <2>1, <2>2, <2>3, <2>4
      DEF ReportAtlOpenFailed, ReportAtlClosed, DataConnOpenBadApn
  <1>7. CASE UNCHANGED vars
    BY <1>7 DEF IInv, TypeOK, ConnectionHasUser, vars, Subscribed, Active
  <1> QED
    BY <1>1, <1>2, <1>3, <1>4, <1>5, <1>6, <1>7 DEF Next

\* Every reachable state has the types TypeOK states, for any number of handles
\* and with the modem restarting and APNs unusable or not.
THEOREM AgpsTypeOK == Spec => []TypeOK
  <1>1. IInv => TypeOK
    BY DEF IInv
  <1> QED
    BY <1>1, InitIInv, NextIInv, PTL DEF Spec

\* The manager holds a data connection exactly while an active handle uses it
\* and a state machine at rest has no subscriber, whatever the modem and the
\* framework do (Agps.cpp:133-143, 201).
THEOREM AgpsConnectionHasUser == Spec => []ConnectionHasUser
  <1>1. IInv => ConnectionHasUser
    BY DEF IInv
  <1> QED
    BY <1>1, InitIInv, NextIInv, PTL DEF Spec
----------------------------------------------------------------------------
(* What the modem and the framework were told.  Without restarts of the    *)
(* modem a handle is in one list only, since it asks again only when it    *)
(* was told that the last request is over; without a PDN of its own for    *)
(* emergency SUPL each state machine has one type for good.                *)

InOneList ==
    ~ModemMayRestart => \A h \in Handles : \A m, n \in Nifs :
        h \in Subscribed(m) /\ h \in Subscribed(n) => m = n

OwnType(n) == IF n = "AGNSS" THEN "SUPL" ELSE "WWAN_ANY"

TypesAreOwn ==
    ~UseEmergencyPdn => \A n \in Nifs : /\ agpsType[n] = OwnType(n)
                                        /\ asked[n] \in {"NONE", OwnType(n)}

ViewInv == ModemViewAgrees /\ InOneList

LEMMA InitView == Init => ViewInv /\ TypesAreOwn
  BY DEF Init, ViewInv, ModemViewAgrees, InOneList, TypesAreOwn, OwnType,
         Subscribed, Active, Nifs

LEMMA SubscribeView ==
  ASSUME NEW n \in Nifs, NEW h \in Handles, NEW t \in AgpsTypes, IInv, ViewInv,
         told[h] \notin {"WAITING", "OPEN"}, Subscribe(n, h, t)
  PROVE  ViewInv'
  <1> USE DEF IInv, TypeOK, ViewInv
  <1>1. /\ h \in Subscribed(n)'
        /\ \A x \in Handles : x # h => subs'[n][x] = subs[n][x]
        /\ \A k \in Nifs : k # n => subs'[k] = subs[k]
        /\ subs[n][h] = "absent" => subs'[n][h] = "active"
        /\ subs[n][h] # "absent" => subs'[n][h] = subs[n][h]
    BY DEF Subscribe, Subscribed
  <1>2. /\ told'[h] = (IF state[n] = "ACQUIRED" THEN "OPEN" ELSE "WAITING")
        /\ \A x \in Handles : x # h => told'[x] = told[x]
        /\ state'[n] = (IF state[n] = "RELEASED" THEN "PENDING" ELSE state[n])
        /\ \A k \in Nifs : k # n => state'[k] = state[k]
        /\ setup' = setup
    BY DEF Subscribe
  <1>3. ASSUME ~ModemMayRestart, NEW k \in Nifs PROVE h \notin Subscribed(k)
    BY <1>3 DEF ModemViewAgrees
  <1>4. ModemViewAgrees'
    <2>1. ASSUME NEW x \in Handles, told'[x] \in {"WAITING", "OPEN"}
          PROVE  \E k \in Nifs : x \in Subscribed(k)'
      <3>1. CASE x = h
        BY <1>1, <3>1
      <3>2. CASE x # h
        <4>1. PICK k \in Nifs : x \in Subscribed(k)
          BY <1>2, <2>1, <3>2 DEF ModemViewAgrees
        <4>2. x \in Subscribed(k)'
          BY <1>1, <3>2, <4>1 DEF Subscribed
        <4> QED
          BY <4>2
      <3> QED
        BY <3>1, <3>2
    <2>2. ASSUME ~ModemMayRestart', NEW k \in Nifs, NEW x \in Subscribed(k)'
          PROVE  /\ told'[x] \in {"WAITING", "OPEN"}
                 /\ x \in Active(k)' =>
                      told'[x] = (IF state'[k] = "ACQUIRED" THEN "OPEN" ELSE "WAITING")
      <3>1. ~ModemMayRestart /\ x \in Handles
        BY <1>2, <2>2 DEF ModemMayRestart, Subscribed
      <3>2. CASE x = h
        BY <1>1, <1>2, <1>3, <2>2, <3>1, <3>2 DEF Subscribed, Active
      <3>3. CASE x # h
        <4>1. x \in Subscribed(k) /\ (x \in Active(k)' => x \in Active(k))
          BY <1>1, <2>2, <3>1, <3>3 DEF Subscribed, Active
        <4>2. state[k] # "RELEASED"
          BY <4>1 DEF ConnectionHasUser
        <4> QED
          BY <1>2, <3>1, <3>3, <4>1, <4>2 DEF ModemViewAgrees
      <3> QED
        BY <3>2, <3>3
    <2>3. \A k \in Nifs : Active(k)' \subseteq Subscribed(k)'
      BY DEF Active, Subscribed
    <2> QED
      BY <2>1, <2>2, <2>3 DEF ModemViewAgrees
  <1>5. InOneList'
    BY <1>1, <1>2, <1>3 DEF InOneList, Subscribed, ModemMayRestart
  <1> QED
    BY <1>4, <1>5

\* A handler that takes the handles in H out of the list of n tells them so;
\* those that stay as active are told what the new state says.
LEMMA LeaveView ==
  ASSUME NEW n \in Nifs, NEW H \in SUBSET Handles, IInv, ViewInv, setup' = setup,
         \A k \in Nifs : k # n => subs'[k] = subs[k] /\ state'[k] = state[k],
         Subscribed(n)' = Subscribed(n) \ H,
         H \subseteq Subscribed(n),
         Active(n)' \subseteq Active(n),
         \A h \in Handles \ H : told'[h] = told[h],
         \A h \in H : told'[h] \in {"DENIED", "CLOSED"},
         Active(n)' # {} => (state'[n] = "ACQUIRED" <=> state[n] = "ACQUIRED")
  PROVE  ViewInv'
  <1> USE DEF IInv, TypeOK, ViewInv
  <1>1. \A k \in Nifs : k # n => Subscribed(k)' = Subscribed(k) /\ Active(k)' = Active(k)
    BY DEF Subscribed, Active
  <1>2. \A k \in Nifs : Subscribed(k)' \subseteq Subscribed(k)
    BY <1>1
  <1>3. \A k \in Nifs : Subscribed(k) \subseteq Handles /\ Active(k) \subseteq Subscribed(k)
    BY DEF Subscribed, Active
  <1>4. ASSUME ~ModemMayRestart, NEW k \in Nifs, NEW h \in Subscribed(k)' PROVE h \notin H
    BY <1>1, <1>2, <1>3, <1>4 DEF InOneList
  <1>5. ModemViewAgrees'
    <2>1. ASSUME NEW h \in Handles, told'[h] \in {"WAITING", "OPEN"}
          PROVE  \E k \in Nifs : h \in Subscribed(k)'
      <3>1. h \notin H /\ told'[h] = told[h]
        BY <2>1
      <3>2. PICK k \in Nifs : h \in Subscribed(k)
        BY <2>1, <3>1 DEF ModemViewAgrees
      <3>3. h \in Subscribed(k)'
        BY <1>1, <3>1, <3>2
      <3> QED
        BY <3>3
    <2>2. ASSUME ~ModemMayRestart', NEW k \in Nifs, NEW h \in Subscribed(k)'
          PROVE  /\ told'[h] \in {"WAITING", "OPEN"}
                 /\ h \in Active(k)' =>
                      told'[h] = (IF state'[k] = "ACQUIRED" THEN "OPEN" ELSE "WAITING")
      <3>1. ~ModemMayRestart
        BY <2>2 DEF ModemMayRestart
      <3>2. h \in Subscribed(k) /\ told'[h] = told[h]
        BY <1>2, <1>3, <1>4, <2>2, <3>1
      <3>3. h \in Active(k)' => /\ h \in Active(k)
                                /\ state'[k] = "ACQUIRED" <=> state[k] = "ACQUIRED"
        BY <1>1
      <3> QED
        BY <3>1, <3>2, <3>3 DEF ModemViewAgrees
    <2>3. \A k \in Nifs : Active(k)' \subseteq Subscribed(k)'
      BY DEF Active, Subscribed
    <2> QED
      BY <2>1, <2>2, <2>3 DEF ModemViewAgrees
  <1>6. InOneList'
    BY <1>2 DEF InOneList, ModemMayRestart
  <1> QED
    BY <1>5, <1>6

LEMMA UnsubscribeView ==
  ASSUME NEW n \in Nifs, NEW h \in Handles, h \in Subscribed(n),
         IInv, ViewInv, Unsubscribe(n, h)
  PROVE  ViewInv'
  <1> DEFINE H == IF h \in CloseWaiters THEN {} ELSE {h}
  <1>0. state[n] # "RELEASED"
    BY DEF IInv, ConnectionHasUser
  <1>1. /\ \A x \in Handles : x # h => subs'[n][x] = subs[n][x]
        /\ subs'[n][h] = IF h \in CloseWaiters THEN "inactive" ELSE "absent"
        /\ \A k \in Nifs : k # n => subs'[k] = subs[k] /\ state'[k] = state[k]
        /\ setup' = setup
    BY <1>0 DEF Unsubscribe, IInv, TypeOK
  <1>2. Subscribed(n)' = Subscribed(n) \ H /\ Active(n)' = Active(n) \ {h}
    BY <1>1 DEF Subscribed, Active
  <1>3. /\ \A x \in Handles \ H : told'[x] = told[x]
        /\ \A x \in H : told'[x] = "CLOSED"
    BY <1>0 DEF Unsubscribe, IInv, TypeOK
  <1>4. Active(n)' # {} => state'[n] = state[n]
    <2>1. Active(n) \subseteq Subscribed(n)
      BY DEF Active, Subscribed
    <2> QED
      BY <1>0, <1>2, <2>1 DEF Unsubscribe, IInv, TypeOK
  <1> QED
    BY <1>1, <1>2, <1>3, <1>4, LeaveView

LEMMA ReleaseDoneView ==
  ASSUME NEW n \in Nifs, state[n] = "RELEASING", IInv, ViewInv, ReleaseDone(n)
  PROVE  ViewInv'
  <1>1. /\ subs'[n] = Without(n, Inactive(n))
        /\ \A k \in Nifs : k # n => subs'[k] = subs[k] /\ state'[k] = state[k]
        /\ setup' = setup
        /\ state'[n] # "ACQUIRED"
    BY DEF ReleaseDone, IInv, TypeOK
  <1>2. /\ Subscribed(n)' = Subscribed(n) \ Inactive(n)
        /\ Active(n)' = Active(n)
        /\ Inactive(n) \subseteq Subscribed(n) /\ Inactive(n) \subseteq Handles
    BY <1>1 DEF Subscribed, Active, Inactive, Without
  <1>3. /\ \A x \in Handles \ Inactive(n) : told'[x] = told[x]
        /\ \A x \in Inactive(n) : told'[x] = "CLOSED"
    BY <1>2 DEF ReleaseDone, Notify
  <1> QED
    BY <1>1, <1>2, <1>3, LeaveView

LEMMA DropAllView ==
  ASSUME NEW n \in Nifs, NEW s \in {"DENIED", "CLOSED"}, IInv, ViewInv, DropAll(n, s)
  PROVE  ViewInv'
  <1>1. /\ subs'[n] = Without(n, Handles)
        /\ \A k \in Nifs : k # n => subs'[k] = subs[k] /\ state'[k] = state[k]
        /\ setup' = setup
    BY DEF DropAll, IInv, TypeOK
  <1>2. /\ Subscribed(n)' = Subscribed(n) \ Subscribed(n)
        /\ Active(n)' = {}
        /\ Subscribed(n) \subseteq Handles
    BY <1>1 DEF Subscribed, Active, Without
  <1>3. /\ \A x \in Handles \ Subscribed(n) : told'[x] = told[x]
        /\ \A x \in Subscribed(n) : told'[x] = s
    BY <1>2 DEF DropAll, Notify
  <1> QED
    BY <1>1, <1>2, <1>3, LeaveView

\* A grant: the active handles of a pending list are told.
LEMMA GrantView ==
  ASSUME NEW n \in Nifs, NEW a \in Apns, IInv, ViewInv, ReportAtlOpenSuccess(n, a)
  PROVE  ViewInv'
  <1> USE DEF IInv, TypeOK, ViewInv
  <1>1. /\ setup' = setup
        /\ \A k \in Nifs : Subscribed(k)' = Subscribed(k) /\ Active(k)' = Active(k)
    BY DEF ReportAtlOpenSuccess, Subscribed, Active
  <1>2. CASE state[n] # "PENDING"
    BY <1>1, <1>2 DEF ReportAtlOpenSuccess, ModemViewAgrees, InOneList, ModemMayRestart
  <1>3. CASE state[n] = "PENDING"
    <2>1. /\ state'[n] = "ACQUIRED"
          /\ \A k \in Nifs : k # n => state'[k] = state[k]
          /\ \A h \in Active(n) : told'[h] = "OPEN"
          /\ \A h \in Handles \ Active(n) : told'[h] = told[h]
          /\ \A k \in Nifs : Active(k) \subseteq Subscribed(k) /\ Subscribed(k) \subseteq Handles
      BY <1>3 DEF ReportAtlOpenSuccess, Notify, Subscribed, Active
    <2>2. ASSUME NEW h \in Handles, told'[h] \in {"WAITING", "OPEN"}
          PROVE  \E k \in Nifs : h \in Subscribed(k)
      BY <2>1, <2>2 DEF ModemViewAgrees
    <2>3. ASSUME ~ModemMayRestart, NEW k \in Nifs, NEW h \in Subscribed(k)
          PROVE  /\ told'[h] \in {"WAITING", "OPEN"}
                 /\ h \in Active(k) =>
                      told'[h] = (IF state'[k] = "ACQUIRED" THEN "OPEN" ELSE "WAITING")
      <3>1. k # n => h \notin Active(n)
        BY <2>1, <2>3 DEF InOneList
      <3> QED
        BY <2>1, <2>3, <3>1 DEF ModemViewAgrees
    <2> QED
      BY <1>1, <2>1, <2>2, <2>3 DEF ModemViewAgrees, InOneList, ModemMayRestart
  <1> QED
    BY <1>2, <1>3

LEMMA NextView == IInv /\ ViewInv /\ [Next]_vars => ViewInv'
  <1> SUFFICES ASSUME IInv, ViewInv, [Next]_vars PROVE ViewInv'
    OBVIOUS
  <1>1. CASE UNCHANGED <<setup, state, subs, told>>
    BY <1>1 DEF ViewInv, ModemViewAgrees, InOneList, ModemMayRestart, Subscribed, Active
  <1>2. ASSUME NEW h \in Handles, NEW t \in AgpsTypes, RequestATL(h, t) PROVE ViewInv'
    <2>1. CASE NifOf(EffectiveType(t)) \notin created
      <3>1. told' = [told EXCEPT ![h] = "DENIED"] /\ UNCHANGED <<setup, state, subs>>
        BY <1>2, <2>1 DEF RequestATL, smVars
      <3>2. \A k \in Nifs : Subscribed(k)' = Subscribed(k) /\ Active(k)' = Active(k)
        BY <3>1 DEF Subscribed, Active
      <3>3. ~ModemMayRestart => \A k \in Nifs : h \notin Subscribed(k) /\ h \notin Active(k)
        BY <1>2 DEF RequestATL, ViewInv, ModemViewAgrees, Subscribed, Active
      <3> QED
        BY <3>1, <3>2, <3>3
        DEF IInv, TypeOK, ViewInv, ModemViewAgrees, InOneList, ModemMayRestart
    <2>2. CASE NifOf(EffectiveType(t)) \in created
      BY <1>2, <2>2, NifOfType, SubscribeView DEF RequestATL
    <2> QED
      BY <2>1, <2>2
  <1>3. ASSUME NEW h \in Handles, ReleaseATL(h) PROVE ViewInv'
    BY <1>3, UnsubscribeView DEF ReleaseATL, Nifs
  <1>4. CASE ModemRestart
    <2>1. ModemMayRestart /\ ModemMayRestart'
      BY <1>4 DEF ModemRestart, ModemMayRestart, smVars
    <2>2. \A h \in Handles : told'[h] = "NONE"
      BY <1>4 DEF ModemRestart
    <2> QED
      BY <2>1, <2>2 DEF ViewInv, ModemViewAgrees, InOneList
  <1>5. ASSUME NEW n \in Nifs, NEW a \in Apns, ReportAtlOpenSuccess(n, a) PROVE ViewInv'
    BY <1>5, GrantView
  <1>6. ASSUME NEW n \in Nifs,
               \/ ReportAtlOpenFailed(n)
               \/ ReportAtlClosed(n)
               \/ DataConnOpenBadApn(n)
        PROVE  ViewInv'
    <2>1. CASE DropAll(n, "DENIED") \/ DropAll(n, "CLOSED")
      BY <2>1, DropAllView
    <2>2. CASE state[n] = "RELEASING" /\ ReleaseDone(n)
      BY <2>2, ReleaseDoneView
    <2> QED
      BY <1>1, <1>6, <2>1, <2>2
      DEF ReportAtlOpenFailed, ReportAtlClosed, DataConnOpenBadApn, vars
  <1> QED
    BY <1>1, <1>2, <1>3, <1>4, <1>5, <1>6 DEF Next, vars, CreateStateMachine

\* Only a request writes the type, and its effective type is its list's own.
LEMMA NextTypes == IInv /\ TypesAreOwn /\ [Next]_vars => TypesAreOwn'
  <1> SUFFICES ASSUME IInv, TypesAreOwn, ~UseEmergencyPdn, [Next]_vars,
                      NEW k \in Nifs, setup' = setup
               PROVE  agpsType'[k] = OwnType(k) /\ asked'[k] \in {"NONE", OwnType(k)}
    <2>1. [Next]_vars => setup' = setup
      BY DEF Next, vars, smVars, CreateStateMachine, RequestATL, Subscribe, ReleaseATL,
             Unsubscribe, ModemRestart, ReportAtlOpenSuccess, ReportAtlOpenFailed,
             ReportAtlClosed, DataConnOpenBadApn, DropAll, ReleaseDone
    <2> QED
      BY <2>1 DEF TypesAreOwn, UseEmergencyPdn
  <1> USE DEF IInv, TypeOK
  <1>1. agpsType[k] = OwnType(k) /\ asked[k] \in {"NONE", OwnType(k)}
    BY DEF TypesAreOwn
  <1>2. CASE UNCHANGED <<agpsType, asked>>
    BY <1>1, <1>2
  <1>3. ASSUME NEW h \in Handles, NEW t \in AgpsTypes,
               Subscribe(NifOf(EffectiveType(t)), h, EffectiveType(t))
        PROVE  agpsType'[k] = OwnType(k) /\ asked'[k] \in {"NONE", OwnType(k)}
    <2>1. EffectiveType(t) = OwnType(NifOf(EffectiveType(t)))
      BY DEF EffectiveType, OwnType, NifOf, AgpsTypes
    <2> QED
      BY <1>1, <1>3, <2>1, NifOfType DEF Subscribe
  <1>4. ASSUME NEW n \in Nifs, NEW h \in Handles, Unsubscribe(n, h)
        PROVE  agpsType'[k] = OwnType(k) /\ asked'[k] \in {"NONE", OwnType(k)}
    BY <1>1, <1>4 DEF Unsubscribe
  <1>5. ASSUME NEW n \in Nifs,
               \/ ReleaseDone(n)
               \/ \E s \in {"DENIED", "CLOSED"} : DropAll(n, s)
        PROVE  agpsType'[k] = OwnType(k) /\ asked'[k] \in {"NONE", OwnType(k)}
    <2>1. agpsType' = agpsType /\ asked'[k] \in {"NONE", agpsType[k], asked[k]}
      BY <1>5 DEF ReleaseDone, DropAll
    <2> QED
      BY <1>1, <2>1
  <1> QED
    BY <1>2, <1>3, <1>4, <1>5
    DEF Next, vars, smVars, CreateStateMachine, RequestATL, ReleaseATL, Nifs,
        ModemRestart, ReportAtlOpenSuccess, ReportAtlOpenFailed, ReportAtlClosed,
        DataConnOpenBadApn

\* What the modem waits on or holds open is subscribed somewhere, without modem
\* restarts a handle was told exactly what the state of its list says, and the
\* connection is given back under the type it was asked for with (Agps.cpp:345,
\* notifyEventToSubscriber, and :289, requestOrReleaseDataConn).
THEOREM AgpsOutsideAgrees == Spec => []OutsideAgrees
  <1>1. Init => IInv /\ ViewInv /\ TypesAreOwn
    BY InitIInv, InitView
  <1>2. IInv /\ ViewInv /\ TypesAreOwn /\ [Next]_vars => (IInv /\ ViewInv /\ TypesAreOwn)'
    BY NextIInv, NextView, NextTypes
  <1>3. IInv /\ ViewInv /\ TypesAreOwn => OutsideAgrees
    BY DEF ViewInv, OutsideAgrees, TypesAreOwn, AskedTypeIsCurrent
  <1> QED
    BY <1>1, <1>2, <1>3, PTL DEF Spec
=============================================================================
