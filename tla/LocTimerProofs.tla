---------------------------- MODULE LocTimerProofs ----------------------------
(***************************************************************************)
(* For any clients, delays and bounds: the timer service never refers to a *)
(* delegate that is deleted, removes each exactly once, and never leaves   *)
(* its timerfd asleep past the soonest timer.                              *)
(***************************************************************************)
EXTENDS LocTimer, FiniteSetTheorems, TLAPS

Messages == [type : {"push", "remove"}, timer : Delegates] \cup {Msg("expire", None)}

Removal(i, d) == queue[i] = Msg("remove", d)

\* A client and the delegate it holds refer to each other.
HeldByClient == \A c \in Clients : mTimer[c] # None => mClient[mTimer[c]] = c

\* What refers to a delegate refers to one that is allocated.
References ==
    /\ heap \subseteq allocated
    /\ \A i \in DOMAIN queue : queue[i].type # "expire" => queue[i].timer \in allocated
    /\ \A c \in Clients : mTimer[c] # None => mTimer[c] \in allocated
    /\ expiry.pc = "popped" => expiry.timer \in allocated

\* A delegate is held and no removal of it is posted, or one is.
HeldOrRemoved(d) ==
    \/ /\ \E c \in Clients : mTimer[c] = d
       /\ \A i \in DOMAIN queue : ~Removal(i, d)
    \/ /\ mClient[d] = None
       /\ \E i \in DOMAIN queue : \A j \in DOMAIN queue : Removal(j, d) <=> j = i

RemovedOnce == \A d \in allocated : HeldOrRemoved(d)

\* A delegate is pushed before it is removed.
PushedFirst ==
    \A i, j \in DOMAIN queue : queue[i].type = "push" /\ Removal(j, queue[i].timer) => i < j

\* Whoever is stopped by an expiry is a client.
StopsClient == expiry.pc = "stopping" => expiry.client \in Clients

DInv == TypeOK /\ HeldByClient /\ References /\ RemovedOnce /\ PushedFirst /\ StopsClient

\* The top of the heap is one of its soonest.
TopIsSoonest == IF heap = {} THEN top = None ELSE top \in Soonest(heap)

\* An expiry is on its way, from the timerfd to its end, ...
Expiring ==
    \/ poll # "wait"
    \/ \E i \in DOMAIN queue : queue[i].type = "expire"
    \/ expiry.pc # "idle"

\* ... or the timerfd is set for the top.
ArmedOrExpiring == heap = {} \/ Expiring \/ (polled /\ armed <= deadline[top])

AInv == TopIsSoonest /\ ArmedOrExpiring

----------------------------------------------------------------------------
\* Queues: what is appended and what is left when the head is taken.

LEMMA Appended ==
    ASSUME NEW S, NEW q \in Seq(S), NEW m \in S
    PROVE  /\ Append(q, m) \in Seq(S)
           /\ DOMAIN q \subseteq DOMAIN Append(q, m)
           /\ Len(q) + 1 \notin DOMAIN q
           /\ DOMAIN Append(q, m) = DOMAIN q \cup {Len(q) + 1}
           /\ \A i \in DOMAIN q : Append(q, m)[i] = q[i]
           /\ Append(q, m)[Len(q) + 1] = m
           /\ \A i \in DOMAIN q : i < Len(q) + 1
OBVIOUS

LEMMA TailOf ==
    ASSUME NEW S, NEW q \in Seq(S), q # <<>>
    PROVE  /\ Tail(q) \in Seq(S)
           /\ Head(q) = q[1] /\ Head(q) \in S
           /\ 1 \in DOMAIN q
           /\ \A i \in DOMAIN Tail(q) : /\ i + 1 \in DOMAIN q /\ i + 1 # 1
                                        /\ Tail(q)[i] = q[i + 1]
           /\ \A i \in DOMAIN q : i # 1 => i - 1 \in DOMAIN Tail(q) /\ Tail(q)[i - 1] = q[i]
           /\ DOMAIN q \subseteq Nat /\ DOMAIN Tail(q) \subseteq Nat
           /\ \A i \in DOMAIN q : i >= 1
OBVIOUS

LEMMA MessageTypes ==
    ASSUME NEW m \in Messages
    PROVE  /\ m.type \in {"push", "remove", "expire"}
           /\ m.type # "expire" => m.timer \in Delegates /\ m = Msg(m.type, m.timer)
BY DEF Messages, Msg

LEMMA TimerInit == Init => DInv /\ AInv
<1> SUFFICES ASSUME Init PROVE DInv /\ AInv
  OBVIOUS
<1> USE TimerAssumption DEF Init
<1>1. TypeOK
  <2>1. /\ mTimer \in [Clients -> Delegates \cup {None}]
        /\ mClient \in [Delegates -> Clients \cup {None}]
        /\ deadline \in [Delegates -> 0..MaxTime]
        /\ fate \in [Delegates -> {"none", "ticking", "stopped", "expired"}]
    BY DEF None
  <2>2. queue \in Seq([type : {"push", "remove"}, timer : Delegates] \cup {Msg("expire", None)})
    OBVIOUS
  <2>3. expiry \in [pc : {"idle", "popped", "stopping", "next"}, now : 0..MaxTime,
                    timer : Delegates \cup {None}, client : Clients \cup {None}]
    BY DEF IdleExpiry, None
  <2>4. /\ allocated \subseteq 1..starts /\ deleted \subseteq Clients
        /\ heap \subseteq Delegates /\ top \in Delegates \cup {None}
        /\ polled \in BOOLEAN /\ poll \in {"wait", "disarmed", "unpolled"}
    OBVIOUS
  <2>5. now \in 0..MaxTime /\ starts \in 0..MaxStarts /\ armed \in 0..Off
    BY DEF Off
  <2> QED BY <2>1, <2>2, <2>3, <2>4, <2>5 DEF TypeOK
<1>2. HeldByClient /\ References /\ RemovedOnce /\ PushedFirst /\ StopsClient
  BY DEF HeldByClient, References, RemovedOnce, PushedFirst, StopsClient, IdleExpiry
<1>3. AInv
  BY DEF AInv, TopIsSoonest, ArmedOrExpiring
<1> QED BY <1>1, <1>2, <1>3 DEF DInv
----------------------------------------------------------------------------
(* Types.                                                                  *)

\* What a client detaches keeps its type.
LEMMA DetachType ==
    ASSUME TypeOK, NEW c \in Clients, mTimer[c] # None,
           NEW how \in {"stopped", "expired"}, Detach(c, how)
    PROVE  /\ mTimer' \in [Clients -> Delegates \cup {None}]
           /\ mClient' \in [Delegates -> Clients \cup {None}]
           /\ fate' \in [Delegates -> {"none", "ticking", "stopped", "expired"}]
           /\ queue' \in Seq(Messages)
<1>1. mTimer[c] \in Delegates
  BY DEF TypeOK
<1>2. Msg("remove", mTimer[c]) \in Messages /\ queue \in Seq(Messages)
  BY <1>1 DEF Messages, Msg, TypeOK
<1>3. queue' \in Seq(Messages)
  BY <1>2, Appended DEF Detach
<1> QED BY <1>1, <1>3 DEF Detach, TypeOK

LEMMA ClientType ==
    ASSUME TypeOK, NEW c \in Clients,
           (\E delay \in Delays : Start(c, delay)) \/ Stop(c) \/ Delete(c)
    PROVE  TypeOK'
<1> USE TimerAssumption
<1>1. ASSUME NEW delay \in Delays, Start(c, delay) PROVE TypeOK'
  <2>1. starts + 1 \in Delegates /\ starts + 1 \in 0..MaxStarts /\ now + delay \in 0..MaxTime
    BY <1>1 DEF Start, TypeOK, Delegates
  <2>2. queue' \in Seq(Messages)
    <3>1. Msg("push", starts + 1) \in Messages /\ queue \in Seq(Messages)
      BY <2>1 DEF Messages, Msg, TypeOK
    <3> QED BY <1>1, <3>1, Appended DEF Start
  <2>3. /\ mTimer' \in [Clients -> Delegates \cup {None}]
        /\ mClient' \in [Delegates -> Clients \cup {None}]
        /\ deadline' \in [Delegates -> 0..MaxTime]
        /\ fate' \in [Delegates -> {"none", "ticking", "stopped", "expired"}]
        /\ starts' \in 0..MaxStarts
    BY <1>1, <2>1 DEF Start, TypeOK
  <2>4. allocated' \subseteq 1..starts'
    BY <1>1 DEF Start, TypeOK
  <2>5. UNCHANGED <<now, deleted, heap, top, armed, polled, poll, expiry>>
    BY <1>1 DEF Start, containerVars
  <2> QED BY <2>2, <2>3, <2>4, <2>5 DEF TypeOK, Messages
<1>2. CASE Stop(c)
  <2>1. UNCHANGED <<now, starts, deadline, deleted, allocated, heap, top, armed, polled, poll, expiry>>
    BY <1>2 DEF Stop, containerVars
  <2> QED BY <1>2, <2>1, DetachType DEF Stop, TypeOK, Messages
<1>3. CASE Delete(c)
  <2>1. /\ UNCHANGED <<now, starts, deadline, allocated, heap, top, armed, polled, poll, expiry>>
        /\ deleted' \subseteq Clients
    BY <1>3 DEF Delete, containerVars, TypeOK
  <2>2. CASE mTimer[c] # None /\ Detach(c, "stopped")
    BY <2>1, <2>2, DetachType DEF TypeOK, Messages
  <2>3. CASE UNCHANGED <<mTimer, mClient, fate, queue>>
    BY <2>1, <2>3 DEF TypeOK
  <2> QED BY <1>3, <2>2, <2>3 DEF Delete
<1> QED BY <1>1, <1>2, <1>3

LEMMA PollType ==
    ASSUME TypeOK, PollThread
    PROVE  TypeOK'
<1> USE TimerAssumption
<1>1. CASE PollFires
  BY <1>1 DEF PollFires, clientVars, TypeOK, Off
<1>2. CASE PollRemoves
  BY <1>2 DEF PollRemoves, clientVars, TypeOK
<1>3. CASE PollPosts
  <2>1. queue' \in Seq(Messages)
    <3>1. Msg("expire", None) \in Messages /\ queue \in Seq(Messages)
      BY DEF Messages, TypeOK
    <3> QED BY <1>3, <3>1, Appended DEF PollPosts
  <2>2. /\ UNCHANGED <<now, starts, mTimer, mClient, deadline, fate, deleted, allocated, heap, top,
                       armed, polled, expiry>>
        /\ poll' = "wait"
    BY <1>3 DEF PollPosts, clientVars, containerVars
  <2> QED BY <2>1, <2>2 DEF TypeOK, Messages
<1> QED BY <1>1, <1>2, <1>3 DEF PollThread

\* The timerfd is set to a deadline or off.
LEMMA UpdateType ==
    ASSUME TypeOK, NEW prior \in Delegates \cup {None}, NEW cur \in Delegates \cup {None},
           UpdateSoonestTime(prior, cur)
    PROVE  polled' \in BOOLEAN /\ armed' \in 0..Off
<1>1. /\ cur # None => deadline[cur] \in 0..MaxTime
      /\ armed \in 0..Off /\ polled \in BOOLEAN
  BY DEF TypeOK
<1>2. \/ polled' = FALSE /\ armed' = Off
      \/ cur # None /\ polled' = TRUE /\ armed' = deadline[cur]
      \/ polled' = polled /\ armed' = armed
  BY DEF UpdateSoonestTime
<1>3. MaxTime \in Nat /\ Off = MaxTime + 1
  BY TimerAssumption DEF Off
<1>4. \A t \in 0..MaxTime : t \in 0..Off
  BY <1>3
<1>5. Off \in 0..Off
  BY <1>3
<1> HIDE DEF Off
<1> QED BY <1>1, <1>2, <1>4, <1>5

LEMMA AllocatedDelegates ==
    ASSUME TypeOK
    PROVE  allocated \subseteq Delegates /\ \A d \in allocated : d # None
<1>1. allocated \subseteq 1..starts /\ starts \in 0..MaxStarts /\ MaxStarts \in Nat
  BY TimerAssumption DEF TypeOK
<1> QED BY <1>1 DEF Delegates, None

LEMMA MsgThreadType ==
    ASSUME DInv, MsgThread
    PROVE  TypeOK'
<1> USE TimerAssumption DEF DInv
<1>1. ASSUME queue # <<>>
      PROVE  Tail(queue) \in Seq(Messages) /\ Head(queue) \in Messages
  <2>1. queue \in Seq(Messages)
    BY DEF TypeOK, Messages
  <2> QED BY <1>1, <2>1, TailOf
<1>2. CASE TimerPush
  <2>1. Head(queue).timer \in Delegates
    BY <1>1, <1>2, MessageTypes DEF TimerPush, Receives
  <2>2. /\ top' \in Delegates \cup {None} /\ heap' \subseteq Delegates
        /\ UpdateSoonestTime(top, top')
    BY <1>2, <2>1 DEF TimerPush, TypeOK
  <2>3. polled' \in BOOLEAN /\ armed' \in 0..Off
    BY <2>2, UpdateType DEF TypeOK
  <2>4. /\ UNCHANGED <<now, starts, mTimer, mClient, deadline, fate, deleted, allocated, poll, expiry>>
        /\ queue' \in Seq(Messages)
    BY <1>1, <1>2 DEF TimerPush, Receives, clientVars
  <2> QED BY <2>2, <2>3, <2>4 DEF TypeOK, Messages
<1>3. CASE TimerRemove
  <2>1. top' \in Delegates \cup {None} /\ heap' \subseteq Delegates /\ allocated' \subseteq 1..starts
    BY <1>3 DEF TimerRemove, TypeOK
  <2>2. polled' \in BOOLEAN /\ armed' \in 0..Off
    BY <1>3, <2>1, UpdateType DEF TimerRemove, TypeOK
  <2>3. /\ UNCHANGED <<now, starts, mTimer, mClient, deadline, fate, deleted, poll, expiry>>
        /\ queue' \in Seq(Messages)
    BY <1>1, <1>3 DEF TimerRemove, Receives, clientVars
  <2> QED BY <2>1, <2>2, <2>3 DEF TypeOK, Messages
<1>4. ASSUME NEW t \in 0..MaxTime, Pop(t)
      PROVE  /\ heap' \subseteq Delegates /\ top' \in Delegates \cup {None}
             /\ allocated' = allocated
             /\ expiry' \in [pc : {"idle", "popped", "stopping", "next"}, now : 0..MaxTime,
                             timer : Delegates \cup {None}, client : Clients \cup {None}]
  BY <1>4 DEF Pop, TypeOK
<1>5. CASE TimerExpire
  <2>1. /\ UNCHANGED <<now, starts, mTimer, mClient, deadline, fate, deleted, armed, polled, poll>>
        /\ queue' \in Seq(Messages)
    BY <1>1, <1>5 DEF TimerExpire, Receives, clientVars
  <2>2. Pop(now) \/ UNCHANGED <<heap, top, allocated, expiry>>
    BY <1>5 DEF TimerExpire
  <2> QED BY <1>4, <2>1, <2>2 DEF TypeOK, Messages
<1>6. CASE ExpireReadsClient
  <2>1. UNCHANGED <<now, starts, mTimer, mClient, deadline, fate, deleted, allocated, queue, heap,
                    top, armed, polled, poll>>
    BY <1>6 DEF ExpireReadsClient, clientVars, containerVars
  <2>2. mClient[expiry.timer] \in Clients \cup {None} /\ expiry.timer \in Delegates
    <3>1. expiry.timer \in allocated
      BY <1>6 DEF ExpireReadsClient, References
    <3>2. expiry.timer \in Delegates
      BY <3>1, AllocatedDelegates
    <3> QED BY <3>2 DEF TypeOK
  <2>3. expiry' \in [pc : {"idle", "popped", "stopping", "next"}, now : 0..MaxTime,
                     timer : Delegates \cup {None}, client : Clients \cup {None}]
    BY <1>6, <2>2 DEF ExpireReadsClient, TypeOK
  <2> QED BY <2>1, <2>3 DEF TypeOK
<1>7. CASE ExpireStopsClient
  <2>1. /\ UNCHANGED <<now, starts, deadline, deleted, allocated, heap, top, armed, polled, poll>>
        /\ expiry' \in [pc : {"idle", "popped", "stopping", "next"}, now : 0..MaxTime,
                        timer : Delegates \cup {None}, client : Clients \cup {None}]
    BY <1>7 DEF ExpireStopsClient, containerVars, TypeOK
  <2>2. expiry.client \in Clients
    BY <1>7 DEF ExpireStopsClient, StopsClient
  <2>3. CASE mTimer[expiry.client] # None /\ Detach(expiry.client, "expired")
    BY <2>1, <2>2, <2>3, DetachType DEF TypeOK, Messages
  <2>4. CASE UNCHANGED <<mTimer, mClient, fate, queue>>
    BY <2>1, <2>4 DEF TypeOK
  <2> QED BY <1>7, <2>3, <2>4 DEF ExpireStopsClient
<1>8. CASE ExpireNext
  <2>1. UNCHANGED <<now, starts, mTimer, mClient, deadline, fate, deleted, queue, poll>>
    BY <1>8 DEF ExpireNext, clientVars
  <2>2. CASE Pop(expiry.now) /\ UNCHANGED <<armed, polled>>
    <3>1. expiry.now \in 0..MaxTime
      BY DEF TypeOK
    <3> QED BY <1>4, <2>1, <2>2, <3>1 DEF TypeOK
  <2>3. CASE /\ UpdateSoonestTime(None, top)
             /\ expiry' = IdleExpiry
             /\ UNCHANGED <<heap, top, allocated>>
    <3>1. polled' \in BOOLEAN /\ armed' \in 0..Off
      BY <2>3, UpdateType DEF TypeOK
    <3>2. expiry' \in [pc : {"idle", "popped", "stopping", "next"}, now : 0..MaxTime,
                       timer : Delegates \cup {None}, client : Clients \cup {None}]
      BY <2>3 DEF IdleExpiry, None
    <3> QED BY <2>1, <2>3, <3>1, <3>2 DEF TypeOK
  <2> QED BY <1>8, <2>2, <2>3 DEF ExpireNext
<1> QED BY <1>2, <1>3, <1>5, <1>6, <1>7, <1>8 DEF MsgThread

LEMMA TickType ==
    ASSUME TypeOK, Tick
    PROVE  TypeOK'
BY TimerAssumption DEF Tick, TypeOK, clientVars, containerVars

----------------------------------------------------------------------------
(* What is referred to.                                                    *)

Refs == HeldByClient /\ References /\ RemovedOnce /\ PushedFirst /\ StopsClient

\* Steps that post nothing, take no message and leave the clients alone.
LEMMA QuietRefs ==
    ASSUME DInv, UNCHANGED <<mTimer, mClient, allocated, queue>>, heap' \subseteq heap,
           expiry'.pc = "popped" => expiry'.timer \in allocated,
           expiry'.pc = "stopping" => expiry'.client \in Clients
    PROVE  Refs'
BY DEF DInv, Refs, HeldByClient, References, RemovedOnce, HeldOrRemoved, PushedFirst,
       StopsClient, Removal

\* A message to expire is posted.
LEMMA PostRefs ==
    ASSUME DInv, PollPosts
    PROVE  Refs'
<1> DEFINE m == Msg("expire", None)
<1>1. /\ UNCHANGED <<mTimer, mClient, allocated, heap, expiry>>
      /\ queue' = Append(queue, m)
  BY DEF PollPosts, clientVars, containerVars
<1>2. m \in Messages /\ queue \in Seq(Messages)
  BY DEF DInv, TypeOK, Messages
<1>3. /\ DOMAIN queue' = DOMAIN queue \cup {Len(queue) + 1}
      /\ \A i \in DOMAIN queue : queue'[i] = queue[i]
      /\ queue'[Len(queue) + 1] = m
      /\ Len(queue) + 1 \notin DOMAIN queue
  BY <1>1, <1>2, Appended
<1>4. m.type = "expire" /\ \A d : m # Msg("remove", d)
  BY DEF Msg
<1>5. HeldByClient' /\ StopsClient'
  BY <1>1 DEF DInv, HeldByClient, StopsClient
<1>6. References'
  BY <1>1, <1>3, <1>4 DEF DInv, References
<1>7. ASSUME NEW d \in allocated PROVE HeldOrRemoved(d)'
  <2>1. HeldOrRemoved(d)
    BY DEF DInv, RemovedOnce
  <2>2. /\ queue'[Len(queue) + 1] # Msg("remove", d)
        /\ \A i \in DOMAIN queue : Removal(i, d)' <=> Removal(i, d)
    BY <1>3, <1>4 DEF Removal
  <2> QED BY <1>1, <1>3, <2>1, <2>2 DEF HeldOrRemoved, Removal
<1>8. PushedFirst'
  BY <1>3, <1>4 DEF DInv, PushedFirst, Removal
<1> QED BY <1>1, <1>5, <1>6, <1>7, <1>8 DEF Refs, RemovedOnce

\* A client lets go of its delegate and posts its removal.
LEMMA DetachRefs ==
    ASSUME DInv, NEW c \in Clients, mTimer[c] # None, NEW how, Detach(c, how),
           UNCHANGED <<allocated, heap>>,
           expiry'.pc = "popped" => expiry'.timer \in allocated,
           expiry'.pc = "stopping" => expiry'.client \in Clients
    PROVE  Refs'
<1> DEFINE d == mTimer[c]
           m == Msg("remove", d)
<1>1. /\ d \in Delegates /\ d \in allocated /\ mClient[d] = c
      /\ c # None
  BY TimerAssumption DEF DInv, TypeOK, References, HeldByClient, None
<1>2. /\ mTimer' = [mTimer EXCEPT ![c] = None]
      /\ mClient' = [mClient EXCEPT ![d] = None]
      /\ queue' = Append(queue, m)
  BY DEF Detach
<1>3. m \in Messages /\ queue \in Seq(Messages)
  BY <1>1 DEF DInv, TypeOK, Messages, Msg
<1>4. /\ DOMAIN queue' = DOMAIN queue \cup {Len(queue) + 1}
      /\ \A i \in DOMAIN queue : queue'[i] = queue[i]
      /\ queue'[Len(queue) + 1] = m
      /\ Len(queue) + 1 \notin DOMAIN queue
      /\ \A i \in DOMAIN queue : i < Len(queue) + 1
  BY <1>2, <1>3, Appended
<1>5. /\ m.type = "remove" /\ m.timer = d
      /\ \A e : m = Msg("remove", e) <=> e = d
  BY DEF Msg
<1> HIDE DEF m, d
<1>6. /\ mTimer'[c] = None /\ \A b \in Clients : b # c => mTimer'[b] = mTimer[b]
      /\ mClient'[d] = None /\ \A e \in Delegates : e # d => mClient'[e] = mClient[e]
  BY <1>1, <1>2 DEF DInv, TypeOK, d
<1>7. HeldByClient' /\ StopsClient'
  <2>1. ASSUME NEW b \in Clients, mTimer'[b] # None PROVE mClient'[mTimer'[b]] = b
    <3>1. b # c /\ mTimer'[b] = mTimer[b]
      BY <1>6, <2>1
    <3>2. mClient[mTimer[b]] = b /\ mTimer[b] \in Delegates
      BY <2>1, <3>1 DEF DInv, HeldByClient, TypeOK
    <3>3. mTimer[b] # d
      BY <1>1, <3>1, <3>2
    <3> QED BY <1>6, <3>1, <3>2, <3>3
  <2> QED BY <2>1 DEF HeldByClient, StopsClient
<1>8. References'
  BY <1>1, <1>4, <1>5, <1>6 DEF DInv, References
<1>9. ASSUME NEW e \in allocated PROVE HeldOrRemoved(e)'
  <2>1. HeldOrRemoved(e) /\ e \in Delegates
    BY AllocatedDelegates DEF DInv, RemovedOnce
  <2>2. /\ queue'[Len(queue) + 1] = Msg("remove", e) <=> e = d
        /\ \A i \in DOMAIN queue : Removal(i, e)' <=> Removal(i, e)
    BY <1>4, <1>5 DEF Removal
  <2>3. CASE e = d
    <3>1. \A i \in DOMAIN queue : ~Removal(i, d)
      BY <1>1, <2>1, <2>3 DEF HeldOrRemoved
    <3>2. \A i \in DOMAIN queue' : Removal(i, e)' <=> i = Len(queue) + 1
      BY <1>4, <2>2, <2>3, <3>1 DEF Removal
    <3> QED BY <1>4, <1>6, <2>3, <3>2 DEF HeldOrRemoved
  <2>4. CASE e # d
    <3>1. mClient'[e] = mClient[e] /\ \A b \in Clients : mTimer[b] = e => mTimer'[b] = e
      BY <1>6, <2>1, <2>4 DEF d
    <3> QED BY <1>4, <2>1, <2>2, <2>4, <3>1 DEF HeldOrRemoved, Removal
  <2> QED BY <2>3, <2>4
<1>10. PushedFirst'
  BY <1>4, <1>5 DEF DInv, PushedFirst, Removal
<1> QED BY <1>7, <1>8, <1>9, <1>10 DEF Refs, RemovedOnce

\* A client gets a delegate there was none of before, and posts it.
LEMMA StartRefs ==
    ASSUME DInv, NEW c \in Clients, NEW delay \in Delays, Start(c, delay)
    PROVE  Refs'
<1> DEFINE d == starts + 1
           m == Msg("push", d)
<1>1. /\ d \in Delegates /\ d \notin allocated /\ d # None
      /\ allocated \subseteq Delegates
  <2>1. allocated \subseteq 1..starts /\ starts \in 0..MaxStarts /\ starts < MaxStarts
    BY DEF DInv, TypeOK, Start
  <2> QED BY <2>1, TimerAssumption DEF Delegates, None
<1>2. /\ mTimer[c] = None
      /\ mTimer' = [mTimer EXCEPT ![c] = d]
      /\ mClient' = [mClient EXCEPT ![d] = c]
      /\ allocated' = allocated \cup {d}
      /\ queue' = Append(queue, m)
      /\ UNCHANGED <<heap, expiry>>
  BY DEF Start, containerVars
<1>3. m \in Messages /\ queue \in Seq(Messages)
  BY <1>1 DEF DInv, TypeOK, Messages, Msg
<1>4. /\ DOMAIN queue' = DOMAIN queue \cup {Len(queue) + 1}
      /\ \A i \in DOMAIN queue : queue'[i] = queue[i]
      /\ queue'[Len(queue) + 1] = m
      /\ Len(queue) + 1 \notin DOMAIN queue
  BY <1>2, <1>3, Appended
<1>5. m.type = "push" /\ m.timer = d /\ \A e : m # Msg("remove", e)
  BY DEF Msg
<1> HIDE DEF m, d
<1>6. /\ mTimer'[c] = d /\ \A b \in Clients : b # c => mTimer'[b] = mTimer[b]
      /\ mClient'[d] = c /\ \A e \in Delegates : e # d => mClient'[e] = mClient[e]
  BY <1>1, <1>2 DEF DInv, TypeOK
<1>7. \A i \in DOMAIN queue : ~Removal(i, d)
  <2>1. Msg("remove", d).type = "remove" /\ Msg("remove", d).timer = d
    BY DEF Msg
  <2> QED BY <1>1, <2>1 DEF DInv, References, Removal
<1>8. HeldByClient' /\ StopsClient'
  <2>1. ASSUME NEW b \in Clients, mTimer'[b] # None PROVE mClient'[mTimer'[b]] = b
    <3>1. CASE b = c
      BY <1>6, <3>1
    <3>2. CASE b # c
      <4>1. mTimer'[b] = mTimer[b] /\ mTimer[b] \in allocated /\ mClient[mTimer[b]] = b
        BY <1>6, <2>1, <3>2 DEF DInv, HeldByClient, References
      <4> QED BY <1>1, <1>6, <4>1
    <3> QED BY <3>1, <3>2
  <2> QED BY <1>2, <2>1 DEF DInv, HeldByClient, StopsClient
<1>9. References'
  BY <1>2, <1>4, <1>5, <1>6 DEF DInv, References
<1>10. ASSUME NEW e \in allocated' PROVE HeldOrRemoved(e)'
  <2>1. \A i \in DOMAIN queue : Removal(i, e)' <=> Removal(i, e)
    BY <1>4 DEF Removal
  <2>2. queue'[Len(queue) + 1] # Msg("remove", e)
    BY <1>4, <1>5 DEF Removal
  <2>3. CASE e = d
    <3>1. \A i \in DOMAIN queue' : ~Removal(i, e)'
      BY <1>4, <1>7, <2>1, <2>2, <2>3 DEF Removal
    <3> QED BY <1>6, <2>3, <3>1 DEF HeldOrRemoved
  <2>4. CASE e # d
    <3>1. e \in allocated /\ HeldOrRemoved(e)
      BY <1>2, <2>4 DEF DInv, RemovedOnce
    <3>2. e # None
      BY <3>1, AllocatedDelegates DEF DInv
    <3>3. mClient'[e] = mClient[e] /\ \A b \in Clients : mTimer[b] = e => mTimer'[b] = e
      BY <1>1, <1>2, <1>6, <2>4, <3>1, <3>2
    <3> QED BY <1>4, <2>1, <2>2, <3>1, <3>3 DEF HeldOrRemoved, Removal
  <2> QED BY <2>3, <2>4
<1>11. PushedFirst'
  BY <1>4, <1>5, <1>7 DEF DInv, PushedFirst, Removal
<1> QED BY <1>8, <1>9, <1>10, <1>11 DEF Refs, RemovedOnce

\* The message thread takes a message: it is the last of a delegate's only if it
\* is its removal.
LEMMA TakeRefs ==
    ASSUME DInv, queue # <<>>, queue' = Tail(queue), UNCHANGED <<mTimer, mClient>>,
           allocated' \subseteq allocated
    PROVE  /\ HeldByClient' /\ PushedFirst'
           /\ \A e \in allocated' : Head(queue) # Msg("remove", e) => HeldOrRemoved(e)'
<1>1. queue \in Seq(Messages)
  BY DEF DInv, TypeOK, Messages
<1>2. /\ Head(queue) = queue[1] /\ 1 \in DOMAIN queue
      /\ \A i \in DOMAIN queue' : i + 1 \in DOMAIN queue /\ i + 1 # 1 /\ queue'[i] = queue[i + 1]
      /\ \A i \in DOMAIN queue : i # 1 => i - 1 \in DOMAIN queue' /\ queue'[i - 1] = queue[i]
      /\ DOMAIN queue \subseteq Nat /\ DOMAIN queue' \subseteq Nat
  BY <1>1, TailOf
<1>3. HeldByClient'
  BY DEF DInv, HeldByClient
<1>4. PushedFirst'
  <2>1. SUFFICES ASSUME NEW i \in DOMAIN queue', NEW j \in DOMAIN queue',
                        queue'[i].type = "push", queue'[j] = Msg("remove", queue'[i].timer)
                 PROVE  i < j
    BY DEF PushedFirst, Removal
  <2>2. i + 1 < j + 1
    BY <1>2, <2>1 DEF DInv, PushedFirst, Removal
  <2> QED BY <1>2, <2>2
<1>5. ASSUME NEW e \in allocated', Head(queue) # Msg("remove", e) PROVE HeldOrRemoved(e)'
  <2>1. HeldOrRemoved(e)
    BY DEF DInv, RemovedOnce
  <2>2. /\ \A i \in DOMAIN queue' : Removal(i, e)' <=> Removal(i + 1, e)
        /\ ~Removal(1, e)
    BY <1>2, <1>5 DEF Removal
  <2>3. CASE \A i \in DOMAIN queue : ~Removal(i, e)
    <3>1. \A i \in DOMAIN queue' : ~Removal(i, e)'
      BY <1>2, <2>2, <2>3
    <3>2. (\E c \in Clients : mTimer[c] = e)
      BY <2>1, <2>3 DEF HeldOrRemoved
    <3> QED BY <3>1, <3>2 DEF HeldOrRemoved
  <2>4. CASE mClient[e] = None /\ \E i \in DOMAIN queue : \A j \in DOMAIN queue :
                                     Removal(j, e) <=> j = i
    <3>1. PICK i \in DOMAIN queue : \A j \in DOMAIN queue : Removal(j, e) <=> j = i
      BY <2>4
    <3>2. i # 1
      BY <2>2, <3>1
    <3>3. \A j \in DOMAIN queue' : Removal(j, e)' <=> j = i - 1
      BY <1>2, <2>2, <3>1
    <3> QED BY <1>2, <2>4, <3>2, <3>3 DEF HeldOrRemoved
  <2> QED BY <2>1, <2>3, <2>4 DEF HeldOrRemoved
<1> QED BY <1>3, <1>4, <1>5

LEMMA HeadIs ==
    ASSUME DInv, NEW t, Receives(t)
    PROVE  /\ queue # <<>> /\ 1 \in DOMAIN queue /\ Head(queue) = queue[1]
           /\ Head(queue) \in Messages /\ Head(queue).type = t
           /\ \A i \in DOMAIN queue' : queue' = Tail(queue) =>
                  i + 1 \in DOMAIN queue /\ queue'[i] = queue[i + 1]
<1>1. queue \in Seq(Messages) /\ queue # <<>>
  BY DEF DInv, TypeOK, Messages, Receives
<1> QED BY <1>1, TailOf DEF Receives

LEMMA PushRefs ==
    ASSUME DInv, TimerPush
    PROVE  Refs'
<1>1. /\ queue' = Tail(queue) /\ heap' = heap \cup {Head(queue).timer}
      /\ UNCHANGED <<mTimer, mClient, allocated, expiry>>
      /\ Receives("push") /\ expiry.pc = "idle"
  BY DEF TimerPush, clientVars, Receives
<1>2. Head(queue).timer \in allocated
  BY <1>1, HeadIs DEF DInv, References
<1>3. \A d : Head(queue) # Msg("remove", d)
  BY <1>1 DEF Receives, Msg
<1>4. HeldByClient' /\ PushedFirst' /\ RemovedOnce'
  BY <1>1, <1>3, TakeRefs, HeadIs DEF RemovedOnce
<1>5. References'
  BY <1>1, <1>2, HeadIs DEF DInv, References
<1> QED BY <1>1, <1>4, <1>5 DEF Refs, StopsClient

\* What the removal of a delegate deletes, nothing refers to any more.
LEMMA RemoveRefs ==
    ASSUME DInv, TimerRemove
    PROVE  Refs'
<1> DEFINE d == Head(queue).timer
<1>1. /\ queue' = Tail(queue) /\ heap' = heap \ {d} /\ allocated' = allocated \ {d}
      /\ UNCHANGED <<mTimer, mClient, expiry>>
      /\ Receives("remove") /\ expiry.pc = "idle"
  BY DEF TimerRemove, clientVars, Receives
<1>2. /\ Head(queue) = Msg("remove", d) /\ queue[1] = Msg("remove", d)
      /\ d \in allocated /\ 1 \in DOMAIN queue
  BY <1>1, HeadIs, MessageTypes DEF DInv, References
<1> HIDE DEF d
<1>3. /\ mClient[d] = None
      /\ \A i \in DOMAIN queue : Removal(i, d) <=> i = 1
  <2>1. HeldOrRemoved(d) /\ Removal(1, d)
    BY <1>2 DEF DInv, RemovedOnce, Removal
  <2> QED BY <1>2, <2>1 DEF HeldOrRemoved
<1>4. \A e \in allocated' : Head(queue) # Msg("remove", e)
  BY <1>1, <1>2 DEF Msg
<1>5. HeldByClient' /\ PushedFirst' /\ RemovedOnce'
  BY <1>1, <1>4, TakeRefs, HeadIs DEF RemovedOnce
<1>6. \A i \in DOMAIN queue' : queue'[i].type # "expire" => queue'[i].timer \in allocated'
  <2>1. SUFFICES ASSUME NEW i \in DOMAIN queue', queue'[i].type # "expire"
                 PROVE  queue'[i].timer # d
    BY <1>1, HeadIs DEF DInv, References
  <2>2. /\ i \in Nat /\ i + 1 \in DOMAIN queue /\ queue'[i] = queue[i + 1] /\ i + 1 # 1
        /\ queue[i + 1] \in Messages
    <3>1. queue \in Seq(Messages) /\ queue # <<>>
      BY <1>1, HeadIs DEF DInv, TypeOK, Messages
    <3> QED BY <1>1, <3>1, TailOf
  <2>3. queue[i + 1] # Msg("remove", d)
    BY <1>3, <2>2 DEF Removal
  <2>4. ~(queue[i + 1].type = "push" /\ queue[i + 1].timer = d)
    <3>1. ~(i + 1 < 1)
      BY <2>2
    <3> QED BY <1>2, <2>2, <3>1 DEF DInv, PushedFirst, Removal
  <2> QED BY <2>1, <2>2, <2>3, <2>4, MessageTypes
<1>7. \A c \in Clients : mTimer[c] # None => mTimer[c] # d
  BY <1>3, TimerAssumption DEF DInv, HeldByClient, None
<1>8. References'
  BY <1>1, <1>6, <1>7 DEF DInv, References
<1> QED BY <1>1, <1>5, <1>8 DEF Refs, StopsClient

\* What is popped was in the heap.
LEMMA PopOf ==
    ASSUME DInv, TopIsSoonest, top # None, NEW t, Pop(t)
    PROVE  /\ heap' \subseteq heap /\ top \in heap /\ allocated' = allocated
           /\ expiry'.pc = "popped" /\ expiry'.timer \in allocated
BY DEF DInv, TopIsSoonest, Soonest, Pop, References

LEMMA ExpireRefs ==
    ASSUME DInv, TopIsSoonest, TimerExpire
    PROVE  Refs'
<1>1. /\ queue' = Tail(queue) /\ UNCHANGED <<mTimer, mClient>>
      /\ Receives("expire") /\ expiry.pc = "idle"
      /\ (top # None /\ Pop(now)) \/ UNCHANGED <<heap, top, allocated, expiry>>
  BY DEF TimerExpire, clientVars, Receives
<1>2. \A d : Head(queue) # Msg("remove", d)
  BY <1>1 DEF Receives, Msg
<1>3. /\ allocated' = allocated /\ heap' \subseteq heap
      /\ expiry'.pc = "popped" => expiry'.timer \in allocated
      /\ expiry'.pc # "stopping"
  BY <1>1, PopOf
<1>4. HeldByClient' /\ PushedFirst' /\ RemovedOnce'
  BY <1>1, <1>2, <1>3, TakeRefs, HeadIs DEF RemovedOnce
<1>5. References'
  BY <1>1, <1>3, HeadIs DEF DInv, References
<1> QED BY <1>3, <1>4, <1>5 DEF Refs, StopsClient

\* Every step keeps each delegate until the last reference to it is gone.
LEMMA NextRefs ==
    ASSUME DInv, TopIsSoonest, [Next]_vars
    PROVE  DInv'
<1>1. TypeOK'
  <2>1. CASE UNCHANGED vars
    BY <2>1 DEF vars, clientVars, containerVars, DInv, TypeOK
  <2> QED BY <2>1, ClientType, PollType, MsgThreadType, TickType DEF Next, DInv
<1>2. /\ expiry.pc = "popped" => expiry.timer \in allocated
      /\ expiry.pc = "stopping" => expiry.client \in Clients
  BY DEF DInv, References, StopsClient
<1>3. SUFFICES Refs'
  BY <1>1, <1>3 DEF DInv, Refs
<1>4. ASSUME NEW c \in Clients, (\E delay \in Delays : Start(c, delay)) \/ Stop(c) \/ Delete(c)
      PROVE  Refs'
  <2>1. ASSUME NEW delay \in Delays, Start(c, delay) PROVE Refs'
    BY <2>1, StartRefs
  <2>2. CASE Stop(c)
    <3>1. UNCHANGED <<allocated, heap, expiry>> /\ mTimer[c] # None /\ Detach(c, "stopped")
      BY <2>2 DEF Stop, containerVars
    <3> QED BY <1>2, <3>1, DetachRefs
  <2>3. CASE Delete(c)
    <3>1. UNCHANGED <<allocated, heap, expiry>>
      BY <2>3 DEF Delete, containerVars
    <3>2. CASE mTimer[c] # None /\ Detach(c, "stopped")
      BY <1>2, <3>1, <3>2, DetachRefs
    <3>3. CASE UNCHANGED <<mTimer, mClient, fate, queue>>
      BY <1>2, <3>1, <3>3, QuietRefs
    <3> QED BY <2>3, <3>2, <3>3 DEF Delete
  <2> QED BY <1>4, <2>1, <2>2, <2>3
<1>5. CASE PollThread
  <2>1. CASE PollFires \/ PollRemoves
    <3>1. UNCHANGED <<mTimer, mClient, allocated, queue, heap, expiry>>
      BY <2>1 DEF PollFires, PollRemoves, clientVars
    <3> QED BY <1>2, <3>1, QuietRefs
  <2> QED BY <1>5, <2>1, PostRefs DEF PollThread
<1>6. CASE ExpireReadsClient
  <2>1. /\ UNCHANGED <<mTimer, mClient, allocated, queue, heap>>
        /\ expiry'.pc # "popped"
        /\ expiry'.pc = "stopping" => /\ expiry'.client = mClient[expiry.timer]
                                      /\ mClient[expiry.timer] # None
    BY <1>6 DEF ExpireReadsClient, clientVars, containerVars
  <2>2. mClient[expiry.timer] \in Clients \cup {None}
    <3>1. expiry.timer \in Delegates
      BY <1>2, <1>6, AllocatedDelegates DEF ExpireReadsClient, DInv
    <3> QED BY <3>1 DEF DInv, TypeOK
  <2> QED BY <2>1, <2>2, QuietRefs
<1>7. CASE ExpireStopsClient
  <2>1. /\ UNCHANGED <<allocated, heap>> /\ expiry'.pc = "next"
        /\ expiry.client \in Clients
    BY <1>2, <1>7 DEF ExpireStopsClient, containerVars
  <2>2. CASE mTimer[expiry.client] # None /\ Detach(expiry.client, "expired")
    BY <2>1, <2>2, DetachRefs
  <2>3. CASE UNCHANGED <<mTimer, mClient, fate, queue>>
    BY <2>1, <2>3, QuietRefs
  <2> QED BY <1>7, <2>2, <2>3 DEF ExpireStopsClient
<1>8. CASE ExpireNext
  <2>1. UNCHANGED <<mTimer, mClient, queue>>
    BY <1>8 DEF ExpireNext, clientVars
  <2>2. CASE top # None /\ Pop(expiry.now)
    <3>1. heap' \subseteq heap /\ allocated' = allocated
          /\ expiry'.pc = "popped" /\ expiry'.timer \in allocated
      BY <2>2, PopOf
    <3> QED BY <2>1, <3>1, QuietRefs
  <2>3. CASE expiry' = IdleExpiry /\ UNCHANGED <<heap, top, allocated>>
    <3>1. expiry'.pc = "idle"
      BY <2>3 DEF IdleExpiry
    <3> QED BY <2>1, <2>3, <3>1, QuietRefs
  <2> QED BY <1>8, <2>2, <2>3 DEF ExpireNext, TopDue
<1>9. CASE Tick \/ UNCHANGED vars
  <2>1. UNCHANGED <<mTimer, mClient, allocated, queue, heap, expiry>>
    BY <1>9 DEF Tick, vars, clientVars, containerVars
  <2> QED BY <1>2, <2>1, QuietRefs
<1> QED BY <1>4, <1>5, <1>6, <1>7, <1>8, <1>9, PushRefs, RemoveRefs, ExpireRefs
        DEF Next, MsgThread

----------------------------------------------------------------------------
(* The timerfd.                                                            *)

\* The top is a soonest of what is left, and the timerfd is set for it unless it
\* was set for as soon a one before.
LEMMA UpdateSetsTop ==
    ASSUME TypeOK, NEW prior \in Delegates \cup {None}, NEW cur \in Delegates,
           UpdateSoonestTime(prior, cur),
           \/ prior = None
           \/ /\ prior # None /\ polled /\ armed <= deadline[prior]
              /\ cur = prior \/ deadline[cur] < deadline[prior]
    PROVE  polled' /\ armed' <= deadline[cur]
<1>1. cur # None /\ deadline[cur] \in Nat /\ armed \in Nat
  BY TimerAssumption DEF TypeOK, Delegates, None, Off
<1> QED BY <1>1 DEF UpdateSoonestTime

LEMMA TopOfIs ==
    ASSUME TypeOK, AInv, UNCHANGED deadline, top' \in heap' \cup {None}, TopOf(heap', top')
    PROVE  TopIsSoonest'
BY DEF TopOf, TopIsSoonest, Soonest

\* Nothing is asked of the timerfd while an expiry is on its way.
LEMMA ExpiringArmed ==
    ASSUME Expiring'
    PROVE  ArmedOrExpiring'
BY DEF ArmedOrExpiring

\* Messages are posted, the heap and the timerfd are left alone.
LEMMA PostArmed ==
    ASSUME DInv, AInv, NEW m \in Messages, queue' = Append(queue, m) \/ queue' = queue,
           UNCHANGED <<heap, top, armed, polled, poll>>,
           \A d \in heap : deadline'[d] = deadline[d],
           expiry'.pc # "idle" \/ expiry' = expiry
    PROVE  AInv'
<1>1. queue \in Seq(Messages)
  BY DEF DInv, TypeOK, Messages
<1>2. \A i \in DOMAIN queue : i \in DOMAIN queue' /\ queue'[i] = queue[i]
  BY <1>1, Appended
<1>3. Expiring => Expiring'
  BY <1>2 DEF Expiring
<1>4. TopIsSoonest'
  BY DEF AInv, TopIsSoonest, Soonest
<1>5. ArmedOrExpiring'
  BY <1>3 DEF AInv, ArmedOrExpiring, TopIsSoonest, Soonest
<1> QED BY <1>4, <1>5 DEF AInv

\* The message thread takes a message that does not start an expiry.
LEMMA TakeExpiring ==
    ASSUME DInv, Expiring, NEW t, Receives(t), t # "expire", queue' = Tail(queue),
           UNCHANGED <<poll, expiry>>
    PROVE  Expiring'
<1>1. CASE poll # "wait"
  BY <1>1 DEF Expiring
<1>2. CASE \E i \in DOMAIN queue : queue[i].type = "expire"
  <2>1. PICK i \in DOMAIN queue : queue[i].type = "expire"
    BY <1>2
  <2>2. queue \in Seq(Messages) /\ queue # <<>>
    BY DEF DInv, TypeOK, Messages, Receives
  <2>3. i # 1
    BY <2>1, <2>2, HeadIs
  <2>4. i - 1 \in DOMAIN queue' /\ queue'[i - 1] = queue[i]
    BY <2>2, <2>3, TailOf
  <2> QED BY <2>1, <2>4 DEF Expiring
<1> QED BY <1>1, <1>2 DEF Expiring, Receives

LEMMA PushArmed ==
    ASSUME DInv, AInv, TimerPush
    PROVE  AInv'
<1> DEFINE d == Head(queue).timer
<1>1. /\ Receives("push") /\ queue' = Tail(queue) /\ heap' = heap \cup {d}
      /\ top' = IF top = None \/ deadline[d] < deadline[top] THEN d ELSE top
      /\ UpdateSoonestTime(top, top')
      /\ UNCHANGED <<deadline, poll, expiry>>
  BY DEF TimerPush, clientVars
<1>2. d \in Delegates /\ d # None /\ deadline[d] \in Nat
  <2>1. d \in Delegates
    BY <1>1, HeadIs, MessageTypes
  <2> QED BY <2>1 DEF DInv, TypeOK, Delegates, None
<1> HIDE DEF d
<1>3. /\ heap = {} => top = None
      /\ heap # {} => top \in heap /\ top # None /\ \A e \in heap : deadline[top] <= deadline[e]
      /\ \A e \in heap : deadline[e] \in Nat /\ e # None
  <2>1. \A e \in heap : deadline[e] \in Nat /\ e # None
    BY DEF DInv, TypeOK, Delegates, None
  <2> QED BY <2>1 DEF AInv, TopIsSoonest, Soonest
<1>4. /\ top' \in heap' /\ \A e \in heap' : deadline[top'] <= deadline[e]
      /\ top' \in Delegates
  <2>1. CASE top' = d /\ (heap = {} \/ deadline[d] < deadline[top])
    BY <1>1, <1>2, <1>3, <2>1
  <2>2. CASE top' = top /\ heap # {} /\ ~(deadline[d] < deadline[top])
    BY <1>1, <1>2, <1>3, <2>2 DEF DInv, TypeOK
  <2> QED BY <1>1, <1>3, <2>1, <2>2
<1>5. TopIsSoonest'
  BY <1>1, <1>2, <1>4 DEF TopIsSoonest, Soonest
<1>6. CASE Expiring
  BY <1>1, <1>5, <1>6, TakeExpiring, ExpiringArmed DEF AInv
<1>7. CASE ~Expiring
  <2>1. \/ top = None
        \/ top # None /\ polled /\ armed <= deadline[top]
             /\ (top' = top \/ deadline[top'] < deadline[top])
    BY <1>1, <1>3, <1>7 DEF AInv, ArmedOrExpiring
  <2>2. polled' /\ armed' <= deadline[top']
    BY <1>1, <1>4, <2>1, UpdateSetsTop DEF DInv, TypeOK
  <2> QED BY <1>1, <1>5, <2>2 DEF AInv, ArmedOrExpiring
<1> QED BY <1>6, <1>7

LEMMA RemoveArmed ==
    ASSUME DInv, AInv, TimerRemove
    PROVE  AInv'
<1> DEFINE d == Head(queue).timer
<1>1. /\ Receives("remove") /\ queue' = Tail(queue) /\ heap' = heap \ {d}
      /\ UNCHANGED <<deadline, poll, expiry>>
      /\ \/ d # top /\ UNCHANGED <<top, polled, armed>>
         \/ /\ d = top /\ top' \in heap' \cup {None} /\ TopOf(heap', top')
            /\ UpdateSoonestTime(None, top')
  BY DEF TimerRemove, clientVars
<1>2. heap' \subseteq Delegates
  BY <1>1 DEF DInv, TypeOK
<1> HIDE DEF d
<1>3. TopIsSoonest'
  <2>1. CASE d # top /\ top' = top
    BY <1>1, <2>1 DEF AInv, TopIsSoonest, Soonest
  <2>2. CASE top' \in heap' \cup {None} /\ TopOf(heap', top')
    BY <1>1, <2>2, TopOfIs DEF DInv
  <2> QED BY <1>1, <2>1, <2>2
<1>4. CASE Expiring
  BY <1>1, <1>3, <1>4, TakeExpiring, ExpiringArmed DEF AInv
<1>5. CASE ~Expiring /\ heap' # {}
  <2>1. CASE d # top /\ UNCHANGED <<top, polled, armed>>
    BY <1>1, <1>3, <1>5, <2>1 DEF AInv, ArmedOrExpiring
  <2>2. CASE UpdateSoonestTime(None, top')
    <3>1. top' \in Delegates
      BY <1>2, <1>3, <1>5 DEF TopIsSoonest, Soonest
    <3>2. polled' /\ armed' <= deadline[top']
      BY <2>2, <3>1, UpdateSetsTop DEF DInv
    <3> QED BY <1>1, <1>3, <3>2 DEF AInv, ArmedOrExpiring
  <2> QED BY <1>1, <2>1, <2>2
<1> QED BY <1>3, <1>4, <1>5 DEF AInv, ArmedOrExpiring

\* The end of an expiry programs the timerfd for the top.
LEMMA ExpiryArmed ==
    ASSUME DInv, AInv, TimerExpire \/ ExpireNext
    PROVE  AInv'
<1>1. UNCHANGED deadline
  BY DEF TimerExpire, ExpireNext, clientVars
<1>2. ASSUME NEW t, Pop(t) PROVE AInv'
  <2>1. expiry'.pc = "popped" /\ top' \in heap' \cup {None} /\ TopOf(heap', top')
    BY <1>2 DEF Pop
  <2> QED BY <1>1, <2>1, TopOfIs, ExpiringArmed DEF AInv, DInv, Expiring
<1>3. CASE UNCHANGED <<heap, top>> /\ top = None
  BY <1>1, <1>3 DEF AInv, DInv, TypeOK, TopIsSoonest, Soonest, ArmedOrExpiring, Delegates, None
<1>4. CASE UNCHANGED <<heap, top>> /\ top # None /\ UpdateSoonestTime(None, top)
  <2>1. top \in Delegates
    BY <1>4 DEF DInv, TypeOK
  <2>2. polled' /\ armed' <= deadline[top]
    BY <1>4, <2>1, UpdateSetsTop DEF DInv
  <2> QED BY <1>1, <1>4, <2>2 DEF AInv, TopIsSoonest, Soonest, ArmedOrExpiring
<1> QED BY <1>2, <1>3, <1>4 DEF TimerExpire, ExpireNext

\* Every step leaves an expiry on its way or the timerfd set for the top.
LEMMA NextArmed ==
    ASSUME DInv, AInv, [Next]_vars
    PROVE  AInv'
<1> DEFINE m == Msg("expire", None)
<1>1. m \in Messages
  BY DEF Messages
<1> HIDE DEF m
<1>2. ASSUME NEW c \in Clients, NEW delay \in Delays, Start(c, delay) PROVE AInv'
  <2>1. starts + 1 \in Delegates /\ starts + 1 \notin heap
    BY <1>2, TimerAssumption DEF Start, DInv, TypeOK, References, Delegates
  <2>2. /\ Msg("push", starts + 1) \in Messages
        /\ queue' = Append(queue, Msg("push", starts + 1))
    BY <1>2, <2>1 DEF Start, Messages, Msg
  <2>3. \A d \in heap : deadline'[d] = deadline[d]
    BY <1>2, <2>1 DEF Start, DInv, TypeOK
  <2> QED BY <1>2, <2>2, <2>3, PostArmed DEF Start, containerVars
<1>3. ASSUME NEW c \in Clients, mTimer[c] # None, NEW how, Detach(c, how),
             UNCHANGED <<deadline, heap, top, armed, polled, poll>>,
             expiry' = expiry \/ expiry'.pc # "idle"
      PROVE  AInv'
  <2>1. mTimer[c] \in Delegates
    BY <1>3 DEF DInv, TypeOK
  <2>2. /\ Msg("remove", mTimer[c]) \in Messages
        /\ queue' = Append(queue, Msg("remove", mTimer[c]))
    BY <1>3, <2>1 DEF Detach, Messages, Msg
  <2> QED BY <1>3, <2>2, PostArmed
<1>4. ASSUME UNCHANGED <<deadline, queue, heap, top, armed, polled, poll>>,
             expiry' = expiry \/ expiry'.pc # "idle"
      PROVE  AInv'
  BY <1>1, <1>4, PostArmed
<1>5. ASSUME NEW c \in Clients, Stop(c) \/ Delete(c) PROVE AInv'
  <2>1. UNCHANGED <<deadline, heap, top, armed, polled, poll, expiry>>
    BY <1>5 DEF Stop, Delete, containerVars
  <2> QED BY <1>3, <1>4, <1>5, <2>1 DEF Stop, Delete
<1>6. CASE PollThread
  <2>1. UNCHANGED <<deadline, heap, top>>
    BY <1>6 DEF PollThread, PollFires, PollRemoves, PollPosts, clientVars, containerVars
  <2>2. Expiring'
    <3>1. CASE PollPosts
      <4>1. queue \in Seq(Messages) /\ queue' = Append(queue, m) /\ m.type = "expire"
        BY <3>1 DEF PollPosts, DInv, TypeOK, Messages, m, Msg
      <4>2. \E i \in DOMAIN queue' : queue'[i] = m
        BY <1>1, <4>1, Appended
      <4> QED BY <4>1, <4>2 DEF Expiring
    <3> QED BY <1>6, <3>1 DEF PollThread, PollFires, PollRemoves, Expiring
  <2> QED BY <2>1, <2>2, ExpiringArmed DEF AInv, TopIsSoonest, Soonest
<1>7. CASE ExpireReadsClient \/ Tick \/ UNCHANGED vars
  <2>1. /\ UNCHANGED <<deadline, queue, heap, top, armed, polled, poll>>
        /\ expiry' = expiry \/ expiry'.pc # "idle"
    BY <1>7 DEF ExpireReadsClient, Tick, vars, clientVars, containerVars
  <2> QED BY <1>4, <2>1
<1>8. CASE ExpireStopsClient
  <2>1. /\ UNCHANGED <<deadline, heap, top, armed, polled, poll>>
        /\ expiry'.pc # "idle" /\ expiry.client \in Clients
    BY <1>8 DEF ExpireStopsClient, containerVars, DInv, StopsClient
  <2> QED BY <1>3, <1>4, <1>8, <2>1 DEF ExpireStopsClient
<1> QED BY <1>2, <1>5, <1>6, <1>7, <1>8, PushArmed, RemoveArmed, ExpiryArmed
        DEF Next, MsgThread

----------------------------------------------------------------------------
(* The theorems.                                                           *)

LEMMA NothingDanglesBy ==
    ASSUME DInv
    PROVE  NothingDangles
<1>1. ASSUME NEW d \in allocated
      PROVE  LET removals == {i \in DOMAIN queue : queue[i] = Msg("remove", d)}
             IN  \/ /\ \E c \in Clients : mTimer[c] = d /\ mClient[d] = c
                    /\ removals = {}
                 \/ /\ mClient[d] = None
                    /\ Cardinality(removals) = 1
  <2> DEFINE removals == {i \in DOMAIN queue : queue[i] = Msg("remove", d)}
  <2>1. HeldOrRemoved(d) /\ d # None
    BY AllocatedDelegates DEF DInv, RemovedOnce
  <2>2. CASE (\E c \in Clients : mTimer[c] = d) /\ \A i \in DOMAIN queue : ~Removal(i, d)
    <3>1. removals = {}
      BY <2>2 DEF Removal
    <3>2. \E c \in Clients : mTimer[c] = d /\ mClient[d] = c
      BY <2>1, <2>2 DEF DInv, HeldByClient
    <3> QED BY <3>1, <3>2
  <2>3. CASE /\ mClient[d] = None
             /\ \E i \in DOMAIN queue : \A j \in DOMAIN queue : Removal(j, d) <=> j = i
    <3>1. PICK i \in DOMAIN queue : \A j \in DOMAIN queue : Removal(j, d) <=> j = i
      BY <2>3
    <3>2. removals = {i}
      BY <3>1 DEF Removal
    <3>3. Cardinality(removals) = 1
      BY <3>2, FS_Singleton
    <3> QED BY <2>3, <3>3
  <2> QED BY <2>1, <2>2, <2>3 DEF HeldOrRemoved
<1>2. TypeOK /\ References
  BY DEF DInv
<1> QED BY <1>1, <1>2 DEF NothingDangles, References

LEMMA ArmedForTopBy ==
    ASSUME DInv, AInv
    PROVE  ArmedForTop
<1> SUFFICES ASSUME queue = <<>>, expiry.pc = "idle", poll = "wait", heap # {}
             PROVE  polled /\ \A d \in heap : armed <= deadline[d]
  BY DEF ArmedForTop
<1>1. polled /\ armed <= deadline[top]
  BY DEF AInv, ArmedOrExpiring, Expiring
<1>2. ASSUME NEW d \in heap PROVE armed <= deadline[d]
  <2>1. armed \in Nat /\ deadline[d] \in Nat /\ deadline[top] \in Nat
    <3>1. heap \subseteq Delegates /\ top \in heap
      BY DEF DInv, TypeOK, AInv, TopIsSoonest, Soonest
    <3> QED BY <3>1, TimerAssumption DEF DInv, TypeOK, Off
  <2>2. deadline[top] <= deadline[d]
    BY DEF AInv, TopIsSoonest, Soonest
  <2> QED BY <1>1, <2>1, <2>2
<1> QED BY <1>1, <1>2

\* No delegate is used after it is deleted, each is deleted once, after it was
\* pushed and detached, and an idle service wakes up for its soonest timer
\* (LocTimer.cpp: LocTimerContainer and LocTimerDelegate).
THEOREM TimerTimersAreServed == Spec => []TimersAreServed
<1>1. DInv /\ AInv /\ [Next]_vars => (DInv /\ AInv)'
  BY NextRefs, NextArmed DEF AInv
<1>2. DInv /\ AInv => TimersAreServed
  BY NothingDanglesBy, ArmedForTopBy DEF TimersAreServed
<1> QED BY TimerInit, <1>1, <1>2, PTL DEF Spec
=============================================================================
