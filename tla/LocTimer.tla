------------------------------- MODULE LocTimer -------------------------------
(***************************************************************************)
(* The timer service of the GPS libraries (gps/utils/LocTimer.cpp).        *)
(*                                                                         *)
(* Three kinds of threads: clients start, stop and delete LocTimer         *)
(* objects; the message thread owns the container (a heap of delegates,    *)
(* one per start) and programs a timerfd with the soonest deadline; the    *)
(* poll thread waits on the timerfd and posts an expiry message.  A client *)
(* and its delegates share a lock, and an action is what a thread does     *)
(* between two points where another can get in.  Time is a counter, and    *)
(* the heap is its contract: a set with a top that nothing outranks.       *)
(***************************************************************************)
EXTENDS Naturals, Sequences, FiniteSets

CONSTANTS
    Clients,    \* LocTimer objects
    MaxStarts,  \* bound: delegates created
    Delays,     \* the timeouts clients ask for
    MaxTime     \* bound: the clock

ASSUME TimerAssumption ==
    /\ MaxStarts \in Nat
    /\ MaxTime \in Nat
    /\ Delays \subseteq Nat
    /\ 0 \notin Clients

Delegates == 1..MaxStarts
None      == 0
Off       == MaxTime + 1   \* a disarmed timerfd

VARIABLES
    now,
    starts,     \* delegates created so far
    mTimer,     \* of each client: its ticking delegate
    mClient,    \* of each delegate: its client, None once detached
    deadline,   \* of each delegate: mFutureTime
    fate,       \* of each delegate: who ended it, "expired" or "stopped"
    allocated,  \* delegates not yet deleted
    deleted,    \* clients that are gone
    queue,      \* messages to the message thread
    heap, top,  \* the container
    armed,      \* the time the timerfd is set to
    polled,     \* whether the timerfd is in the epoll set
    poll,       \* the poll thread: "wait", "disarmed" or "unpolled"
    expiry      \* the message thread within an expiry, "idle" otherwise

clientVars == <<starts, mTimer, mClient, deadline, fate, deleted>>
containerVars == <<heap, top, armed, polled>>
vars == <<now, clientVars, allocated, queue, containerVars, poll, expiry>>

Msg(t, d) == [type |-> t, timer |-> d]
IdleExpiry == [pc |-> "idle", now |-> 0, timer |-> None, client |-> None]

Init ==
    /\ now = 0
    /\ starts = 0
    /\ mTimer    = [c \in Clients |-> None]
    /\ mClient   = [d \in Delegates |-> None]
    /\ deadline  = [d \in Delegates |-> 0]
    /\ fate      = [d \in Delegates |-> "none"]
    /\ allocated = {}
    /\ deleted   = {}
    /\ queue = <<>>
    /\ heap = {} /\ top = None
    /\ armed = Off /\ polled = FALSE
    /\ poll = "wait"
    /\ expiry = IdleExpiry

----------------------------------------------------------------------------
\* The heap's contract.

\* The delegates that may be on top of H.
Soonest(H) == {d \in H : \A e \in H : deadline[d] <= deadline[e]}

\* The top once H is what is left.
TopOf(H, t) == IF H = {} THEN t = None ELSE t \in Soonest(H)

\* updateSoonestTime: program the timerfd if the top has changed to a sooner
\* one, disarm it if the heap became empty.
UpdateSoonestTime(prior, cur) ==
    IF cur # prior /\ cur = None
    THEN polled' = FALSE /\ armed' = Off
    ELSE IF /\ cur # prior
            /\ prior = None \/ deadline[cur] < deadline[prior]
         THEN polled' = TRUE /\ armed' = deadline[cur]
         ELSE UNCHANGED <<polled, armed>>

----------------------------------------------------------------------------
\* Client threads, under the lock of the client.

\* LocTimer::start: a client has one ticking timer at most.
Start(c, delay) ==
    LET d == starts + 1
    IN
    /\ c \notin deleted
    /\ starts < MaxStarts
    /\ now + delay <= MaxTime
    /\ mTimer[c] = None
    /\ starts'    = d
    /\ mTimer'    = [mTimer EXCEPT ![c] = d]
    /\ mClient'   = [mClient EXCEPT ![d] = c]
    /\ deadline'  = [deadline EXCEPT ![d] = now + delay]
    /\ fate'      = [fate EXCEPT ![d] = "ticking"]
    /\ allocated' = allocated \cup {d}
    /\ queue'     = Append(queue, Msg("push", d))
    /\ UNCHANGED <<now, deleted, containerVars, poll, expiry>>

\* The locked part of LocTimer::stop: the delegate is detached (destroyLocked)
\* and its removal is posted; how says who ends it.
Detach(c, how) ==
    LET d == mTimer[c]
    IN
    /\ mTimer'  = [mTimer EXCEPT ![c] = None]
    /\ mClient' = [mClient EXCEPT ![d] = None]
    /\ fate'    = [fate EXCEPT ![d] = how]
    /\ queue'   = Append(queue, Msg("remove", d))

Stop(c) ==
    /\ mTimer[c] # None
    /\ Detach(c, "stopped")
    /\ UNCHANGED <<now, starts, deadline, deleted, allocated, containerVars,
                   poll, expiry>>

\* ~LocTimer stops the timer and goes.
Delete(c) ==
    /\ c \notin deleted
    /\ deleted' = deleted \cup {c}
    /\ \/ mTimer[c] # None /\ Detach(c, "stopped")
       \/ mTimer[c] = None /\ UNCHANGED <<mTimer, mClient, fate, queue>>
    /\ UNCHANGED <<now, starts, deadline, allocated, containerVars, poll, expiry>>

----------------------------------------------------------------------------
\* The poll thread: LocTimerPollTask::run and LocTimerContainer::expire.

PollFires ==
    /\ poll = "wait"
    /\ polled
    /\ armed <= now
    /\ armed' = Off
    /\ poll'  = "disarmed"
    /\ UNCHANGED <<now, clientVars, allocated, queue, heap, top, polled, expiry>>

PollRemoves ==
    /\ poll = "disarmed"
    /\ polled' = FALSE
    /\ poll'   = "unpolled"
    /\ UNCHANGED <<now, clientVars, allocated, queue, heap, top, armed, expiry>>

PollPosts ==
    /\ poll = "unpolled"
    /\ queue' = Append(queue, Msg("expire", None))
    /\ poll'  = "wait"
    /\ UNCHANGED <<now, clientVars, allocated, containerVars, expiry>>

----------------------------------------------------------------------------
\* The message thread.

Receives(t) == expiry.pc = "idle" /\ queue # <<>> /\ Head(queue).type = t

\* MsgTimerPush: a new timer becomes the top if it outranks it.
TimerPush ==
    LET d == Head(queue).timer
    IN
    /\ Receives("push")
    /\ heap' = heap \cup {d}
    /\ top'  = IF top = None \/ deadline[d] < deadline[top] THEN d ELSE top
    /\ UpdateSoonestTime(top, top')
    /\ queue' = Tail(queue)
    /\ UNCHANGED <<now, clientVars, allocated, poll, expiry>>

\* MsgTimerRemove: the timerfd follows the new top if the top was removed; the
\* delegate is deleted.
TimerRemove ==
    LET d == Head(queue).timer
    IN
    /\ Receives("remove")
    /\ heap' = heap \ {d}
    /\ \/ d # top /\ UNCHANGED <<top, polled, armed>>
       \/ /\ d = top
          /\ top' \in heap' \cup {None}
          /\ TopOf(heap', top')
          /\ UpdateSoonestTime(None, top')
    /\ allocated' = allocated \ {d}
    /\ queue' = Tail(queue)
    /\ UNCHANGED <<now, clientVars, poll, expiry>>

\* The mutant also deletes the delegate it expires.
PopAndDelete(t) ==
    /\ heap' = heap \ {top}
    /\ top' \in heap' \cup {None}
    /\ TopOf(heap', top')
    /\ expiry' = [pc |-> "popped", now |-> t, timer |-> top, client |-> None]
    /\ allocated' = allocated \ {top}

\* The top leaves the heap and is the one to expire.
Pop(t) ==
    /\ heap' = heap \ {top}
    /\ top' \in heap' \cup {None}
    /\ TopOf(heap', top')
    /\ expiry' = [pc |-> "popped", now |-> t, timer |-> top, client |-> None]
    /\ UNCHANGED allocated

\* MsgTimerExpire: the first timer is popped whatever its deadline.
TimerExpire ==
    /\ Receives("expire")
    /\ queue' = Tail(queue)
    /\ \/ top # None /\ Pop(now)
       \/ top = None /\ UNCHANGED <<heap, top, allocated, expiry>>
    /\ UNCHANGED <<now, clientVars, armed, polled, poll>>

\* LocTimerDelegate::expire reads mClient without the lock ...
ExpireReadsClient ==
    /\ expiry.pc = "popped"
    /\ expiry' = [pc |-> IF mClient[expiry.timer] # None THEN "stopping" ELSE "next",
                  now |-> expiry.now, timer |-> expiry.timer,
                  client |-> mClient[expiry.timer]]
    /\ UNCHANGED <<now, clientVars, allocated, queue, containerVars, poll>>

\* ... and stops the client; its callback runs if that found a ticking timer.
ExpireStopsClient ==
    /\ expiry.pc = "stopping"
    /\ \/ /\ mTimer[expiry.client] # None
          /\ Detach(expiry.client, "expired")
       \/ /\ mTimer[expiry.client] = None
          /\ UNCHANGED <<mTimer, mClient, fate, queue>>
    /\ expiry' = [pc |-> "next", now |-> expiry.now, timer |-> None, client |-> None]
    /\ UNCHANGED <<now, starts, deadline, deleted, allocated, containerVars, poll>>

\* Whether the top is due at time t: popIfOutRanks.
TopDue(t) == top # None /\ deadline[top] <= t

\* The mutant leaves the timerfd disarmed.
ExpireNextNoUpdate ==
    /\ expiry.pc = "next"
    /\ \/ TopDue(expiry.now) /\ Pop(expiry.now)
       \/ ~TopDue(expiry.now) /\ expiry' = IdleExpiry /\ UNCHANGED <<heap, top, allocated>>
    /\ UNCHANGED <<now, clientVars, queue, poll, armed, polled>>

\* The next timer that is due is popped, or the timerfd is programmed again.
ExpireNext ==
    /\ expiry.pc = "next"
    /\ \/ /\ TopDue(expiry.now)
          /\ Pop(expiry.now)
          /\ UNCHANGED <<armed, polled>>
       \/ /\ ~TopDue(expiry.now)
          /\ UpdateSoonestTime(None, top)
          /\ expiry' = IdleExpiry
          /\ UNCHANGED <<heap, top, allocated>>
    /\ UNCHANGED <<now, clientVars, queue, poll>>

Tick ==
    /\ now < MaxTime
    /\ now' = now + 1
    /\ UNCHANGED <<clientVars, allocated, queue, containerVars, poll, expiry>>

PollThread == PollFires \/ PollRemoves \/ PollPosts

MsgThread ==
    \/ TimerPush \/ TimerRemove \/ TimerExpire
    \/ ExpireReadsClient \/ ExpireStopsClient \/ ExpireNext

Next ==
    \/ \E c \in Clients : (\E delay \in Delays : Start(c, delay)) \/ Stop(c) \/ Delete(c)
    \/ PollThread
    \/ MsgThread
    \/ Tick

Spec == Init /\ [][Next]_vars

\* Both service threads run and time passes.
FairSpec == Spec /\ WF_vars(PollThread) /\ WF_vars(MsgThread) /\ WF_vars(Tick)

----------------------------------------------------------------------------
TypeOK ==
    /\ now \in 0..MaxTime
    /\ starts \in 0..MaxStarts
    /\ mTimer   \in [Clients -> Delegates \cup {None}]
    /\ mClient  \in [Delegates -> Clients \cup {None}]
    /\ deadline \in [Delegates -> 0..MaxTime]
    /\ fate     \in [Delegates -> {"none", "ticking", "stopped", "expired"}]
    /\ allocated \subseteq 1..starts
    /\ deleted \subseteq Clients
    /\ queue \in Seq([type : {"push", "remove"}, timer : Delegates]
                     \cup {Msg("expire", None)})
    /\ heap \subseteq Delegates
    /\ top \in Delegates \cup {None}
    /\ armed \in 0..Off
    /\ polled \in BOOLEAN
    /\ poll \in {"wait", "disarmed", "unpolled"}
    /\ expiry \in [pc : {"idle", "popped", "stopping", "next"}, now : 0..MaxTime,
                   timer : Delegates \cup {None}, client : Clients \cup {None}]

\* A delegate is deleted once, after everything that refers to it: what is in
\* the heap, named by a message, held by a client or being expired is allocated
\* (LocTimer.cpp:347, "all timers are deleted here, and only here").  Whoever
\* detaches it posts its removal, once: a delegate is either held by its client
\* or waits for its removal.
NothingDangles ==
    /\ TypeOK
    /\ heap \subseteq allocated
    /\ \A i \in DOMAIN queue :
         queue[i].type # "expire" => queue[i].timer \in allocated
    /\ \A c \in Clients : mTimer[c] # None => mTimer[c] \in allocated
    /\ expiry.pc = "popped" => expiry.timer \in allocated
    /\ \A d \in allocated :
        LET removals == {i \in DOMAIN queue : queue[i] = Msg("remove", d)}
        IN  \/ /\ \E c \in Clients : mTimer[c] = d /\ mClient[d] = c
               /\ removals = {}
            \/ /\ mClient[d] = None
               /\ Cardinality(removals) = 1

\* When both service threads have nothing to do, the timerfd wakes the poll
\* thread no later than the soonest timer needs it.
ArmedForTop ==
    queue = <<>> /\ expiry.pc = "idle" /\ poll = "wait" /\ heap # {} =>
        polled /\ \A d \in heap : armed <= deadline[d]

\* The timers there are can be served: none of them is gone that something still
\* refers to, and the poll thread wakes up for the soonest of them.
TimersAreServed == NothingDangles /\ ArmedForTop

\* A timer that is started ends: it is stopped, or it expires.
EveryTimerEnds ==
    \A d \in Delegates : fate[d] = "ticking" ~> fate[d] # "ticking"
=============================================================================
