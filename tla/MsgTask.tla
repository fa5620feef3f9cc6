-------------------------------- MODULE MsgTask --------------------------------
(***************************************************************************)
(* The message task every GPS component runs its handlers in: a MsgTask    *)
(* object, its message queue (gps/utils/msg_q.c) and the thread that       *)
(* serves it (gps/utils/LocThread.cpp), from creation to destroy().        *)
(*                                                                         *)
(* Two objects have lives of their own: the task, deleted by the served    *)
(* thread on its way out, and the thread delegate, counted down by both    *)
(* sides.  An action is what one side does between two points where the    *)
(* other can get in; what runs under the queue's mutex is one action.      *)
(***************************************************************************)
EXTENDS Naturals, Sequences

CONSTANT MaxMsgs  \* bound: messages posted

ASSUME MsgTaskAssumption == MaxMsgs \in Nat

Msgs == 1..MaxMsgs

VARIABLES
    joinable,   \* the parameter of MsgTask, for good
    sent,       \* messages posted so far
    msgList,    \* the queue
    unblocked,  \* the queue is closed
    fate,       \* what became of each message
    worker,     \* where the thread is
    current,    \* the message being processed, as a set
    owner,      \* where the caller of destroy() is
    mRunnable,  \* the delegate's pointer to the task is not NULL
    mRefCount,  \* of the delegate
    task, delegate  \* whether each object is allocated

vars == <<joinable, sent, msgList, unblocked, fate, worker, current, owner,
          mRunnable, mRefCount, task, delegate>>

\* The mutant counts one side only.
InitialRefCountOne == 1

InitialRefCount == 2

Init ==
    /\ joinable \in BOOLEAN
    /\ sent = 0
    /\ msgList = <<>>
    /\ unblocked = FALSE
    /\ fate = [m \in Msgs |-> "none"]
    /\ worker = "created"
    /\ current = {}
    /\ owner = "idle"
    /\ mRunnable = TRUE
    /\ mRefCount = InitialRefCount
    /\ task = TRUE
    /\ delegate = TRUE

----------------------------------------------------------------------------
\* sendMsg / msg_q_snd; a refused message is not freed either.
SendMsg ==
    /\ task
    /\ sent < MaxMsgs
    /\ sent' = sent + 1
    /\ \/ /\ unblocked
          /\ fate' = [fate EXCEPT ![sent'] = "refused"]
          /\ UNCHANGED msgList
       \/ /\ ~unblocked
          /\ fate'    = [fate EXCEPT ![sent'] = "queued"]
          /\ msgList' = Append(msgList, sent')
    /\ UNCHANGED <<joinable, unblocked, worker, current, owner, mRunnable, mRefCount,
                   task, delegate>>

----------------------------------------------------------------------------
\* The thread: LocThreadDelegate::threadMain and MsgTask::run.

\* A task that is gone already is not run, nor deleted.
ThreadMain ==
    /\ worker = "created"
    /\ worker' = IF mRunnable THEN "loop" ELSE "release"
    /\ UNCHANGED <<joinable, sent, msgList, unblocked, fate, current, owner, mRunnable,
                   mRefCount, task, delegate>>

LoopTest ==
    /\ worker = "loop"
    /\ worker' = IF mRunnable THEN "rcv" ELSE "leaving"
    /\ UNCHANGED <<joinable, sent, msgList, unblocked, fate, current, owner, mRunnable,
                   mRefCount, task, delegate>>

\* The mutant takes the last message.
TakeLast ==
    /\ worker'  = "proc"
    /\ current' = {msgList[Len(msgList)]}
    /\ msgList' = SubSeq(msgList, 1, Len(msgList) - 1)

Take ==
    /\ worker'  = "proc"
    /\ current' = {Head(msgList)}
    /\ msgList' = Tail(msgList)

\* msg_q_rcv: a closed queue ends the loop, an empty one makes it wait.
MsgQRcv ==
    /\ worker = "rcv"
    /\ \/ unblocked /\ worker' = "leaving" /\ UNCHANGED <<current, msgList>>
       \/ ~unblocked /\ msgList # <<>> /\ Take
       \/ ~unblocked /\ msgList = <<>> /\ worker' = "waiting"
          /\ UNCHANGED <<current, msgList>>
    /\ UNCHANGED <<joinable, sent, unblocked, fate, owner, mRunnable, mRefCount, task,
                   delegate>>

\* The wait ends with a message, even of a queue that is closed by then.
MsgQRcvWakes ==
    /\ worker = "waiting"
    /\ \/ msgList # <<>> /\ Take
       \/ msgList = <<>> /\ unblocked /\ worker' = "leaving"
          /\ UNCHANGED <<current, msgList>>
    /\ UNCHANGED <<joinable, sent, unblocked, fate, owner, mRunnable, mRefCount, task,
                   delegate>>

\* msg->proc() returns and the message is deleted.
Proc ==
    /\ worker = "proc"
    /\ fate'    = [m \in Msgs |-> IF m \in current THEN "processed" ELSE fate[m]]
    /\ current' = {}
    /\ worker'  = "loop"
    /\ UNCHANGED <<joinable, sent, msgList, unblocked, owner, mRunnable, mRefCount, task,
                   delegate>>

Leave ==
    /\ worker = "leaving"
    /\ mRunnable' = FALSE
    /\ worker' = "deleting"
    /\ UNCHANGED <<joinable, sent, msgList, unblocked, fate, current, owner, mRefCount,
                   task, delegate>>

\* msg_q_flush: what is left in the queue is freed.
Flush ==
    /\ msgList' = <<>>
    /\ fate' = [m \in Msgs |-> IF fate[m] = "queued" THEN "flushed" ELSE fate[m]]

\* delete runnable: ~MsgTask flushes and destroys the queue.
DeleteTask ==
    /\ worker = "deleting"
    /\ Flush
    /\ task' = FALSE
    /\ worker' = "release"
    /\ UNCHANGED <<joinable, sent, unblocked, current, owner, mRunnable, mRefCount, delegate>>

\* The mutant forgets that the thread has a share in the delegate.
WorkerKeeps ==
    /\ worker = "release"
    /\ worker' = "gone"
    /\ UNCHANGED <<joinable, sent, msgList, unblocked, fate, current, owner, mRunnable,
                   mRefCount, task, delegate>>

\* LocThreadDelegate::destroy: the last one to call it deletes the delegate.
Release ==
    /\ mRefCount' = IF mRefCount > 0 THEN mRefCount - 1 ELSE mRefCount
    /\ delegate'  = (delegate /\ mRefCount # 1)

WorkerRelease ==
    /\ worker = "release"
    /\ Release
    /\ worker' = "gone"
    /\ UNCHANGED <<joinable, sent, msgList, unblocked, fate, current, owner, mRunnable, task>>

Worker ==
    \/ ThreadMain \/ LoopTest \/ MsgQRcv \/ MsgQRcvWakes \/ Proc \/ Leave
    \/ DeleteTask \/ WorkerRelease

----------------------------------------------------------------------------
\* The owner: MsgTask::destroy.

\* msg_q_unblock
Unblock ==
    /\ owner = "idle"
    /\ unblocked' = TRUE
    /\ owner' = "unblocked"
    /\ UNCHANGED <<joinable, sent, msgList, fate, worker, current, mRunnable, mRefCount,
                   task, delegate>>

\* mThread = NULL, in the task object
ClearThread ==
    /\ owner = "unblocked"
    /\ owner' = "cleared"
    /\ UNCHANGED <<joinable, sent, msgList, unblocked, fate, worker, current, mRunnable,
                   mRefCount, task, delegate>>

\* The mutant does not wait for a joinable thread.
ByeWithoutJoin ==
    /\ owner = "cleared"
    /\ owner' = "release"
    /\ UNCHANGED <<joinable, sent, msgList, unblocked, fate, worker, current, mRunnable,
                   mRefCount, task, delegate>>

\* delete thread: bye() stops and joins a joinable thread, lets go of another.
Bye ==
    /\ owner = "cleared"
    /\ \/ joinable /\ mRunnable' = FALSE /\ owner' = "joining"
       \/ ~joinable /\ owner' = "release" /\ UNCHANGED mRunnable
    /\ UNCHANGED <<joinable, sent, msgList, unblocked, fate, worker, current, mRefCount,
                   task, delegate>>

Join ==
    /\ owner = "joining"
    /\ worker = "gone"
    /\ owner' = "release"
    /\ UNCHANGED <<joinable, sent, msgList, unblocked, fate, worker, current, mRunnable,
                   mRefCount, task, delegate>>

OwnerRelease ==
    /\ owner = "release"
    /\ Release
    /\ owner' = "done"
    /\ UNCHANGED <<joinable, sent, msgList, unblocked, fate, worker, current, mRunnable, task>>

Destroying == ClearThread \/ Bye \/ Join \/ OwnerRelease

Next == SendMsg \/ Worker \/ Unblock \/ Destroying

Spec == Init /\ [][Next]_vars

\* Handlers return, and both threads run.
FairSpec == Spec /\ WF_vars(Worker) /\ WF_vars(Destroying)

----------------------------------------------------------------------------
TypeOK ==
    /\ joinable \in BOOLEAN
    /\ sent \in 0..MaxMsgs
    /\ msgList \in Seq(Msgs)
    /\ unblocked \in BOOLEAN
    /\ fate \in [Msgs -> {"none", "queued", "refused", "processed", "flushed"}]
    /\ worker \in {"created", "loop", "rcv", "waiting", "proc", "leaving",
                   "deleting", "release", "gone"}
    /\ current \subseteq Msgs
    /\ owner \in {"idle", "unblocked", "cleared", "joining", "release", "done"}
    /\ mRunnable \in BOOLEAN
    /\ mRefCount \in 0..2
    /\ task \in BOOLEAN
    /\ delegate \in BOOLEAN

\* Neither side uses the delegate after it is deleted, and it is deleted when
\* both are through (LocThread.cpp:153: "we delete this obj when mRefCount becomes 0").
DelegateLives ==
    delegate <=> worker # "gone" \/ owner # "done"

\* When destroy() of a joinable task has returned, no handler runs and none
\* will.
DestroyedMeansQuiet ==
    joinable /\ owner = "done" => worker = "gone" /\ current = {}

Box == INSTANCE Mailbox WITH
    pending  <- msgList,
    handling <- current,
    closed   <- unblocked

\* Handlers run one at a time and in the order of the messages.
IsMailbox == Box!ASpec

\* destroy() is called, of a joinable task after its thread has run first.  (The
\* thread of one that is destroyed before finds mRunnable cleared: the task and
\* its messages are never deleted.)
DestroyedInTime == owner = "unblocked" /\ (joinable => worker # "created")

\* destroy() returns, and the objects go (LocThread.h:75: the runnable "will be
\* deleted by LocThread if start() returns true").
EverythingIsDeleted == DestroyedInTime ~> owner = "done" /\ ~task /\ ~delegate
=============================================================================
