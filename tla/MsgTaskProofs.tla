----------------------------- MODULE MsgTaskProofs -----------------------------
(***************************************************************************)
(* Theorems about the message task, for any number of messages, joinable   *)
(* or not.  The inductive invariant counts the sides that still have a     *)
(* share in the delegate, and says that nothing stops the thread before    *)
(* the queue is closed; from the second the step that deletes the task is  *)
(* a drop of the abstract mailbox.                                         *)
(***************************************************************************)
EXTENDS MsgTask, TLAPS

\* The sides that have yet to call LocThreadDelegate::destroy.
SharesCounted ==
    mRefCount = (IF worker = "gone" THEN 0 ELSE 1) + (IF owner = "done" THEN 0 ELSE 1)

\* Whoever stops the thread closed the queue before.
StoppedIsClosed ==
    /\ owner # "idle" => unblocked
    /\ ~mRunnable => unblocked
    /\ worker \in {"leaving", "deleting"} => unblocked

\* A message is being processed exactly while a handler runs.
OneHandler == current # {} <=> worker = "proc"

JoinedIsGone == joinable /\ owner \in {"release", "done"} => worker = "gone"

IInv ==
    /\ TypeOK
    /\ SharesCounted
    /\ DelegateLives
    /\ StoppedIsClosed
    /\ OneHandler
    /\ JoinedIsGone

LEMMA InitIInv == Init => IInv
  <1> SUFFICES ASSUME Init PROVE IInv
    OBVIOUS
  <1>1. sent \in 0..MaxMsgs /\ mRefCount \in 0..2
    BY MsgTaskAssumption DEF Init, InitialRefCount
  <1>2. msgList \in Seq(Msgs) /\ current \subseteq Msgs
    BY DEF Init
  <1>3. fate \in [Msgs -> {"none", "queued", "refused", "processed", "flushed"}]
    BY DEF Init
  <1>4. TypeOK
    BY <1>1, <1>2, <1>3 DEF Init, TypeOK
  <1> QED
    BY <1>4 DEF Init, IInv, SharesCounted, DelegateLives, StoppedIsClosed, OneHandler,
       JoinedIsGone, InitialRefCount

\* A side that lets go counts one down, and the last one deletes the delegate.
LEMMA ReleaseCounts ==
  ASSUME Release, mRefCount \in 1..2
  PROVE  /\ mRefCount' = mRefCount - 1
         /\ delegate' = (delegate /\ mRefCount # 1)
  BY DEF Release

LEMMA SendMsgIInv == IInv /\ SendMsg => IInv'
  <1> SUFFICES ASSUME IInv, SendMsg PROVE IInv'
    OBVIOUS
  <1> USE DEF IInv
  <1>1. sent' \in 0..MaxMsgs /\ sent' \in Msgs
    BY MsgTaskAssumption DEF SendMsg, TypeOK, Msgs
  <1>2. msgList' \in Seq(Msgs)
    BY <1>1 DEF SendMsg, TypeOK
  <1>3. fate' \in [Msgs -> {"none", "queued", "refused", "processed", "flushed"}]
    BY <1>1 DEF SendMsg, TypeOK
  <1>4. UNCHANGED <<joinable, unblocked, worker, current, owner, mRunnable, mRefCount, task,
                   delegate>>
    BY DEF SendMsg
  <1>5. TypeOK'
    BY <1>1, <1>2, <1>3, <1>4 DEF TypeOK
  <1> QED
    BY <1>4, <1>5 DEF SharesCounted, DelegateLives, StoppedIsClosed, OneHandler,
       JoinedIsGone

\* The head of a queue that is not empty is a message.
LEMMA TakeType ==
  ASSUME msgList \in Seq(Msgs), msgList # <<>>, Take
  PROVE  msgList' \in Seq(Msgs) /\ current' \subseteq Msgs /\ current' # {}
  BY DEF Take

LEMMA MsgQRcvIInv == IInv /\ (MsgQRcv \/ MsgQRcvWakes) => IInv'
  <1> SUFFICES ASSUME IInv, MsgQRcv \/ MsgQRcvWakes PROVE IInv'
    OBVIOUS
  <1> USE DEF IInv
  <1>1. /\ worker \in {"rcv", "waiting"}
        /\ worker' \in {"leaving", "waiting", "proc"}
        /\ worker' = "leaving" => unblocked
        /\ UNCHANGED <<joinable, sent, unblocked, fate, owner, mRunnable, mRefCount, task,
                       delegate>>
    BY DEF MsgQRcv, MsgQRcvWakes, Take
  <1>2. /\ msgList' \in Seq(Msgs) /\ current' \subseteq Msgs
        /\ current' # {} <=> worker' = "proc"
    <2>1. CASE Take /\ msgList # <<>>
      BY <2>1, TakeType DEF TypeOK, Take
    <2>2. CASE UNCHANGED <<current, msgList>> /\ worker' # "proc"
      BY <2>2, <1>1 DEF TypeOK, OneHandler
    <2> QED
      BY <2>1, <2>2 DEF MsgQRcv, MsgQRcvWakes
  <1>3. TypeOK'
    BY <1>1, <1>2 DEF TypeOK
  <1>4. SharesCounted' /\ DelegateLives' /\ StoppedIsClosed' /\ JoinedIsGone'
    BY <1>1 DEF SharesCounted, DelegateLives, StoppedIsClosed, JoinedIsGone, TypeOK
  <1> QED
    BY <1>2, <1>3, <1>4 DEF OneHandler

\* The steps of the thread between its calls to the queue.
LEMMA LoopIInv == IInv /\ (ThreadMain \/ LoopTest \/ Proc \/ Leave \/ DeleteTask) => IInv'
  <1> SUFFICES ASSUME IInv, ThreadMain \/ LoopTest \/ Proc \/ Leave \/ DeleteTask PROVE IInv'
    OBVIOUS
  <1> USE DEF IInv
  <1>1. CASE ThreadMain
    BY <1>1 DEF ThreadMain, TypeOK, SharesCounted, DelegateLives, StoppedIsClosed,
       OneHandler, JoinedIsGone
  <1>2. CASE LoopTest
    BY <1>2 DEF LoopTest, TypeOK, SharesCounted, DelegateLives, StoppedIsClosed,
       OneHandler, JoinedIsGone
  <1>3. CASE Proc
    BY <1>3 DEF Proc, TypeOK, SharesCounted, DelegateLives, StoppedIsClosed,
       OneHandler, JoinedIsGone
  <1>4. CASE Leave
    BY <1>4 DEF Leave, TypeOK, SharesCounted, DelegateLives, StoppedIsClosed,
       OneHandler, JoinedIsGone
  <1>5. CASE DeleteTask
    <2>1. msgList' \in Seq(Msgs)
      BY <1>5 DEF DeleteTask, Flush
    <2>2. fate' \in [Msgs -> {"none", "queued", "refused", "processed", "flushed"}]
      BY <1>5 DEF DeleteTask, Flush, TypeOK
    <2>3. TypeOK'
      BY <1>5, <2>1, <2>2 DEF DeleteTask, TypeOK
    <2> QED
      BY <1>5, <2>3 DEF DeleteTask, SharesCounted, DelegateLives, StoppedIsClosed, OneHandler,
         JoinedIsGone
  <1> QED
    BY <1>1, <1>2, <1>3, <1>4, <1>5

LEMMA ReleaseIInv == IInv /\ (WorkerRelease \/ OwnerRelease) => IInv'
  <1> SUFFICES ASSUME IInv, WorkerRelease \/ OwnerRelease PROVE IInv'
    OBVIOUS
  <1> USE DEF IInv
  <1>1. Release /\ mRefCount \in 1..2
    BY DEF WorkerRelease, OwnerRelease, SharesCounted, TypeOK
  <1>2. mRefCount' = mRefCount - 1 /\ delegate' \in BOOLEAN
    BY <1>1, ReleaseCounts
  <1>3. mRefCount = 1 <=> worker' = "gone" /\ owner' = "done"
    BY DEF WorkerRelease, OwnerRelease, SharesCounted
  <1>4. delegate' <=> worker' # "gone" \/ owner' # "done"
    <2>1. delegate
      BY DEF WorkerRelease, OwnerRelease, DelegateLives
    <2> QED
      BY <1>1, <1>3, <2>1, ReleaseCounts
  <1>5. TypeOK' /\ SharesCounted'
    BY <1>1, <1>2 DEF WorkerRelease, OwnerRelease, TypeOK, SharesCounted
  <1> QED
    BY <1>4, <1>5 DEF WorkerRelease, OwnerRelease, DelegateLives, StoppedIsClosed, OneHandler,
       JoinedIsGone

\* The other steps of destroy().
LEMMA OwnerIInv == IInv /\ (Unblock \/ ClearThread \/ Bye \/ Join) => IInv'
  <1> SUFFICES ASSUME IInv, Unblock \/ ClearThread \/ Bye \/ Join PROVE IInv'
    OBVIOUS
  <1> USE DEF IInv, TypeOK, SharesCounted, DelegateLives, StoppedIsClosed, OneHandler,
              JoinedIsGone
  <1>1. CASE Unblock
    BY <1>1 DEF Unblock
  <1>2. CASE ClearThread
    BY <1>2 DEF ClearThread
  <1>3. CASE Bye
    BY <1>3 DEF Bye
  <1>4. CASE Join
    BY <1>4 DEF Join
  <1> QED
    BY <1>1, <1>2, <1>3, <1>4

LEMMA NextIInv == IInv /\ [Next]_vars => IInv'
  <1> SUFFICES ASSUME IInv, [Next]_vars PROVE IInv'
    OBVIOUS
  <1>1. CASE UNCHANGED vars
    BY <1>1 DEF vars, IInv, TypeOK, SharesCounted, DelegateLives, StoppedIsClosed,
       OneHandler, JoinedIsGone
  <1>2. CASE Next
    BY <1>2, SendMsgIInv, MsgQRcvIInv, LoopIInv, ReleaseIInv, OwnerIInv
    DEF Next, Worker, Destroying
  <1> QED
    BY <1>1, <1>2

\* The invariant in which the theorems below are contained.
THEOREM MsgTaskInvariant == Spec => []IInv
  BY InitIInv, NextIInv, PTL DEF Spec

\* Variables keep their types; in particular the reference count stays between
\* nothing and the two it starts with.
THEOREM MsgTaskTypeOK == Spec => []TypeOK
  <1>1. IInv => TypeOK
    BY DEF IInv
  <1> QED
    BY <1>1, MsgTaskInvariant, PTL

\* The delegate that the thread and destroy() share lives exactly until both are
\* through with it.
THEOREM MsgTaskDelegateLives == Spec => []DelegateLives
  <1>1. IInv => DelegateLives
    BY DEF IInv
  <1> QED
    BY <1>1, MsgTaskInvariant, PTL

\* After destroy() of a joinable task no handler runs.
THEOREM MsgTaskDestroyedMeansQuiet == Spec => []DestroyedMeansQuiet
  <1>1. IInv => DestroyedMeansQuiet
    BY DEF IInv, DestroyedMeansQuiet, JoinedIsGone, OneHandler
  <1> QED
    BY <1>1, MsgTaskInvariant, PTL

\* The steps of the task are steps of the mailbox, or change nothing in it.
LEMMA StepIsMailbox == IInv /\ [Next]_vars => [Box!ANext]_<<msgList, current, unblocked>>
  <1> SUFFICES ASSUME IInv, [Next]_vars
               PROVE  Box!ANext \/ UNCHANGED <<msgList, current, unblocked>>
    OBVIOUS
  <1>1. CASE SendMsg
    <2>1. CASE unblocked
      BY <1>1, <2>1 DEF SendMsg
    <2>2. CASE ~unblocked
      <3>1. sent' \in Msgs
        BY <1>1, MsgTaskAssumption DEF SendMsg, IInv, TypeOK, Msgs
      <3>2. Box!Accept(sent')
        BY <1>1, <2>2 DEF SendMsg, Box!Accept
      <3> QED
        BY <3>1, <3>2 DEF Box!ANext
    <2> QED
      BY <2>1, <2>2
  <1>2. CASE MsgQRcv \/ MsgQRcvWakes
    <2>1. CASE Take /\ msgList # <<>>
      <3>1. current = {} /\ unblocked' = unblocked
        BY <1>2 DEF IInv, OneHandler, MsgQRcv, MsgQRcvWakes
      <3> QED
        BY <2>1, <3>1 DEF Take, Box!Handle, Box!ANext
    <2>2. CASE UNCHANGED <<current, msgList>>
      BY <1>2, <2>2 DEF MsgQRcv, MsgQRcvWakes
    <2> QED
      BY <1>2, <2>1, <2>2 DEF MsgQRcv, MsgQRcvWakes
  <1>3. CASE Proc
    BY <1>3 DEF Proc, IInv, OneHandler, Box!Handled, Box!ANext
  <1>4. CASE DeleteTask
    BY <1>4 DEF DeleteTask, Flush, IInv, OneHandler, StoppedIsClosed, Box!Drop, Box!ANext
  <1>5. CASE Unblock
    BY <1>5 DEF Unblock, Box!Close, Box!ANext
  <1>6. CASE ThreadMain \/ LoopTest \/ Leave \/ WorkerRelease
    BY <1>6 DEF ThreadMain, LoopTest, Leave, WorkerRelease
  <1>7. CASE Destroying
    BY <1>7 DEF Destroying, ClearThread, Bye, Join, OwnerRelease
  <1>8. CASE UNCHANGED vars
    BY <1>8 DEF vars
  <1> QED
    BY <1>1, <1>2, <1>3, <1>4, <1>5, <1>6, <1>7, <1>8 DEF Next, Worker

\* The message task implements the mailbox: for any number of messages they are
\* processed one at a time, in order, each at most once, and none is accepted
\* after the queue is closed.
THEOREM MsgTaskIsMailbox == Spec => IsMailbox
  <1>1. Init => Box!AInit
    BY DEF Init, Box!AInit
  <1> QED
    BY <1>1, StepIsMailbox, MsgTaskInvariant, PTL DEF Spec, IsMailbox, Box!ASpec
================================================================================
