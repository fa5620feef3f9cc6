---------------------------- MODULE QCamera3Channel ----------------------------
(***************************************************************************)
(* A processing channel of the HAL3 camera and its stream                  *)
(* (HAL3/QCamera3Channel.cpp, QCamera3Stream.cpp, QCamera3Mem.cpp): the    *)
(* buffers registered for the frames requested, and how their order is     *)
(* restored when the backend loses one or fills them out of turn.  The     *)
(* state is a record, and every operation an operator on it: QCamera3HWI   *)
(* composes one per stream.                                                *)
(***************************************************************************)
EXTENDS Integers, SequencesExt, FiniteSetsExt

CONSTANT NumBufs    \* mNumBufs, of a stream

\* Without a buffer, as after a stop, which unregisters them all.
NoBuffers ==
    [mMemory |-> [i \in 1..NumBufs |-> 0],  \* the frame of each buffer, 0 of none
     kernel |-> <<>>,                       \* buffers queued to the backend
     lost |-> {}, cancelled |-> {},         \* those that come late or with an error
     mTimeoutFrameQ |-> <<>>,
     mOutOfSequenceBuffers |-> <<>>,
     next |-> 0]                            \* the buffer a callback goes on with

\* A stop forgets all but what was kept back of the order.
stopped(c) == [NoBuffers EXCEPT !.mOutOfSequenceBuffers = c.mOutOfSequenceBuffers]

Registered(c) == {i \in 1..NumBufs: c.mMemory[i] # 0}
getBufferIndex(c, f) == {i \in 1..NumBufs: c.mMemory[i] = f}
getFreeIndex(c) == Min(1..NumBufs \ Registered(c))
getOldest(c) == CHOOSE i \in Registered(c): \A j \in Registered(c): c.mMemory[i] <= c.mMemory[j]

\* A buffer is registered, marked with its frame and queued.
request(c, f) ==
    [c EXCEPT !.mMemory[getFreeIndex(c)] = f, !.kernel = Append(@, getFreeIndex(c))]

\* cancel_buffer: the kernel returns a buffer it has; others it refuses.
cancelBuffer(c, i) == [c EXCEPT !.cancelled = @ \cup ({i} \cap ToSet(c.kernel))]

\* timeoutFrame of an overdue frame, and its turn on the stream's thread.
timeoutFrame(c, f) == [c EXCEPT !.mTimeoutFrameQ = @ \o SetToSeq(getBufferIndex(c, f))]
dataProcTimeout(c) ==
    [cancelBuffer(c, Head(c.mTimeoutFrameQ)) EXCEPT !.mTimeoutFrameQ = Tail(@)]

\* The buffers the backend may return now: the first that is not lost, or,
\* out of turn, a later one; and the first of those cancelled.
CanCome(c, outOfTurn) ==
    LET coming == SelectSeq(c.kernel, LAMBDA i: i \notin c.lost)
        back == SelectSeq(c.kernel, LAMBDA i: i \in c.cancelled)
        First(queue) == IF queue = <<>> THEN {} ELSE {Head(queue)}
    IN First(back) \cup (IF outOfTurn THEN ToSet(coming) ELSE First(coming))

Dequeued(c, i) ==
    [c EXCEPT !.kernel = SelectSeq(@, LAMBDA j: j # i), !.lost = @ \ {i}, !.cancelled = @ \ {i}]
--------------------------------------------------------------------------------
(* streamCbRoutine, of buffer i; a constrained high speed session, hfr,    *)
(* does not look after the order.                                          *)

IsEarly(c, i) == c.mMemory[getOldest(c)] < c.mMemory[i]

\* Mutant: every buffer goes as it comes.
AlwaysInTurn(c, i, hfr) == TRUE

\* Whether the buffer goes to the framework.
IsInTurn(c, i, hfr) == hfr \/ ~IsEarly(c, i)

\* An early buffer is kept and the oldest cancelled; one in its turn goes,
\* and the first of those kept is looked at next.
streamCbRoutine(c, i, hfr) ==
    LET held == c.mOutOfSequenceBuffers
        freed == [c EXCEPT !.mMemory[i] = 0, !.next = 0]
        kept == [c EXCEPT !.mOutOfSequenceBuffers = Append(@, i), !.next = 0]
    IN IF ~IsInTurn(c, i, hfr)
       THEN IF held = <<>> THEN cancelBuffer(kept, getOldest(c)) ELSE kept
       ELSE IF held = <<>> THEN freed
       ELSE IF IsEarly(freed, Head(held)) THEN cancelBuffer(freed, getOldest(freed))
       ELSE [freed EXCEPT !.mOutOfSequenceBuffers = Tail(@), !.next = Head(held)]
================================================================================
