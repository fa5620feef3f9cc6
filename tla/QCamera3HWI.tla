------------------------------ MODULE QCamera3HWI ------------------------------
(***************************************************************************)
(* The capture requests of a HAL3 camera (HAL3/QCamera3HWI.cpp): the call  *)
(* of the framework that queues a request and blocks while too many are in *)
(* flight, the callbacks that answer it (metadata, image buffers, input    *)
(* buffers, pictures), and flush and the error of the device on threads of *)
(* their own.                                                              *)
(*                                                                         *)
(* A step is a section under mMutex; stopping a channel is a step of its   *)
(* own outside it, and what the failing device does after its last section *)
(* is part of that.  Streams are named by what they carry, and a buffer by *)
(* <<frame, stream>>.  The backend sends metadata in the order of the      *)
(* requests and fills the buffers of each stream at its own pace.          *)
(***************************************************************************)
EXTENDS QCamera3PicChannel, QCamera3Channel

CONSTANTS
    Streams,    \* all there can be, "blob" the picture channel's
    StreamInfo, \* the order of mStreamInfo
    MaxFrames,  \* frame numbers are 1..MaxFrames
    Setups      \* what a behaviour may do, see MCQCamera3HWI

VARIABLES
    setup,      \* the one this behaviour has
    dev,        \* QCamera3HardwareInterface, and what the framework got from it
    chan,       \* the channel of every other stream
    pic,        \* the picture channel
    bus,        \* the backend
    th          \* the two threads of the framework

vars == <<setup, dev, chan, pic, bus, th>>

\* The channels of the streams configured, in the order they are stopped.
Channels == UNION {r.streams: r \in setup.kinds} \cup {"meta"}
StopOrder == SelectSeq(Append(StreamInfo, "meta"), LAMBDA c: c \in Channels)
Threads == {"request", "flush"}

Init ==
    /\ setup \in Setups
    /\ dev = [mState |-> "INITIALIZED", mFlush |-> FALSE,
              mPendingRequestsList |-> <<>>,    \* of [frame, input, buffers: stream -> came]
              mPendingBuffersMap |-> <<>>,      \* of [frame, buffers]
              mPendingFrameDropList |-> {},     \* of <<frame, stream>>
              mPendingLiveRequest |-> 0, mWokenUpByDaemon |-> FALSE,
              mToBeQueuedVidBufs |-> 0, mFirstFrameNumberInBatch |-> 0,
              mPendingBatchMap |-> {},          \* of <<last frame, first frame>>
              signalled |-> FALSE,              \* mRequestCond
              \* What the framework knows.
              outcome |-> [f \in 1..MaxFrames |-> "absent"], owed |-> {},
              announced |-> {},                 \* ERROR_BUFFER came for it
              faults |-> {}]
    /\ chan = [s \in Streams |-> NoBuffers]
    /\ pic = Stopped
    /\ bus = [metas |-> <<>>, metacb |-> <<>>,  \* metacb: frames of a batch still to be handled
              parms |-> 0,                      \* last frame set_parms was called for
              flushes |-> 0, deaths |-> 0, pulls |-> 0, failures |-> 0, configs |-> 0,
              missed |-> 0, lost |-> 0, early |-> 0, gaveUp |-> FALSE]
    /\ th = [t \in Threads |-> [doing |-> "nothing", todo |-> <<>>]]
--------------------------------------------------------------------------------
(* The pending lists.                                                      *)

Fault(d, broken, name) == IF broken THEN [d EXCEPT !.faults = @ \cup {name}] ELSE d

\* unblockRequestIfNecessary.
Signal(d) == [d EXCEPT !.signalled = TRUE]

IsPending(d, f) == \E i \in DOMAIN d.mPendingRequestsList: d.mPendingRequestsList[i].frame = f
PendingOf(d, f) == CHOOSE e \in ToSet(d.mPendingRequestsList): e.frame = f

erasePendingRequest(d, f) ==
    [d EXCEPT !.mPendingRequestsList = SelectSeq(@, LAMBDA e: e.frame # f)]

\* removeBuf: an entry of the map goes with its last buffer.
removeBuf(map, f, buffers) ==
    LET Less(m) == IF m.frame = f THEN [m EXCEPT !.buffers = @ \ buffers] ELSE m
    IN SelectSeq([i \in DOMAIN map |-> Less(map[i])], LAMBDA m: m.buffers # {})

\* process_capture_result gives buffers back, those of bad with an error.
Return(d, f, buffers, bad) ==
    LET given == {f} \X buffers
        d1 == Fault(d, ~(given \subseteq d.owed), "returned twice")
        d2 == Fault(d1, d.announced \cap ({f} \X (buffers \ bad)) # {}, "announced, then good")
    IN [d2 EXCEPT !.owed = @ \ given, !.mPendingBuffersMap = removeBuf(@, f, buffers)]

\* process_capture_result or ERROR_REQUEST settles a frame.
Finish(d, f, answer) ==
    [Fault(d, d.outcome[f] \notin {"live", "reprocess"}, "answered twice")
        EXCEPT !.outcome[f] = answer]
--------------------------------------------------------------------------------
(* Callbacks of the channels, all under mMutex.                            *)

Dead(d) == d.mState \in {"ERROR", "DEINIT"}

\* ERROR_BUFFER of every stream the metadata says was dropped, for entry e.
DropReported(d, e, drop) ==
    LET gone == {e.frame} \X (drop \cap DOMAIN e.buffers)
    IN [d EXCEPT !.announced = @ \cup gone, !.mPendingFrameDropList = @ \cup gone]

\* Metadata of frame f settles entry e: a result, or ERROR_RESULT for an
\* older frame.  A live frame's buffers that came before it go with it.
Settled(d, e, f) ==
    LET came == {s \in DOMAIN e.buffers: e.buffers[s]}
        bad == {s \in came: <<f, s>> \in d.mPendingFrameDropList}
        d1 == Finish([d EXCEPT !.mPendingLiveRequest = @ - 1,
                               !.mPendingFrameDropList = @ \ ({f} \X bad)],
                     e.frame, IF e.frame < f THEN "failed" ELSE "result")
    IN erasePendingRequest(Return(d1, e.frame, came, bad), e.frame)

\* The entries metadata of frame f is about.
UpTo(d, f) == SelectSeq(d.mPendingRequestsList, LAMBDA e: e.frame <= f)

\* Buffers of frames up to last are overdue, and their channels told.
Overdue(d, last) ==
    LET missed(s) == SelectSeq(d.mPendingBuffersMap, LAMBDA m: m.frame <= last /\ s \in m.buffers)
        Told(c, m) == timeoutFrame(c, m.frame)
    IN [s \in Streams |-> IF Dead(d) THEN chan[s] ELSE FoldLeft(Told, chan[s], missed(s))]

handleMetadataWithLock(d, f, drop) ==
    LET Handled(a, e) ==
            LET told == DropReported(a, e, drop)
            IN IF e.frame < f /\ e.input THEN told ELSE Settled(told, e, f)
    IN IF Dead(d) THEN d ELSE Signal(FoldLeft(Handled, d, UpTo(d, f)))

\* Whether metadata of f is queued to the picture channel.
NeedsMetadata(d, f) ==
    ~Dead(d) /\ IsPending(d, f) /\ "blob" \in DOMAIN PendingOf(d, f).buffers

\* The input buffer of frame f is free again.
handleInputBufferWithLock(d, f) ==
    IF IsPending(d, f) /\ PendingOf(d, f).input
    THEN erasePendingRequest(Finish(d, f, "result"), f)
    ELSE d

\* A buffer of stream s for frame f: kept for the metadata of its frame, or
\* given back at once when that has come; with it the answer to a request
\* that had an input buffer.
handleBufferWithLock(d, f, s) ==
    IF Dead(d) THEN d
    ELSE IF ~IsPending(d, f)
    THEN LET dropped == <<f, s>> \in d.mPendingFrameDropList
         IN Return([d EXCEPT !.mPendingFrameDropList = @ \ {<<f, s>>}],
                   f, {s}, IF dropped THEN {s} ELSE {})
    ELSE IF PendingOf(d, f).input
    THEN erasePendingRequest(Finish(Return(d, f, {s}, {}), f, "result"), f)
    ELSE [d EXCEPT !.mPendingRequestsList =
              [i \in DOMAIN @ |-> IF @[i].frame = f THEN [@[i] EXCEPT !.buffers[s] = TRUE] ELSE @[i]]]
--------------------------------------------------------------------------------
(* Errors.                                                                 *)

\* Mutant: every buffer left is taken for one of a pending request.
ErrorForEverything(d) ==
    LET Told(a, m) ==
            LET a1 == Return(Finish(a, m.frame, "error"), m.frame, m.buffers, m.buffers)
            IN IF a1.mPendingRequestsList = <<>> THEN a1
               ELSE [a1 EXCEPT !.mPendingRequestsList = Tail(@)]
    IN [FoldLeft(Told, d, d.mPendingBuffersMap) EXCEPT !.mPendingFrameDropList = {}]

\* ERROR_BUFFER for the buffers of frames older than the oldest pending one,
\* which have their result; ERROR_REQUEST for the others, each of which is
\* taken to be the first of the list.
notifyErrorForPendingRequests(d) ==
    LET list == d.mPendingRequestsList
        Older(m) == list = <<>> \/ m.frame < Head(list).frame
        Told(a, m) ==
            IF Older(m)
            THEN Return([a EXCEPT !.announced = @ \cup ({m.frame} \X m.buffers)],
                        m.frame, m.buffers, m.buffers)
            ELSE LET first == a.mPendingRequestsList
                     a1 == Return(Finish(a, m.frame, "error"), m.frame, m.buffers, m.buffers)
                 IN IF first = <<>> THEN Fault(a1, TRUE, "erased the end of the list")
                    ELSE [Fault(a1, Head(first).frame # m.frame, "the first is another")
                             EXCEPT !.mPendingRequestsList = Tail(@)]
    IN [FoldLeft(Told, d, d.mPendingBuffersMap) EXCEPT !.mPendingFrameDropList = {}]
--------------------------------------------------------------------------------
(* processCaptureRequest, by the thread "request".                         *)

Free(t) == th[t].doing = "nothing"
Doing(t, what) == th[t].doing = what
Now(t, what) == th' = [th EXCEPT ![t].doing = what]

\* The frame number the framework gives its next request.
Accepted == {f \in 1..MaxFrames: dev.outcome[f] # "absent"}
NextFrame == Cardinality(Accepted) + 1

Listed(d, f, r) ==
    [d EXCEPT !.mPendingRequestsList =
                  Append(@, [frame |-> f, input |-> r.input,
                             buffers |-> [s \in r.streams |-> FALSE]]),
              !.mPendingBuffersMap = Append(@, [frame |-> f, buffers |-> r.streams]),
              !.mFirstFrameNumberInBatch =
                  IF setup.batch > 0 /\ ~r.input /\ d.mToBeQueuedVidBufs = 0 THEN f ELSE @,
              !.outcome[f] = IF r.input THEN "reprocess" ELSE "live",
              !.owed = @ \cup ({f} \X r.streams)]

\* A live request goes to the backend; in batch mode the last of its batch
\* takes those before it along.
VidBufs(d, r) ==
    d.mToBeQueuedVidBufs + (IF setup.batch > 0 /\ "video" \in r.streams THEN 1 ELSE 0)
BatchReady(d, r) ==
    setup.batch = 0 \/ "video" \notin r.streams \/ VidBufs(d, r) = setup.batch

Queued(d, f, r) ==
    LET counted == [d EXCEPT !.mPendingLiveRequest = @ + 1, !.mToBeQueuedVidBufs = VidBufs(d, r)]
    IN IF BatchReady(d, r)
       THEN [counted EXCEPT !.mToBeQueuedVidBufs = 0,
                            !.mPendingBatchMap = @ \cup {<<f, d.mFirstFrameNumberInBatch>>}]
       ELSE counted

\* request of the channels other than the picture channel.
QueuedToChannels(f, r) ==
    [s \in Streams |-> IF s \in r.streams \ {"blob"} THEN request(chan[s], f) ELSE chan[s]]

QueuedToPicture(f, r) ==
    IF "blob" \notin r.streams THEN pic
    ELSE IF r.input THEN requestInput(pic, f, setup.reprocess) ELSE requestLive(pic, f)

\* The call blocks at this many live requests, in these states.
MustWait(d) == d.mPendingLiveRequest >= setup.min /\ ~Dead(d)

\* The first request after a configuration starts the channels.
StartedChannels(d) ==
    IF d.mState = "CONFIGURED"
    THEN [d EXCEPT !.mWokenUpByDaemon = FALSE, !.mPendingLiveRequest = 0]
    ELSE d

\* The request is listed, queued to its channels unless a flush is on, and
\* the call returns or blocks.
processCaptureRequest(r) ==
    LET f == NextFrame
        listed == Listed(StartedChannels(dev), f, r)
        queued == IF r.input THEN listed ELSE Queued(listed, f, r)
        started == [queued EXCEPT !.mState = "STARTED", !.signalled = FALSE]
    IN
    /\ Free("request")
    /\ f <= setup.frames
    /\ dev.mState \in {"CONFIGURED", "STARTED"}
    /\ IF dev.mFlush
       THEN /\ dev' = listed
            /\ UNCHANGED <<chan, pic, bus, th>>
       ELSE /\ dev' = started
            /\ chan' = QueuedToChannels(f, r)
            /\ pic' = QueuedToPicture(f, r)
            /\ bus' = IF r.input \/ ~BatchReady(listed, r) THEN bus
                      ELSE [bus EXCEPT !.metas = Append(@, f), !.parms = f]
            /\ Now("request", IF ~r.input /\ MustWait(started) THEN "waiting" ELSE "nothing")
    /\ UNCHANGED setup

\* The blocked call looks again when mRequestCond is signalled.
Wake ==
    /\ Doing("request", "waiting")
    /\ dev.signalled
    /\ dev' = [dev EXCEPT !.signalled = FALSE, !.mWokenUpByDaemon = FALSE]
    /\ Now("request",
           IF dev.mWokenUpByDaemon /\ dev.mPendingLiveRequest < setup.max THEN "nothing"
           ELSE IF MustWait(dev) THEN "waiting" ELSE "nothing")
    /\ UNCHANGED <<setup, chan, pic, bus>>

\* Nothing of an accepted request is on its way any more.
Quiet ==
    /\ bus.metas = <<>> /\ bus.metacb = <<>>
    /\ \A s \in Streams: CanCome(chan[s], FALSE) = {} /\ chan[s].next = 0
    /\ pic.snapshots = <<>> /\ Pictures(pic) = {} /\ pic.jobs = 0
    /\ ~dev.signalled /\ th["flush"].doing \in {"nothing", "gone"}

\* Five seconds without room: -ENODEV, after which the framework gives up.
Timeout ==
    /\ Doing("request", "waiting")
    /\ setup.slow \/ Quiet
    /\ Now("request", "gone")
    /\ UNCHANGED <<setup, dev, chan, pic, bus>>

\* ERROR: handleCameraDeviceError, on the thread that met it; the call fails.
DeviceErrorMet(t) ==
    /\ Free(t)
    /\ dev.mState = "ERROR"
    /\ Now(t, "deviceError")
    /\ UNCHANGED <<setup, dev, chan, pic, bus>>
--------------------------------------------------------------------------------
(* flush, and handleCameraDeviceError, by either thread.                   *)

\* stopAllChannels is under way on thread t.
Stopping(t, what) == th' = [th EXCEPT ![t] = [doing |-> what, todo |-> StopOrder]]

flush ==
    /\ Free("flush")
    /\ bus.flushes < setup.flushes
    /\ dev.mState = "STARTED"
    /\ dev' = [dev EXCEPT !.mFlush = TRUE]
    /\ bus' = [bus EXCEPT !.flushes = @ + 1]
    /\ Stopping("flush", "flush")
    /\ UNCHANGED <<setup, chan, pic>>

handleCameraDeviceError(t) ==
    /\ Doing(t, "deviceError")
    /\ IF dev.mState = "ERROR"
       THEN /\ dev' = [dev EXCEPT !.mFlush = TRUE]
            /\ Stopping(t, "deinit")
       ELSE Now(t, "gone") /\ UNCHANGED dev
    /\ UNCHANGED <<setup, chan, pic, bus>>

\* Whether a callback of channel c is between two sections under mMutex.
InCallback(c) == IF c = "meta" THEN bus.metacb # <<>> ELSE chan[c].next # 0

\* stop of the next channel, which waits for a callback of it to end.
StopChannel(t) ==
    LET c == Head(th[t].todo) IN
    /\ th[t].todo # <<>>
    /\ ~InCallback(c)
    /\ chan' = [s \in Streams |-> IF s = c THEN stopped(chan[s]) ELSE chan[s]]
    /\ pic' = IF c = "blob" THEN Stopped ELSE pic
    /\ bus' = IF c = "meta" THEN [bus EXCEPT !.metas = <<>>] ELSE bus
    /\ th' = [th EXCEPT ![t].todo = Tail(@)]
    /\ UNCHANGED <<setup, dev>>

\* Mutants: flush forgets the count, or the blocked call.
FlushedCountKept(d) == [notifyErrorForPendingRequests(Signal(d)) EXCEPT !.mFlush = FALSE]
FlushedUnsignalled(d) ==
    [notifyErrorForPendingRequests([d EXCEPT !.mPendingLiveRequest = 0]) EXCEPT !.mFlush = FALSE]

\* The last part of flush, under mMutex.
Flushed(d) ==
    [notifyErrorForPendingRequests(Signal([d EXCEPT !.mPendingLiveRequest = 0]))
        EXCEPT !.mFlush = FALSE]

FlushEnds ==
    /\ Doing("flush", "flush")
    /\ th["flush"].todo = <<>>
    /\ dev' = Flushed(dev)
    /\ Now("flush", "nothing")
    /\ UNCHANGED <<setup, chan, pic, bus>>

\* setBundleInfo fails, and flush returns as it is.
FlushFails ==
    /\ Doing("flush", "flush")
    /\ th["flush"].todo = <<>>
    /\ bus.failures < setup.failures
    /\ bus' = [bus EXCEPT !.failures = @ + 1]
    /\ Now("flush", "nothing")
    /\ UNCHANGED <<setup, dev, chan, pic>>

\* flush(false) of the device error, then ERROR_DEVICE.
DeviceErrorEnds(t) ==
    /\ Doing(t, "deinit")
    /\ th[t].todo = <<>>
    /\ dev' = [Flushed(dev) EXCEPT !.mState = "DEINIT"]
    /\ Now(t, "gone")
    /\ UNCHANGED <<setup, chan, pic, bus>>

\* configureStreamsPerfLocked, of a framework that has everything back.
configureStreams ==
    /\ Free("request") /\ Free("flush")
    /\ bus.configs < setup.configs
    /\ dev.mState \in {"INITIALIZED", "CONFIGURED", "STARTED"}
    /\ dev.owed = {} /\ \A f \in Accepted: dev.outcome[f] \notin {"live", "reprocess"}
    /\ \A c \in Channels: ~InCallback(c)
    /\ dev' = [dev EXCEPT !.mState = "CONFIGURED", !.mPendingRequestsList = <<>>,
                          !.mPendingBuffersMap = <<>>, !.mPendingFrameDropList = {}]
    /\ bus' = [bus EXCEPT !.metas = <<>>, !.configs = @ + 1]
    /\ chan' = [s \in Streams |-> NoBuffers]
    /\ pic' = Stopped
    /\ UNCHANGED <<setup, th>>
--------------------------------------------------------------------------------
(* The daemon and the backend.                                             *)

DaemonDied ==
    /\ bus.deaths < setup.deaths
    /\ bus' = [bus EXCEPT !.deaths = @ + 1]
    /\ dev' = [dev EXCEPT !.mState = "ERROR"]
    /\ UNCHANGED <<setup, chan, pic, th>>

DaemonPull ==
    /\ bus.pulls < setup.pulls
    /\ bus' = [bus EXCEPT !.pulls = @ + 1]
    /\ dev' = Signal([dev EXCEPT !.mWokenUpByDaemon = TRUE])
    /\ UNCHANGED <<setup, chan, pic, th>>

\* A buffer of stream s comes, or its channel goes on with one it kept.
BufferCb(s) ==
    LET c == chan[s] IN
    \E i \in IF c.next # 0 THEN {c.next} ELSE CanCome(c, bus.early < setup.early):
        LET hfr == setup.batch > 0
            f == c.mMemory[i]
        IN
        /\ f <= bus.parms
        /\ chan' = [chan EXCEPT ![s] = streamCbRoutine(Dequeued(c, i), i, hfr)]
        /\ dev' = IF IsInTurn(c, i, hfr) THEN handleBufferWithLock(dev, f, s) ELSE dev
        /\ bus' = IF c.next = 0 /\ i \notin CanCome(c, FALSE)
                  THEN [bus EXCEPT !.early = @ + 1] ELSE bus
        /\ UNCHANGED <<setup, pic, th>>

\* The stream's thread cancels a buffer that was overdue.
CancelOverdue(s) ==
    /\ chan[s].mTimeoutFrameQ # <<>> /\ chan[s].next = 0
    /\ chan' = [chan EXCEPT ![s] = dataProcTimeout(@)]
    /\ UNCHANGED <<setup, dev, pic, bus, th>>

\* The backend will not fill a buffer it has.
LoseBuffer(s) ==
    /\ bus.lost < setup.lost
    /\ \E i \in ToSet(chan[s].kernel): chan' = [chan EXCEPT ![s].lost = @ \cup {i}]
    /\ bus' = [bus EXCEPT !.lost = @ + 1]
    /\ UNCHANGED <<setup, dev, pic, th>>

SnapshotCb ==
    /\ pic.snapshots # <<>>
    /\ pic' = processData(pic)
    /\ UNCHANGED <<setup, dev, chan, bus, th>>

\* Metadata of one frame; the backend may report dropped buffers, and what
\* is overdue when it comes is a matter of time.
MetadataCb ==
    LET f == Head(bus.metas) IN
    /\ setup.batch = 0
    /\ bus.metas # <<>>
    /\ bus' = [bus EXCEPT !.metas = Tail(@)]
    /\ pic' = IF NeedsMetadata(dev, f) THEN processPPMetadata(pic, f) ELSE pic
    /\ \E last \in IF setup.overdue THEN 0..f ELSE {0}: chan' = Overdue(dev, last)
    /\ \E drop \in IF setup.drops THEN SUBSET Streams ELSE {{}}:
           dev' = handleMetadataWithLock(dev, f, drop)
    /\ UNCHANGED <<setup, th>>

\* The metadata of one frame is missed, a later one is under way.
MissMetadata ==
    /\ bus.missed < setup.missed
    /\ Len(bus.metas) >= 2
    /\ bus' = [bus EXCEPT !.metas = Tail(@), !.missed = @ + 1]
    /\ UNCHANGED <<setup, dev, chan, pic, th>>

\* handleBatchMetadata: the frames the metadata is for, from the map; valueFor
\* of a key that is not in it aborts.
MetadataOfBatch ==
    LET last == Head(bus.metas)
        known == {entry \in dev.mPendingBatchMap: entry[1] = last}
        first == IF known = {} THEN last + 1 ELSE (CHOOSE entry \in known: TRUE)[2]
    IN
    /\ setup.batch > 0
    /\ bus.metas # <<>> /\ bus.metacb = <<>>
    /\ dev' = [Fault(dev, known = {}, "no batch") EXCEPT !.mPendingBatchMap = @ \ known]
    /\ bus' = [bus EXCEPT !.metas = Tail(@),
                          !.metacb = [i \in 1..(last + 1 - first) |-> first + i - 1]]
    /\ UNCHANGED <<setup, chan, pic, th>>

\* The next turn of its loop, under mMutex again.
FrameOfBatch ==
    /\ bus.metacb # <<>>
    /\ bus' = [bus EXCEPT !.metacb = Tail(@)]
    /\ dev' = handleMetadataWithLock(dev, Head(bus.metacb), {})
    /\ UNCHANGED <<setup, chan, pic, th>>
--------------------------------------------------------------------------------
(* The post-processor.                                                     *)

\* dataProcessRoutine.
PostProcess ==
    /\ pic.jobs > 0
    /\ \E starts \in {TRUE} \cup (IF setup.gives THEN {FALSE} ELSE {}):
           /\ pic' = DoNextJob(pic, starts)
           /\ bus' = [bus EXCEPT !.gaveUp = @ \/ ~starts]
    /\ UNCHANGED <<setup, dev, chan, th>>

\* reprocessCbRoutine: the input buffer goes back, the picture on.
ReprocessDone ==
    /\ pic.ongoingPPQ # <<>>
    /\ pic' = processPPData(pic)
    /\ dev' = IF Head(pic.ongoingPPQ).input
              THEN handleInputBufferWithLock(dev, Head(pic.ongoingPPQ).image)
              ELSE dev
    /\ UNCHANGED <<setup, chan, bus, th>>

\* The buffer the settings name carries the picture.
JpegDone ==
    /\ pic.ongoingJpegQ # <<>>
    /\ pic' = jpegEvtHandle(pic)
    /\ dev' = handleBufferWithLock(dev, Head(pic.ongoingJpegQ).settings, "blob")
    /\ UNCHANGED <<setup, chan, bus, th>>
--------------------------------------------------------------------------------
\* What each thread goes on with.
Stops(t) == handleCameraDeviceError(t) \/ StopChannel(t) \/ DeviceErrorEnds(t)
RequestThread == Wake \/ Timeout \/ Stops("request")
FlushThread == FlushEnds \/ FlushFails \/ Stops("flush")
MetadataThread == MetadataCb \/ MetadataOfBatch \/ FrameOfBatch
StreamThread(s) == BufferCb(s) \/ CancelOverdue(s)

Next == \/ \E r \in setup.kinds: processCaptureRequest(r)
        \/ flush \/ configureStreams
        \/ \E t \in Threads: DeviceErrorMet(t)
        \/ DaemonDied \/ DaemonPull \/ MissMetadata
        \/ RequestThread \/ FlushThread \/ MetadataThread
        \/ \E s \in Streams: StreamThread(s) \/ LoseBuffer(s)
        \/ SnapshotCb \/ PostProcess \/ ReprocessDone \/ JpegDone

\* The threads of the HAL run, and the backend answers what it was asked.
Fairness ==
    /\ WF_vars(RequestThread) /\ WF_vars(FlushThread) /\ WF_vars(MetadataThread)
    /\ WF_vars(\E s \in Streams: StreamThread(s))
    /\ WF_vars(SnapshotCb \/ PostProcess \/ ReprocessDone \/ JpegDone)

Spec == Init /\ [][Next]_vars /\ Fairness
--------------------------------------------------------------------------------
(* What must hold.                                                         *)

Waiting(f) == dev.outcome[f] \in {"live", "reprocess"}
OwedOf(f) == {b \in dev.owed: b[1] = f}

\* Type correctness of what is shared.
TypeOK ==
    /\ dev.mState \in {"INITIALIZED", "CONFIGURED", "STARTED", "ERROR", "DEINIT"}
    /\ dev.mPendingLiveRequest \in Nat
    /\ dev.owed \subseteq Accepted \X Streams
    /\ \A s \in Streams: chan[s].next \in {0} \cup Registered(chan[s])

\* No request is answered twice, no buffer comes back twice or good after it
\* was announced as lost, errors are told of the right request; the map of
\* pending buffers is what the framework is owed, which is nothing once the
\* device is gone.
BuffersAccounted ==
    /\ TypeOK
    /\ dev.faults = {}
    /\ dev.owed = UNION {{m.frame} \X m.buffers: m \in ToSet(dev.mPendingBuffersMap)}
    /\ dev.mState = "DEINIT" => dev.owed = {}

\* Unless a flush is on, the number of live requests that decides whether
\* the next call blocks is the number of live requests pending.
CountIsLive ==
    LET pending == {f \in Accepted: Waiting(f)} IN
    /\ {e.frame: e \in ToSet(dev.mPendingRequestsList)} = pending
    /\ ~dev.mFlush => dev.mPendingLiveRequest = Cardinality({f \in pending: dev.outcome[f] = "live"})

\* A blocked call has been signalled whenever there is room for its request.
NoLostWakeup ==
    Doing("request", "waiting") /\ dev.mPendingLiveRequest < setup.min => dev.signalled

\* Image, metadata and settings of a picture belong to one request, and
\* so does the buffer it is written to.
JpegIsOwn == \A job \in Pictures(pic): job.image = job.metadata /\ job.metadata = job.settings

\* The requests are answered and their buffers come back as camera3 promises.
Contract == INSTANCE CaptureContract WITH
    Frames <- 1..MaxFrames, outcome <- dev.outcome, owed <- dev.owed
IsContract == Contract!Spec

\* A buffer of frame f was lost, and no later one of its stream has shown it.
LastOneLost(f) ==
    \E s \in Streams: \E i \in chan[s].lost:
        /\ chan[s].mMemory[i] = f
        /\ \A j \in Registered(chan[s]): chan[s].mMemory[j] > f => j \in chan[s].lost

\* The device is in error, its last flush failed, the encoder gave a picture
\* up, or the framework left a batch unfinished or a loss undiscovered.
Excused(f) ==
    \/ dev.mState = "ERROR" \/ bus.gaveUp
    \/ dev.mFlush /\ bus.failures > 0
    \/ setup.batch > 0 /\ f > bus.parms
    \/ LastOneLost(f)

\* Every request is answered and gets its buffers back, and a blocked call
\* returns.
EveryRequestEnds ==
    /\ \A f \in 1..MaxFrames:
           (Waiting(f) \/ OwedOf(f) # {}) ~> ((~Waiting(f) /\ OwedOf(f) = {}) \/ Excused(f))
    /\ Doing("request", "waiting") ~> ~Doing("request", "waiting")
================================================================================
