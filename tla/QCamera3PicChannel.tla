-------------------------- MODULE QCamera3PicChannel --------------------------
(***************************************************************************)
(* The picture channel of the HAL3 camera and its post-processor           *)
(* (HAL3/QCamera3Channel.cpp, HAL3/QCamera3PostProc.cpp).  A picture goes  *)
(* from the snapshot stream, or from the framework's input buffer, through *)
(* reprocessing to the JPEG encoder, and the queues it passes are matched  *)
(* with nothing but their order.  The state is a record, and every         *)
(* operation an operator on it: QCamera3HWI composes them.                 *)
(*                                                                         *)
(* A frame number stands for the picture, the metadata and the settings of *)
(* a request; the settings name the buffer the JPEG is written to.         *)
(***************************************************************************)
EXTENDS Integers, SequencesExt

\* The post-processor before START_DATA_PROC and after STOP_DATA_PROC.
Stopped ==
    [active |-> FALSE,          \* queues active, mPostProcStarted
     jobs |-> 0,                \* DO_NEXT_JOB commands of the data thread
     snapshots |-> <<>>,        \* buffers queued to the snapshot stream
     jpegSettingsQ |-> <<>>, inputPPQ |-> <<>>, inputMetaQ |-> <<>>, inputFWKPPQ |-> <<>>,
     ongoingPPQ |-> <<>>, inputJpegQ |-> <<>>, ongoingJpegQ |-> <<>>]

\* A picture on its way: whose image, metadata and settings it has.
Job(image, metadata, settings, input) ==
    [image |-> image, metadata |-> metadata, settings |-> settings, input |-> input]

DoNextJobCmd(p) == [p EXCEPT !.jobs = @ + 1]

\* enqueue of QCameraQueue, which a stopped queue refuses.
Enqueued(p, queue, x) == IF p.active THEN Append(queue, x) ELSE queue

startPostProc(p) == IF p.active THEN p ELSE [Stopped EXCEPT !.active = TRUE]
--------------------------------------------------------------------------------
(* QCamera3PicChannel::request, of frame f.                                *)

requestLive(p, f) ==
    LET started == startPostProc(p) IN
    [started EXCEPT !.jpegSettingsQ = Append(@, f), !.snapshots = Append(@, f)]

\* processData of the framework's input: without reprocessing it takes the
\* first settings there are and goes straight to the encoder.
requestInput(p, f, needsReprocess) ==
    LET started == startPostProc(p)
        settings == Append(started.jpegSettingsQ, f)
    IN DoNextJobCmd(
        IF needsReprocess
        THEN [started EXCEPT !.jpegSettingsQ = settings, !.inputFWKPPQ = Append(@, f)]
        ELSE [started EXCEPT !.jpegSettingsQ = Tail(settings),
                             !.inputJpegQ = Append(@, Job(f, f, Head(settings), TRUE))])
--------------------------------------------------------------------------------
(* What arrives for a picture.                                             *)

\* streamCbRoutine: the snapshot stream filled its next buffer.
processData(p) ==
    LET queued == [p EXCEPT !.snapshots = Tail(@),
                            !.inputPPQ = Enqueued(p, @, Head(p.snapshots))]
    IN IF p.inputMetaQ # <<>> THEN DoNextJobCmd(queued) ELSE queued

\* Mutant: metadata that comes last wakes nobody.
MetadataUnnoticed(p, f) == [p EXCEPT !.inputMetaQ = Enqueued(p, @, f)]

\* queueReprocMetadata.
processPPMetadata(p, f) ==
    LET queued == [p EXCEPT !.inputMetaQ = Enqueued(p, @, f)]
    IN IF p.inputPPQ # <<>> THEN DoNextJobCmd(queued) ELSE queued
--------------------------------------------------------------------------------
(* The data thread: one DO_NEXT_JOB does one job of each kind.             *)

\* Starts the encoder, which does one picture at a time, or gives one up.
EncodeNext(p, starts) ==
    IF p.ongoingJpegQ # <<>> \/ p.inputJpegQ = <<>> THEN p
    ELSE IF starts
    THEN [p EXCEPT !.ongoingJpegQ = <<Head(p.inputJpegQ)>>, !.inputJpegQ = Tail(@)]
    ELSE DoNextJobCmd([p EXCEPT !.inputJpegQ = Tail(@)])

\* Settings are dequeued without a look at whose they are; 0 is none.
FirstSettings(p) == IF p.jpegSettingsQ = <<>> THEN 0 ELSE Head(p.jpegSettingsQ)
RestOfSettings(p) == IF p.jpegSettingsQ = <<>> THEN <<>> ELSE Tail(p.jpegSettingsQ)

ReprocessInput(p) ==
    IF p.inputFWKPPQ = <<>> THEN p
    ELSE LET f == Head(p.inputFWKPPQ) IN
         [p EXCEPT !.inputFWKPPQ = Tail(@), !.jpegSettingsQ = RestOfSettings(p),
                   !.ongoingPPQ = Append(@, Job(f, f, FirstSettings(p), TRUE))]

\* Mutant: the newest metadata is taken instead of the oldest.
ReprocessNewest(p) ==
    IF p.inputPPQ = <<>> \/ p.inputMetaQ = <<>> THEN p
    ELSE [p EXCEPT !.inputPPQ = Tail(@), !.inputMetaQ = Front(@),
                   !.jpegSettingsQ = RestOfSettings(p),
                   !.ongoingPPQ = Append(@, Job(Head(p.inputPPQ), Last(p.inputMetaQ),
                                                FirstSettings(p), FALSE))]

ReprocessSnapshot(p) ==
    IF p.inputPPQ = <<>> \/ p.inputMetaQ = <<>> THEN p
    ELSE [p EXCEPT !.inputPPQ = Tail(@), !.inputMetaQ = Tail(@),
                   !.jpegSettingsQ = RestOfSettings(p),
                   !.ongoingPPQ = Append(@, Job(Head(p.inputPPQ), Head(p.inputMetaQ),
                                                FirstSettings(p), FALSE))]

DoNextJob(p, starts) ==
    ReprocessSnapshot(ReprocessInput(EncodeNext([p EXCEPT !.jobs = @ - 1], starts)))

\* The reprocess channel finished its oldest job: processPPData.
processPPData(p) ==
    LET job == Head(p.ongoingPPQ)
        rest == [p EXCEPT !.ongoingPPQ = Tail(@)]
    IN IF job.settings = 0 THEN rest
       ELSE DoNextJobCmd([rest EXCEPT !.inputJpegQ = Append(@, job)])

\* jpegEvtHandle: the job ends whatever the encoder says of it.
jpegEvtHandle(p) == DoNextJobCmd([p EXCEPT !.ongoingJpegQ = <<>>])

Pictures(p) == ToSet(p.ongoingPPQ) \cup ToSet(p.inputJpegQ) \cup ToSet(p.ongoingJpegQ)
================================================================================
