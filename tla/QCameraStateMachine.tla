-------------------------- MODULE QCameraStateMachine --------------------------
(***************************************************************************)
(* The HAL1 camera (camera/QCamera2/HAL): the eight states of              *)
(* QCameraStateMachine, the operations of QCamera2HardwareInterface its    *)
(* handlers call, the blocking protocol of the public calls, and the       *)
(* threads that post to the state machine behind their back: callback      *)
(* notifier, post processor, live snapshot, internal picture.              *)
(*                                                                         *)
(* The state machine thread takes one request at a time and runs its       *)
(* handler to the end: one action.  Handlers are set valued, over the      *)
(* record `cam' and with every outcome the hardware may give.  Parameters  *)
(* are reduced to the recording hint and to whether they need a restart;   *)
(* frames are reduced to the completion of a picture, a `shot'.            *)
(***************************************************************************)
EXTENDS Naturals, Sequences, SequencesExt

CONSTANT Setups   \* the cameras and applications to consider

\* The calls of mCameraOps, those of two or more requests by their own names.
PublicCalls ==
    {"SET_PREVIEW_WINDOW", "PREPARE_PREVIEW", "START_PREVIEW", "STOP_PREVIEW", "PREVIEW_ENABLED",
     "ENABLE_MSG_TYPE", "DISABLE_MSG_TYPE", "take_picture", "CANCEL_PICTURE", "set_parameters",
     "start_recording", "STOP_RECORDING", "LONGSHOT_ON", "LONGSHOT_OFF", "RELEASE"}

ASSUME QCameraStateMachineAssumption ==
    \A s \in Setups : /\ s.Apis \subseteq PublicCalls
                      /\ {s.ZSL, s.Retro, s.Flash, s.RestartEarly, s.DualCamera,
                           s.InternalPics, s.HwMayFail, s.DaemonMayDie} \subseteq BOOLEAN
                      /\ {s.MaxCalls, s.MaxShots} \subseteq Nat
                      /\ s.DualCamera => ~(s.Retro \/ s.HwMayFail)

Callers == {"app", "int"}    \* the application's thread, Int_Pic_thread

VARIABLES
    setup,        \* one of Setups, for good
    cam,          \* the state machine, the channels and the flags of the HWI
    api_queue, evt_queue,
    results,      \* m_apiResultList
    call,         \* per caller: the call it is in and the result it waits for
    notifier,     \* the notifier waits for its event's result
    reported,     \* per kind of report: the last shot it was made of
    asked,        \* ghost: the preview frame message, as last asked for
    calls         \* bound

vars == <<setup, cam, api_queue, evt_queue, results, call, notifier, reported, asked, calls>>

Apis          == setup.Apis           \* the public calls the application makes
ZSL           == setup.ZSL            \* isZSLMode: pictures come from the running preview
Retro         == setup.Retro          \* a picture asks for frames from before the call
Flash         == setup.Flash          \* mFlashNeeded
RestartEarly  == setup.RestartEarly   \* isPreviewRestartEnabled
DualCamera    == setup.DualCamera     \* one of two cameras behind QCameraMuxer
InternalPics  == setup.InternalPics   \* the backend may ask for a picture of its own
HwMayFail     == setup.HwMayFail
DaemonMayDie  == setup.DaemonMayDie
MaxCalls      == setup.MaxCalls       \* bounds
MaxShots      == setup.MaxShots

Idle == [api |-> "none", evt |-> "none", seen |-> FALSE, woken |-> FALSE]

Init ==
    /\ setup \in Setups
    /\ cam = [st |-> "STOPPED",
              preview |-> "none", video |-> "none", snapshot |-> "none", capture |-> "none",
              shot |-> 0, shots |-> 0,
              hint |-> FALSE, longshot |-> FALSE, retro |-> FALSE, window |-> FALSE,
              needRestart |-> FALSE, again |-> FALSE, later |-> FALSE,
              prep |-> FALSE, prepping |-> FALSE, dead |-> FALSE,
              restart |-> FALSE, hintSet |-> FALSE,
              delay |-> FALSE, held |-> FALSE, on |-> FALSE, live |-> "none"]
    /\ api_queue = <<>>
    /\ evt_queue = <<>>
    /\ results = <<>>
    /\ call = [c \in Callers |-> Idle]
    /\ notifier = FALSE
    /\ reported = [done |-> 0, ready |-> 0, prepared |-> 0, stop |-> 0]
    /\ asked = FALSE
    /\ calls = 0

----------------------------------------------------------------------------
\* The operations of QCamera2HardwareInterface: sets of outcomes.

Did(k)    == [cam |-> k, ok |-> TRUE]
Failed(k) == [cam |-> k, ok |-> FALSE]

\* Done, or refused by the hardware, which leaves one of the states `olds'.  A
\* dead daemon refuses everything.
Attempt(olds, new) ==
    (IF new.dead THEN {} ELSE {Did(new)}) \cup
    (IF HwMayFail \/ new.dead THEN {Failed(k) : k \in olds} ELSE {})

Try(old, new) == Attempt({old}, new)

\* applyDelayedMsgs
Applied(k) == [k EXCEPT !.on = @ \/ (k.delay /\ k.held),
                        !.held = @ /\ ~k.delay,
                        !.delay = FALSE]

\* The channels: a record field for each, "none" where m_channels is NULL.
\* A channel that is added replaces the one there was.  `preview' is ZSL or
\* PREVIEW, whichever the kind of preview asks for.
addChannel(k, ch)     == [k EXCEPT ![ch] = "added"]
addZSLChannel(k)      == addChannel(k, "preview")
addPreviewChannel(k)  == addChannel(k, "preview")
addVideoChannel(k)    == addChannel(k, "video")
addSnapshotChannel(k) == addChannel(k, "snapshot")
addCaptureChannel(k)  == addChannel(k, "capture")

delChannel(k, ch)   == [k EXCEPT ![ch] = "none"]
startChannel(k, ch) == [k EXCEPT ![ch] = "started"]
stopChannel(k, ch)  == IF k[ch] = "none" THEN k ELSE [k EXCEPT ![ch] = "added"]

\* A preview with the recording hint switches a long shot off and has the
\* channels SNAPSHOT, VIDEO and PREVIEW; one that cannot be added takes those
\* added before it along.
preparePreview(k) ==
    IF ~k.hint
    THEN Attempt({k, delChannel(k, "preview")},
                 IF ZSL THEN addZSLChannel(k) ELSE addPreviewChannel(k))
    ELSE LET off        == [k EXCEPT !.longshot = FALSE, !.prep = @ /\ ~k.longshot]
             noSnapshot == delChannel(off, "snapshot")
             noVideo    == delChannel(noSnapshot, "video")
         IN  Attempt({k, noSnapshot, noVideo, delChannel(noVideo, "preview")},
                     addPreviewChannel(addVideoChannel(addSnapshotChannel(off))))

unpreparePreview(k) ==
    delChannel(delChannel(delChannel(k, "preview"), "video"), "snapshot")

stopPreview(k) == unpreparePreview(stopChannel(k, "preview"))

release(k) == delChannel(unpreparePreview(k), "capture")

\* It fails before the channel runs, or after, when the post processor's
\* initialisation cannot be queued.
startPreview(k) ==
    IF k.preview = "none" THEN {Failed(k)}
    ELSE Attempt({k, startChannel(k, "preview")}, startChannel(k, "preview"))

\* startPreview, and unpreparePreview where it fails.
StartOrUnprepare(k) ==
    {IF r.ok THEN r ELSE Failed(unpreparePreview(r.cam)) : r \in startPreview(k)}

\* preparePreview and, if that went well, the rest.
Prepared(k, Rest(_)) ==
    UNION {IF r.ok THEN Rest(r.cam) ELSE {r} : r \in preparePreview(k)}

Restart(k) == Prepared(k, StartOrUnprepare)
ApplyAndRestart(k) == Prepared(k, LAMBDA p : StartOrUnprepare(Applied(p)))

\* Restarts the preview if that changes the recording hint; of two cameras the
\* muxer restarts both (mPreviewRestartNeeded).
WithHint(k, hint, Start(_)) ==
    IF k.hint = hint THEN {Did(k)}
    ELSE IF DualCamera THEN {Did([k EXCEPT !.restart = TRUE])}
    ELSE Prepared([stopPreview(k) EXCEPT !.hint = hint], Start)

preStartRecording(k) == WithHint(k, TRUE, startPreview)

\* The mutant prepares the preview and does not start it.
preTakePicturePrepares(k) == WithHint(k, FALSE, preparePreview)

preTakePicture(k)    == WithHint(k, FALSE, StartOrUnprepare)

startRecording(k) ==
    IF k.video = "none" THEN {Failed(k)} ELSE Try(k, startChannel(k, "video"))

stopRecording(k) == stopChannel(k, "video")

NewShot(k) == [k EXCEPT !.shot = k.shots + 1, !.shots = @ + 1]

\* From the running preview, or from a capture channel in place of the preview.
takePicture(k) ==
    IF ZSL
    THEN IF k.preview = "started" /\ ~k.hint THEN Try(k, NewShot(k)) ELSE {Failed(k)}
    ELSE LET s == stopPreview(k)
         IN  Attempt({s, delChannel(s, "capture")},
                     startChannel(addCaptureChannel(NewShot(s)), "capture"))

cancelPicture(k) ==
    LET c == [k EXCEPT !.shot = 0] IN IF ZSL THEN c ELSE delChannel(c, "capture")

longShot(k) ==
    IF (IF ZSL THEN k.preview # "none" ELSE k.capture # "none") THEN Try(k, k) ELSE {Failed(k)}

\* The channel object stays where it is only deleted from the backend.
stopCaptureChannel(k) ==
    IF k.capture = "none" THEN Failed(k) ELSE Did([k EXCEPT !.capture = "stopped"])

\* They join the previous thread, and start another.
takeLiveSnapshot(k)   == [k EXCEPT !.live = "take"]
cancelLiveSnapshot(k) == [k EXCEPT !.live = "cancel"]

isCaptureRunning(k) == k.st \in {"PIC_TAKING", "VIDEO_PIC_TAKING", "PREVIEW_PIC_TAKING"}
isRecording(k)      == k.st \in {"RECORDING", "VIDEO_PIC_TAKING"}
isPreviewRunning(k) ==
    k.st \in {"PREVIEWING", "RECORDING", "VIDEO_PIC_TAKING", "PREVIEW_PIC_TAKING",
              "PREPARE_SNAPSHOT", "READY"}

----------------------------------------------------------------------------
\* What a handler does: the state it leaves, the results it signals, and
\* whether it posts a SNAPSHOT_DONE.

Result(e, ok) == [evt |-> e, ok |-> ok]
Outcome(k, replies) == [cam |-> k, replies |-> replies, post |-> FALSE]

Reply(k, e)   == {Outcome(k, <<Result(e, TRUE)>>)}
Invalid(k, e) == {Outcome(k, <<Result(e, FALSE)>>)}
Silent(k)     == {Outcome(k, <<>>)}
Report(S, e)  == {Outcome(r.cam, <<Result(e, r.ok)>>) : r \in S}

In(k, st) == [k EXCEPT !.st = st]
\* The state after an operation, by its result.
Move(S, good, bad) == {[r EXCEPT !.cam = In(@, IF r.ok THEN good ELSE bad)] : r \in S}

\* The mutant leaves the callers waiting.
DaemonDiedSilent(k) == Silent(k)

\* Whoever waits for the backend is let go.
DaemonDied(k) ==
    {Outcome(k, <<Result("PREPARE_SNAPSHOT", TRUE), Result("TAKE_PICTURE", TRUE)>>)}

Settings == {"SET_PREVIEW_WINDOW", "ENABLE_MSG_TYPE", "DISABLE_MSG_TYPE", "PREVIEW_ENABLED",
             "SET_PARAMS", "SET_PARAMS_STOP", "SET_PARAMS_COMMIT", "SET_PARAMS_RESTART"}

\* What comes from the backend, the notifier and the post processor.
Reports == {"PREP_SNAPSHOT_DONE", "READY_FOR_SNAPSHOT", "SNAPSHOT_DONE",
            "STOP_CAPTURE_CHANNEL", "DAEMON_DIED"}

\* The requests handled alike in most states.  Those with no entry in a
\* state's operator are dropped without an answer.
Messages(k, e) ==
    CASE e = "ENABLE_MSG_TYPE"  -> Reply([k EXCEPT !.on = TRUE], e)
      [] e = "DISABLE_MSG_TYPE" -> Reply([k EXCEPT !.on = FALSE], e)
      [] e = "PREVIEW_ENABLED"  -> Reply(k, e)

\* The mutant falls through to the next case of the switch.
SetParamsFallsThrough(k, e) ==
    {Outcome([k EXCEPT !.needRestart = b], <<Result(e, TRUE), Result("SET_PARAMS_STOP", TRUE)>>) :
        b \in BOOLEAN}

SetParams(k, e) ==
    {Outcome([k EXCEPT !.needRestart = b], <<Result(e, ok)>>) :
        b \in BOOLEAN, ok \in {TRUE, ~HwMayFail}}

\* While recording, a change that needs a restart is refused.
SetParamsRecording(k, e) ==
    {Outcome([k EXCEPT !.needRestart = FALSE], <<Result(e, ok)>>) : ok \in BOOLEAN}

Commit(k, e) == Report(Try(k, k), e)

\* sendCommand.  Whether the restart is asked for depends on the buffers the
\* snapshot stream has.
LongshotOn(k) ==
    IF isCaptureRunning(k) THEN {[ok |-> FALSE, cam |-> k, again |-> FALSE]}
    ELSE {[ok |-> TRUE, cam |-> [k EXCEPT !.longshot = TRUE, !.prep = FALSE], again |-> b] :
              b \in {FALSE} \cup
                    (IF ZSL /\ isPreviewRunning(k) /\ k.preview # "none" THEN {TRUE} ELSE {})}

LongshotOff(k, e, st) ==
    LET cut == k.longshot /\ isCaptureRunning(k)
        c == IF cut THEN cancelPicture(k) ELSE k
    IN  {[cam |-> [c EXCEPT !.longshot = FALSE, !.prep = FALSE, !.st = st],
          replies |-> <<Result(e, TRUE)>>, post |-> cut]}

Command(k, e) ==
    IF e = "LONGSHOT_ON" THEN Report(LongshotOn(k), e) ELSE LongshotOff(k, e, k.st)

\* procEvtPreviewStoppedState
StoppedSettings(k, e) ==
    CASE e = "SET_PREVIEW_WINDOW" -> Reply([k EXCEPT !.window = TRUE], e)
      [] e = "SET_PARAMS" -> SetParams(k, e)
      [] e = "SET_PARAMS_STOP" -> Reply(k, e)
      [] e = "SET_PARAMS_COMMIT" -> Commit(k, e)
      [] e = "SET_PARAMS_RESTART" -> Reply([k EXCEPT !.needRestart = FALSE], e)
      [] OTHER -> Messages(k, e)

Restarts == {"RESTART_STOP_PREVIEW", "RESTART_START_PREVIEW"}

\* The muxer's restart of a preview that runs.
RestartPreview(k, e) ==
    IF e = "RESTART_STOP_PREVIEW" THEN Reply(stopPreview(k), e)
    ELSE Report(Prepared(k, startPreview), e)

StoppedRefuses ==
    Restarts \cup {"PRE_START_RECORDING", "START_RECORDING", "STOP_RECORDING",
                  "PREPARE_SNAPSHOT", "PRE_TAKE_PICTURE", "TAKE_PICTURE"}

Stopped(k, e) ==
    CASE e \in Settings -> StoppedSettings(k, e)
      [] e = "PREPARE_PREVIEW" \/ (e = "START_PREVIEW" /\ ~k.window) ->
             Report(Move(preparePreview(k), "READY", "STOPPED"), e)
      [] e = "START_PREVIEW" /\ k.window ->
             Report(Move(ApplyAndRestart(k), "PREVIEWING", "STOPPED"), e)
      [] e = "RELEASE" -> Reply(release(k), e)
      [] e \in {"LONGSHOT_ON", "LONGSHOT_OFF"} -> Command(k, e)
      [] e \in {"STOP_PREVIEW", "CANCEL_PICTURE"} -> Reply(k, e)
      [] e \in StoppedRefuses -> Invalid(k, e)
      [] OTHER -> Silent(k)

\* procEvtPreviewReadyState
ReadySettings(k, e) ==
    CASE e = "SET_PREVIEW_WINDOW" ->
             Report(Move(StartOrUnprepare(Applied([k EXCEPT !.window = TRUE])),
                         "PREVIEWING", "STOPPED"), e)
      [] e = "SET_PARAMS" -> SetParams(k, e)
      [] e = "SET_PARAMS_STOP" -> Reply(unpreparePreview(k), e)
      [] e = "SET_PARAMS_COMMIT" -> Commit(k, e)
      [] e = "SET_PARAMS_RESTART" ->
             Report(Move(preparePreview([k EXCEPT !.needRestart = FALSE]), "READY", "STOPPED"), e)
      [] OTHER -> Messages(k, e)

ReadyRefuses == StoppedRefuses \cup {"CANCEL_PICTURE", "RELEASE"}

Ready(k, e) ==
    CASE e \in Settings -> ReadySettings(k, e)
      [] e = "START_PREVIEW" /\ k.window ->
             UNION {Reply(r.cam, e) : r \in Move(StartOrUnprepare(k), "PREVIEWING", "STOPPED")}
      [] e = "STOP_PREVIEW" -> Reply(In(unpreparePreview(k), "STOPPED"), e)
      [] e \in {"LONGSHOT_ON", "LONGSHOT_OFF"} -> Command(k, e)
      [] e = "PREPARE_PREVIEW" \/ (e = "START_PREVIEW" /\ ~k.window) -> Reply(k, e)
      [] e \in ReadyRefuses -> Invalid(k, e)
      [] OTHER -> Silent(k)

\* A picture from the state PREVIEWING.  The first result of a picture with
\* frames from before the call is signalled when these have come.
PreviewingTakePicture(k, e) ==
    LET shown == IF k.hint
                 THEN Prepared([stopPreview(k) EXCEPT !.hint = FALSE], StartOrUnprepare)
                 ELSE {Did(k)}
        fromPreview(p) ==
            UNION {IF r.ok /\ r.cam.retro THEN Silent(r.cam) ELSE Report({r}, e) :
                r \in Move(takePicture([p EXCEPT !.delay = TRUE]),
                           "PREVIEW_PIC_TAKING", "PREVIEWING")}
        fromCapture(p) ==
            UNION {IF r.ok THEN Reply(In(r.cam, "PIC_TAKING"), e)
                   ELSE UNION {Invalid(q.cam, e) :
                            q \in Move(Restart(stopPreview(r.cam)), "PREVIEWING", "STOPPED")} :
                r \in takePicture(p)}
    IN  UNION {IF ZSL \/ r.cam.longshot THEN fromPreview(r.cam) ELSE fromCapture(r.cam) :
            r \in shown}

PreviewingLongshotOn(k, e) ==
    UNION {LET c == [r.cam EXCEPT !.again = r.again, !.later = r.again /\ DualCamera]
           IN  IF ~r.again THEN Report({[r EXCEPT !.cam = c]}, e)
               ELSE IF c.later THEN Reply(stopPreview(c), e)
               ELSE Report(ApplyAndRestart(stopPreview(c)), e) :
        r \in LongshotOn(k)}

\* The mutant loses the message it should hold.
PreviewingMessagesDrops(k, e) ==
    CASE e = "ENABLE_MSG_TYPE"  -> Reply(IF k.delay THEN k ELSE [k EXCEPT !.on = TRUE], e)
      [] e = "DISABLE_MSG_TYPE" ->
             Reply([k EXCEPT !.on = FALSE, !.held = @ /\ ~k.delay,
                             !.delay = @ /\ ~k.held], e)
      [] e = "PREVIEW_ENABLED"  -> Reply(Applied(k), e)

\* In PREVIEWING the preview frame message is held back while it is delayed.
PreviewingMessages(k, e) ==
    CASE e = "ENABLE_MSG_TYPE"  ->
             Reply(IF k.delay THEN [k EXCEPT !.held = TRUE] ELSE [k EXCEPT !.on = TRUE], e)
      [] e = "DISABLE_MSG_TYPE" ->
             Reply([k EXCEPT !.on = FALSE, !.held = @ /\ ~k.delay,
                             !.delay = @ /\ ~k.held], e)
      [] e = "PREVIEW_ENABLED"  -> Reply(Applied(k), e)

\* Without preparePreview the state is not corrected, but the flag is reset.
PreviewingRestart(k, e) ==
    Report(Prepared([k EXCEPT !.needRestart = FALSE],
                    LAMBDA p : Move(StartOrUnprepare(Applied(p)), "PREVIEWING", "STOPPED")), e)

\* procEvtPreviewingState
PreviewingSettings(k, e) ==
    CASE e = "SET_PREVIEW_WINDOW" -> Invalid(k, e)
      [] e = "SET_PARAMS" -> SetParams(k, e)
      [] e = "SET_PARAMS_STOP" -> Reply(stopPreview(k), e)
      [] e = "SET_PARAMS_COMMIT" -> Commit(k, e)
      [] e = "SET_PARAMS_RESTART" -> PreviewingRestart(k, e)
      [] OTHER -> PreviewingMessages(k, e)

\* The second half of a long shot of two cameras.
PreviewingCommandRestart(k, e) ==
    Report(IF k.again /\ k.later THEN Restart(k) ELSE {Did(k)}, e)

PreviewingRefuses == {"CANCEL_PICTURE", "STOP_RECORDING", "RELEASE"}

Previewing(k, e) ==
    CASE e \in Settings -> PreviewingSettings(k, e)
      [] e = "START_PREVIEW" -> Reply(Applied(k), e)
      [] e = "STOP_PREVIEW" -> Reply(In(Applied(stopPreview(k)), "STOPPED"), e)
      [] e = "PRE_START_RECORDING" -> Report(preStartRecording(k), e)
      [] e = "START_RECORDING" ->
             Report({IF r.ok THEN Did(Applied(In(r.cam, "RECORDING"))) ELSE r :
                         r \in startRecording(k)}, e)
      [] e = "PREPARE_SNAPSHOT" ->
             UNION {IF r.ok THEN Silent(Applied(r.cam)) ELSE Report({r}, e) :
                 r \in Try(k, [k EXCEPT !.st = "PREPARE_SNAPSHOT", !.prepping = TRUE])}
      [] e = "PRE_TAKE_PICTURE" -> Report(preTakePicture(k), e)
      [] e = "TAKE_PICTURE" -> PreviewingTakePicture(k, e)
      [] e = "LONGSHOT_ON"  -> PreviewingLongshotOn(k, e)
      [] e = "LONGSHOT_OFF" ->
             LongshotOff([k EXCEPT !.again = FALSE, !.later = FALSE], e, "PREVIEWING")
      [] e = "SEND_COMMAND_RESTART" -> PreviewingCommandRestart(k, e)
      [] e \in Restarts -> RestartPreview(k, e)
      [] e = "PREPARE_PREVIEW" -> Reply(k, e)
      [] e \in PreviewingRefuses -> Invalid(k, e)
      [] OTHER -> Silent(k)

\* procEvtPrepareSnapshotState
PrepareSnapshot(k, e) ==
    CASE e = "PREP_SNAPSHOT_DONE" -> Reply(In(k, "PREVIEWING"), "PREPARE_SNAPSHOT")
      [] e = "DAEMON_DIED" -> DaemonDied(k)
      [] e \in {"SNAPSHOT_DONE", "READY_FOR_SNAPSHOT", "STOP_CAPTURE_CHANNEL",
                "SEND_COMMAND_RESTART"} -> Silent(k)
      [] OTHER -> Invalid(k, e)

\* procEvtPicTakingState
PicTakingSettings(k, e) ==
    CASE e = "SET_PREVIEW_WINDOW" -> Invalid(k, e)
      [] e = "SET_PARAMS" -> SetParams(k, e)
      [] e = "SET_PARAMS_STOP" -> Reply(k, e)
      [] e = "SET_PARAMS_COMMIT" -> Commit(k, e)
      [] e = "SET_PARAMS_RESTART" -> Reply([k EXCEPT !.needRestart = FALSE], e)
      [] OTHER -> Messages(k, e)

PicTakingReports(k, e) ==
    CASE e = "STOP_CAPTURE_CHANNEL" ->
             Report(LET c == stopCaptureChannel(k)
                    IN  IF c.ok /\ RestartEarly
                        THEN Prepared(c.cam, LAMBDA p : startPreview(Applied(p)))
                        ELSE {c}, e)
      [] e = "SNAPSHOT_DONE" ->
             Silent(In(cancelPicture(k), IF RestartEarly THEN "PREVIEWING" ELSE "STOPPED"))
      [] e = "DAEMON_DIED" -> DaemonDied(k)
      [] e \in {"PREP_SNAPSHOT_DONE", "READY_FOR_SNAPSHOT"} -> Silent(k)

PicTaking(k, e) ==
    CASE e \in Settings -> PicTakingSettings(k, e)
      [] e \in Reports  -> PicTakingReports(k, e)
      [] e \in {"STOP_PREVIEW", "CANCEL_PICTURE"} -> Reply(In(cancelPicture(k), "STOPPED"), e)
      [] e = "LONGSHOT_ON"  -> Command(k, e)
      [] e = "LONGSHOT_OFF" -> LongshotOff(k, e, "PREVIEWING")
      [] e = "PRE_TAKE_PICTURE" -> IF k.longshot THEN Reply(k, e) ELSE Invalid(k, e)
      [] e = "TAKE_PICTURE" -> IF k.longshot THEN Report(longShot(k), e) ELSE Invalid(k, e)
      [] e = "SEND_COMMAND_RESTART" -> Silent(k)
      [] OTHER -> Invalid(k, e)

StopAll(k) == In(stopPreview(stopRecording(k)), "STOPPED")

\* procEvtRecordingState
RecordingSettings(k, e) ==
    CASE e = "SET_PREVIEW_WINDOW" -> Reply(k, e)
      [] e = "SET_PARAMS" -> SetParamsRecording(k, e)
      [] e = "SET_PARAMS_COMMIT" -> Commit(k, e)
      [] e \in {"SET_PARAMS_STOP", "SET_PARAMS_RESTART"} -> Invalid(k, e)
      [] OTHER -> Messages(k, e)

RecordingIgnores ==
    Restarts \cup {"PREPARE_PREVIEW", "START_PREVIEW", "PRE_TAKE_PICTURE",
                  "PRE_START_RECORDING", "START_RECORDING", "PREPARE_SNAPSHOT"}

RecordingRefuses == {"CANCEL_PICTURE", "RELEASE"}

Recording(k, e) ==
    CASE e \in Settings -> RecordingSettings(k, e)
      [] e = "TAKE_PICTURE" -> Reply(In(takeLiveSnapshot(k), "VIDEO_PIC_TAKING"), e)
      [] e = "STOP_RECORDING" -> Reply(In(stopRecording(k), "PREVIEWING"), e)
      [] e = "STOP_PREVIEW" -> Reply(StopAll(k), e)
      [] e \in {"LONGSHOT_ON", "LONGSHOT_OFF"} -> Command(k, e)
      [] e \in RecordingIgnores -> Reply(k, e)
      [] e \in RecordingRefuses -> Invalid(k, e)
      [] OTHER -> Silent(k)

\* procEvtVideoPicTakingState
VideoPicTakingSettings(k, e) ==
    CASE e = "SET_PARAMS" -> SetParamsRecording(k, e)
      [] e = "SET_PARAMS_COMMIT" -> Commit(k, e)
      [] e \in {"SET_PREVIEW_WINDOW", "SET_PARAMS_STOP", "SET_PARAMS_RESTART"} -> Invalid(k, e)
      [] OTHER -> Messages(k, e)

VideoPicTakingRefuses ==
    Restarts \cup {"PRE_START_RECORDING", "START_RECORDING", "PREPARE_PREVIEW", "START_PREVIEW",
                  "PREPARE_SNAPSHOT", "PRE_TAKE_PICTURE", "TAKE_PICTURE", "RELEASE"}

VideoPicTaking(k, e) ==
    CASE e \in Settings -> VideoPicTakingSettings(k, e)
      [] e = "STOP_RECORDING" ->
             Reply(In(stopRecording(cancelLiveSnapshot(k)), "PREVIEWING"), e)
      [] e = "STOP_PREVIEW" -> Reply(StopAll(cancelLiveSnapshot(k)), e)
      [] e = "CANCEL_PICTURE" -> Reply(In(cancelLiveSnapshot(k), "RECORDING"), e)
      [] e = "SNAPSHOT_DONE" -> Silent(In(cancelLiveSnapshot(k), "RECORDING"))
      [] e \in {"LONGSHOT_ON", "LONGSHOT_OFF"} -> Command(k, e)
      [] e \in VideoPicTakingRefuses -> Invalid(k, e)
      [] OTHER -> Silent(k)

\* The end of a picture taken over the preview.
PicOverPreview(k) == IF ZSL \/ k.longshot THEN cancelPicture(k) ELSE cancelLiveSnapshot(k)

\* The frames from before the call are there: takePicture may return.
FramesReady(k) == IF k.retro THEN Reply(k, "TAKE_PICTURE") ELSE Silent(k)

\* procEvtPreviewPicTakingState
PreviewPicTakingSettings(k, e) ==
    CASE e = "SET_PREVIEW_WINDOW" -> Invalid(k, e)
      [] e = "SET_PARAMS" -> SetParams(k, e)
      [] e = "SET_PARAMS_STOP" -> Reply(stopPreview(k), e)
      [] e = "SET_PARAMS_COMMIT" -> Commit(k, e)
      [] e = "SET_PARAMS_RESTART" ->
             Report(Move(ApplyAndRestart([k EXCEPT !.needRestart = FALSE]),
                         "PREVIEW_PIC_TAKING", "PIC_TAKING"), e)
      [] OTHER -> Messages(k, e)

PreviewPicTakingReports(k, e) ==
    CASE e = "PREP_SNAPSHOT_DONE" -> IF k.retro THEN Reply(k, "PREPARE_SNAPSHOT") ELSE Silent(k)
      [] e = "READY_FOR_SNAPSHOT" -> FramesReady(k)
      [] e = "SNAPSHOT_DONE" ->
             {Outcome(In(PicOverPreview(k), "PREVIEWING"),
                      IF k.retro THEN <<Result(e, TRUE)>> ELSE <<>>)}
      [] e = "DAEMON_DIED" -> DaemonDied(k)
      [] e = "STOP_CAPTURE_CHANNEL" -> Silent(k)

\* Only frames from before the call are prepared for while a picture is taken.
PreviewPicTakingPrepare(k, e) ==
    IF k.retro
    THEN UNION {IF r.ok THEN Silent(r.cam) ELSE Report({r}, e) :
             r \in Try(k, [k EXCEPT !.prepping = TRUE])}
    ELSE Invalid(k, e)

PreviewPicTakingRefuses == {"STOP_RECORDING", "PREPARE_PREVIEW", "START_PREVIEW", "RELEASE"}

PreviewPicTaking(k, e) ==
    CASE e \in Settings -> PreviewPicTakingSettings(k, e)
      [] e \in Reports  -> PreviewPicTakingReports(k, e)
      [] e = "LONGSHOT_ON"  -> Command(k, e)
      [] e = "LONGSHOT_OFF" -> LongshotOff(k, e, "PREVIEWING")
      [] e = "CANCEL_PICTURE" -> Reply(In(PicOverPreview(k), "PREVIEWING"), e)
      [] e = "STOP_PREVIEW" ->
             Reply(In(unpreparePreview(PicOverPreview(k)), "STOPPED"), e)
      [] e = "PRE_START_RECORDING" ->
             IF ZSL \/ k.longshot THEN Invalid(k, e) ELSE Report(preStartRecording(k), e)
      [] e = "START_RECORDING" ->
             IF ZSL \/ k.longshot THEN Invalid(k, e)
             ELSE Report(Move(startRecording(k), "VIDEO_PIC_TAKING", k.st), e)
      [] e = "PRE_TAKE_PICTURE" -> IF k.longshot THEN Reply(k, e) ELSE Invalid(k, e)
      [] e = "TAKE_PICTURE" -> IF k.longshot THEN Report(longShot(k), e) ELSE Invalid(k, e)
      [] e = "PREPARE_SNAPSHOT" -> PreviewPicTakingPrepare(k, e)
      [] e \in Restarts -> RestartPreview(k, e)
      [] e \in PreviewPicTakingRefuses -> Invalid(k, e)
      [] OTHER -> Silent(k)

\* stateMachine
Outcomes(k, e) ==
    CASE k.st = "STOPPED"            -> Stopped(k, e)
      [] k.st = "READY"              -> Ready(k, e)
      [] k.st = "PREVIEWING"         -> Previewing(k, e)
      [] k.st = "PREPARE_SNAPSHOT"   -> PrepareSnapshot(k, e)
      [] k.st = "PIC_TAKING"         -> PicTaking(k, e)
      [] k.st = "RECORDING"          -> Recording(k, e)
      [] k.st = "VIDEO_PIC_TAKING"   -> VideoPicTaking(k, e)
      [] k.st = "PREVIEW_PIC_TAKING" -> PreviewPicTaking(k, e)

\* The handlers that wait for the live snapshot thread.
Joins(k, e) ==
    \/ k.st = "RECORDING" /\ e = "TAKE_PICTURE"
    \/ /\ k.st = "VIDEO_PIC_TAKING"
       /\ e \in {"STOP_RECORDING", "STOP_PREVIEW", "CANCEL_PICTURE", "SNAPSHOT_DONE"}
    \/ /\ k.st = "PREVIEW_PIC_TAKING" /\ ~ZSL /\ ~k.longshot
       /\ e \in {"STOP_PREVIEW", "CANCEL_PICTURE", "SNAPSHOT_DONE"}

----------------------------------------------------------------------------
\* The state machine thread: smEvtProcRoutine, signalAPIResult.

Msg(e, by, shot) == [evt |-> e, by |-> by, shot |-> shot]
Pending == api_queue # <<>> \/ evt_queue # <<>>

\* Calls come before events.
NextRequest ==
    IF api_queue # <<>> THEN Head(api_queue) ELSE Head(evt_queue)

\* A result goes to whoever waits for its kind: `to' records who had asked.
Posted(replies, waiting) ==
    [i \in DOMAIN replies |->
        [evt |-> replies[i].evt, ok |-> replies[i].ok,
         to |-> {c \in Callers : waiting[c].seen /\ waiting[c].evt = replies[i].evt}]]

Handle ==
    /\ Pending
    /\ LET m == NextRequest
           served == [c \in Callers |-> [call[c] EXCEPT !.seen = @ \/ c = m.by]]
       IN  /\ ~(Joins(cam, m.evt) /\ cam.live # "none")
           /\ \E o \in Outcomes(cam, m.evt) :
                 /\ cam' = o.cam
                 /\ results' = results \o Posted(o.replies, served)
                 /\ evt_queue' = (IF api_queue = <<>> THEN Tail(evt_queue) ELSE evt_queue)
                                  \o (IF o.post THEN <<Msg("SNAPSHOT_DONE", "none", cam.shot)>>
                                      ELSE <<>>)
                 /\ call' = [c \in Callers |->
                              [served[c] EXCEPT !.woken = @ \/ (o.replies # <<>>
                                                              /\ call[c].api # "none")]]
           /\ api_queue' = IF api_queue = <<>> THEN api_queue ELSE Tail(api_queue)
           /\ notifier' = (notifier /\ m.evt # "SNAPSHOT_DONE")
    /\ UNCHANGED <<setup, reported, asked, calls>>

----------------------------------------------------------------------------
\* The public calls.  A call posts its requests one after the other, each
\* when it has the result of the one before.

\* The first request of a call (e = "none") and the one that follows e.
start_recording(e, ok) ==
    CASE e = "none" -> "PRE_START_RECORDING"
      [] e = "PRE_START_RECORDING" /\ ok -> "START_RECORDING"
      [] OTHER -> "none"

\* prepare_snapshot prepares for the flash, once in a long shot.
prepare_snapshot(k) == IF Flash /\ ~(k.longshot /\ k.prep) THEN "PREPARE_SNAPSHOT" ELSE "none"

take_picture(e, ok, k) ==
    CASE e = "none" /\ Flash /\ ~k.prep -> "PREPARE_SNAPSHOT"
      [] \/ e = "none" /\ (~Flash \/ k.prep)
         \/ e = "PREPARE_SNAPSHOT" -> "PRE_TAKE_PICTURE"
      [] e = "PRE_TAKE_PICTURE" /\ ok -> "TAKE_PICTURE"
      [] OTHER -> "none"

\* take_picture with frames from before the call: prepared when these are there.
take_retro(e, ok, k) ==
    CASE e = "none" -> "PRE_TAKE_PICTURE"
      [] e = "PRE_TAKE_PICTURE" /\ ok -> "TAKE_PICTURE"
      [] e = "TAKE_PICTURE" -> prepare_snapshot(k)
      [] OTHER -> "none"

set_parameters(e, ok, k) ==
    CASE e = "none" -> "SET_PARAMS"
      [] e = "SET_PARAMS" /\ ok /\ k.needRestart -> "SET_PARAMS_STOP"
      [] \/ e = "SET_PARAMS" /\ ok /\ ~k.needRestart
         \/ e = "SET_PARAMS_STOP" /\ ok -> "SET_PARAMS_COMMIT"
      [] e = "SET_PARAMS_COMMIT" /\ ok /\ k.needRestart -> "SET_PARAMS_RESTART"
      [] OTHER -> "none"

\* Of two cameras QCameraMuxer makes the calls: it restarts both previews
\* between the two halves of a call that changes the recording hint.
AfterRestart(e, ok, then) ==
    CASE e = "RESTART_STOP_PREVIEW"  /\ ok -> "RESTART_START_PREVIEW"
      [] e = "RESTART_START_PREVIEW" /\ ok -> then
      [] OTHER -> "none"

muxer_start_recording(e, ok, k) ==
    CASE e = "none" -> "PRE_START_RECORDING"
      [] e = "PRE_START_RECORDING" /\ ok ->
             IF k.restart THEN "RESTART_STOP_PREVIEW" ELSE "START_RECORDING"
      [] OTHER -> AfterRestart(e, ok, "START_RECORDING")

muxer_stop_recording(e, ok, k) ==
    CASE e = "none" -> "STOP_RECORDING"
      [] e = "STOP_RECORDING" /\ k.hintSet -> "RESTART_STOP_PREVIEW"
      [] OTHER -> AfterRestart(e, ok, "none")

muxer_take_picture(e, ok, k) ==
    CASE e = "none" /\ prepare_snapshot(k) # "none" -> prepare_snapshot(k)
      [] \/ e = "none" /\ prepare_snapshot(k) = "none"
         \/ e = "PREPARE_SNAPSHOT" /\ ok -> "PRE_TAKE_PICTURE"
      [] e = "PRE_TAKE_PICTURE" /\ ok ->
             IF k.restart THEN "RESTART_STOP_PREVIEW" ELSE "TAKE_PICTURE"
      [] OTHER -> AfterRestart(e, ok, "TAKE_PICTURE")

\* Between stopping and starting the muxer sets the recording hint.
MuxerAfter(api, e, ok, k) ==
    LET recording == api = "start_recording"
    IN  CASE e = "RESTART_STOP_PREVIEW" /\ ok ->
                 [k EXCEPT !.hint = recording,
                           !.hintSet = recording \/ (@ /\ api # "STOP_RECORDING")]
          [] e = "RESTART_START_PREVIEW" -> [k EXCEPT !.restart = FALSE]
          [] OTHER -> k

\* QCameraMuxer::send_command, for a long shot.
send_command_restart(e, ok) ==
    CASE e = "none" -> "LONGSHOT_ON"
      [] e = "LONGSHOT_ON" /\ ok -> "SEND_COMMAND_RESTART"
      [] OTHER -> "none"

\* The backend's picture: "taken" and "clear" are what its thread still has to do.
takeBackendPic_internal(e, ok) ==
    CASE e = "none" /\ Flash -> "PREPARE_SNAPSHOT"
      [] e = "PREPARE_SNAPSHOT" \/ (e = "none" /\ ~Flash) -> "TAKE_PICTURE"
      [] e = "TAKE_PICTURE" /\ ok  -> "taken"
      [] e = "TAKE_PICTURE" /\ ~ok -> "clear"

\* All other calls make one request, named like the call.
Following(api, e, ok, k) ==
    CASE api = "start_recording" /\ ~DualCamera -> start_recording(e, ok)
      [] api = "start_recording" /\ DualCamera  -> muxer_start_recording(e, ok, k)
      [] api = "STOP_RECORDING" /\ DualCamera   -> muxer_stop_recording(e, ok, k)
      [] api = "take_picture" /\ ~DualCamera    -> take_picture(e, ok, k)
      [] api = "take_picture" /\ DualCamera     -> muxer_take_picture(e, ok, k)
      [] api = "take_retro"      -> take_retro(e, ok, k)
      [] api = "set_parameters"  -> set_parameters(e, ok, k)
      [] api = "internal"        -> takeBackendPic_internal(e, ok)
      [] api = "LONGSHOT_ON" /\ DualCamera -> send_command_restart(e, ok)
      [] OTHER -> IF e = "none" THEN api ELSE "none"

\* What the thread of the call does to the flags itself.
PrepAfter(api, e, k) ==
    CASE e = "PREPARE_SNAPSHOT" -> TRUE
      [] e = "TAKE_PICTURE" /\ api = "take_picture" -> k.prep /\ k.longshot
      [] OTHER -> k.prep

Advance(c, api, e, ok) ==
    LET k == [MuxerAfter(api, e, ok, cam) EXCEPT
                  !.prep = PrepAfter(api, e, cam),
                  !.retro = IF e # "none" THEN @
                            ELSE api = "take_retro"
                                 \/ (@ /\ api \notin {"take_picture", "internal"})]
        f == Following(api, e, ok, k)
    IN  /\ cam' = k
        /\ call' = [call EXCEPT ![c] = IF f = "none" THEN Idle
                                       ELSE [api |-> api, evt |-> f, seen |-> FALSE,
                                             woken |-> FALSE]]
        /\ api_queue' = IF f \in {"none", "taken", "clear"} THEN api_queue
                        ELSE Append(api_queue, Msg(f, c, 0))

PictureCall ==
    IF Retro /\ ZSL /\ ~isRecording(cam) /\ ~cam.longshot
    THEN "take_retro" ELSE "take_picture"

Call(api) ==
    /\ call["app"] = Idle /\ calls < MaxCalls
    /\ api = "take_picture" => cam.shots < MaxShots
    /\ Advance("app", IF api = "take_picture" THEN PictureCall ELSE api, "none", TRUE)
    /\ calls' = calls + 1
    /\ UNCHANGED <<setup, evt_queue, results, notifier, reported, asked>>

\* camEvtHandle, takePictureInternal: the backend asks for a picture.
InternalPicture ==
    /\ InternalPics /\ call["int"] = Idle
    /\ calls < MaxCalls /\ cam.shots < MaxShots /\ isPreviewRunning(cam)
    /\ Advance("int", "internal", "none", TRUE)
    /\ calls' = calls + 1
    /\ UNCHANGED <<setup, evt_queue, results, notifier, reported, asked>>

\* waitAPIResult: the first result of its kind, whoever it was meant for.
Wake(c) ==
    LET fits == {i \in DOMAIN results : results[i].evt = call[c].evt}
        i == CHOOSE j \in fits : \A l \in fits : j <= l
    IN  /\ call[c].woken
        /\ IF fits = {}
           THEN /\ call' = [call EXCEPT ![c].woken = FALSE]
                /\ UNCHANGED <<cam, api_queue, results, asked>>
           ELSE /\ Advance(c, call[c].api, call[c].evt, results[i].ok)
                /\ results' = RemoveAt(results, i)
                /\ asked' = CASE call[c].evt = "ENABLE_MSG_TYPE"  -> TRUE
                             [] call[c].evt = "DISABLE_MSG_TYPE" -> FALSE
                             [] OTHER -> asked
        /\ UNCHANGED <<setup, evt_queue, notifier, reported, calls>>

\* checkIntPicPending, clearIntPendingEvents: nobody waits for the answers.
InternalDone ==
    /\ call["int"].evt \in {"taken", "clear"}
    /\ IF call["int"].evt = "taken"
       THEN /\ api_queue' = Append(api_queue, Msg("SNAPSHOT_DONE", "none", cam.shot))
            /\ call' = [call EXCEPT !["int"].evt = "clear"]
            /\ reported' = [reported EXCEPT !.done = cam.shot]
       ELSE /\ api_queue' = IF ZSL THEN api_queue
                            ELSE Append(api_queue, Msg("START_PREVIEW", "none", 0))
            /\ call' = [call EXCEPT !["int"] = Idle]
            /\ UNCHANGED reported
    /\ UNCHANGED <<setup, cam, evt_queue, results, notifier, asked, calls>>

----------------------------------------------------------------------------
\* Live_Snapshot_thread: it takes the channel, and then uses it.

LiveSnapshot ==
    /\ \/ /\ cam.live = "take" /\ cam.snapshot # "none"
          /\ cam' = [cam EXCEPT !.live = "taking"]
          /\ UNCHANGED api_queue
       \/ /\ cam.live = "taking" /\ cam.snapshot # "none"
          /\ cam' = [startChannel(NewShot(cam), "snapshot") EXCEPT !.live = "none"]
          /\ UNCHANGED api_queue
       \/ /\ \/ cam.live = "take" /\ cam.snapshot = "none"
             \/ cam.live \in {"take", "taking"} /\ HwMayFail
          /\ cam' = [cam EXCEPT !.live = "none"]
          /\ api_queue' = Append(api_queue, Msg("CANCEL_PICTURE", "none", 0))
    /\ UNCHANGED <<setup, evt_queue, results, call, notifier, reported, asked, calls>>

LiveCancel ==
    /\ \/ /\ cam.live = "cancel"
          /\ cam' = [cam EXCEPT !.shot = 0,
                                !.live = IF cam.snapshot = "none" THEN "none" ELSE "cancelling"]
       \/ /\ cam.live = "cancelling"
          /\ cam' = [stopChannel(cam, "snapshot") EXCEPT !.live = "none"]
    /\ UNCHANGED <<setup, api_queue, evt_queue, results, call, notifier, reported, asked, calls>>

----------------------------------------------------------------------------
\* What the backend, the post processor and the notifier report.

Event(e) == evt_queue' = Append(evt_queue, Msg(e, "none", cam.shot))

\* Frames taken with the flash are part of the picture.
Complete ==
    /\ cam.retro => reported.ready = cam.shot
    /\ cam.retro /\ Flash => reported.prepared = cam.shot

\* QCameraCbNotifier::cbNotifyRoutine, processSyncEvt.  A picture the backend
\* asked for is not notified, and neither is one of a long shot.
SnapshotDone ==
    /\ cam.shot # 0 /\ reported.done # cam.shot /\ Complete /\ ~cam.dead
    /\ ~notifier /\ ~cam.longshot /\ call["int"] = Idle
    /\ Event("SNAPSHOT_DONE")
    /\ notifier' = TRUE
    /\ reported' = [reported EXCEPT !.done = cam.shot]
    /\ UNCHANGED <<setup, cam, api_queue, results, call, asked, calls>>

\* QCameraPostProcessor::stopCapture, isRegularCapture.
StopCapture ==
    /\ ~ZSL /\ cam.capture = "started" /\ cam.shot # 0
    /\ ~cam.longshot /\ ~cam.hint
    /\ cam.shot \notin {reported.stop, reported.done}
    /\ api_queue' = Append(api_queue, Msg("STOP_CAPTURE_CHANNEL", "none", cam.shot))
    /\ reported' = [reported EXCEPT !.stop = cam.shot]
    /\ UNCHANGED <<setup, cam, evt_queue, results, call, notifier, asked, calls>>

\* The metadata of a prepared snapshot.
PrepSnapshotDone ==
    /\ cam.prepping
    /\ cam' = [cam EXCEPT !.prepping = FALSE]
    /\ Event("PREP_SNAPSHOT_DONE")
    /\ reported' = [reported EXCEPT !.prepared = cam.shot]
    /\ UNCHANGED <<setup, api_queue, results, call, notifier, asked, calls>>

\* zsl_channel_cb: the frames from before the call have come.
ReadyForSnapshot ==
    /\ cam.retro /\ cam.st = "PREVIEW_PIC_TAKING" /\ cam.preview = "started" /\ ~cam.dead
    /\ reported.ready # cam.shots
    /\ Event("READY_FOR_SNAPSHOT")
    /\ reported' = [reported EXCEPT !.ready = cam.shots]
    /\ UNCHANGED <<setup, cam, api_queue, results, call, notifier, asked, calls>>

\* A dead daemon reports nothing more.
DaemonDies ==
    /\ DaemonMayDie /\ ~cam.dead
    /\ Event("DAEMON_DIED")
    /\ cam' = [cam EXCEPT !.dead = TRUE, !.prepping = FALSE]
    /\ UNCHANGED <<setup, api_queue, results, call, notifier, reported, asked, calls>>

----------------------------------------------------------------------------
Next ==
    \/ Handle
    \/ \E api \in Apis : Call(api)
    \/ \E c \in Callers : Wake(c)
    \/ InternalPicture \/ InternalDone
    \/ LiveSnapshot \/ LiveCancel
    \/ SnapshotDone \/ StopCapture \/ PrepSnapshotDone \/ ReadyForSnapshot \/ DaemonDies

\* Threads that have something to do go on, and the backend answers a
\* prepared snapshot.  Pictures need not complete, and nobody need call.
Fairness ==
    /\ WF_vars(Handle)
    /\ \A c \in Callers : WF_vars(Wake(c))
    /\ WF_vars(InternalDone)
    /\ WF_vars(LiveSnapshot) /\ WF_vars(LiveCancel)
    /\ WF_vars(PrepSnapshotDone) /\ WF_vars(ReadyForSnapshot)

Spec == Init /\ [][Next]_vars
FairSpec == Spec /\ Fairness

----------------------------------------------------------------------------
States == {"STOPPED", "READY", "PREVIEWING", "PREPARE_SNAPSHOT", "PIC_TAKING", "RECORDING",
           "VIDEO_PIC_TAKING", "PREVIEW_PIC_TAKING"}
Channel == {"none", "added", "started"}

\* The state is one of the eight and the flags are flags; a caller waits for
\* something whenever it is in a call.
TypeOK ==
    /\ setup \in Setups
    /\ cam.st \in States
    /\ {cam.preview, cam.video, cam.snapshot} \subseteq Channel
    /\ cam.capture \in {"none", "started", "stopped"}
    /\ cam.shots \in Nat /\ cam.shot \in {0, cam.shots}
    /\ {cam.hint, cam.longshot, cam.retro, cam.window, cam.needRestart, cam.again, cam.later,
        cam.prep, cam.prepping, cam.dead, cam.restart, cam.hintSet, cam.delay, cam.held, cam.on, notifier, asked} \subseteq BOOLEAN
    /\ cam.live \in {"none", "take", "taking", "cancel", "cancelling"}
    /\ \A c \in Callers : (call[c].api = "none") <=> (call[c].evt = "none")

Healthy    == ~(HwMayFail \/ DaemonMayDie)
NoLongShot == "LONGSHOT_ON" \notin Apis /\ "LONGSHOT_OFF" \notin Apis

\* The preview stops and starts as the application's calls say.  (A long shot
\* without ZSL stops the preview and not the state, and so does switching it off
\* when it is not on; the end of a burst says previewing whenever an early restart
\* is configured, and stopping meanwhile forgets the preview; and a picture of the
\* backend's own may come between the halves of set_parameters, whose commit it
\* then refuses and whose stopped preview it starts.)
Orderly == (ZSL \/ NoLongShot) /\ ~RestartEarly /\ ~InternalPics

\* The result a call returns was signalled for the request of that call: the
\* promise of waitAPIResult.  (A picture of the backend's own waits for the same
\* kinds of results as the application's, a dying daemon lets go of callers that
\* are not there, and a live snapshot that fails is cancelled by nobody's call.)
OwnAnswer ==
    [][Healthy /\ ~InternalPics =>
        \A c \in Callers :
            LET fits == {i \in DOMAIN results : results[i].evt = call[c].evt}
            IN  call'[c] # call[c] /\ Len(results') < Len(results)
                  => c \in results[CHOOSE i \in fits : \A j \in fits : i <= j].to]_vars

\* Every public call returns, and the notifier is not left waiting, except that
\* nothing answers the restart a dual camera's long shot asks for.
EveryCallReturns ==
    ~DualCamera \/ NoLongShot =>
        /\ \A c \in Callers : (call[c].api # "none") ~> (call[c].api = "none")
        /\ notifier ~> ~notifier

\* The states mean what isRecording and isPreviewRunning make of them: the video
\* channel runs in the recording states only, and between calls a state that
\* counts as previewing has a preview channel that runs, READY one that waits
\* for its window.  (A commit that fails stops the preview and not the state.)
RunningIsRunning ==
    /\ isRecording(cam) <=> cam.video = "started"
    /\ Healthy /\ Orderly /\ call["app"] = Idle /\ isPreviewRunning(cam)
       => IF cam.st = "READY" THEN cam.preview # "none" ELSE cam.preview = "started"

\* When the state machine is stopped nothing streams.
StoppedIsStopped ==
    cam.st = "STOPPED" /\ Orderly =>
        /\ cam.preview # "started"
        /\ cam.video = "none"
        /\ cam.capture # "started"

\* Whatever calls were made, the channels are what the state says.
ChannelsFitState == TypeOK /\ RunningIsRunning /\ StoppedIsStopped

\* A preview frame message the application has asked for is on, or is held
\* back to be turned on; only while a flash picture of the backend's own is
\* prepared is the request refused and forgotten.
EnableNotLost ==
    asked /\ ~(InternalPics /\ Flash) /\ ~DaemonMayDie =>
        cam.on \/ cam.held \/ call["app"].evt = "DISABLE_MSG_TYPE"
=============================================================================
