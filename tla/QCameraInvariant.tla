-------------------------- MODULE QCameraInvariant ----------------------------
(***************************************************************************)
(* What the proofs about QCameraStateMachine say of its states: the        *)
(* invariants, and what a handler may make of a camera.                    *)
(*                                                                         *)
(* IInv is why no enabled message is lost: the requests that matter to the *)
(* message are under way once, and the message is shown when the           *)
(* application has been told so. FitInv adds why the channels are what the *)
(* state says and why a call takes its own result: the fields of the       *)
(* camera fit its state (Fits), each request is under way once for the     *)
(* call that waits for it (Once), the preview is stopped between the       *)
(* halves of set_parameters (NoneStarted), and where a state's preview     *)
(* does not run the request that starts it is about to come (Lapses).      *)
(***************************************************************************)
EXTENDS QCameraStateMachine

\* Requests the state machine gets while the daemon lives.
Requests ==
    Settings \cup StoppedRefuses
    \cup {"PREPARE_PREVIEW", "START_PREVIEW", "STOP_PREVIEW", "RELEASE", "LONGSHOT_ON",
          "LONGSHOT_OFF", "CANCEL_PICTURE", "SEND_COMMAND_RESTART"}
    \cup (Reports \ {"DAEMON_DIED"})

\* What the backend reports of a prepared snapshot and of frames from before the
\* call comes as an event, and nothing but a report does.
Events == {"PREP_SNAPSHOT_DONE", "READY_FOR_SNAPSHOT", "SNAPSHOT_DONE"}
Orders == Requests \ {"PREP_SNAPSHOT_DONE", "READY_FOR_SNAPSHOT"}

Kinds == {"ENABLE_MSG_TYPE", "DISABLE_MSG_TYPE", "PREPARE_SNAPSHOT"}

Flags == {"on", "held", "delay", "prepping"}

Camera(k) ==
    /\ Flags \cup {"st", "shot", "shots"} \subseteq DOMAIN k
    /\ k.st \in States
    /\ k.shot \in Nat /\ k.shots \in Nat

Shows(k) == k.on \/ k.held

Queue(Q) == Seq([evt : Q, by : Callers \cup {"none"}, shot : Nat])

\* Nobody but the application asks to prepare a snapshot, and nobody is let go
\* without an answer.
Alone == ~(InternalPics /\ Flash) /\ ~DaemonMayDie

At(q, x) == {i \in DOMAIN q : q[i].evt = x}

\* A snapshot is being prepared.
Preparing == cam.prepping \/ At(evt_queue, "PREP_SNAPSHOT_DONE") # {}

\* What a caller is in and waits for.
Waits == [api : PublicCalls \cup {"take_retro", "internal", "none"},
          evt : Requests \cup {"taken", "clear", "none"}, seen : BOOLEAN, woken : BOOLEAN]

\* Answers to requests that wait for whoever asked.
Answers(r) == (\E S : r \in Seq(S)) /\ \A i \in DOMAIN r : r[i].evt \in Requests

OneOf(S) == \A i, j \in S : i = j

Types ==
    /\ setup \in Setups
    /\ Camera(cam)
    /\ api_queue \in Queue(Orders) /\ evt_queue \in Queue(Events)
    /\ Answers(results)
    /\ call \in [Callers -> Waits]
    /\ call["int"].api \in {"none", "internal"}
    /\ call["int"].evt \in {"none", "TAKE_PICTURE", "taken", "clear"}
    /\ ~InternalPics => call["int"].api = "none" /\ call["int"].evt = "none"
    /\ call["app"].api # "internal"

\* A request of these kinds is under way once, for the call that waits for it.
OnceEach ==
    \A x \in Kinds :
        /\ OneOf(At(api_queue, x)) /\ OneOf(At(results, x))
        /\ At(api_queue, x) = {} \/ At(results, x) = {}
        /\ At(api_queue, x) \cup At(results, x) # {} => call["app"].evt = x

PreparedOnce ==
    /\ Preparing => /\ call["app"].evt = "PREPARE_SNAPSHOT"
                    /\ At(api_queue, "PREPARE_SNAPSHOT") = {}
                    /\ At(results, "PREPARE_SNAPSHOT") = {}
    /\ cam.prepping => At(evt_queue, "PREP_SNAPSHOT_DONE") = {}
    /\ OneOf(At(evt_queue, "PREP_SNAPSHOT_DONE"))
    /\ cam.st = "PREPARE_SNAPSHOT" => Preparing

Shown ==
    /\ At(results, "ENABLE_MSG_TYPE") # {} => Shows(cam)
    /\ asked => Shows(cam) \/ call["app"].evt = "DISABLE_MSG_TYPE"

\* Why no enabled message is lost, and where it is so.
Tracked == Types /\ OnceEach /\ PreparedOnce /\ Shown

IInv == Alone => Tracked

--------------------------------------------------------------------------------
(* What the states say of the channels, and which requests may come.       *)

\* What the fields of the camera may hold.
Sorts ==
    [st |-> States, preview |-> Channel, video |-> Channel, snapshot |-> Channel,
     capture |-> {"none", "started", "stopped"}, shot |-> Nat, shots |-> Nat, hint |-> BOOLEAN,
     longshot |-> BOOLEAN, retro |-> BOOLEAN, window |-> BOOLEAN, needRestart |-> BOOLEAN,
     again |-> BOOLEAN, later |-> BOOLEAN, prep |-> BOOLEAN, prepping |-> BOOLEAN,
     dead |-> BOOLEAN, restart |-> BOOLEAN, hintSet |-> BOOLEAN, delay |-> BOOLEAN,
     held |-> BOOLEAN, on |-> BOOLEAN,
     live |-> {"none", "take", "taking", "cancel", "cancelling"}]
Fields ==
    {"st", "preview", "video", "snapshot", "capture", "shot", "shots", "hint", "longshot", "retro",
     "window", "needRestart", "again", "later", "prep", "prepping", "dead", "restart", "hintSet",
     "delay", "held", "on", "live"}

Typed(k) == DOMAIN k = Fields /\ \A f \in Fields : k[f] \in Sorts[f]

\* The hardware, or the daemon that died.
Refuses(k) == HwMayFail \/ k.dead

PPT == "PREVIEW_PIC_TAKING"

\* Frames from before the call are asked for, if nobody records.
EarlyFrames == Retro /\ ZSL /\ ~InternalPics

\* The channels as the states have them, between one handler and the next.
InOrder(k) ==
    /\ k.capture = "started" => k.st = "PIC_TAKING" /\ ~ZSL
    /\ k.st \in {"STOPPED", "READY", "PIC_TAKING"} => k.preview # "started"
    /\ k.st \in {"STOPPED", "PIC_TAKING"} => k.video = "none"
    /\ k.st = PPT => ZSL
    /\ k.st = "PIC_TAKING" /\ ZSL => ~Healthy

\* How the fields of the camera go with its state and with each other.
Fits(k) ==
    /\ Typed(k)
    /\ k.shot \in {0, k.shots}
    /\ isRecording(k) <=> k.video = "started"
    /\ k.live \in {"take", "taking"} => k.st = "VIDEO_PIC_TAKING"
    /\ k.dead => DaemonMayDie
    /\ ~Refuses(k) /\ k.video # "none" => k.snapshot # "none"
    /\ k.retro => Retro /\ ZSL
    /\ EarlyFrames /\ k.st = PPT => ~k.hint /\ (k.retro \/ k.longshot)
    /\ NoLongShot => ~k.longshot
    /\ Orderly => InOrder(k)

\* Stopped between the halves of set_parameters.
Unprepared(k) == k.st \in {"READY", PPT} => k.video = "none" /\ k.preview # "started"

\* A state that counts as previewing has a preview that runs.
Runs(k) ==
    isPreviewRunning(k) => IF k.st = "READY" THEN k.preview # "none" ELSE k.preview = "started"

\* The calls that stop the preview to start it again with their next request.
Gap(k, x) ==
    CASE x = "SET_PARAMS_STOP"      -> k.st \in {"READY", "PREVIEWING", PPT}
      [] x = "RESTART_STOP_PREVIEW" -> k.st \in {"PREVIEWING", PPT}
      [] x = "LONGSHOT_ON"          -> k.st = "PREVIEWING" /\ k.again /\ k.later /\ DualCamera
      [] OTHER -> FALSE
Openers == {"SET_PARAMS_STOP", "RESTART_STOP_PREVIEW", "LONGSHOT_ON"}
Closes(x) == CASE x = "SET_PARAMS_STOP"      -> "SET_PARAMS_RESTART"
               [] x = "RESTART_STOP_PREVIEW" -> "RESTART_START_PREVIEW"
               [] x = "LONGSHOT_ON"          -> "SEND_COMMAND_RESTART"

Picturing == {"PREPARE_SNAPSHOT", "PRE_TAKE_PICTURE", "TAKE_PICTURE", "CANCEL_PICTURE"} \cup Reports

\* When a request may come, as the calls make them.
Due(k, e) ==
    /\ e \in {"LONGSHOT_ON", "LONGSHOT_OFF"} => ~NoLongShot
    /\ Joins(k, e) => k.live = "none"
    /\ Orderly /\ e = "SET_PARAMS_RESTART" => Unprepared(k)
    /\ EarlyFrames /\ ~k.dead /\ e = "TAKE_PICTURE" /\ k.st = "PREVIEWING" => k.retro \/ k.longshot
    /\ ZSL => e # "STOP_CAPTURE_CHANNEL"

\* The preview a request e leaves in n, between the halves of set_parameters.
Readies(k, e, n) ==
    \/ e = "SET_PARAMS_STOP"
    \/ /\ \/ e \in {"SET_PARAMS_COMMIT", "CANCEL_PICTURE", "PREPARE_SNAPSHOT"} \cup Reports
          \/ e = "TAKE_PICTURE" /\ k.dead
       /\ Unprepared(k)
    => Unprepared(n)

\* A preview that ran still runs, or e has stopped it for its second half; and the
\* second half has it run again.
Streams(k, e, n) ==
    /\ Runs(k) => Runs(n) \/ Gap(n, e)
    /\ \A x \in Openers : Gap(k, x) => /\ e = Closes(x) => Runs(n)
                                       /\ e \in {"SET_PARAMS_COMMIT"} \cup Reports => Gap(n, x)

\* What a request e that may come in k is to leave.
Fitting(k, e, n) ==
    /\ Fits(n)
    /\ n.retro = k.retro /\ n.dead = k.dead
    /\ e \notin {"SET_PARAMS", "SET_PARAMS_RESTART"} => n.needRestart = k.needRestart
    /\ n.st = PPT => (k.st = PPT /\ n.shots = k.shots) \/ (e = "TAKE_PICTURE" /\ ~k.dead)
    /\ e \in Picturing => /\ isRecording(n) <=> isRecording(k)
                          /\ EarlyFrames => n.longshot = k.longshot
    /\ Orderly => Readies(k, e, n)
    /\ Orderly /\ Healthy => Streams(k, e, n)

\* All outcomes of a handler.
AllFit(k, e, O) == \A o \in O : Fitting(k, e, o.cam)

--------------------------------------------------------------------------------
(* What is under way for the calls, and the invariant.                     *)

App == call["app"]
Queued(x)   == At(api_queue, x) # {}
Answered(x) == At(results, x) # {}
Ok(x)       == \E i \in At(results, x) : results[i].ok

\* What a call may wait for.
Awaited(api) ==
    CASE api = "none" -> {"none"}
      [] api = "start_recording" ->
             {"PRE_START_RECORDING", "START_RECORDING"} \cup (IF DualCamera THEN Restarts ELSE {})
      [] api = "STOP_RECORDING" -> {"STOP_RECORDING"} \cup (IF DualCamera THEN Restarts ELSE {})
      [] api = "take_picture" -> {"PREPARE_SNAPSHOT", "PRE_TAKE_PICTURE", "TAKE_PICTURE"}
                                 \cup (IF DualCamera THEN Restarts ELSE {})
      [] api = "take_retro" -> {"PREPARE_SNAPSHOT", "PRE_TAKE_PICTURE", "TAKE_PICTURE"}
      [] api = "set_parameters" ->
             {"SET_PARAMS", "SET_PARAMS_STOP", "SET_PARAMS_COMMIT", "SET_PARAMS_RESTART"}
      [] api = "LONGSHOT_ON" ->
             {"LONGSHOT_ON"} \cup (IF DualCamera THEN {"SEND_COMMAND_RESTART"} ELSE {})
      [] api = "internal" -> {"PREPARE_SNAPSHOT", "TAKE_PICTURE", "taken", "clear"}
      [] OTHER -> {api}

\* The calls, and what each is waiting for.
Callings ==
    /\ call \in [Callers -> Waits]
    /\ \A c \in Callers : call[c].evt \in Awaited(call[c].api)
    /\ App.api \in Apis \cup {"none"} \/ (App.api = "take_retro" /\ Retro /\ ZSL)
    /\ call["int"].api \in {"none", "internal"} /\ (~InternalPics => call["int"].api = "none")

Queues ==
    /\ api_queue \in Queue(Orders) /\ evt_queue \in Queue(Events \cup {"DAEMON_DIED"})
    /\ ~cam.dead => At(evt_queue, "DAEMON_DIED") = {}
    /\ \A x \in {"LONGSHOT_ON", "LONGSHOT_OFF"} : Queued(x) => ~NoLongShot
    /\ ZSL => ~Queued("STOP_CAPTURE_CHANNEL")

\* What holds of every camera.
Common ==
    /\ setup \in Setups
    /\ Fits(cam)
    /\ Queues
    /\ Answers(results)
    /\ Callings
    /\ reported \in [{"done", "ready", "prepared", "stop"} -> Nat]
    /\ notifier \in BOOLEAN /\ asked \in BOOLEAN

\* The requests that are under way for the call that waits for them only.
Loose ==
    Reports \cup {"PREPARE_SNAPSHOT"} \cup (IF Healthy THEN {} ELSE {"CANCEL_PICTURE"})
            \cup (IF cam.dead THEN {"TAKE_PICTURE"} ELSE {})
Whole == Orders \ Loose

Kept(x) ==
    /\ OneOf(At(api_queue, x)) /\ OneOf(At(results, x))
    /\ ~(Queued(x) /\ Answered(x))
    /\ Queued(x) \/ Answered(x) => App.evt = x

\* Each of these is under way once at most, for the call that waits for it.
Once == \A x \in Whole : Kept(x)

\* Frames from before the call that TAKE_PICTURE waits for.
Coming == cam.retro /\ cam.st = PPT /\ reported.ready # cam.shots
Come   == At(evt_queue, "READY_FOR_SNAPSHOT") # {}
Owing  == Come \/ Coming

Frames ==
    /\ Owing => App.evt = "TAKE_PICTURE" /\ ~Queued("TAKE_PICTURE") /\ ~Answered("TAKE_PICTURE")
    /\ OneOf(At(evt_queue, "READY_FOR_SNAPSHOT"))
    /\ Come => ~Coming

\* take_picture goes on as a picture with frames from before the call, or without.
Pictures ==
    /\ App.api = "take_retro" => cam.retro
    /\ EarlyFrames /\ App.api = "take_picture" => cam.longshot \/ isRecording(cam)

Restarting == App.evt = "SET_PARAMS_STOP" => cam.needRestart

\* The preview is stopped between the halves of set_parameters.
Stops ==
    \/ Ok("SET_PARAMS_STOP")
    \/ App.evt = "SET_PARAMS_COMMIT" /\ cam.needRestart
    \/ Queued("SET_PARAMS_RESTART")
NoneStarted == Stops => Unprepared(cam)

\* A preview that does not run is about to be started again.
Under(x) ==
    CASE x = "SET_PARAMS_STOP" ->
             Stops /\ \A i \in At(results, "SET_PARAMS_COMMIT") : results[i].ok
      [] OTHER -> Ok(x) \/ Queued(Closes(x))
Lapses == Runs(cam) \/ \E x \in Openers : Gap(cam, x) /\ Under(x)

\* Who waits for a result has had its request taken.
Addressed ==
    /\ \A i \in DOMAIN api_queue : api_queue[i].evt # "STOP_CAPTURE_CHANNEL" => api_queue[i].by = "app"
    /\ \A i \in DOMAIN results : results[i].evt \notin Reports => "app" \in results[i].to
    /\ Preparing \/ Owing => App.seen

\* Each part under the premise it needs: the daemon that dies answers everybody, a
\* picture of the backend's own sends the same requests, and an operation that
\* fails leaves a state without its preview.
FitInv ==
    /\ IInv /\ Common
    /\ ~InternalPics => Once /\ Pictures /\ Restarting
    /\ ~InternalPics /\ ~cam.dead => Frames
    /\ Orderly => NoneStarted
    /\ Orderly /\ Healthy => Lapses
    /\ ~InternalPics /\ Healthy => Addressed

--------------------------------------------------------------------------------
(* What operations and handlers leave, in the words of the lemmas.         *)

\* The request a reply to e is for.
Asks(e) == CASE e = "PREP_SNAPSHOT_DONE" -> "PREPARE_SNAPSHOT"
             [] e = "READY_FOR_SNAPSHOT" -> "TAKE_PICTURE"
             [] OTHER -> e

\* What all operations leave as it is, but for one that prepares a snapshot: the
\* preview frame message stays shown, and nobody gets into PREPARE_SNAPSHOT.
Keeps(k, n) ==
    /\ Camera(n)
    /\ n.prepping = k.prepping
    /\ Shows(k) => Shows(n)
    /\ n.st = "PREPARE_SNAPSHOT" => k.st = "PREPARE_SNAPSHOT"

\* The outcomes of an operation.
Steps(k, S) == \A r \in S : {"cam", "ok"} \subseteq DOMAIN r /\ Keeps(k, r.cam)

\* No answer, or one to a request x.
Single(replies, x) == replies = <<>> \/ (replies = <<replies[1]>> /\ replies[1].evt = x
                                         /\ {"evt", "ok"} \subseteq DOMAIN replies[1])

\* The outcomes of a handler that keeps the message and answers x at most.
Fine(k, x, O) ==
    \A o \in O : /\ {"cam", "replies", "post"} \subseteq DOMAIN o
                 /\ Keeps(k, o.cam)
                 /\ Single(o.replies, x)

\* The other requests are dealt with one state at a time.
Enabling == Requests \ {"DISABLE_MSG_TYPE"}

\* A queue that has come to have no more of a kind than it had.
NoMore(q, n, x) == /\ At(q, x) = {} => At(n, x) = {}
                   /\ OneOf(At(q, x)) => OneOf(At(n, x))

AppCalls == PublicCalls \cup {"take_retro"}

\* A camera that differs from another in these fields at most.
Differs(k, n, F) == Typed(n) /\ \A f \in Fields \ F : n[f] = k[f]

Three == {"preview", "video", "snapshot"}

\* The outcomes of preparePreview.
Prepares(k, r) ==
    /\ r.ok \in BOOLEAN
    /\ Differs(k, r.cam, Three \cup {"longshot", "prep"})
    /\ r.cam.longshot => k.longshot
    /\ ~k.hint => Differs(k, r.cam, {"preview"})
    /\ r.ok => /\ ~k.dead /\ r.cam.preview = "added"
               /\ k.hint => r.cam.video = "added" /\ r.cam.snapshot = "added"
    /\ ~r.ok => /\ Refuses(k)
                /\ r.cam.preview \in {k.preview, "none"} /\ r.cam.video \in {k.video, "none"}

\* The outcomes of startPreview.
Starts(k, r) ==
    /\ r.ok \in BOOLEAN
    /\ Differs(k, r.cam, {"preview"})
    /\ r.ok => ~k.dead /\ r.cam.preview = "started"
    /\ ~r.ok => k.preview = "none" \/ Refuses(k)

\* With unpreparePreview where it fails.
StartsOrNot(k, r) ==
    /\ r.ok \in BOOLEAN
    /\ Differs(k, r.cam, Three)
    /\ r.ok => ~k.dead /\ Differs(k, r.cam, {"preview"}) /\ r.cam.preview = "started"
    /\ ~r.ok => /\ k.preview = "none" \/ Refuses(k)
                /\ r.cam.preview = "none" /\ r.cam.video = "none" /\ r.cam.snapshot = "none"

Messaging == {"on", "held", "delay"}

Around == Three \cup {"longshot", "prep"} \cup Messaging

\* The outcomes of a preview prepared and started.
Restarted(k, r) ==
    /\ r.ok \in BOOLEAN
    /\ Differs(k, r.cam, Around)
    /\ r.cam.longshot => k.longshot
    /\ ~k.hint => r.cam.longshot = k.longshot
    /\ r.ok => /\ ~k.dead /\ r.cam.preview = "started"
               /\ k.hint => r.cam.video = "added" /\ r.cam.snapshot = "added"
               /\ ~k.hint => r.cam.video = k.video /\ r.cam.snapshot = k.snapshot
    /\ ~r.ok => Refuses(k) /\ r.cam.video \in {k.video, "none", "added"}

\* Where it is also unprepared when it does not start.
RestartedOrNot(k, r) ==
    /\ Restarted(k, r)
    /\ ~r.ok => r.cam.preview \in {k.preview, "none"} /\ r.cam.video \in {k.video, "none"}

\* Fields the properties do not speak of.
Free == {"window", "prep", "prepping", "restart", "hintSet", "delay", "held", "on"}

\* Requests that may leave the channels as they are.
Quiet(k, e) ==
    /\ e \in {"SET_PARAMS_STOP", "SET_PARAMS_RESTART"} => k.st \notin {"READY", "PREVIEWING", PPT}
    /\ e = "RESTART_START_PREVIEW" => k.st \notin {"PREVIEWING", PPT}
    /\ e = "SEND_COMMAND_RESTART" => ~Gap(k, "LONGSHOT_ON")

\* Requests that are no part of a picture and of no call that stops the preview
\* for a while.
Plain == {"PREPARE_PREVIEW", "START_PREVIEW", "STOP_PREVIEW", "RELEASE", "PRE_START_RECORDING",
          "START_RECORDING", "STOP_RECORDING", "SET_PREVIEW_WINDOW"}

\* The outcomes of takePicture.
Takes(d, r) ==
    /\ r.ok \in BOOLEAN
    /\ ZSL /\ r.ok => /\ Differs(d, r.cam, {"shot", "shots"}) /\ r.cam.shot = r.cam.shots
                      /\ d.preview = "started" /\ ~d.hint /\ ~d.dead
    /\ ZSL /\ ~r.ok => r.cam = d
    /\ ~ZSL => /\ Differs(d, r.cam, Three \cup {"shot", "shots", "capture"})
               /\ r.cam.preview = "none" /\ r.cam.video = "none" /\ r.cam.snapshot = "none"
    /\ ~ZSL /\ r.ok => ~d.dead /\ r.cam.shot = r.cam.shots
    /\ ~ZSL /\ ~r.ok => /\ Refuses(d) /\ r.cam.shot = d.shot /\ r.cam.shots = d.shots
                        /\ r.cam.capture \in {d.capture, "none"}

\* A preview of these states stopped, or prepared and started again.
Shows2 == {"PREVIEWING", PPT}

\* The answer to a request, alone.
Answer(x, ok) == <<Result(x, ok)>>

\* A queue that has come to have less.
Fewer(q, n) == /\ \A x : NoMore(q, n, x)
               /\ \A j \in DOMAIN n : \E i \in DOMAIN q : n[j] = q[i]

\* What the queue of events may hold.
EventKinds == Events \cup {"DAEMON_DIED"}

\* The result that is posted of a reply.
Signal(r, waiting) ==
    [evt |-> r.evt, ok |-> r.ok, to |-> {c \in Callers : waiting[c].seen /\ waiting[c].evt = r.evt}]

\* Results that have grown, with signals of these kinds only.
Grown(q, n, Q, waiting) ==
    /\ \E T : n \in Seq(T)
    /\ DOMAIN q \subseteq DOMAIN n /\ \A i \in DOMAIN q : n[i] = q[i]
    /\ Len(n) \in Nat /\ Len(n) >= Len(q)
    /\ \A i \in DOMAIN n \ DOMAIN q :
           /\ n[i].evt \in Q
           /\ n[i].to = {c \in Callers : waiting[c].seen /\ waiting[c].evt = n[i].evt}

\* Results with the single reply to a request x.
Replied(q, n, x, replies, waiting) ==
    /\ Grown(q, n, {x}, waiting)
    /\ At(q, x) = {} => OneOf(At(n, x))
    /\ replies = <<>> => n = q
    /\ replies = Answer(x, TRUE) => /\ \E i \in At(n, x) : n[i].ok
                                    /\ \A i \in At(n, x) \ At(q, x) : n[i].ok

\* What the thread of a call changes of the camera.
Steered == {"hint", "hintSet", "restart", "prep", "retro"}

\* A call of the application that starts, or one that goes on.
Begun(api) == \/ api \in Apis /\ (EarlyFrames /\ api = "take_picture"
                                  => cam.longshot \/ isRecording(cam))
              \/ api = "take_retro" /\ Retro /\ ZSL
              \/ api = "internal" /\ InternalPics

\* A step of the thread of a call, from its request e, or from none at its start.
Goes(c, api, e, ok) ==
    /\ Advance(c, api, e, ok)
    /\ IF c = "int" THEN api = "internal" /\ InternalPics
       ELSE c = "app" /\ api \in AppCalls
            /\ (api \in Apis \/ (api = "take_retro" /\ Retro /\ ZSL))
    /\ e \in Awaited(api) \cup {"none"} /\ e \notin {"taken", "clear"}
    /\ e = "none" => Begun(api)
    /\ UNCHANGED <<setup, evt_queue, notifier, reported>>

\* Fields the other threads change.
Touched == {"shot", "shots", "snapshot", "live", "prepping", "dead"}
================================================================================
