----------------------- MODULE QCameraStateMachineProofs -----------------------
(***************************************************************************)
(* Proofs about QCameraStateMachine, for any camera and any order of calls *)
(* and events.                                                             *)
(*                                                                         *)
(* That no enabled message is lost: the requests that matter to the        *)
(* preview frame message, enabling it and disabling it, and the one to     *)
(* prepare a snapshot, in whose state the first is refused, are under way  *)
(* one at a time. The application's call waits for them, and they are in   *)
(* the queue, with the backend, or among the results, in one of these      *)
(* only. First the operations of the hardware interface are shown to keep  *)
(* the message, then the handlers of each state, then each action.         *)
(*                                                                         *)
(* That the channels are what the state says, and that a call takes its    *)
(* own result: every handler, given channels that fit its state (Fits) and *)
(* a request that may come (Due), leaves channels that fit the state it    *)
(* goes to, or has stopped the preview for a request that is to start it   *)
(* again. A request comes because of the call that waits for it: it is     *)
(* under way once (Once), the preview is stopped between the halves of     *)
(* set_parameters (NoneStarted), and where a state's preview does not run  *)
(* the request that starts it is about to come (Lapses). FitInv holds all  *)
(* of this, and every step keeps it (NextFits). QCameraInvariant has the   *)
(* definitions.                                                            *)
(***************************************************************************)
EXTENDS QCameraInvariant, SequenceTheorems, WellFoundedInduction, TLAPS
--------------------------------------------------------------------------------
(* The operations of the hardware interface.                               *)

LEMMA KeepsIt ==
    ASSUME NEW k, Camera(k)
    PROVE  Keeps(k, k)
BY DEF Keeps

LEMMA Then ==
    ASSUME NEW k, NEW n, NEW m, Keeps(k, n), Keeps(n, m)
    PROVE  Keeps(k, m)
BY DEF Keeps

LEMMA ThenSteps ==
    ASSUME NEW k, NEW n, Keeps(k, n), NEW S, Steps(n, S)
    PROVE  Steps(k, S)
BY Then DEF Steps

\* An operation that leaves the fields that matter alone.
LEMMA Others ==
    ASSUME NEW k, Camera(k), NEW n, DOMAIN n = DOMAIN k, n.st = k.st, n.on = k.on, n.held = k.held,
           n.prepping = k.prepping, n.shot \in Nat, n.shots \in Nat
    PROVE  Keeps(k, n)
BY DEF Keeps, Camera, Shows

LEMMA ChannelsKeep ==
    ASSUME NEW k, Camera(k), NEW ch \in {"preview", "video", "snapshot", "capture"}
    PROVE  /\ Keeps(k, addChannel(k, ch)) /\ Keeps(k, delChannel(k, ch))
           /\ Keeps(k, startChannel(k, ch)) /\ Keeps(k, stopChannel(k, ch))
<1>1. ASSUME NEW v PROVE Keeps(k, [k EXCEPT ![ch] = v])
  <2> DEFINE n == [k EXCEPT ![ch] = v]
  <2>1. /\ DOMAIN n = DOMAIN k /\ n.st = k.st /\ n.on = k.on /\ n.held = k.held
        /\ n.prepping = k.prepping /\ n.shot = k.shot /\ n.shots = k.shots
    BY DEF Camera, Flags
  <2> HIDE DEF n
  <2>2. n.shot \in Nat /\ n.shots \in Nat
    BY <2>1 DEF Camera
  <2>3. Keeps(k, n)
    BY <2>1, <2>2, Others
  <2> QED BY <2>3 DEF n
<1> QED BY <1>1, KeepsIt DEF addChannel, delChannel, startChannel, stopChannel

LEMMA AttemptSteps ==
    ASSUME NEW k, NEW olds, \A o \in olds : Keeps(k, o), NEW new, Keeps(k, new)
    PROVE  Steps(k, Attempt(olds, new))
BY DEF Attempt, Steps, Did, Failed

LEMMA TrySteps ==
    ASSUME NEW k, NEW old, Keeps(k, old), NEW new, Keeps(k, new)
    PROVE  Steps(k, Try(old, new))
BY AttemptSteps DEF Try

LEMMA UnprepareKeeps ==
    ASSUME NEW k, Camera(k)
    PROVE  /\ Keeps(k, unpreparePreview(k)) /\ Keeps(k, stopPreview(k)) /\ Keeps(k, release(k))
           /\ Keeps(k, stopRecording(k))
<1>1. ASSUME NEW n, Camera(n) PROVE Keeps(n, unpreparePreview(n))
  <2>1. Keeps(n, delChannel(n, "preview"))
    BY <1>1, ChannelsKeep
  <2>2. Keeps(n, delChannel(delChannel(n, "preview"), "video"))
    BY <2>1, ChannelsKeep, Then DEF Keeps
  <2>3. Keeps(n, delChannel(delChannel(delChannel(n, "preview"), "video"), "snapshot"))
    BY <2>2, ChannelsKeep, Then DEF Keeps
  <2> QED BY <2>3 DEF unpreparePreview
<1>2. Keeps(k, stopChannel(k, "preview")) /\ Keeps(k, stopChannel(k, "video"))
  BY ChannelsKeep
<1>3. Keeps(k, stopPreview(k))
  BY <1>1, <1>2, Then DEF stopPreview, Keeps
<1>4. Keeps(k, release(k))
  BY <1>1, ChannelsKeep, Then DEF release, Keeps
<1> QED BY <1>1, <1>2, <1>3, <1>4 DEF stopRecording

LEMMA AppliedKeeps ==
    ASSUME NEW k, Camera(k)
    PROVE  Keeps(k, Applied(k))
<1> DEFINE n == Applied(k)
<1>1. /\ DOMAIN n = DOMAIN k /\ n.st = k.st /\ n.prepping = k.prepping
      /\ n.shot = k.shot /\ n.shots = k.shots
      /\ n.on = (k.on \/ (k.delay /\ k.held)) /\ n.held = (k.held /\ ~k.delay)
  BY DEF Camera, Flags, Applied
<1> HIDE DEF n
<1>2. Camera(n)
  BY <1>1 DEF Camera
<1>3. Shows(k) => Shows(n)
  BY <1>1 DEF Shows
<1>4. Keeps(k, n)
  BY <1>1, <1>2, <1>3 DEF Keeps
<1> QED BY <1>4 DEF n

LEMMA PrepareSteps ==
    ASSUME NEW k, Camera(k)
    PROVE  Steps(k, preparePreview(k))
<1>1. CASE ~k.hint
  <2>1. Keeps(k, k) /\ Keeps(k, delChannel(k, "preview")) /\ Keeps(k, addChannel(k, "preview"))
    BY ChannelsKeep, KeepsIt
  <2> DEFINE new == IF ZSL THEN addZSLChannel(k) ELSE addPreviewChannel(k)
             olds == {k, delChannel(k, "preview")}
  <2>2. Keeps(k, new) /\ \A o \in olds : Keeps(k, o)
    BY <2>1 DEF addZSLChannel, addPreviewChannel
  <2>3. preparePreview(k) = Attempt(olds, new)
    BY <1>1 DEF preparePreview
  <2> HIDE DEF new, olds
  <2> QED BY <2>2, <2>3, AttemptSteps
<1>2. CASE k.hint
  <2> DEFINE off        == [k EXCEPT !.longshot = FALSE, !.prep = @ /\ ~k.longshot]
             noSnapshot == delChannel(off, "snapshot")
             noVideo    == delChannel(noSnapshot, "video")
             withSnapshot == addChannel(off, "snapshot")
             withVideo  == addChannel(withSnapshot, "video")
             olds       == {k, noSnapshot, noVideo, delChannel(noVideo, "preview")}
             new        == addChannel(withVideo, "preview")
  <2>1. Keeps(k, off)
    <3>1. /\ DOMAIN off = DOMAIN k /\ off.st = k.st /\ off.on = k.on /\ off.held = k.held
          /\ off.prepping = k.prepping /\ off.shot = k.shot /\ off.shots = k.shots
      BY DEF Camera, Flags
    <3> HIDE DEF off
    <3> QED BY <3>1, Others DEF Camera
  <2>2. preparePreview(k) = Attempt(olds, new)
    BY <1>2 DEF preparePreview, addPreviewChannel, addVideoChannel, addSnapshotChannel
  <2> HIDE DEF off
  <2>3. Keeps(k, noSnapshot) /\ Keeps(k, withSnapshot)
    BY <2>1, ChannelsKeep, Then DEF Keeps
  <2> HIDE DEF noSnapshot, withSnapshot
  <2>4. Keeps(k, noVideo) /\ Keeps(k, withVideo)
    BY <2>3, ChannelsKeep, Then DEF Keeps
  <2> HIDE DEF noVideo, withVideo
  <2>5. Keeps(k, delChannel(noVideo, "preview")) /\ Keeps(k, new)
    BY <2>4, ChannelsKeep, Then DEF Keeps
  <2>6. \A o \in olds : Keeps(k, o)
    BY <2>3, <2>4, <2>5, KeepsIt
  <2> HIDE DEF olds, new
  <2> QED BY <2>2, <2>5, <2>6, AttemptSteps
<1> QED BY <1>1, <1>2

LEMMA StartSteps ==
    ASSUME NEW k, Camera(k)
    PROVE  Steps(k, startPreview(k)) /\ Steps(k, StartOrUnprepare(k))
<1>1. Steps(k, startPreview(k))
  <2>1. Keeps(k, k) /\ Keeps(k, startChannel(k, "preview"))
    BY ChannelsKeep, KeepsIt
  <2>2. CASE k.preview = "none"
    BY <2>1, <2>2 DEF startPreview, Steps, Failed
  <2>3. CASE k.preview # "none"
    <3> DEFINE new == startChannel(k, "preview")
               olds == {k, new}
    <3>1. startPreview(k) = Attempt(olds, new)
      BY <2>3 DEF startPreview
    <3>2. Keeps(k, new) /\ \A o \in olds : Keeps(k, o)
      BY <2>1
    <3> HIDE DEF new, olds
    <3> QED BY <3>1, <3>2, AttemptSteps
  <2> QED BY <2>2, <2>3
<1>2. ASSUME NEW r \in startPreview(k)
      PROVE  Keeps(k, r.cam) /\ Keeps(k, unpreparePreview(r.cam)) /\ {"cam", "ok"} \subseteq DOMAIN r
  <2>1. Keeps(k, r.cam) /\ {"cam", "ok"} \subseteq DOMAIN r
    BY <1>1 DEF Steps
  <2> QED BY <2>1, UnprepareKeeps, Then DEF Keeps
<1>3. Steps(k, StartOrUnprepare(k))
  BY <1>2 DEF StartOrUnprepare, Steps, Failed
<1> QED BY <1>1, <1>3

\* A preview prepared, and what follows if that went well.
LEMMA PreparedSteps ==
    ASSUME NEW k, NEW n, Camera(k), Keeps(k, n)
    PROVE  /\ Steps(k, Prepared(n, startPreview))
           /\ Steps(k, Restart(n))
           /\ Steps(k, ApplyAndRestart(n))
           /\ Steps(k, Prepared(n, LAMBDA p : startPreview(Applied(p))))
<1>1. Camera(n)
  BY DEF Keeps
<1>2. ASSUME NEW r \in preparePreview(n)
      PROVE  /\ Keeps(k, r.cam) /\ {"cam", "ok"} \subseteq DOMAIN r
             /\ Steps(k, startPreview(r.cam)) /\ Steps(k, StartOrUnprepare(r.cam))
             /\ Steps(k, startPreview(Applied(r.cam))) /\ Steps(k, StartOrUnprepare(Applied(r.cam)))
  <2>1. Keeps(k, r.cam) /\ {"cam", "ok"} \subseteq DOMAIN r
    BY <1>1, PrepareSteps, Then DEF Steps
  <2>2. Keeps(k, Applied(r.cam))
    BY <2>1, AppliedKeeps, Then DEF Keeps
  <2>3. Steps(k, startPreview(r.cam)) /\ Steps(k, StartOrUnprepare(r.cam))
    BY <2>1, StartSteps, ThenSteps DEF Keeps
  <2>4. Steps(k, startPreview(Applied(r.cam))) /\ Steps(k, StartOrUnprepare(Applied(r.cam)))
    BY <2>2, StartSteps, ThenSteps DEF Keeps
  <2> QED BY <2>1, <2>3, <2>4
<1>3. Steps(k, Prepared(n, startPreview))
  BY <1>2 DEF Prepared, Steps
<1>4. Steps(k, Restart(n))
  BY <1>2 DEF Restart, Prepared, Steps
<1>5. Steps(k, ApplyAndRestart(n))
  BY <1>2 DEF ApplyAndRestart, Prepared, Steps
<1>6. Steps(k, Prepared(n, LAMBDA p : startPreview(Applied(p))))
  BY <1>2 DEF Prepared, Steps
<1> QED BY <1>3, <1>4, <1>5, <1>6

LEMMA MoveSteps ==
    ASSUME NEW k, NEW S, Steps(k, S), NEW good \in States \ {"PREPARE_SNAPSHOT"},
           NEW bad \in States \ {"PREPARE_SNAPSHOT"}
    PROVE  Steps(k, Move(S, good, bad))
<1>1. ASSUME NEW r \in S, NEW st \in States \ {"PREPARE_SNAPSHOT"}
      PROVE  Keeps(k, In(r.cam, st))
  <2>1. Keeps(k, r.cam)
    BY <1>1 DEF Steps
  <2> QED BY <2>1 DEF Keeps, Camera, In, Shows, Flags
<1>2. \A r \in S : {"cam", "ok"} \subseteq DOMAIN r
  BY DEF Steps
<1>3. ASSUME NEW r \in S
      PROVE  LET m == [r EXCEPT !.cam = In(@, IF r.ok THEN good ELSE bad)]
             IN  {"cam", "ok"} \subseteq DOMAIN m /\ Keeps(k, m.cam)
  <2> DEFINE m == [r EXCEPT !.cam = In(@, IF r.ok THEN good ELSE bad)]
  <2>1. m.cam = In(r.cam, IF r.ok THEN good ELSE bad) /\ DOMAIN m = DOMAIN r
    BY <1>2
  <2> QED BY <1>1, <1>2, <2>1
<1> QED BY <1>3 DEF Move, Steps

LEMMA InKeeps ==
    ASSUME NEW k, Camera(k), NEW n, Keeps(k, n), NEW st \in States \ {"PREPARE_SNAPSHOT"}
    PROVE  Keeps(k, In(n, st))
BY DEF Keeps, Camera, In, Shows, Flags

LEMMA HintSteps ==
    ASSUME NEW k, Camera(k), NEW hint
    PROVE  /\ Steps(k, WithHint(k, hint, startPreview))
           /\ Steps(k, WithHint(k, hint, StartOrUnprepare))
<1> DEFINE n == [stopPreview(k) EXCEPT !.hint = hint]
           d == [k EXCEPT !.restart = TRUE]
<1>1. Keeps(k, n)
  <2> DEFINE s == stopPreview(k)
  <2>1. Keeps(k, s) /\ Camera(s)
    BY UnprepareKeeps DEF Keeps
  <2> HIDE DEF s
  <2>2. /\ DOMAIN n = DOMAIN s /\ n.st = s.st /\ n.on = s.on /\ n.held = s.held
        /\ n.prepping = s.prepping /\ n.shot = s.shot /\ n.shots = s.shots
    BY <2>1 DEF Camera, Flags, s
  <2> HIDE DEF n
  <2>3. Keeps(s, n)
    BY <2>1, <2>2, Others DEF Camera
  <2> QED BY <2>1, <2>3, Then
<1>2. Keeps(k, d)
  <2>1. /\ DOMAIN d = DOMAIN k /\ d.st = k.st /\ d.on = k.on /\ d.held = k.held
        /\ d.prepping = k.prepping /\ d.shot = k.shot /\ d.shots = k.shots
    BY DEF Camera, Flags
  <2> HIDE DEF d
  <2> QED BY <2>1, Others DEF Camera
<1>3. Steps(k, {Did(k)}) /\ Steps(k, {Did(d)})
  BY <1>2, KeepsIt DEF Steps, Did
<1>4. Steps(k, Prepared(n, startPreview)) /\ Steps(k, Restart(n))
  BY <1>1, PreparedSteps, Zenon
<1> HIDE DEF n, d
<1>5. Steps(k, WithHint(k, hint, startPreview))
  BY <1>3, <1>4 DEF WithHint, n, d
<1>6. Steps(k, WithHint(k, hint, StartOrUnprepare))
  BY <1>3, <1>4 DEF WithHint, Restart, n, d
<1> QED BY <1>5, <1>6

\* Fields changed that do not matter.
LEMMA PictureKeeps ==
    ASSUME NEW k, Camera(k)
    PROVE  /\ Keeps(k, NewShot(k)) /\ Keeps(k, cancelPicture(k)) /\ Keeps(k, takeLiveSnapshot(k))
           /\ Keeps(k, cancelLiveSnapshot(k)) /\ Keeps(k, PicOverPreview(k))
           /\ \A b, c : /\ Keeps(k, [k EXCEPT !.needRestart = b])
                        /\ Keeps(k, [k EXCEPT !.again = b, !.later = c])
                        /\ Keeps(k, [k EXCEPT !.longshot = b, !.prep = c])
           /\ Keeps(k, [k EXCEPT !.window = TRUE]) /\ Keeps(k, [k EXCEPT !.capture = "stopped"])
           /\ Keeps(k, [k EXCEPT !.delay = TRUE])
<1>1. Keeps(k, NewShot(k))
  <2> DEFINE n == NewShot(k)
  <2>1. /\ DOMAIN n = DOMAIN k /\ n.st = k.st /\ n.on = k.on /\ n.held = k.held
        /\ n.prepping = k.prepping /\ n.shot \in Nat /\ n.shots \in Nat
    BY DEF NewShot, Camera, Flags
  <2> HIDE DEF n
  <2>2. Keeps(k, n)
    BY <2>1, Others
  <2> QED BY <2>2 DEF n
<1>2. Keeps(k, cancelPicture(k))
  <2> DEFINE c == [k EXCEPT !.shot = 0]
  <2>1. Keeps(k, c)
    <3>1. /\ DOMAIN c = DOMAIN k /\ c.st = k.st /\ c.on = k.on /\ c.held = k.held
          /\ c.prepping = k.prepping /\ c.shot = 0 /\ c.shots = k.shots
      BY DEF Camera, Flags
    <3> HIDE DEF c
    <3> QED BY <3>1, Others DEF Camera
  <2> HIDE DEF c
  <2>2. Keeps(k, delChannel(c, "capture"))
    BY <2>1, ChannelsKeep, Then DEF Keeps
  <2> QED BY <2>1, <2>2 DEF cancelPicture, c
<1>3. Keeps(k, takeLiveSnapshot(k)) /\ Keeps(k, cancelLiveSnapshot(k))
  BY Others DEF takeLiveSnapshot, cancelLiveSnapshot, Camera, Flags
<1>4. Keeps(k, PicOverPreview(k))
  BY <1>2, <1>3 DEF PicOverPreview
<1>5. ASSUME NEW b, NEW c
      PROVE  /\ Keeps(k, [k EXCEPT !.needRestart = b])
             /\ Keeps(k, [k EXCEPT !.again = b, !.later = c])
             /\ Keeps(k, [k EXCEPT !.longshot = b, !.prep = c])
  BY Others DEF Camera, Flags
<1>6. Keeps(k, [k EXCEPT !.window = TRUE]) /\ Keeps(k, [k EXCEPT !.capture = "stopped"])
      /\ Keeps(k, [k EXCEPT !.delay = TRUE])
  BY Others DEF Camera, Flags
<1> QED BY <1>1, <1>2, <1>3, <1>4, <1>5, <1>6

LEMMA PictureSteps ==
    ASSUME NEW k, Camera(k)
    PROVE  /\ Steps(k, takePicture(k)) /\ Steps(k, longShot(k)) /\ Steps(k, startRecording(k))
           /\ Steps(k, {stopCaptureChannel(k)})
<1>1. Keeps(k, k) /\ Keeps(k, NewShot(k)) /\ Steps(k, {Failed(k)})
  <2>1. Keeps(k, k)
    BY KeepsIt
  <2>2. Keeps(k, NewShot(k))
    BY PictureKeeps
  <2> QED BY <2>1, <2>2 DEF Steps, Failed
<1>2. Steps(k, takePicture(k))
  <2>1. CASE ZSL
    <3>1. Steps(k, Try(k, NewShot(k)))
      BY <1>1, TrySteps
    <3> QED BY <1>1, <2>1, <3>1 DEF takePicture
  <2>2. CASE ~ZSL
    <3> DEFINE s == stopPreview(k)
               one == NewShot(s)
               added == addChannel(one, "capture")
               new == startChannel(added, "capture")
               olds == {s, delChannel(s, "capture")}
    <3>1. takePicture(k) = Attempt(olds, new)
      BY <2>2 DEF takePicture, addCaptureChannel
    <3>2. Keeps(k, s)
      BY UnprepareKeeps
    <3> HIDE DEF s
    <3>3. Keeps(k, one) /\ Keeps(k, delChannel(s, "capture"))
      BY <3>2, PictureKeeps, ChannelsKeep, Then DEF Keeps
    <3> HIDE DEF one
    <3>4. Keeps(k, added)
      BY <3>3, ChannelsKeep, Then DEF Keeps
    <3> HIDE DEF added
    <3>5. Keeps(k, new)
      BY <3>4, ChannelsKeep, Then DEF Keeps
    <3>6. \A o \in olds : Keeps(k, o)
      BY <3>2, <3>3
    <3> HIDE DEF new, olds
    <3> QED BY <3>1, <3>5, <3>6, AttemptSteps
  <2> QED BY <2>1, <2>2
<1>3. Steps(k, longShot(k))
  <2>1. Steps(k, Try(k, k))
    BY <1>1, TrySteps
  <2> QED BY <1>1, <2>1 DEF longShot
<1>4. Steps(k, startRecording(k))
  <2>1. Steps(k, Try(k, startChannel(k, "video")))
    BY <1>1, ChannelsKeep, TrySteps
  <2> QED BY <1>1, <2>1 DEF startRecording
<1>5. Steps(k, {stopCaptureChannel(k)})
  <2> DEFINE n == [k EXCEPT !.capture = "stopped"]
  <2>1. Keeps(k, n)
    BY PictureKeeps
  <2> HIDE DEF n
  <2>2. Steps(k, {Did(n)})
    BY <2>1 DEF Steps, Did
  <2> QED BY <1>1, <2>2 DEF stopCaptureChannel, n
<1> QED BY <1>2, <1>3, <1>4, <1>5
--------------------------------------------------------------------------------
(* What a handler leaves and answers.                                      *)

LEMMA RepliesAre ==
    ASSUME NEW k, NEW n, Keeps(k, n), NEW x
    PROVE  Fine(k, x, Reply(n, x)) /\ Fine(k, x, Invalid(n, x)) /\ Fine(k, x, Silent(n))
<1>1. Single(<<Result(x, TRUE)>>, x) /\ Single(<<Result(x, FALSE)>>, x)
  BY DEF Single, Result
<1>2. Single(<<>>, x)
  BY DEF Single
<1>3. ASSUME NEW replies, Single(replies, x) PROVE Fine(k, x, {Outcome(n, replies)})
  BY <1>3 DEF Fine, Outcome
<1>4. Fine(k, x, Reply(n, x)) /\ Fine(k, x, Invalid(n, x))
  BY <1>1, <1>3 DEF Reply, Invalid
<1>5. Fine(k, x, Silent(n))
  BY <1>2, <1>3 DEF Silent
<1> QED BY <1>4, <1>5

LEMMA ReportsAre ==
    ASSUME NEW k, NEW S, Steps(k, S), NEW x
    PROVE  Fine(k, x, Report(S, x))
<1>1. ASSUME NEW ok PROVE Single(<<Result(x, ok)>>, x)
  BY DEF Single, Result
<1> QED BY <1>1 DEF Fine, Report, Outcome, Steps

\* Requests that are handled alike in most states.
LEMMA CommonAre ==
    ASSUME NEW k, Camera(k), NEW e
    PROVE  /\ Fine(k, e, SetParams(k, e)) /\ Fine(k, e, SetParamsRecording(k, e))
           /\ Fine(k, e, Commit(k, e)) /\ Fine(k, e, RestartPreview(k, e))
           /\ \A st \in States \ {"PREPARE_SNAPSHOT"} : Fine(k, e, LongshotOff(k, e, st))
           /\ k.st # "PREPARE_SNAPSHOT" => Fine(k, e, Command(k, e))
           /\ e \in {"ENABLE_MSG_TYPE", "PREVIEW_ENABLED"} =>
                  Fine(k, e, Messages(k, e)) /\ Fine(k, e, PreviewingMessages(k, e))
<1>1. ASSUME NEW n, Keeps(k, n), NEW ok PROVE Fine(k, e, {Outcome(n, <<Result(e, ok)>>)})
  <2>1. Single(<<Result(e, ok)>>, e)
    BY DEF Single, Result
  <2> QED BY <1>1, <2>1 DEF Fine, Outcome
<1>2. Fine(k, e, SetParams(k, e))
  <2>1. ASSUME NEW b, NEW ok PROVE Fine(k, e, {Outcome([k EXCEPT !.needRestart = b], <<Result(e, ok)>>)})
    <3>1. Keeps(k, [k EXCEPT !.needRestart = b])
      BY PictureKeeps
    <3> QED BY <1>1, <3>1
  <2>2. ASSUME NEW o \in SetParams(k, e) PROVE Fine(k, e, {o})
    <3> DEFINE new(b, ok) == Outcome([k EXCEPT !.needRestart = b], <<Result(e, ok)>>)
               oks == {TRUE, ~HwMayFail}
    <3>1. SetParams(k, e) = {new(b, ok) : b \in BOOLEAN, ok \in oks}
      BY DEF SetParams
    <3>2. \A b, ok : Fine(k, e, {new(b, ok)})
      BY <2>1
    <3> HIDE DEF new, oks
    <3>3. \E b \in BOOLEAN : \E ok \in oks : o = new(b, ok)
      BY <3>1
    <3> QED BY <3>2, <3>3
  <2> QED BY <2>2 DEF Fine
<1>3. Fine(k, e, SetParamsRecording(k, e))
  <2>1. Keeps(k, [k EXCEPT !.needRestart = FALSE])
    BY PictureKeeps
  <2>2. ASSUME NEW ok \in BOOLEAN
        PROVE  Fine(k, e, {Outcome([k EXCEPT !.needRestart = FALSE], <<Result(e, ok)>>)})
    BY <1>1, <2>1
  <2>3. ASSUME NEW o \in SetParamsRecording(k, e) PROVE Fine(k, e, {o})
    <3>1. PICK ok \in BOOLEAN :
              o = Outcome([k EXCEPT !.needRestart = FALSE], <<Result(e, ok)>>)
      BY DEF SetParamsRecording
    <3> QED BY <2>2, <3>1
  <2> QED BY <2>3 DEF Fine
<1>4. Fine(k, e, Commit(k, e))
  <2>1. Steps(k, Try(k, k))
    BY KeepsIt, TrySteps
  <2> QED BY <2>1, ReportsAre DEF Commit
<1>5. Fine(k, e, RestartPreview(k, e))
  <2>1. Fine(k, e, Reply(stopPreview(k), e))
    BY UnprepareKeeps, RepliesAre
  <2>2. Steps(k, Prepared(k, startPreview))
    BY KeepsIt, PreparedSteps
  <2>3. Fine(k, e, Report(Prepared(k, startPreview), e))
    BY <2>2, ReportsAre
  <2> QED BY <2>1, <2>3 DEF RestartPreview
<1>6. ASSUME NEW st \in States, st = "PREPARE_SNAPSHOT" => k.st = "PREPARE_SNAPSHOT"
      PROVE  Fine(k, e, LongshotOff(k, e, st))
  <2> DEFINE cut == k.longshot /\ isCaptureRunning(k)
             c == IF cut THEN cancelPicture(k) ELSE k
             n == [c EXCEPT !.longshot = FALSE, !.prep = FALSE, !.st = st]
  <2>5. LongshotOff(k, e, st) = {[cam |-> n, replies |-> <<Result(e, TRUE)>>, post |-> cut]}
    BY DEF LongshotOff
  <2>1. Keeps(k, c)
    BY PictureKeeps, KeepsIt
  <2> HIDE DEF cut, c
  <2>2. /\ DOMAIN n = DOMAIN c /\ n.st = st /\ n.on = c.on /\ n.held = c.held
        /\ n.prepping = c.prepping /\ n.shot = c.shot /\ n.shots = c.shots
    BY <2>1 DEF Keeps, Camera, Flags
  <2> HIDE DEF n
  <2>3. Keeps(k, n)
    BY <1>6, <2>1, <2>2 DEF Keeps, Camera, Shows
  <2>4. Single(<<Result(e, TRUE)>>, e)
    BY DEF Single, Result
  <2>6. ASSUME NEW o, o = [cam |-> n, replies |-> <<Result(e, TRUE)>>, post |-> cut]
        PROVE  {"cam", "replies", "post"} \subseteq DOMAIN o /\ Keeps(k, o.cam)
               /\ Single(o.replies, e)
    <3>1. o.cam = n /\ o.replies = <<Result(e, TRUE)>>
      BY <2>6
    <3> QED BY <2>3, <2>4, <2>6, <3>1
  <2> QED BY <2>5, <2>6 DEF Fine
<1>7. ASSUME k.st # "PREPARE_SNAPSHOT" PROVE Fine(k, e, Command(k, e))
  <2>1. Steps(k, LongshotOn(k))
    <3> DEFINE n == [k EXCEPT !.longshot = TRUE, !.prep = FALSE]
    <3>1. Keeps(k, n) /\ Keeps(k, k)
      BY PictureKeeps, KeepsIt
    <3>2. ASSUME NEW r \in LongshotOn(k)
          PROVE  {"cam", "ok"} \subseteq DOMAIN r /\ r.cam \in {n, k}
      <4> HIDE DEF n
      <4>1. CASE isCaptureRunning(k)
        BY <4>1 DEF LongshotOn
      <4>2. CASE ~isCaptureRunning(k)
        <5>1. PICK b : r = [ok |-> TRUE, cam |-> n, again |-> b]
          BY <4>2 DEF LongshotOn, n
        <5> QED BY <5>1
      <4> QED BY <4>1, <4>2
    <3> HIDE DEF n
    <3> QED BY <3>1, <3>2 DEF Steps
  <2>2. Fine(k, e, Report(LongshotOn(k), e))
    BY <2>1, ReportsAre
  <2>3. Fine(k, e, LongshotOff(k, e, k.st))
    BY <1>6, <1>7 DEF Camera
  <2> QED BY <2>2, <2>3 DEF Command
<1>8. ASSUME e \in {"ENABLE_MSG_TYPE", "PREVIEW_ENABLED"}
      PROVE  Fine(k, e, Messages(k, e)) /\ Fine(k, e, PreviewingMessages(k, e))
  <2> DEFINE on == [k EXCEPT !.on = TRUE]
             held == [k EXCEPT !.held = TRUE]
  <2>1. Keeps(k, on) /\ Keeps(k, held)
    BY DEF Keeps, Camera, Flags, Shows
  <2> HIDE DEF on, held
  <2>2. Fine(k, e, Reply(on, e)) /\ Fine(k, e, Reply(IF k.delay THEN held ELSE on, e))
    BY <2>1, RepliesAre
  <2>3. Fine(k, e, Reply(k, e)) /\ Fine(k, e, Reply(Applied(k), e))
    BY KeepsIt, AppliedKeeps, RepliesAre
  <2>4. CASE e = "ENABLE_MSG_TYPE"
    BY <2>2, <2>4 DEF Messages, PreviewingMessages, on, held
  <2>5. CASE e = "PREVIEW_ENABLED"
    BY <2>3, <2>5 DEF Messages, PreviewingMessages
  <2> QED BY <1>8, <2>4, <2>5
<1> QED BY <1>2, <1>3, <1>4, <1>5, <1>6, <1>7, <1>8

LEMMA StoppedAre ==
    ASSUME NEW k, Camera(k), k.st = "STOPPED", NEW e \in Enabling
    PROVE  Fine(k, e, Stopped(k, e))
<1>1. CASE e \in Settings
  <2>1. Keeps(k, [k EXCEPT !.window = TRUE]) /\ Keeps(k, [k EXCEPT !.needRestart = FALSE])
    BY PictureKeeps
  <2>2. /\ Fine(k, e, Reply([k EXCEPT !.window = TRUE], e)) /\ Fine(k, e, Reply(k, e))
        /\ Fine(k, e, Reply([k EXCEPT !.needRestart = FALSE], e))
    BY <2>1, KeepsIt, RepliesAre
  <2>3. Fine(k, e, SetParams(k, e)) /\ Fine(k, e, Commit(k, e))
    BY CommonAre
  <2>4. e \in {"ENABLE_MSG_TYPE", "PREVIEW_ENABLED"} => Fine(k, e, Messages(k, e))
    BY CommonAre
  <2>5. Fine(k, e, StoppedSettings(k, e))
    <3>1. CASE e = "SET_PREVIEW_WINDOW"
      BY <2>2, <3>1 DEF StoppedSettings
    <3>2. CASE e = "SET_PARAMS"
      BY <2>3, <3>2 DEF StoppedSettings
    <3>3. CASE e \in {"SET_PARAMS_STOP", "SET_PARAMS_RESTART"}
      BY <2>2, <3>3 DEF StoppedSettings
    <3>4. CASE e = "SET_PARAMS_COMMIT"
      BY <2>3, <3>4 DEF StoppedSettings
    <3>5. CASE e \in {"ENABLE_MSG_TYPE", "PREVIEW_ENABLED"}
      BY <2>4, <3>5 DEF StoppedSettings
    <3>6. \/ e \in {"SET_PREVIEW_WINDOW", "SET_PARAMS", "SET_PARAMS_COMMIT"}
          \/ e \in {"SET_PARAMS_STOP", "SET_PARAMS_RESTART"}
          \/ e \in {"ENABLE_MSG_TYPE", "PREVIEW_ENABLED"}
      BY <1>1 DEF Settings, Enabling
    <3> QED BY <3>1, <3>2, <3>3, <3>4, <3>5, <3>6
  <2> QED BY <1>1, <2>5 DEF Stopped, Settings, Restarts, StoppedRefuses
<1>2. CASE e \notin Settings
  <2>1. Steps(k, Move(preparePreview(k), "READY", "STOPPED"))
    BY PrepareSteps, MoveSteps DEF States
  <2>2. Steps(k, Move(ApplyAndRestart(k), "PREVIEWING", "STOPPED"))
    BY PreparedSteps, KeepsIt, MoveSteps DEF States
  <2>3. /\ Fine(k, e, Report(Move(preparePreview(k), "READY", "STOPPED"), e))
        /\ Fine(k, e, Report(Move(ApplyAndRestart(k), "PREVIEWING", "STOPPED"), e))
    BY <2>1, <2>2, ReportsAre
  <2>4. /\ Fine(k, e, Reply(release(k), e)) /\ Fine(k, e, Command(k, e))
        /\ Fine(k, e, Reply(k, e)) /\ Fine(k, e, Invalid(k, e)) /\ Fine(k, e, Silent(k))
    BY UnprepareKeeps, KeepsIt, RepliesAre, CommonAre
  <2> QED BY <1>2, <2>3, <2>4 DEF Stopped
<1> QED BY <1>1, <1>2

LEMMA ReadyAre ==
    ASSUME NEW k, Camera(k), k.st = "READY", NEW e \in Enabling
    PROVE  Fine(k, e, Ready(k, e))
<1>1. CASE e \in Settings
  <2> DEFINE shown == [k EXCEPT !.window = TRUE]
             once == [k EXCEPT !.needRestart = FALSE]
  <2>1. Keeps(k, shown) /\ Keeps(k, once)
    BY PictureKeeps
  <2> HIDE DEF shown, once
  <2>2. Keeps(k, Applied(shown))
    BY <2>1, AppliedKeeps, Then DEF Keeps
  <2>3. Steps(k, StartOrUnprepare(Applied(shown)))
    BY <2>2, StartSteps, ThenSteps DEF Keeps
  <2>4. Steps(k, Move(StartOrUnprepare(Applied(shown)), "PREVIEWING", "STOPPED"))
    BY <2>3, MoveSteps DEF States
  <2>5. Steps(k, preparePreview(once))
    BY <2>1, PrepareSteps, ThenSteps DEF Keeps
  <2>6. Steps(k, Move(preparePreview(once), "READY", "STOPPED"))
    BY <2>5, MoveSteps DEF States
  <2>7. Fine(k, e, ReadySettings(k, e))
    <3>1. CASE e = "SET_PREVIEW_WINDOW"
      BY <2>4, <3>1, ReportsAre DEF ReadySettings, shown
    <3>2. CASE e = "SET_PARAMS"
      BY <3>2, CommonAre DEF ReadySettings
    <3>3. CASE e = "SET_PARAMS_STOP"
      <4>1. Fine(k, e, Reply(unpreparePreview(k), e))
        BY UnprepareKeeps, RepliesAre
      <4> QED BY <3>3, <4>1 DEF ReadySettings
    <3>4. CASE e = "SET_PARAMS_COMMIT"
      BY <3>4, CommonAre DEF ReadySettings
    <3>5. CASE e = "SET_PARAMS_RESTART"
      BY <2>6, <3>5, ReportsAre DEF ReadySettings, once
    <3>6. CASE e \in {"ENABLE_MSG_TYPE", "PREVIEW_ENABLED"}
      <4>1. Fine(k, e, Messages(k, e))
        BY <3>6, CommonAre
      <4> QED BY <3>6, <4>1 DEF ReadySettings
    <3> QED BY <1>1, <3>1, <3>2, <3>3, <3>4, <3>5, <3>6 DEF Settings, Enabling
  <2> QED BY <1>1, <2>7 DEF Ready, Settings, ReadyRefuses, Restarts, StoppedRefuses
<1>2. CASE e \notin Settings
  <2>1. Fine(k, e, UNION {Reply(r.cam, e) : r \in Move(StartOrUnprepare(k), "PREVIEWING", "STOPPED")})
    <3>1. Steps(k, Move(StartOrUnprepare(k), "PREVIEWING", "STOPPED"))
      BY StartSteps, MoveSteps DEF States
    <3> DEFINE S == Move(StartOrUnprepare(k), "PREVIEWING", "STOPPED")
    <3> HIDE DEF S
    <3>2. ASSUME NEW r \in S PROVE Fine(k, e, Reply(r.cam, e))
      BY <3>1, RepliesAre DEF Steps, S
    <3> QED BY <3>2 DEF Fine, S
  <2>2. Fine(k, e, Reply(In(unpreparePreview(k), "STOPPED"), e))
    <3>1. Keeps(k, In(unpreparePreview(k), "STOPPED"))
      BY UnprepareKeeps, InKeeps DEF States
    <3> QED BY <3>1, RepliesAre
  <2>3. /\ Fine(k, e, Command(k, e))
        /\ Fine(k, e, Reply(k, e)) /\ Fine(k, e, Invalid(k, e)) /\ Fine(k, e, Silent(k))
    BY KeepsIt, RepliesAre, CommonAre
  <2> QED BY <1>2, <2>1, <2>2, <2>3 DEF Ready
<1> QED BY <1>1, <1>2

LEMMA RecordingAre ==
    ASSUME NEW k, Camera(k), k.st = "RECORDING", NEW e \in Enabling
    PROVE  Fine(k, e, Recording(k, e))
<1>1. /\ Fine(k, e, Reply(k, e)) /\ Fine(k, e, Invalid(k, e)) /\ Fine(k, e, Silent(k))
      /\ Fine(k, e, Command(k, e))
  BY KeepsIt, RepliesAre, CommonAre
<1>2. Fine(k, e, SetParamsRecording(k, e)) /\ Fine(k, e, Commit(k, e))
  BY CommonAre
<1>3. e \in {"ENABLE_MSG_TYPE", "PREVIEW_ENABLED"} => Fine(k, e, Messages(k, e))
  BY CommonAre
<1>4. CASE e \in Settings
  <2>1. Fine(k, e, RecordingSettings(k, e))
    <3>1. CASE e \in {"ENABLE_MSG_TYPE", "PREVIEW_ENABLED"}
      BY <1>3, <3>1 DEF RecordingSettings
    <3>2. CASE e \notin {"ENABLE_MSG_TYPE", "PREVIEW_ENABLED"}
      BY <1>1, <1>2, <1>4, <3>2 DEF RecordingSettings, Settings, Enabling
    <3> QED BY <3>1, <3>2
  <2> QED BY <1>4, <2>1 DEF Recording, Settings, Restarts, RecordingIgnores, RecordingRefuses
<1>5. CASE e \notin Settings
  <2>1. Keeps(k, stopRecording(k)) /\ Keeps(k, takeLiveSnapshot(k))
    BY UnprepareKeeps, PictureKeeps
  <2>2. Keeps(k, stopPreview(stopRecording(k)))
    BY <2>1, UnprepareKeeps, Then DEF Keeps
  <2>3. Fine(k, e, Reply(In(takeLiveSnapshot(k), "VIDEO_PIC_TAKING"), e))
    BY <2>1, InKeeps, RepliesAre DEF States
  <2>4. Fine(k, e, Reply(In(stopRecording(k), "PREVIEWING"), e))
    BY <2>1, InKeeps, RepliesAre DEF States
  <2>5. Fine(k, e, Reply(StopAll(k), e))
    BY <2>2, InKeeps, RepliesAre DEF States, StopAll
  <2> QED BY <1>1, <1>5, <2>3, <2>4, <2>5 DEF Recording
<1> QED BY <1>4, <1>5

LEMMA VideoPicTakingAre ==
    ASSUME NEW k, Camera(k), k.st = "VIDEO_PIC_TAKING", NEW e \in Enabling
    PROVE  Fine(k, e, VideoPicTaking(k, e))
<1>1. /\ Fine(k, e, Reply(k, e)) /\ Fine(k, e, Invalid(k, e)) /\ Fine(k, e, Silent(k))
      /\ Fine(k, e, Command(k, e))
  BY KeepsIt, RepliesAre, CommonAre
<1>2. Fine(k, e, SetParamsRecording(k, e)) /\ Fine(k, e, Commit(k, e))
  BY CommonAre
<1>3. e \in {"ENABLE_MSG_TYPE", "PREVIEW_ENABLED"} => Fine(k, e, Messages(k, e))
  BY CommonAre
<1>4. CASE e \in Settings
  <2>1. Fine(k, e, VideoPicTakingSettings(k, e))
    <3>1. CASE e \in {"ENABLE_MSG_TYPE", "PREVIEW_ENABLED"}
      BY <1>3, <3>1 DEF VideoPicTakingSettings
    <3>2. CASE e \notin {"ENABLE_MSG_TYPE", "PREVIEW_ENABLED"}
      BY <1>1, <1>2, <1>4, <3>2 DEF VideoPicTakingSettings, Settings, Enabling
    <3> QED BY <3>1, <3>2
  <2> QED BY <1>4, <2>1 DEF VideoPicTaking, Settings, Restarts, VideoPicTakingRefuses
<1>5. CASE e \notin Settings
  <2> DEFINE c == cancelLiveSnapshot(k)
  <2>1. Keeps(k, c)
    BY PictureKeeps
  <2> HIDE DEF c
  <2>2. Keeps(k, stopRecording(c))
    BY <2>1, UnprepareKeeps, Then DEF Keeps
  <2>3. Keeps(k, stopPreview(stopRecording(c)))
    BY <2>2, UnprepareKeeps, Then DEF Keeps
  <2>4. Fine(k, e, Reply(In(stopRecording(c), "PREVIEWING"), e))
    BY <2>2, InKeeps, RepliesAre DEF States
  <2>5. Fine(k, e, Reply(StopAll(c), e))
    BY <2>3, InKeeps, RepliesAre DEF States, StopAll
  <2>6. Fine(k, e, Reply(In(c, "RECORDING"), e)) /\ Fine(k, e, Silent(In(c, "RECORDING")))
    BY <2>1, InKeeps, RepliesAre DEF States
  <2> QED BY <1>1, <1>5, <2>4, <2>5, <2>6 DEF VideoPicTaking, c
<1> QED BY <1>4, <1>5

\* A snapshot that was prepared is prepared no more.
LEMMA PrepareSnapshotAre ==
    ASSUME NEW k, Camera(k), k.st = "PREPARE_SNAPSHOT", NEW e \in Requests
    PROVE  /\ Fine(k, Asks(e), PrepareSnapshot(k, e))
           /\ e = "PREP_SNAPSHOT_DONE" =>
                  \A o \in PrepareSnapshot(k, e) : o.cam.st # "PREPARE_SNAPSHOT"
<1>1. CASE e = "PREP_SNAPSHOT_DONE"
  <2>1. Keeps(k, In(k, "PREVIEWING"))
    BY KeepsIt, InKeeps DEF States
  <2>2. Asks(e) = "PREPARE_SNAPSHOT"
    BY <1>1 DEF Asks
  <2>3. PrepareSnapshot(k, e) = Reply(In(k, "PREVIEWING"), "PREPARE_SNAPSHOT")
    BY <1>1 DEF PrepareSnapshot
  <2>4. Fine(k, Asks(e), PrepareSnapshot(k, e))
    BY <2>1, <2>2, <2>3, RepliesAre
  <2>5. \A o \in PrepareSnapshot(k, e) : o.cam = In(k, "PREVIEWING")
    BY <2>3 DEF Reply, Outcome
  <2>6. In(k, "PREVIEWING").st = "PREVIEWING"
    BY DEF In, Camera
  <2> QED BY <2>4, <2>5, <2>6
<1>2. CASE e # "PREP_SNAPSHOT_DONE"
  <2>1. \A x : Fine(k, x, Silent(k))
    BY KeepsIt, RepliesAre
  <2>2. Fine(k, e, Invalid(k, e))
    BY KeepsIt, RepliesAre
  <2>3. e # "READY_FOR_SNAPSHOT" => Asks(e) = e
    BY <1>2 DEF Asks
  <2>4. e # "DAEMON_DIED"
    BY DEF Requests, Settings, StoppedRefuses, Restarts
  <2>5. CASE e = "READY_FOR_SNAPSHOT"
    BY <1>2, <2>1, <2>5 DEF PrepareSnapshot
  <2>6. CASE e # "READY_FOR_SNAPSHOT"
    BY <1>2, <2>1, <2>2, <2>3, <2>4, <2>6 DEF PrepareSnapshot
  <2> QED BY <1>2, <2>5, <2>6
<1> QED BY <1>1, <1>2

LEMMA PicTakingAre ==
    ASSUME NEW k, Camera(k), k.st = "PIC_TAKING", NEW e \in Enabling
    PROVE  Fine(k, Asks(e), PicTaking(k, e))
<1>1. \A x : Fine(k, x, Silent(k))
  BY KeepsIt, RepliesAre
<1>2. CASE e \in Settings
  <2> DEFINE once == [k EXCEPT !.needRestart = FALSE]
  <2>1. Fine(k, e, Reply(once, e)) /\ Fine(k, e, Reply(k, e)) /\ Fine(k, e, Invalid(k, e))
    <3>1. Keeps(k, once)
      BY PictureKeeps
    <3> HIDE DEF once
    <3> QED BY <3>1, KeepsIt, RepliesAre
  <2>2. Fine(k, e, SetParams(k, e)) /\ Fine(k, e, Commit(k, e))
    BY CommonAre
  <2>3. e \in {"ENABLE_MSG_TYPE", "PREVIEW_ENABLED"} => Fine(k, e, Messages(k, e))
    BY CommonAre
  <2>4. Fine(k, e, PicTakingSettings(k, e))
    <3>1. CASE e \in {"ENABLE_MSG_TYPE", "PREVIEW_ENABLED"}
      BY <2>3, <3>1 DEF PicTakingSettings
    <3>2. CASE e \notin {"ENABLE_MSG_TYPE", "PREVIEW_ENABLED"}
      BY <1>2, <2>1, <2>2, <3>2 DEF PicTakingSettings, Settings, Enabling
    <3> QED BY <3>1, <3>2
  <2>5. Asks(e) = e
    BY <1>2 DEF Asks, Settings
  <2> QED BY <1>2, <2>4, <2>5 DEF PicTaking, Settings, Reports
<1>3. CASE e \in Reports
  <2>1. CASE e = "STOP_CAPTURE_CHANNEL"
    <3> DEFINE c == stopCaptureChannel(k)
               S == IF c.ok /\ RestartEarly
                    THEN Prepared(c.cam, LAMBDA p : startPreview(Applied(p))) ELSE {c}
    <3>1. Steps(k, {c}) /\ Keeps(k, c.cam)
      BY PictureSteps DEF Steps
    <3>2. Steps(k, Prepared(c.cam, LAMBDA p : startPreview(Applied(p))))
      BY <3>1, PreparedSteps
    <3>3. Steps(k, S)
      BY <3>1, <3>2
    <3>4. PicTakingReports(k, e) = Report(S, e)
      BY <2>1 DEF PicTakingReports
    <3> HIDE DEF S
    <3>5. Fine(k, e, PicTakingReports(k, e)) /\ Asks(e) = e
      BY <2>1, <3>3, <3>4, ReportsAre DEF Asks
    <3> QED BY <1>3, <3>5 DEF PicTaking, Settings, Reports
  <2>2. CASE e = "SNAPSHOT_DONE"
    <3> DEFINE st == IF RestartEarly THEN "PREVIEWING" ELSE "STOPPED"
               n == In(cancelPicture(k), st)
    <3>1. Keeps(k, n)
      BY PictureKeeps, InKeeps DEF States
    <3>2. PicTakingReports(k, e) = Silent(n)
      BY <2>2 DEF PicTakingReports
    <3> HIDE DEF n
    <3>3. Fine(k, e, PicTakingReports(k, e)) /\ Asks(e) = e
      BY <2>2, <3>1, <3>2, RepliesAre DEF Asks
    <3> QED BY <1>3, <3>3 DEF PicTaking, Settings, Reports
  <2>3. CASE e \notin {"STOP_CAPTURE_CHANNEL", "SNAPSHOT_DONE"}
    <3>1. PicTakingReports(k, e) = Silent(k)
      BY <1>3, <2>3 DEF PicTakingReports, Reports, Enabling, Requests, Settings, StoppedRefuses,
                        Restarts
    <3> QED BY <1>1, <1>3, <3>1 DEF PicTaking, Settings, Reports
  <2> QED BY <2>1, <2>2, <2>3
<1>4. CASE e \notin Settings \cup Reports
  <2>1. /\ Fine(k, e, Reply(k, e)) /\ Fine(k, e, Invalid(k, e)) /\ Fine(k, e, Silent(k))
        /\ Fine(k, e, Command(k, e)) /\ Fine(k, e, LongshotOff(k, e, "PREVIEWING"))
    BY KeepsIt, RepliesAre, CommonAre DEF States
  <2>2. Fine(k, e, Reply(In(cancelPicture(k), "STOPPED"), e))
    BY PictureKeeps, InKeeps, RepliesAre DEF States
  <2>3. Fine(k, e, Report(longShot(k), e))
    BY PictureSteps, ReportsAre
  <2>4. Asks(e) = e
    BY <1>4 DEF Asks, Reports
  <2> QED BY <1>4, <2>1, <2>2, <2>3, <2>4 DEF PicTaking
<1> QED BY <1>2, <1>3, <1>4

LEMMA TakePictureIs ==
    ASSUME NEW k, Camera(k), NEW e
    PROVE  Fine(k, e, PreviewingTakePicture(k, e))
<1> DEFINE hidden == [stopPreview(k) EXCEPT !.hint = FALSE]
           shown == IF k.hint THEN Prepared(hidden, StartOrUnprepare) ELSE {Did(k)}
           taken(p) == Move(takePicture([p EXCEPT !.delay = TRUE]), "PREVIEW_PIC_TAKING", "PREVIEWING")
           fromPreview(p) ==
               UNION {IF r.ok /\ r.cam.retro THEN Silent(r.cam) ELSE Report({r}, e) : r \in taken(p)}
           again(n) == Move(Restart(stopPreview(n)), "PREVIEWING", "STOPPED")
           fromCapture(p) ==
               UNION {IF r.ok THEN Reply(In(r.cam, "PIC_TAKING"), e)
                      ELSE UNION {Invalid(q.cam, e) : q \in again(r.cam)} : r \in takePicture(p)}
<1>1. PreviewingTakePicture(k, e) =
          UNION {IF ZSL \/ r.cam.longshot THEN fromPreview(r.cam) ELSE fromCapture(r.cam) : r \in shown}
  BY DEF PreviewingTakePicture
<1>2. Keeps(k, hidden)
  <2> DEFINE s == stopPreview(k)
             n == [s EXCEPT !.hint = FALSE]
  <2>1. Keeps(k, s) /\ Camera(s)
    BY UnprepareKeeps DEF Keeps
  <2> HIDE DEF s
  <2>2. /\ DOMAIN n = DOMAIN s /\ n.st = s.st /\ n.on = s.on /\ n.held = s.held
        /\ n.prepping = s.prepping /\ n.shot = s.shot /\ n.shots = s.shots
    BY <2>1 DEF Camera, Flags
  <2> HIDE DEF n
  <2>3. Keeps(s, n)
    BY <2>1, <2>2, Others DEF Camera
  <2>4. Keeps(k, n)
    BY <2>1, <2>3, Then
  <2> QED BY <2>4 DEF n, s
<1>3. Steps(k, shown)
  <2> HIDE DEF hidden
  <2>1. Steps(k, Restart(hidden))
    BY <1>2, PreparedSteps
  <2>2. Steps(k, {Did(k)})
    BY KeepsIt DEF Steps, Did
  <2> QED BY <2>1, <2>2 DEF Restart
<1>4. ASSUME NEW p, Keeps(k, p) PROVE Fine(k, e, fromPreview(p))
  <2> DEFINE d == [p EXCEPT !.delay = TRUE]
  <2>1. Keeps(p, d)
    BY <1>4, PictureKeeps DEF Keeps
  <2> HIDE DEF d
  <2>2. Keeps(k, d) /\ Camera(d)
    BY <1>4, <2>1, Then DEF Keeps
  <2>3. Steps(k, takePicture(d))
    BY <2>2, PictureSteps, ThenSteps
  <2>4. Steps(k, Move(takePicture(d), "PREVIEW_PIC_TAKING", "PREVIEWING"))
    BY <2>3, MoveSteps DEF States
  <2>5. Steps(k, taken(p))
    BY <2>4 DEF d
  <2> DEFINE S == taken(p)
  <2> HIDE DEF S
  <2>6. ASSUME NEW r \in S PROVE Fine(k, e, Silent(r.cam)) /\ Fine(k, e, Report({r}, e))
    <3>1. Keeps(k, r.cam) /\ Steps(k, {r})
      BY <2>5 DEF Steps, S
    <3> QED BY <3>1, RepliesAre, ReportsAre
  <2>7. Fine(k, e, UNION {IF r.ok /\ r.cam.retro THEN Silent(r.cam) ELSE Report({r}, e) : r \in S})
    BY <2>6 DEF Fine
  <2> QED BY <2>7 DEF S
<1>5. ASSUME NEW p, Keeps(k, p) PROVE Fine(k, e, fromCapture(p))
  <2>1. Steps(k, takePicture(p))
    BY <1>5, PictureSteps, ThenSteps DEF Keeps
  <2>2. ASSUME NEW n, Keeps(k, n) PROVE Fine(k, e, UNION {Invalid(q.cam, e) : q \in again(n)})
    <3>1. Keeps(n, stopPreview(n)) /\ Camera(n)
      BY <2>2, UnprepareKeeps DEF Keeps
    <3>2. Steps(n, again(n))
      BY <3>1, PreparedSteps, MoveSteps DEF States
    <3> DEFINE S == again(n)
    <3> HIDE DEF S
    <3>3. Steps(k, S)
      BY <2>2, <3>2, ThenSteps DEF S
    <3>4. \A q \in S : Fine(k, e, Invalid(q.cam, e))
      BY <3>3, RepliesAre DEF Steps
    <3>5. Fine(k, e, UNION {Invalid(q.cam, e) : q \in S})
      BY <3>4 DEF Fine
    <3> QED BY <3>5 DEF S
  <2> DEFINE bad(n) == UNION {Invalid(q.cam, e) : q \in again(n)}
  <2>3. ASSUME NEW r \in takePicture(p)
        PROVE  Fine(k, e, Reply(In(r.cam, "PIC_TAKING"), e)) /\ Fine(k, e, bad(r.cam))
    <3>1. Keeps(k, r.cam)
      BY <2>1 DEF Steps
    <3>2. Keeps(k, In(r.cam, "PIC_TAKING"))
      BY <3>1, InKeeps DEF States
    <3> QED BY <2>2, <3>1, <3>2, RepliesAre
  <2> DEFINE S == takePicture(p)
  <2> HIDE DEF bad, S
  <2>4. Fine(k, e, UNION {IF r.ok THEN Reply(In(r.cam, "PIC_TAKING"), e) ELSE bad(r.cam) : r \in S})
    BY <2>3 DEF Fine, S
  <2> QED BY <2>4 DEF S, bad
<1>6. ASSUME NEW r \in shown PROVE Fine(k, e, fromPreview(r.cam)) /\ Fine(k, e, fromCapture(r.cam))
  <2>1. Keeps(k, r.cam)
    BY <1>3 DEF Steps
  <2> HIDE DEF fromPreview, fromCapture
  <2> QED BY <1>4, <1>5, <2>1
<1> HIDE DEF fromPreview, fromCapture, shown
<1>7. Fine(k, e, UNION {IF ZSL \/ r.cam.longshot THEN fromPreview(r.cam)
                        ELSE fromCapture(r.cam) : r \in shown})
  BY <1>6 DEF Fine
<1> QED BY <1>1, <1>7

LEMMA LongshotIs ==
    ASSUME NEW k, Camera(k), NEW e
    PROVE  Fine(k, e, PreviewingLongshotOn(k, e))
<1> DEFINE c(r) == [r.cam EXCEPT !.again = r.again, !.later = r.again /\ DualCamera]
           done(r) == Report({[r EXCEPT !.cam = c(r)]}, e)
           stopped(r) == Reply(stopPreview(c(r)), e)
           started(r) == Report(ApplyAndRestart(stopPreview(c(r))), e)
<1>1. ASSUME NEW r \in LongshotOn(k)
      PROVE  Keeps(k, r.cam) /\ {"cam", "ok"} \subseteq DOMAIN r
  <2> DEFINE n == [k EXCEPT !.longshot = TRUE, !.prep = FALSE]
  <2>1. Keeps(k, n) /\ Keeps(k, k)
    BY PictureKeeps, KeepsIt
  <2> HIDE DEF n
  <2>2. CASE isCaptureRunning(k)
    BY <2>1, <2>2 DEF LongshotOn
  <2>3. CASE ~isCaptureRunning(k)
    <3>1. PICK b : r = [ok |-> TRUE, cam |-> n, again |-> b]
      BY <2>3 DEF LongshotOn, n
    <3> QED BY <2>1, <3>1
  <2> QED BY <2>2, <2>3
<1>2. ASSUME NEW r \in LongshotOn(k)
      PROVE  Fine(k, e, done(r)) /\ Fine(k, e, stopped(r)) /\ Fine(k, e, started(r))
  <2> DEFINE d == c(r)
  <2>1. Keeps(k, r.cam) /\ {"cam", "ok"} \subseteq DOMAIN r /\ Camera(r.cam)
    BY <1>1 DEF Keeps
  <2>2. Keeps(r.cam, d)
    BY <2>1, PictureKeeps
  <2> HIDE DEF d
  <2>3. Keeps(k, d) /\ Camera(d)
    BY <2>1, <2>2, Then DEF Keeps
  <2>4. Keeps(k, stopPreview(d))
    BY <2>3, UnprepareKeeps, Then
  <2>5. Steps(k, ApplyAndRestart(stopPreview(d)))
    BY <2>4, PreparedSteps
  <2>6. Steps(k, {[r EXCEPT !.cam = d]})
    <3>1. [r EXCEPT !.cam = d].cam = d
      BY <2>1
    <3> QED BY <2>1, <2>3, <3>1 DEF Steps
  <2>7. Fine(k, e, Report({[r EXCEPT !.cam = d]}, e))
    BY <2>6, ReportsAre
  <2>8. Fine(k, e, Reply(stopPreview(d), e)) /\ Fine(k, e, Report(ApplyAndRestart(stopPreview(d)), e))
    BY <2>4, <2>5, RepliesAre, ReportsAre
  <2> QED BY <2>7, <2>8 DEF d
<1>3. PreviewingLongshotOn(k, e) =
          UNION {IF ~r.again THEN done(r) ELSE IF c(r).later THEN stopped(r) ELSE started(r) :
                     r \in LongshotOn(k)}
  BY DEF PreviewingLongshotOn
<1> HIDE DEF done, stopped, started, c
<1> QED BY <1>2, <1>3 DEF Fine

LEMMA PreviewingAre ==
    ASSUME NEW k, Camera(k), k.st = "PREVIEWING", NEW e \in Enabling \ {"PREPARE_SNAPSHOT"}
    PROVE  Fine(k, Asks(e), Previewing(k, e))
<1>1. \A x : Fine(k, x, Silent(k))
  BY KeepsIt, RepliesAre
<1>2. CASE e \in Settings
  <2> DEFINE once == [k EXCEPT !.needRestart = FALSE]
  <2>1. Fine(k, e, Reply(stopPreview(k), e)) /\ Fine(k, e, Invalid(k, e))
    BY UnprepareKeeps, KeepsIt, RepliesAre
  <2>2. Fine(k, e, SetParams(k, e)) /\ Fine(k, e, Commit(k, e))
    BY CommonAre
  <2>3. e \in {"ENABLE_MSG_TYPE", "PREVIEW_ENABLED"} => Fine(k, e, PreviewingMessages(k, e))
    BY CommonAre
  <2>4. Fine(k, e, PreviewingRestart(k, e))
    <3>1. Keeps(k, once)
      BY PictureKeeps
    <3> HIDE DEF once
    <3>2. Steps(k, preparePreview(once))
      BY <3>1, PrepareSteps, ThenSteps DEF Keeps
    <3> DEFINE go(p) == Move(StartOrUnprepare(Applied(p)), "PREVIEWING", "STOPPED")
    <3>3. ASSUME NEW r \in preparePreview(once) PROVE Steps(k, go(r.cam))
      <4>1. Keeps(k, Applied(r.cam))
        BY <3>2, AppliedKeeps, Then DEF Steps, Keeps
      <4>2. Steps(k, StartOrUnprepare(Applied(r.cam)))
        BY <4>1, StartSteps, ThenSteps DEF Keeps
      <4> QED BY <4>2, MoveSteps DEF States
    <3>4. PreviewingRestart(k, e) = Report(Prepared(once, go), e)
      BY DEF PreviewingRestart, once
    <3> HIDE DEF go
    <3>5. Steps(k, Prepared(once, go))
      BY <3>2, <3>3 DEF Prepared, Steps
    <3> QED BY <3>4, <3>5, ReportsAre
  <2>5. Fine(k, e, PreviewingSettings(k, e))
    <3>1. CASE e \in {"ENABLE_MSG_TYPE", "PREVIEW_ENABLED"}
      BY <2>3, <3>1 DEF PreviewingSettings
    <3>2. CASE e \notin {"ENABLE_MSG_TYPE", "PREVIEW_ENABLED"}
      BY <1>2, <2>1, <2>2, <2>4, <3>2 DEF PreviewingSettings, Settings, Enabling
    <3> QED BY <3>1, <3>2
  <2>6. Asks(e) = e
    BY <1>2 DEF Asks, Settings
  <2> QED BY <1>2, <2>5, <2>6 DEF Previewing, Settings, Restarts, PreviewingRefuses
<1>3. CASE e \in Reports
  <2>1. Previewing(k, e) = Silent(k)
    BY <1>3 DEF Previewing, Reports, Settings, Restarts, PreviewingRefuses
  <2> QED BY <1>1, <2>1
<1>4. CASE e \notin Settings \cup Reports
  <2>1. /\ Fine(k, e, Reply(Applied(k), e))
        /\ Fine(k, e, Reply(k, e)) /\ Fine(k, e, Invalid(k, e)) /\ Fine(k, e, Silent(k))
    BY AppliedKeeps, KeepsIt, RepliesAre
  <2>2. Fine(k, e, Reply(In(Applied(stopPreview(k)), "STOPPED"), e))
    <3>1. Keeps(k, Applied(stopPreview(k)))
      BY UnprepareKeeps, AppliedKeeps, Then DEF Keeps
    <3>2. Keeps(k, In(Applied(stopPreview(k)), "STOPPED"))
      BY <3>1, InKeeps DEF States
    <3> QED BY <3>2, RepliesAre
  <2>3. Fine(k, e, Report(preStartRecording(k), e)) /\ Fine(k, e, Report(preTakePicture(k), e))
    BY HintSteps, ReportsAre DEF preStartRecording, preTakePicture
  <2>4. Fine(k, e, Report({IF r.ok THEN Did(Applied(In(r.cam, "RECORDING"))) ELSE r :
                              r \in startRecording(k)}, e))
    <3>1. ASSUME NEW r \in startRecording(k)
          PROVE  Keeps(k, Applied(In(r.cam, "RECORDING"))) /\ Steps(k, {r})
      <4>1. Keeps(k, r.cam) /\ Steps(k, {r})
        BY PictureSteps DEF Steps
      <4>2. Keeps(k, In(r.cam, "RECORDING"))
        BY <4>1, InKeeps DEF States
      <4> QED BY <4>1, <4>2, AppliedKeeps, Then DEF Keeps
    <3>2. Steps(k, {IF r.ok THEN Did(Applied(In(r.cam, "RECORDING"))) ELSE r : r \in startRecording(k)})
      BY <3>1 DEF Steps, Did
    <3> QED BY <3>2, ReportsAre
  <2>5. /\ Fine(k, e, PreviewingTakePicture(k, e)) /\ Fine(k, e, PreviewingLongshotOn(k, e))
        /\ Fine(k, e, RestartPreview(k, e))
    BY TakePictureIs, LongshotIs, CommonAre
  <2>6. Fine(k, e, LongshotOff([k EXCEPT !.again = FALSE, !.later = FALSE], e, "PREVIEWING"))
    <3> DEFINE n == [k EXCEPT !.again = FALSE, !.later = FALSE]
    <3>1. Keeps(k, n)
      BY PictureKeeps
    <3> HIDE DEF n
    <3>2. Fine(n, e, LongshotOff(n, e, "PREVIEWING"))
      BY <3>1, CommonAre DEF Keeps, States
    <3>3. Fine(k, e, LongshotOff(n, e, "PREVIEWING"))
      BY <3>1, <3>2, Then DEF Fine
    <3> QED BY <3>3 DEF n
  <2>7. Fine(k, e, PreviewingCommandRestart(k, e))
    <3>1. Steps(k, Restart(k))
      BY KeepsIt, PreparedSteps
    <3>2. Steps(k, {Did(k)})
      BY KeepsIt DEF Steps, Did
    <3> QED BY <3>1, <3>2, ReportsAre DEF PreviewingCommandRestart
  <2>8. Asks(e) = e
    BY <1>4 DEF Asks, Reports
  <2>9. Fine(k, e, Previewing(k, e))
    BY <1>4, <2>1, <2>2, <2>3, <2>4, <2>5, <2>6, <2>7 DEF Previewing
  <2> QED BY <2>8, <2>9
<1> QED BY <1>2, <1>3, <1>4

LEMMA PreviewPicTakingAre ==
    ASSUME NEW k, Camera(k), k.st = "PREVIEW_PIC_TAKING", NEW e \in Enabling \ {"PREPARE_SNAPSHOT"}
    PROVE  Fine(k, Asks(e), PreviewPicTaking(k, e))
<1>1. \A x : Fine(k, x, Silent(k)) /\ Fine(k, x, Reply(k, x))
  BY KeepsIt, RepliesAre
<1>2. CASE e \in Settings
  <2>1. Fine(k, e, Reply(stopPreview(k), e)) /\ Fine(k, e, Invalid(k, e))
    BY UnprepareKeeps, KeepsIt, RepliesAre
  <2>2. Fine(k, e, SetParams(k, e)) /\ Fine(k, e, Commit(k, e))
    BY CommonAre
  <2>3. e \in {"ENABLE_MSG_TYPE", "PREVIEW_ENABLED"} => Fine(k, e, Messages(k, e))
    BY CommonAre
  <2> DEFINE once == [k EXCEPT !.needRestart = FALSE]
             S == Move(ApplyAndRestart(once), "PREVIEW_PIC_TAKING", "PIC_TAKING")
  <2>4. Fine(k, e, Report(S, e))
    <3>1. Keeps(k, once)
      BY PictureKeeps
    <3> HIDE DEF once
    <3>2. Steps(k, ApplyAndRestart(once))
      BY <3>1, PreparedSteps
    <3>3. Steps(k, S)
      BY <3>2, MoveSteps DEF States
    <3> QED BY <3>3, ReportsAre
  <2>5. Fine(k, e, PreviewPicTakingSettings(k, e))
    <3>1. CASE e \in {"ENABLE_MSG_TYPE", "PREVIEW_ENABLED"}
      BY <2>3, <3>1 DEF PreviewPicTakingSettings
    <3>2. CASE e \notin {"ENABLE_MSG_TYPE", "PREVIEW_ENABLED"}
      BY <1>2, <2>1, <2>2, <2>4, <3>2 DEF PreviewPicTakingSettings, Settings, Enabling
    <3> QED BY <3>1, <3>2
  <2>6. Asks(e) = e
    BY <1>2 DEF Asks, Settings
  <2> QED BY <1>2, <2>5, <2>6 DEF PreviewPicTaking, Settings, Reports, Restarts,
                                  PreviewPicTakingRefuses
<1>3. CASE e \in Reports
  <2>0. PreviewPicTaking(k, e) = PreviewPicTakingReports(k, e)
    BY <1>3 DEF PreviewPicTaking, Settings, Reports, Restarts, PreviewPicTakingRefuses
  <2>1. CASE e = "SNAPSHOT_DONE"
    <3> DEFINE n == In(PicOverPreview(k), "PREVIEWING")
               replies == IF k.retro THEN <<Result(e, TRUE)>> ELSE <<>>
    <3>1. Keeps(k, n)
      BY PictureKeeps, InKeeps DEF States
    <3>2. Single(replies, e)
      BY DEF Single, Result
    <3>3. PreviewPicTakingReports(k, e) = {Outcome(n, replies)}
      BY <2>1 DEF PreviewPicTakingReports
    <3> HIDE DEF n, replies
    <3>4. Fine(k, e, {Outcome(n, replies)})
      BY <3>1, <3>2 DEF Fine, Outcome
    <3>5. Asks(e) = e
      BY <2>1 DEF Asks
    <3> QED BY <2>0, <3>3, <3>4, <3>5
  <2>2. CASE e = "PREP_SNAPSHOT_DONE"
    <3>1. Asks(e) = "PREPARE_SNAPSHOT"
      BY <2>2 DEF Asks
    <3>2. PreviewPicTaking(k, e) = IF k.retro THEN Reply(k, "PREPARE_SNAPSHOT") ELSE Silent(k)
      BY <2>0, <2>2 DEF PreviewPicTakingReports
    <3> QED BY <1>1, <3>1, <3>2
  <2>3. CASE e = "READY_FOR_SNAPSHOT"
    <3>1. Asks(e) = "TAKE_PICTURE"
      BY <2>3 DEF Asks
    <3>2. PreviewPicTaking(k, e) = IF k.retro THEN Reply(k, "TAKE_PICTURE") ELSE Silent(k)
      BY <2>0, <2>3 DEF PreviewPicTakingReports, FramesReady
    <3> QED BY <1>1, <3>1, <3>2
  <2>4. CASE e = "STOP_CAPTURE_CHANNEL"
    <3>1. PreviewPicTaking(k, e) = Silent(k)
      BY <2>0, <2>4 DEF PreviewPicTakingReports
    <3> QED BY <1>1, <3>1
  <2>5. e # "DAEMON_DIED"
    BY DEF Enabling, Requests, Settings, StoppedRefuses, Restarts
  <2> QED BY <1>3, <2>1, <2>2, <2>3, <2>4, <2>5 DEF Reports
<1>4. CASE e \notin Settings \cup Reports
  <2>1. /\ Fine(k, e, Invalid(k, e)) /\ Fine(k, e, Reply(k, e)) /\ Fine(k, e, Silent(k))
        /\ Fine(k, e, Command(k, e)) /\ Fine(k, e, LongshotOff(k, e, "PREVIEWING"))
        /\ Fine(k, e, RestartPreview(k, e))
    BY KeepsIt, RepliesAre, CommonAre DEF States
  <2>2. Fine(k, e, Reply(In(PicOverPreview(k), "PREVIEWING"), e))
    BY PictureKeeps, InKeeps, RepliesAre DEF States
  <2>3. Fine(k, e, Reply(In(unpreparePreview(PicOverPreview(k)), "STOPPED"), e))
    <3> DEFINE n == PicOverPreview(k)
    <3>1. Keeps(k, n)
      BY PictureKeeps
    <3> HIDE DEF n
    <3>2. Keeps(k, unpreparePreview(n))
      BY <3>1, UnprepareKeeps, Then DEF Keeps
    <3>3. Fine(k, e, Reply(In(unpreparePreview(n), "STOPPED"), e))
      BY <3>2, InKeeps, RepliesAre DEF States
    <3> QED BY <3>3 DEF n
  <2>4. Fine(k, e, Report(preStartRecording(k), e))
    BY HintSteps, ReportsAre DEF preStartRecording
  <2>5. Fine(k, e, Report(Move(startRecording(k), "VIDEO_PIC_TAKING", k.st), e))
    <3>1. k.st \in States \ {"PREPARE_SNAPSHOT"} /\ "VIDEO_PIC_TAKING" \in States \ {"PREPARE_SNAPSHOT"}
      BY DEF States
    <3>2. Steps(k, startRecording(k))
      BY PictureSteps
    <3> DEFINE st == k.st
    <3>3. st \in States \ {"PREPARE_SNAPSHOT"}
      BY <3>1
    <3> HIDE DEF st
    <3>4. Steps(k, Move(startRecording(k), "VIDEO_PIC_TAKING", st))
      BY <3>1, <3>2, <3>3, MoveSteps
    <3> QED BY <3>4, ReportsAre DEF st
  <2>6. Fine(k, e, Report(longShot(k), e))
    BY PictureSteps, ReportsAre
  <2>7. Asks(e) = e
    BY <1>4 DEF Asks, Reports
  <2>8. Fine(k, e, PreviewPicTaking(k, e))
    BY <1>4, <2>1, <2>2, <2>3, <2>4, <2>5, <2>6 DEF PreviewPicTaking
  <2> QED BY <2>7, <2>8
<1> QED BY <1>2, <1>3, <1>4
--------------------------------------------------------------------------------
(* The state machine.                                                      *)

\* All requests but two: the preview frame message stays shown, nobody gets
\* into PREPARE_SNAPSHOT, and at most the request itself is answered.
LEMMA HandlersAre ==
    ASSUME NEW k, Camera(k), NEW e \in Enabling \ {"PREPARE_SNAPSHOT"}
    PROVE  Fine(k, Asks(e), Outcomes(k, e))
<1>1. e \in Enabling /\ e \in Requests
  BY DEF Enabling
<1>2. \A x : x = e /\ x \notin {"PREP_SNAPSHOT_DONE", "READY_FOR_SNAPSHOT"} => Asks(e) = e
  BY DEF Asks
<1>3. ASSUME NEW O, Fine(k, e, O), e \notin {"PREP_SNAPSHOT_DONE", "READY_FOR_SNAPSHOT"}
      PROVE  Fine(k, Asks(e), O)
  BY <1>2, <1>3
<1>4. ASSUME NEW O, O = Silent(k) PROVE Fine(k, Asks(e), O)
  BY <1>4, KeepsIt, RepliesAre
<1>5. CASE k.st = "STOPPED"
  <2>1. Outcomes(k, e) = Stopped(k, e)
    BY <1>5 DEF Outcomes
  <2>2. e \in {"PREP_SNAPSHOT_DONE", "READY_FOR_SNAPSHOT"} => Stopped(k, e) = Silent(k)
    BY DEF Stopped, Settings, StoppedRefuses, Restarts
  <2> QED BY <1>1, <1>3, <1>4, <1>5, <2>1, <2>2, StoppedAre
<1>6. CASE k.st = "READY"
  <2>1. Outcomes(k, e) = Ready(k, e)
    BY <1>6 DEF Outcomes
  <2>2. e \in {"PREP_SNAPSHOT_DONE", "READY_FOR_SNAPSHOT"} => Ready(k, e) = Silent(k)
    BY DEF Ready, Settings, ReadyRefuses, StoppedRefuses, Restarts
  <2> QED BY <1>1, <1>3, <1>4, <1>6, <2>1, <2>2, ReadyAre
<1>7. CASE k.st = "PREVIEWING"
  <2>1. Outcomes(k, e) = Previewing(k, e)
    BY <1>7 DEF Outcomes
  <2> QED BY <1>7, <2>1, PreviewingAre
<1>8. CASE k.st = "PREPARE_SNAPSHOT"
  <2>1. Outcomes(k, e) = PrepareSnapshot(k, e)
    BY <1>8 DEF Outcomes
  <2> QED BY <1>1, <1>8, <2>1, PrepareSnapshotAre
<1>9. CASE k.st = "PIC_TAKING"
  <2>1. Outcomes(k, e) = PicTaking(k, e)
    BY <1>9 DEF Outcomes
  <2> QED BY <1>1, <1>9, <2>1, PicTakingAre
<1>10. CASE k.st = "RECORDING"
  <2>1. Outcomes(k, e) = Recording(k, e)
    BY <1>10 DEF Outcomes
  <2>2. e \in {"PREP_SNAPSHOT_DONE", "READY_FOR_SNAPSHOT"} => Recording(k, e) = Silent(k)
    BY DEF Recording, Settings, RecordingIgnores, RecordingRefuses, Restarts
  <2> QED BY <1>1, <1>3, <1>4, <1>10, <2>1, <2>2, RecordingAre
<1>11. CASE k.st = "VIDEO_PIC_TAKING"
  <2>1. Outcomes(k, e) = VideoPicTaking(k, e)
    BY <1>11 DEF Outcomes
  <2>2. e \in {"PREP_SNAPSHOT_DONE", "READY_FOR_SNAPSHOT"} => VideoPicTaking(k, e) = Silent(k)
    BY DEF VideoPicTaking, Settings, VideoPicTakingRefuses, Restarts
  <2> QED BY <1>1, <1>3, <1>4, <1>11, <2>1, <2>2, VideoPicTakingAre
<1>12. CASE k.st = "PREVIEW_PIC_TAKING"
  <2>1. Outcomes(k, e) = PreviewPicTaking(k, e)
    BY <1>12 DEF Outcomes
  <2> QED BY <1>12, <2>1, PreviewPicTakingAre
<1>13. k.st \in States
  BY DEF Camera
<1> QED BY <1>5, <1>6, <1>7, <1>8, <1>9, <1>10, <1>11, <1>12, <1>13 DEF States

\* A message is enabled wherever a snapshot is not being prepared.
LEMMA EnableIs ==
    ASSUME NEW k, Camera(k), k.st # "PREPARE_SNAPSHOT"
    PROVE  \A o \in Outcomes(k, "ENABLE_MSG_TYPE") : Shows(o.cam)
<1> DEFINE e == "ENABLE_MSG_TYPE"
           on == [k EXCEPT !.on = TRUE]
           held == [k EXCEPT !.held = TRUE]
<1>1. on.on = TRUE /\ held.held = TRUE
  BY DEF Camera, Flags
<1>2. Messages(k, e) = Reply(on, e) /\ PreviewingMessages(k, e) = Reply(IF k.delay THEN held ELSE on, e)
  BY DEF Messages, PreviewingMessages
<1>3. Outcomes(k, e) \in {Messages(k, e), PreviewingMessages(k, e)}
  <2>1. /\ Stopped(k, e) = Messages(k, e) /\ Ready(k, e) = Messages(k, e)
    BY DEF Stopped, StoppedSettings, Ready, ReadySettings, Settings, ReadyRefuses, StoppedRefuses,
           Restarts
  <2>2. Previewing(k, e) = PreviewingMessages(k, e)
    BY DEF Previewing, PreviewingSettings, Settings, PreviewingRefuses, Restarts
  <2>3. PicTaking(k, e) = Messages(k, e)
    BY DEF PicTaking, PicTakingSettings, Settings, Reports
  <2>4. Recording(k, e) = Messages(k, e)
    BY DEF Recording, RecordingSettings, Settings, RecordingIgnores, RecordingRefuses, Restarts
  <2>5. VideoPicTaking(k, e) = Messages(k, e)
    BY DEF VideoPicTaking, VideoPicTakingSettings, Settings, VideoPicTakingRefuses, Restarts
  <2>6. PreviewPicTaking(k, e) = Messages(k, e)
    BY DEF PreviewPicTaking, PreviewPicTakingSettings, Settings, PreviewPicTakingRefuses, Restarts,
           Reports
  <2>7. k.st \in States \ {"PREPARE_SNAPSHOT"}
    BY DEF Camera
  <2> HIDE DEF e
  <2> QED BY <2>1, <2>2, <2>3, <2>4, <2>5, <2>6, <2>7 DEF Outcomes, States
<1>4. Shows(on) /\ Shows(held)
  BY <1>1 DEF Shows
<1> HIDE DEF on, held, e
<1>5. \A n : \A o \in Reply(n, e) : o.cam = n
  BY DEF Reply, Outcome
<1>6. PICK n \in {on, held} : Outcomes(k, e) = Reply(n, e)
  BY <1>2, <1>3
<1>7. \A o \in Outcomes(k, e) : Shows(o.cam)
  BY <1>4, <1>5, <1>6
<1> QED BY <1>7 DEF e

\* Disabling it hides it, and does nothing else.
LEMMA DisableIs ==
    ASSUME NEW k, Camera(k)
    PROVE  \A o \in Outcomes(k, "DISABLE_MSG_TYPE") :
               /\ {"cam", "replies", "post"} \subseteq DOMAIN o
               /\ Camera(o.cam) /\ o.cam.st = k.st /\ o.cam.prepping = k.prepping
               /\ Single(o.replies, "DISABLE_MSG_TYPE")
<1> DEFINE e == "DISABLE_MSG_TYPE"
           off == [k EXCEPT !.on = FALSE]
           shut == [k EXCEPT !.on = FALSE, !.held = @ /\ ~k.delay, !.delay = @ /\ ~k.held]
<1>1. \A n \in {k, off, shut} : Camera(n) /\ n.st = k.st /\ n.prepping = k.prepping
  BY DEF Camera, Flags
<1>2. Messages(k, e) = Reply(off, e) /\ PreviewingMessages(k, e) = Reply(shut, e)
  BY DEF Messages, PreviewingMessages
<1>3. Outcomes(k, e) \in {Messages(k, e), PreviewingMessages(k, e), Invalid(k, e)}
  <2>1. /\ Stopped(k, e) = Messages(k, e) /\ Ready(k, e) = Messages(k, e)
    BY DEF Stopped, StoppedSettings, Ready, ReadySettings, Settings, ReadyRefuses, StoppedRefuses,
           Restarts
  <2>2. Previewing(k, e) = PreviewingMessages(k, e)
    BY DEF Previewing, PreviewingSettings, Settings, PreviewingRefuses, Restarts
  <2>3. PicTaking(k, e) = Messages(k, e) /\ PrepareSnapshot(k, e) = Invalid(k, e)
    BY DEF PicTaking, PicTakingSettings, Settings, Reports, PrepareSnapshot
  <2>4. Recording(k, e) = Messages(k, e)
    BY DEF Recording, RecordingSettings, Settings, RecordingIgnores, RecordingRefuses, Restarts
  <2>5. VideoPicTaking(k, e) = Messages(k, e)
    BY DEF VideoPicTaking, VideoPicTakingSettings, Settings, VideoPicTakingRefuses, Restarts
  <2>6. PreviewPicTaking(k, e) = Messages(k, e)
    BY DEF PreviewPicTaking, PreviewPicTakingSettings, Settings, PreviewPicTakingRefuses, Restarts,
           Reports
  <2>7. k.st \in States
    BY DEF Camera
  <2> HIDE DEF e
  <2> QED BY <2>1, <2>2, <2>3, <2>4, <2>5, <2>6, <2>7 DEF Outcomes, States
<1>4. \A n, ok : Single(<<Result(e, ok)>>, e)
  BY DEF Single, Result
<1> HIDE DEF off, shut, e
<1>5. ASSUME NEW n \in {k, off, shut}, NEW o \in Reply(n, e) \cup Invalid(n, e)
      PROVE  /\ {"cam", "replies", "post"} \subseteq DOMAIN o /\ o.cam = n /\ Single(o.replies, e)
  <2>1. PICK replies \in {<<Result(e, TRUE)>>, <<Result(e, FALSE)>>} : o = Outcome(n, replies)
    BY DEF Reply, Invalid
  <2>2. Single(replies, e)
    BY <1>4, <2>1
  <2> QED BY <2>1, <2>2 DEF Outcome
<1>6. PICK n \in {k, off, shut} : Outcomes(k, e) \in {Reply(n, e), Invalid(n, e)}
  BY <1>2, <1>3
<1>7. ASSUME NEW o \in Outcomes(k, e)
      PROVE  /\ {"cam", "replies", "post"} \subseteq DOMAIN o
             /\ Camera(o.cam) /\ o.cam.st = k.st /\ o.cam.prepping = k.prepping
             /\ Single(o.replies, e)
  <2>1. o \in Reply(n, e) \cup Invalid(n, e)
    BY <1>6, <1>7
  <2> QED BY <1>1, <1>5, <2>1
<1> QED BY <1>7 DEF e

\* Preparing a snapshot is answered, or begun and not answered.
LEMMA PrepareIs ==
    ASSUME NEW k, Camera(k)
    PROVE  \A o \in Outcomes(k, "PREPARE_SNAPSHOT") :
               /\ {"cam", "replies", "post"} \subseteq DOMAIN o
               /\ Camera(o.cam) /\ (Shows(k) => Shows(o.cam))
               /\ \/ Keeps(k, o.cam) /\ Single(o.replies, "PREPARE_SNAPSHOT")
                  \/ o.cam.prepping /\ o.replies = <<>>
<1> DEFINE e == "PREPARE_SNAPSHOT"
           Good(o) == /\ {"cam", "replies", "post"} \subseteq DOMAIN o
                      /\ Camera(o.cam) /\ (Shows(k) => Shows(o.cam))
                      /\ \/ Keeps(k, o.cam) /\ Single(o.replies, e)
                         \/ o.cam.prepping /\ o.replies = <<>>
<1>1. ASSUME NEW O, Fine(k, e, O) PROVE \A o \in O : Good(o)
  BY <1>1 DEF Fine, Keeps
<1>2. Fine(k, e, Reply(k, e)) /\ Fine(k, e, Invalid(k, e))
  BY KeepsIt, RepliesAre
<1>3. ASSUME NEW n, Camera(n), Shows(k) => Shows(n), n.prepping PROVE \A o \in Silent(n) : Good(o)
  BY <1>3 DEF Silent, Outcome
<1>4. ASSUME NEW r \in {Failed(k)} PROVE \A o \in Report({r}, e) : Good(o)
  <2>1. Steps(k, {r})
    BY KeepsIt DEF Steps, Failed
  <2>2. Fine(k, e, Report({r}, e))
    BY <2>1, ReportsAre
  <2> QED BY <1>1, <2>2
<1>5. \A new : \A r \in Try(k, new) : r \in {Did(new), Failed(k)}
  BY DEF Try, Attempt
<1>6. \A n : Did(n).ok = TRUE /\ Did(n).cam = n /\ Failed(n).ok = FALSE /\ Failed(n).cam = n
  BY DEF Did, Failed
<1>7. CASE k.st = "PREVIEWING"
  <2> DEFINE n == [k EXCEPT !.st = "PREPARE_SNAPSHOT", !.prepping = TRUE]
             a == Applied(n)
  <2>1. Camera(n) /\ (Shows(k) => Shows(n)) /\ n.prepping
    BY DEF Camera, Flags, Shows, States
  <2> HIDE DEF n
  <2>2. Keeps(n, a)
    BY <2>1, AppliedKeeps
  <2>3. Camera(a) /\ (Shows(k) => Shows(a)) /\ a.prepping
    BY <2>1, <2>2 DEF Keeps
  <2>4. Outcomes(k, e) = UNION {IF r.ok THEN Silent(Applied(r.cam)) ELSE Report({r}, e) :
                                    r \in Try(k, n)}
    BY <1>7 DEF Outcomes, Previewing, Settings, Restarts, PreviewingRefuses, n
  <2>5. ASSUME NEW r \in Try(k, n)
        PROVE  \A o \in (IF r.ok THEN Silent(Applied(r.cam)) ELSE Report({r}, e)) : Good(o)
    <3>1. CASE r = Did(n)
      BY <1>3, <1>6, <2>3, <3>1
    <3>2. CASE r = Failed(k)
      BY <1>4, <1>6, <3>2
    <3> QED BY <1>5, <3>1, <3>2
  <2> QED BY <2>4, <2>5
<1>8. CASE k.st = "PREVIEW_PIC_TAKING"
  <2> DEFINE n == [k EXCEPT !.prepping = TRUE]
  <2>1. Camera(n) /\ (Shows(k) => Shows(n)) /\ n.prepping
    BY DEF Camera, Flags, Shows
  <2> HIDE DEF n
  <2>2. Outcomes(k, e) = IF k.retro THEN UNION {IF r.ok THEN Silent(r.cam) ELSE Report({r}, e) :
                                                   r \in Try(k, n)}
                         ELSE Invalid(k, e)
    BY <1>8 DEF Outcomes, PreviewPicTaking, PreviewPicTakingPrepare, Settings, Reports, Restarts,
                PreviewPicTakingRefuses, n
  <2>3. ASSUME NEW r \in Try(k, n)
        PROVE  \A o \in (IF r.ok THEN Silent(r.cam) ELSE Report({r}, e)) : Good(o)
    <3>1. CASE r = Did(n)
      BY <1>3, <1>6, <2>1, <3>1
    <3>2. CASE r = Failed(k)
      BY <1>4, <1>6, <3>2
    <3> QED BY <1>5, <3>1, <3>2
  <2> QED BY <1>1, <1>2, <2>2, <2>3
<1>9. CASE k.st \notin {"PREVIEWING", "PREVIEW_PIC_TAKING"}
  <2>1. k.st \in States
    BY DEF Camera
  <2>2. e \in Enabling /\ Asks(e) = e
    BY DEF Enabling, Requests, Settings, StoppedRefuses, Asks
  <2>3. Outcomes(k, e) \in {Stopped(k, e), Ready(k, e), PrepareSnapshot(k, e), PicTaking(k, e),
                            Recording(k, e), VideoPicTaking(k, e)}
    BY <1>9, <2>1 DEF Outcomes, States
  <2>4. /\ Stopped(k, e) = Invalid(k, e) /\ Ready(k, e) = Invalid(k, e)
        /\ PrepareSnapshot(k, e) = Invalid(k, e)
    BY DEF Stopped, Ready, PrepareSnapshot, Settings, ReadyRefuses, StoppedRefuses, Restarts
  <2>5. /\ PicTaking(k, e) = Invalid(k, e) /\ VideoPicTaking(k, e) = Invalid(k, e)
        /\ Recording(k, e) = Reply(k, e)
    BY DEF PicTaking, VideoPicTaking, Recording, Settings, Reports, VideoPicTakingRefuses, Restarts,
           RecordingIgnores, RecordingRefuses
  <2> QED BY <1>1, <1>2, <2>3, <2>4, <2>5
<1>10. \A o \in Outcomes(k, e) : Good(o)
  BY <1>7, <1>8, <1>9
<1> QED BY <1>10
--------------------------------------------------------------------------------
(* The queues.                                                             *)

LEMMA NoMoreIt ==
    ASSUME NEW q, NEW x
    PROVE  NoMore(q, q, x)
BY DEF NoMore

LEMMA Tails ==
    ASSUME NEW S, NEW q \in Seq(S), q # <<>>, NEW x
    PROVE  /\ Tail(q) \in Seq(S) /\ Head(q) \in S
           /\ NoMore(q, Tail(q), x)
           /\ Head(q).evt = x => At(q, x) # {}
           /\ OneOf(At(q, x)) /\ Head(q).evt = x => At(Tail(q), x) = {}
           /\ Head(q).evt # x /\ At(q, x) # {} => At(Tail(q), x) # {}
<1>1. /\ Tail(q) \in Seq(S) /\ Head(q) \in S /\ Head(q) = q[1] /\ Len(q) \in Nat /\ Len(q) > 0
      /\ DOMAIN q = 1..Len(q) /\ DOMAIN Tail(q) = 1..(Len(q) - 1)
      /\ \A i \in 1..(Len(q) - 1) : Tail(q)[i] = q[i + 1]
  OBVIOUS
<1>2. \A i : i \in At(Tail(q), x) => i \in Nat /\ i # 0 /\ i + 1 \in At(q, x)
  BY <1>1 DEF At
<1>3. Head(q).evt = x => 1 \in At(q, x)
  BY <1>1 DEF At
<1>4. Head(q).evt # x => \A i \in At(q, x) : i - 1 \in At(Tail(q), x)
  BY <1>1 DEF At
<1>5. NoMore(q, Tail(q), x)
  BY <1>2 DEF NoMore, OneOf
<1>6. OneOf(At(q, x)) /\ Head(q).evt = x => At(Tail(q), x) = {}
  BY <1>2, <1>3 DEF OneOf
<1> QED BY <1>1, <1>3, <1>4, <1>5, <1>6

LEMMA Appends ==
    ASSUME NEW S, NEW q \in Seq(S), NEW m, NEW x
    PROVE  /\ \A T : S \cup {m} \subseteq T => Append(q, m) \in Seq(T)
           /\ m.evt # x => NoMore(q, Append(q, m), x)
           /\ At(q, x) = {} => OneOf(At(Append(q, m), x))
           /\ m.evt = x => At(Append(q, m), x) # {}
           /\ At(q, x) # {} => At(Append(q, m), x) # {}
           /\ \A i \in DOMAIN Append(q, m) :
                  Append(q, m)[i] = m \/ (i \in DOMAIN q /\ Append(q, m)[i] = q[i])
<1> DEFINE n == Append(q, m)
<1>1. /\ Len(q) \in Nat /\ DOMAIN q = 1..Len(q) /\ DOMAIN n = 1..(Len(q) + 1)
      /\ \A i \in 1..Len(q) : n[i] = q[i]
      /\ n[Len(q) + 1] = m
  OBVIOUS
<1>2. ASSUME NEW T, S \cup {m} \subseteq T PROVE n \in Seq(T)
  <2>1. q \in Seq(T) /\ m \in T
    BY <1>2, SeqMonotonic
  <2> QED BY <2>1, AppendProperties
<1> HIDE DEF n
<1>3. At(q, x) \subseteq At(n, x)
  BY <1>1 DEF At
<1>4. At(n, x) \subseteq At(q, x) \cup {Len(q) + 1}
  BY <1>1 DEF At
<1>5. (Len(q) + 1 \in At(n, x)) <=> m.evt = x
  BY <1>1 DEF At
<1>6. m.evt # x => NoMore(q, n, x)
  BY <1>3, <1>4, <1>5 DEF NoMore, OneOf
<1>7. At(q, x) = {} => OneOf(At(n, x))
  BY <1>4 DEF OneOf
<1>8. \A i \in DOMAIN n : n[i] = m \/ (i \in DOMAIN q /\ n[i] = q[i])
  BY <1>1
<1> QED BY <1>2, <1>3, <1>5, <1>6, <1>7, <1>8 DEF n

LEMMA Removals ==
    ASSUME NEW S, NEW q \in Seq(S), NEW i \in DOMAIN q, NEW x
    PROVE  /\ RemoveAt(q, i) \in Seq(S)
           /\ NoMore(q, RemoveAt(q, i), x)
           /\ OneOf(At(q, x)) /\ q[i].evt = x => At(RemoveAt(q, i), x) = {}
           /\ \A j \in DOMAIN RemoveAt(q, i) : \E l \in DOMAIN q : RemoveAt(q, i)[j] = q[l]
<1> DEFINE before == SubSeq(q, 1, i - 1)
           after  == SubSeq(q, i + 1, Len(q))
           n      == RemoveAt(q, i)
<1>1. Len(q) \in Nat /\ DOMAIN q = 1..Len(q) /\ i \in 1..Len(q)
  OBVIOUS
<1>2. /\ before \in Seq(S) /\ Len(before) = i - 1
      /\ \A j \in 1..(i - 1) : before[j] = q[j]
  BY <1>1, SubSeqProperties
<1>3. /\ after \in Seq(S) /\ Len(after) = Len(q) - i
      /\ \A j \in 1..(Len(q) - i) : after[j] = q[i + j]
  BY <1>1, SubSeqProperties
<1>4. n = before \o after
  BY DEF RemoveAt
<1> HIDE DEF before, after, n
<1>5. /\ before \o after \in Seq(S) /\ Len(before \o after) = Len(before) + Len(after)
       /\ \A j \in 1..(Len(before) + Len(after)) :
              (before \o after)[j] = IF j <= Len(before) THEN before[j] ELSE after[j - Len(before)]
  BY <1>2, <1>3, ConcatProperties
<1>6. n \in Seq(S) /\ Len(n) = Len(q) - 1
  BY <1>1, <1>2, <1>3, <1>4, <1>5
<1>7. ASSUME NEW j \in 1..(Len(q) - 1) PROVE n[j] = IF j < i THEN q[j] ELSE q[j + 1]
  <2>1. n[j] = IF j <= i - 1 THEN before[j] ELSE after[j - (i - 1)]
    <3>1. j \in 1..(Len(before) + Len(after))
      BY <1>1, <1>2, <1>3
    <3>2. n[j] = IF j <= Len(before) THEN before[j] ELSE after[j - Len(before)]
      BY <1>4, <1>5, <3>1
    <3> QED BY <1>2, <3>2
  <2>2. CASE j < i
    BY <1>1, <1>2, <2>1, <2>2
  <2>3. CASE ~(j < i)
    <3>1. j - (i - 1) \in 1..(Len(q) - i) /\ i + (j - (i - 1)) = j + 1 /\ ~(j <= i - 1)
      BY <1>1, <2>3
    <3>2. after[j - (i - 1)] = q[i + (j - (i - 1))]
      BY <1>3, <3>1
    <3> QED BY <2>1, <2>3, <3>1, <3>2
  <2> QED BY <2>2, <2>3
<1>8. DOMAIN n = 1..(Len(q) - 1)
  BY <1>6
<1>9. \A j \in At(n, x) : IF j < i THEN j \in At(q, x) ELSE j + 1 \in At(q, x)
  BY <1>1, <1>7, <1>8 DEF At
<1>10. At(n, x) \subseteq Nat
  BY <1>1, <1>8 DEF At
<1>11. q[i].evt = x => i \in At(q, x)
  BY DEF At
<1>12. NoMore(q, n, x)
  BY <1>1, <1>9, <1>10 DEF NoMore, OneOf
<1>13. OneOf(At(q, x)) /\ q[i].evt = x => At(n, x) = {}
  BY <1>1, <1>9, <1>10, <1>11 DEF OneOf
<1>14. \A j \in DOMAIN n : \E l \in DOMAIN q : n[j] = q[l]
  BY <1>1, <1>7, <1>8
<1> QED BY <1>6, <1>12, <1>13, <1>14 DEF n
--------------------------------------------------------------------------------
(* The calls.                                                              *)

\* The requests of the application's calls.
LEMMA FollowingIs ==
    ASSUME NEW k, NEW e, NEW ok, NEW api \in AppCalls \cup {"none"}, api = "none" => e # "none"
    PROVE  Following(api, e, ok, k) \in Orders \cup {"none"}
<1> DEFINE Posts == Orders \cup {"none"}
<1>1. {"PRE_START_RECORDING", "START_RECORDING", "RESTART_STOP_PREVIEW", "RESTART_START_PREVIEW",
       "STOP_RECORDING", "PREPARE_SNAPSHOT", "PRE_TAKE_PICTURE", "TAKE_PICTURE", "SET_PARAMS",
       "SET_PARAMS_STOP", "SET_PARAMS_COMMIT", "SET_PARAMS_RESTART", "LONGSHOT_ON",
       "SEND_COMMAND_RESTART", "none"} \subseteq Posts
  BY DEF Orders, Requests, Settings, StoppedRefuses, Restarts
<1>2. (AppCalls \ {"take_picture", "set_parameters", "start_recording", "take_retro"}) \subseteq Posts
  BY DEF Orders, Requests, Settings, StoppedRefuses, Restarts, AppCalls, PublicCalls
<1> HIDE DEF Posts
<1>3. start_recording(e, ok) \in Posts
  BY <1>1 DEF start_recording
<1>4. AfterRestart(e, ok, "START_RECORDING") \in Posts /\ AfterRestart(e, ok, "none") \in Posts
      /\ AfterRestart(e, ok, "TAKE_PICTURE") \in Posts
  BY <1>1 DEF AfterRestart
<1>5. muxer_start_recording(e, ok, k) \in Posts
  BY <1>1, <1>4 DEF muxer_start_recording
<1>6. muxer_stop_recording(e, ok, k) \in Posts
  BY <1>1, <1>4 DEF muxer_stop_recording
<1>7. take_picture(e, ok, k) \in Posts
  BY <1>1 DEF take_picture
<1>8. prepare_snapshot(k) \in Posts
  BY <1>1 DEF prepare_snapshot
<1>9. muxer_take_picture(e, ok, k) \in Posts
  BY <1>1, <1>4, <1>8 DEF muxer_take_picture
<1>10. take_retro(e, ok, k) \in Posts
  BY <1>1, <1>8 DEF take_retro
<1>11. set_parameters(e, ok, k) \in Posts
  BY <1>1 DEF set_parameters
<1>12. send_command_restart(e, ok) \in Posts
  BY <1>1 DEF send_command_restart
<1>13. api # "internal"
  BY DEF AppCalls, PublicCalls
<1>14. api \in {"take_picture", "set_parameters", "start_recording", "take_retro"}
       => Following(api, e, ok, k) \in Posts
  BY <1>3, <1>5, <1>7, <1>9, <1>10, <1>11, <1>13 DEF Following
<1>15. api \notin {"take_picture", "set_parameters", "start_recording", "take_retro"}
       => Following(api, e, ok, k) \in Posts
  BY <1>1, <1>2, <1>6, <1>12, <1>13 DEF Following
<1> QED BY <1>14, <1>15 DEF Posts

\* A picture the backend asks for, without a flash.
LEMMA InternalFollowingIs ==
    ASSUME NEW k, NEW ok, NEW api \in {"none", "internal"}, NEW e \in {"none", "TAKE_PICTURE"},
           api = "none" => e # "none", e = "none" => ~Flash
    PROVE  Following(api, e, ok, k) = IF e = "none" THEN "TAKE_PICTURE"
                                      ELSE IF api = "none" THEN "none"
                                      ELSE IF ok THEN "taken" ELSE "clear"
<1>1. CASE api = "internal"
  BY <1>1 DEF Following, takeBackendPic_internal
<1>2. CASE api = "none"
  BY <1>2 DEF Following
<1> QED BY <1>1, <1>2

\* The thread of a call leaves the message and the preparation alone.
LEMMA AdvanceKeeps ==
    ASSUME Camera(cam), NEW c, NEW api, NEW e, NEW ok, Advance(c, api, e, ok)
    PROVE  Keeps(cam, cam')
<1> DEFINE m == MuxerAfter(api, e, ok, cam)
           k == [m EXCEPT !.prep = PrepAfter(api, e, cam),
                          !.retro = IF e # "none" THEN @
                                    ELSE api = "take_retro"
                                         \/ (@ /\ api \notin {"take_picture", "internal"})]
<1>1. /\ DOMAIN m = DOMAIN cam /\ m.st = cam.st /\ m.on = cam.on /\ m.held = cam.held
      /\ m.prepping = cam.prepping /\ m.shot = cam.shot /\ m.shots = cam.shots
  BY DEF Camera, Flags, MuxerAfter
<1>2. cam' = k
  BY DEF Advance
<1> HIDE DEF m
<1>3. /\ DOMAIN k = DOMAIN cam /\ k.st = cam.st /\ k.on = cam.on /\ k.held = cam.held
      /\ k.prepping = cam.prepping /\ k.shot = cam.shot /\ k.shots = cam.shots
  BY <1>1 DEF Camera, Flags
<1> HIDE DEF k
<1> QED BY <1>2, <1>3, Others DEF Camera

\* It goes on to a request that it posts, or to its end.
LEMMA AdvancePosts ==
    ASSUME NEW c \in Callers, NEW api, NEW e, NEW ok, Advance(c, api, e, ok), DOMAIN call = Callers
    PROVE  \E k :
             LET f == Following(api, e, ok, k)
             IN  /\ call'[c] = IF f = "none" THEN Idle
                               ELSE [api |-> api, evt |-> f, seen |-> FALSE, woken |-> FALSE]
                 /\ DOMAIN call' = Callers /\ \A d \in Callers \ {c} : call'[d] = call[d]
                 /\ api_queue' = IF f \in {"none", "taken", "clear"} THEN api_queue
                                 ELSE Append(api_queue, Msg(f, c, 0))
<1> DEFINE k == [MuxerAfter(api, e, ok, cam) EXCEPT
                     !.prep = PrepAfter(api, e, cam),
                     !.retro = IF e # "none" THEN @
                               ELSE api = "take_retro"
                                    \/ (@ /\ api \notin {"take_picture", "internal"})]
<1> DEFINE f == Following(api, e, ok, k)
           new == IF f = "none" THEN Idle
                  ELSE [api |-> api, evt |-> f, seen |-> FALSE, woken |-> FALSE]
<1>1. /\ call' = [call EXCEPT ![c] = new]
      /\ api_queue' = IF f \in {"none", "taken", "clear"} THEN api_queue
                      ELSE Append(api_queue, Msg(f, c, 0))
  BY DEF Advance
<1>2. new = IF f = "none" THEN Idle
            ELSE [api |-> api, evt |-> f, seen |-> FALSE, woken |-> FALSE]
  OBVIOUS
<1> HIDE DEF new
<1>3. call'[c] = new /\ DOMAIN call' = Callers /\ \A d \in Callers \ {c} : call'[d] = call[d]
  BY <1>1
<1> HIDE DEF k
<1> QED BY <1>1, <1>2, <1>3
--------------------------------------------------------------------------------
(* The steps.                                                              *)

LEMMA MsgIs ==
    ASSUME NEW Q, NEW e \in Q, NEW by \in Callers \cup {"none"}, NEW shot \in Nat
    PROVE  Msg(e, by, shot) \in [evt : Q, by : Callers \cup {"none"}, shot : Nat]
BY DEF Msg

\* A message that is queued.
LEMMA QueueAppends ==
    ASSUME NEW Q, NEW q \in Queue(Q), NEW e \in Q, NEW by \in Callers \cup {"none"}, NEW shot \in Nat
    PROVE  /\ Append(q, Msg(e, by, shot)) \in Queue(Q)
           /\ \A x : x # e => NoMore(q, Append(q, Msg(e, by, shot)), x)
           /\ \A x : At(q, x) # {} => At(Append(q, Msg(e, by, shot)), x) # {}
           /\ At(q, e) = {} => OneOf(At(Append(q, Msg(e, by, shot)), e))
           /\ At(Append(q, Msg(e, by, shot)), e) # {}
<1> DEFINE m == Msg(e, by, shot)
           S == [evt : Q, by : Callers \cup {"none"}, shot : Nat]
<1>1. m \in S /\ m.evt = e
  BY MsgIs DEF Msg
<1>2. q \in Seq(S)
  BY DEF Queue
<1> HIDE DEF m, S
<1>3. Append(q, m) \in Seq(S)
  BY <1>1, <1>2, AppendProperties
<1>4. \A x : e # x => NoMore(q, Append(q, m), x)
  BY <1>1, <1>2, Appends
<1>5. \A x : At(q, x) # {} => At(Append(q, m), x) # {}
  BY <1>1, <1>2, Appends
<1>6. /\ At(q, e) = {} => OneOf(At(Append(q, m), e))
      /\ At(Append(q, m), e) # {}
  BY <1>1, <1>2, Appends
<1> QED BY <1>3, <1>4, <1>5, <1>6 DEF m, S, Queue

\* A step that leaves the application's call where it is, and neither makes nor
\* loses anything that is under way.
LEMMA Elsewhere ==
    ASSUME OnceEach, PreparedOnce, Shown, Keeps(cam, cam'),
           \A x \in Kinds : NoMore(api_queue, api_queue', x) /\ NoMore(results, results', x),
           NoMore(evt_queue, evt_queue', "PREP_SNAPSHOT_DONE"),
           At(evt_queue, "PREP_SNAPSHOT_DONE") # {} => At(evt_queue', "PREP_SNAPSHOT_DONE") # {},
           call'["app"].evt = call["app"].evt, asked' = asked
    PROVE  OnceEach' /\ PreparedOnce' /\ Shown'
<1>1. OnceEach'
  BY DEF OnceEach, NoMore
<1>2. PreparedOnce'
  BY DEF PreparedOnce, Preparing, Keeps, NoMore, Kinds
<1>3. Shown'
  BY DEF Shown, Keeps, NoMore, Kinds
<1> QED BY <1>1, <1>2, <1>3

\* A step of the application's call, which then waits for what it has posted.
LEMMA AppGoesOn ==
    ASSUME Types, \A x \in Kinds : At(api_queue, x) = {} /\ At(results', x) = {},
           ~Preparing, cam.st # "PREPARE_SNAPSHOT", asked' => Shows(cam), evt_queue' = evt_queue,
           NEW api \in AppCalls \cup {"none"}, NEW e, api = "none" => e # "none", NEW ok,
           Advance("app", api, e, ok)
    PROVE  /\ OnceEach' /\ PreparedOnce' /\ Shown'
           /\ Camera(cam') /\ api_queue' \in Queue(Orders)
           /\ call' \in [Callers -> Waits]
           /\ call'["int"] = call["int"] /\ call'["app"].api # "internal"
<1>1. Keeps(cam, cam')
  BY AdvanceKeeps DEF Types
<1>2. call \in [Callers -> Waits]
      /\ api_queue \in Queue(Orders)
  BY DEF Types
<1>3. {"app", "int"} = Callers
  BY DEF Callers
<1>4. PICK k :
          LET f == Following(api, e, ok, k)
          IN  /\ call'["app"] = IF f = "none" THEN Idle
                                ELSE [api |-> api, evt |-> f, seen |-> FALSE, woken |-> FALSE]
              /\ DOMAIN call' = Callers /\ \A d \in Callers \ {"app"} : call'[d] = call[d]
              /\ api_queue' = IF f \in {"none", "taken", "clear"} THEN api_queue
                              ELSE Append(api_queue, Msg(f, "app", 0))
  BY <1>2, <1>3, AdvancePosts
<1> DEFINE f == Following(api, e, ok, k)
<1>5. f \in Orders \cup {"none"}
  BY FollowingIs
<1>6. /\ call'["app"] = IF f = "none" THEN Idle
                        ELSE [api |-> api, evt |-> f, seen |-> FALSE, woken |-> FALSE]
      /\ DOMAIN call' = Callers /\ \A d \in Callers \ {"app"} : call'[d] = call[d]
      /\ api_queue' = IF f \in {"none", "taken", "clear"} THEN api_queue
                      ELSE Append(api_queue, Msg(f, "app", 0))
  BY <1>4
<1> HIDE DEF f
<1>7. f \in Orders => f \notin {"none", "taken", "clear"}
  BY DEF Orders, Requests, Settings, StoppedRefuses, Restarts, Reports
<1>8. \/ f \in Orders /\ api_queue' = Append(api_queue, Msg(f, "app", 0)) /\ call'["app"].evt = f
      \/ f = "none" /\ api_queue' = api_queue
  BY <1>5, <1>6, <1>7
<1>9. api_queue' \in Queue(Orders)
  <2>1. f \in Orders => Append(api_queue, Msg(f, "app", 0)) \in Queue(Orders)
    BY <1>2, <1>3, QueueAppends
  <2> QED BY <1>2, <1>8, <2>1
<1>10. ASSUME NEW x \in Kinds
       PROVE  OneOf(At(api_queue', x)) /\ (At(api_queue', x) # {} => call'["app"].evt = x)
  <2>1. At(api_queue, x) = {}
    OBVIOUS
  <2>2. CASE f = "none"
    BY <1>7, <1>8, <2>1, <2>2 DEF OneOf
  <2>3. CASE f \in Orders
    <3>1. f # x => NoMore(api_queue, Append(api_queue, Msg(f, "app", 0)), x)
      BY <1>2, <1>3, <2>3, QueueAppends
    <3>2. f = x => OneOf(At(Append(api_queue, Msg(f, "app", 0)), x))
      BY <1>2, <1>3, <2>1, <2>3, QueueAppends
    <3> QED BY <1>7, <1>8, <2>1, <2>3, <3>1, <3>2 DEF NoMore, OneOf
  <2> QED BY <1>5, <2>2, <2>3
<1>11. OnceEach'
  BY <1>10 DEF OnceEach, OneOf
<1>12. PreparedOnce'
  BY <1>1 DEF PreparedOnce, Preparing, Keeps, OneOf
<1>13. Shown'
  BY <1>1 DEF Shown, Keeps, Kinds
<1>14. call' \in [Callers -> Waits]
  <2>1. call'["app"] \in Waits
    <3>1. Idle \in Waits
      BY DEF Idle, Waits
    <3>2. f \in Orders => [api |-> api, evt |-> f, seen |-> FALSE, woken |-> FALSE] \in Waits
      BY DEF Orders, AppCalls, Waits
    <3> QED BY <1>5, <1>6, <3>1, <3>2
  <2>2. call'["int"] \in Waits
    BY <1>2, <1>3, <1>6
  <2>3. call' = [c \in Callers |-> call'[c]]
    <3>1. call' = [call EXCEPT !["app"] = call'["app"]]
      BY <1>2, <1>3, <1>6 DEF Advance
    <3> QED BY <1>2, <1>3, <3>1
  <2>4. \A c \in Callers : call'[c] \in Waits
    BY <1>3, <2>1, <2>2
  <2> QED BY <2>3, <2>4
<1>15. call'["int"] = call["int"] /\ call'["app"].api # "internal"
  BY <1>3, <1>6 DEF Idle, AppCalls, PublicCalls
<1> QED BY <1>1, <1>9, <1>11, <1>12, <1>13, <1>14, <1>15 DEF Keeps

LEMMA LeastOf ==
    ASSUME NEW S, S \subseteq Nat, S # {}
    PROVE  (CHOOSE j \in S : \A l \in S : j <= l) \in S
<1> DEFINE R == {p \in Nat \X Nat : p[1] < p[2]}
<1>1. IsWellFoundedOn(R, Nat)
  BY NatLessThanWellFounded DEF OpToRel
<1>2. PICK j \in S : \A l \in S : ~(<<l, j>> \in R)
  BY <1>1, WFMin
<1>3. ASSUME NEW l \in S PROVE j <= l
  <2>1. <<l, j>> \in Nat \X Nat
    OBVIOUS
  <2>2. ~(<<l, j>>[1] < <<l, j>>[2])
    BY <1>2, <2>1
  <2> QED BY <2>2
<1> QED BY <1>3

LEMMA CallKeeps ==
    ASSUME Tracked, NEW api \in Apis, Call(api)
    PROVE  Tracked'
<1> DEFINE made == IF api = "take_picture" THEN PictureCall ELSE api
<1>1. /\ call["app"] = Idle /\ Advance("app", made, "none", TRUE)
      /\ UNCHANGED <<setup, evt_queue, results, asked>>
  BY DEF Call
<1>2. made \in AppCalls
  BY QCameraStateMachineAssumption DEF AppCalls, PictureCall, Tracked, Types, Apis, PublicCalls
<1>3. call["app"].evt = "none"
  BY <1>1 DEF Idle
<1>4. \A x \in Kinds : At(api_queue, x) = {} /\ At(results', x) = {}
  BY <1>1, <1>3 DEF Tracked, OnceEach, Kinds
<1>5. ~Preparing /\ cam.st # "PREPARE_SNAPSHOT"
  BY <1>3 DEF Tracked, PreparedOnce
<1>6. asked' => Shows(cam)
  BY <1>1, <1>3 DEF Tracked, Shown
<1>7. made # "none"
  BY <1>2 DEF AppCalls, PublicCalls
<1> HIDE DEF made
<1>8. /\ OnceEach' /\ PreparedOnce' /\ Shown'
      /\ Camera(cam') /\ api_queue' \in Queue(Orders) /\ call' \in [Callers -> Waits]
      /\ call'["int"] = call["int"] /\ call'["app"].api # "internal"
  BY <1>1, <1>2, <1>4, <1>5, <1>6, <1>7, AppGoesOn DEF Tracked
<1>9. Types'
  BY <1>1, <1>8 DEF Tracked, Types, InternalPics
<1> QED BY <1>8, <1>9 DEF Tracked

LEMMA WakeAppKeeps ==
    ASSUME Tracked, Wake("app")
    PROVE  Tracked'
<1> DEFINE fits == {i \in DOMAIN results : results[i].evt = call["app"].evt}
           i == CHOOSE j \in fits : \A l \in fits : j <= l
           x == call["app"].evt
<1>1. call \in [Callers -> Waits] /\ "app" \in Callers /\ "int" \in Callers
  BY DEF Tracked, Types, Callers
<1>2. CASE fits = {}
  <2>1. /\ call' = [call EXCEPT !["app"].woken = FALSE]
        /\ UNCHANGED <<setup, cam, api_queue, evt_queue, results, asked>>
    BY <1>2 DEF Wake
  <2>2. /\ call' \in [Callers -> Waits] /\ call'["int"] = call["int"]
        /\ call'["app"].evt = call["app"].evt /\ call'["app"].api = call["app"].api
    BY <1>1, <2>1 DEF Waits
  <2>3. Types'
    BY <2>1, <2>2 DEF Tracked, Types, InternalPics
  <2>4. Keeps(cam, cam') /\ \A y : NoMore(api_queue, api_queue', y) /\ NoMore(results, results', y)
                                   /\ NoMore(evt_queue, evt_queue', y)
    BY <2>1, NoMoreIt, KeepsIt DEF Tracked, Types
  <2>5. OnceEach' /\ PreparedOnce' /\ Shown'
    BY <2>1, <2>2, <2>4, Elsewhere DEF Tracked
  <2> QED BY <2>3, <2>5 DEF Tracked
<1>3. CASE fits # {}
  <2>1. /\ Advance("app", call["app"].api, x, results[i].ok)
        /\ results' = RemoveAt(results, i)
        /\ asked' = CASE x = "ENABLE_MSG_TYPE"  -> TRUE
                      [] x = "DISABLE_MSG_TYPE" -> FALSE
                      [] OTHER -> asked
        /\ UNCHANGED <<setup, evt_queue>>
    BY <1>3 DEF Wake
  <2>2. PICK S : results \in Seq(S)
    BY DEF Tracked, Types, Answers
  <2>3. i \in fits
    <3>1. fits \subseteq Nat
      BY <2>2
    <3> HIDE DEF fits
    <3> QED BY <1>3, <3>1, LeastOf
  <2>4. i \in DOMAIN results /\ results[i].evt = x /\ x \in Requests
    <3>1. i \in DOMAIN results /\ results[i].evt = x
      BY <2>3
    <3>2. \A j \in DOMAIN results : results[j].evt \in Requests
      BY DEF Tracked, Types, Answers
    <3> HIDE DEF i, x
    <3> QED BY <3>1, <3>2
  <2> HIDE DEF i, fits
  <2>5. i \in At(results, x)
    BY <2>4 DEF At
  <2>6. \A y : NoMore(results, RemoveAt(results, i), y)
    BY <2>2, <2>4, Removals
  <2>7. OneOf(At(results, x)) => At(RemoveAt(results, i), x) = {}
    BY <2>2, <2>4, Removals
  <2>8. \A y \in Kinds : At(api_queue, y) = {} /\ At(results', y) = {}
    <3> SUFFICES ASSUME NEW y \in Kinds PROVE At(api_queue, y) = {} /\ At(results', y) = {}
      OBVIOUS
    <3>1. CASE y = x
      BY <2>1, <2>5, <2>7, <3>1 DEF Tracked, OnceEach
    <3>2. CASE y # x
      BY <2>1, <2>6, <3>2 DEF Tracked, OnceEach, NoMore
    <3> QED BY <3>1, <3>2
  <2>9. ~Preparing /\ cam.st # "PREPARE_SNAPSHOT"
    BY <2>5 DEF Tracked, PreparedOnce
  <2>10. asked' => Shows(cam)
    BY <2>1, <2>5 DEF Tracked, Shown
  <2>11. call["app"].api \in AppCalls \cup {"none"}
    BY <1>1 DEF Tracked, Types, Waits, AppCalls
  <2>12. x # "none"
    BY <2>4 DEF Requests, Settings, StoppedRefuses, Restarts, Reports
  <2>13. evt_queue' = evt_queue /\ setup' = setup
    BY <2>1
  <2>14. /\ OnceEach' /\ PreparedOnce' /\ Shown'
         /\ Camera(cam') /\ api_queue' \in Queue(Orders) /\ call' \in [Callers -> Waits]
         /\ call'["int"] = call["int"] /\ call'["app"].api # "internal"
    BY <2>1, <2>8, <2>9, <2>10, <2>11, <2>12, <2>13, AppGoesOn DEF Tracked
  <2>15. Answers(results')
    <3>1. \A j \in DOMAIN RemoveAt(results, i) :
              \E l \in DOMAIN results : RemoveAt(results, i)[j] = results[l]
      BY <2>2, <2>4, Removals
    <3>2. RemoveAt(results, i) \in Seq(S)
      BY <2>2, <2>4, Removals
    <3>3. \A j \in DOMAIN results : results[j].evt \in Requests
      BY DEF Tracked, Types, Answers
    <3> QED BY <2>1, <3>1, <3>2, <3>3 DEF Answers
  <2>16. Types'
    BY <2>13, <2>14, <2>15 DEF Tracked, Types, InternalPics
  <2> QED BY <2>14, <2>16 DEF Tracked
<1> QED BY <1>2, <1>3

\* The thread of an internal picture waits for nothing of these kinds.
LEMMA InternalGoesOn ==
    ASSUME Tracked, NEW e \in {"none", "TAKE_PICTURE"}, NEW ok, NEW api \in {"none", "internal"},
           api = "none" => e # "none", e = "none" => ~Flash, Advance("int", api, e, ok)
    PROVE  /\ Keeps(cam, cam') /\ api_queue' \in Queue(Orders)
           /\ \A x \in Kinds : NoMore(api_queue, api_queue', x)
           /\ call' \in [Callers -> Waits] /\ call'["app"] = call["app"]
           /\ call'["int"].api \in {"none", "internal"}
           /\ call'["int"].evt \in {"none", "TAKE_PICTURE", "taken", "clear"}
<1>1. Keeps(cam, cam')
  BY AdvanceKeeps DEF Tracked, Types
<1>2. /\ call \in [Callers -> Waits] /\ api_queue \in Queue(Orders)
      /\ "app" \in Callers /\ "int" \in Callers
  BY DEF Tracked, Types, Callers
<1>3. PICK k :
          LET f == Following(api, e, ok, k)
          IN  /\ call'["int"] = IF f = "none" THEN Idle
                                ELSE [api |-> api, evt |-> f, seen |-> FALSE, woken |-> FALSE]
              /\ DOMAIN call' = Callers /\ \A d \in Callers \ {"int"} : call'[d] = call[d]
              /\ api_queue' = IF f \in {"none", "taken", "clear"} THEN api_queue
                              ELSE Append(api_queue, Msg(f, "int", 0))
  BY <1>2, AdvancePosts
<1> DEFINE f == Following(api, e, ok, k)
<1>4. f \in {"none", "TAKE_PICTURE", "taken", "clear"}
  BY InternalFollowingIs
<1>5. /\ call'["int"] = IF f = "none" THEN Idle
                        ELSE [api |-> api, evt |-> f, seen |-> FALSE, woken |-> FALSE]
      /\ DOMAIN call' = Callers /\ call'["app"] = call["app"]
      /\ api_queue' = IF f = "TAKE_PICTURE" THEN Append(api_queue, Msg(f, "int", 0)) ELSE api_queue
  BY <1>2, <1>3, <1>4
<1> HIDE DEF f
<1>6. "TAKE_PICTURE" \in Orders /\ "TAKE_PICTURE" \notin Kinds
  BY DEF Orders, Requests, StoppedRefuses, Kinds
<1>7. /\ Append(api_queue, Msg("TAKE_PICTURE", "int", 0)) \in Queue(Orders)
      /\ \A x \in Kinds : NoMore(api_queue, Append(api_queue, Msg("TAKE_PICTURE", "int", 0)), x)
  BY <1>2, <1>6, QueueAppends
<1>8. /\ api_queue' \in Queue(Orders)
      /\ \A x \in Kinds : NoMore(api_queue, api_queue', x)
  BY <1>2, <1>5, <1>7, NoMoreIt
<1>9. call'["int"] \in Waits
  BY <1>4, <1>5, <1>6 DEF Waits, Idle, Orders
<1>10. call' = [call EXCEPT !["int"] = call'["int"]]
  BY <1>2, <1>5 DEF Advance
<1>11. call' \in [Callers -> Waits]
  BY <1>2, <1>9, <1>10
<1>12. /\ call'["int"].api \in {"none", "internal"}
       /\ call'["int"].evt \in {"none", "TAKE_PICTURE", "taken", "clear"}
  BY <1>4, <1>5 DEF Idle
<1> QED BY <1>1, <1>5, <1>8, <1>11, <1>12

LEMMA InternalPictureKeeps ==
    ASSUME Tracked, Alone, InternalPicture
    PROVE  Tracked'
<1>1. /\ InternalPics /\ Advance("int", "internal", "none", TRUE)
      /\ UNCHANGED <<setup, evt_queue, results, asked>>
  BY DEF InternalPicture
<1>2. ~Flash
  BY <1>1 DEF Alone
<1>3. /\ Keeps(cam, cam') /\ api_queue' \in Queue(Orders)
      /\ \A x \in Kinds : NoMore(api_queue, api_queue', x)
      /\ call' \in [Callers -> Waits] /\ call'["app"] = call["app"]
      /\ call'["int"].api \in {"none", "internal"}
      /\ call'["int"].evt \in {"none", "TAKE_PICTURE", "taken", "clear"}
  BY <1>1, <1>2, InternalGoesOn
<1>4. Types'
  BY <1>1, <1>3 DEF Tracked, Types, InternalPics, Keeps
<1>5. \A y : NoMore(results, results', y) /\ NoMore(evt_queue, evt_queue', y)
  BY <1>1, NoMoreIt
<1>6. OnceEach' /\ PreparedOnce' /\ Shown'
  BY <1>1, <1>3, <1>5, Elsewhere DEF Tracked
<1> QED BY <1>4, <1>6 DEF Tracked

LEMMA WakeInternalKeeps ==
    ASSUME Tracked, Wake("int")
    PROVE  Tracked'
<1> DEFINE fits == {i \in DOMAIN results : results[i].evt = call["int"].evt}
           i == CHOOSE j \in fits : \A l \in fits : j <= l
           x == call["int"].evt
<1>1. call \in [Callers -> Waits] /\ "app" \in Callers /\ "int" \in Callers
  BY DEF Tracked, Types, Callers
<1>2. CASE fits = {}
  <2>1. /\ call' = [call EXCEPT !["int"].woken = FALSE]
        /\ UNCHANGED <<setup, cam, api_queue, evt_queue, results, asked>>
    BY <1>2 DEF Wake
  <2>2. /\ call' \in [Callers -> Waits] /\ call'["app"] = call["app"]
        /\ call'["int"].evt = call["int"].evt /\ call'["int"].api = call["int"].api
    BY <1>1, <2>1 DEF Waits
  <2>3. Types'
    BY <2>1, <2>2 DEF Tracked, Types, InternalPics
  <2>4. Keeps(cam, cam') /\ \A y : NoMore(api_queue, api_queue', y) /\ NoMore(results, results', y)
                                   /\ NoMore(evt_queue, evt_queue', y)
    BY <2>1, NoMoreIt, KeepsIt DEF Tracked, Types
  <2>5. OnceEach' /\ PreparedOnce' /\ Shown'
    BY <2>1, <2>2, <2>4, Elsewhere DEF Tracked
  <2> QED BY <2>3, <2>5 DEF Tracked
<1>3. CASE fits # {}
  <2>1. /\ Advance("int", call["int"].api, x, results[i].ok)
        /\ results' = RemoveAt(results, i)
        /\ asked' = CASE x = "ENABLE_MSG_TYPE"  -> TRUE
                      [] x = "DISABLE_MSG_TYPE" -> FALSE
                      [] OTHER -> asked
        /\ UNCHANGED <<setup, evt_queue>>
    BY <1>3 DEF Wake
  <2>2. PICK S : results \in Seq(S)
    BY DEF Tracked, Types, Answers
  <2>3. i \in fits
    <3>1. fits \subseteq Nat
      BY <2>2
    <3> HIDE DEF fits
    <3> QED BY <1>3, <3>1, LeastOf
  <2>4. i \in DOMAIN results /\ results[i].evt = x /\ x \in Requests
    <3>1. i \in DOMAIN results /\ results[i].evt = x
      BY <2>3
    <3>2. \A j \in DOMAIN results : results[j].evt \in Requests
      BY DEF Tracked, Types, Answers
    <3> HIDE DEF i, x
    <3> QED BY <3>1, <3>2
  <2> HIDE DEF i, fits
  <2>5. x = "TAKE_PICTURE" /\ call["int"].api \in {"none", "internal"}
    <3>1. {"none", "taken", "clear"} \cap Requests = {}
      BY DEF Requests, Settings, StoppedRefuses, Restarts, Reports
    <3>2. x \in {"none", "TAKE_PICTURE", "taken", "clear"}
          /\ call["int"].api \in {"none", "internal"}
      BY DEF Tracked, Types
    <3> QED BY <2>4, <3>1, <3>2
  <2>6. asked' = asked
    BY <2>1, <2>5
  <2>7. /\ Keeps(cam, cam') /\ api_queue' \in Queue(Orders)
        /\ \A y \in Kinds : NoMore(api_queue, api_queue', y)
        /\ call' \in [Callers -> Waits] /\ call'["app"] = call["app"]
        /\ call'["int"].api \in {"none", "internal"}
        /\ call'["int"].evt \in {"none", "TAKE_PICTURE", "taken", "clear"}
    BY <2>1, <2>5, InternalGoesOn
  <2>8. Answers(results')
    <3>1. \A j \in DOMAIN RemoveAt(results, i) :
              \E l \in DOMAIN results : RemoveAt(results, i)[j] = results[l]
      BY <2>2, <2>4, Removals
    <3>2. RemoveAt(results, i) \in Seq(S)
      BY <2>2, <2>4, Removals
    <3>3. \A j \in DOMAIN results : results[j].evt \in Requests
      BY DEF Tracked, Types, Answers
    <3> QED BY <2>1, <3>1, <3>2, <3>3 DEF Answers
  <2>9. ~InternalPics => FALSE
    BY <2>5 DEF Tracked, Types
  <2>10. Types'
    BY <2>1, <2>7, <2>8, <2>9 DEF Tracked, Types, InternalPics, Keeps
  <2>11. \A y : NoMore(results, results', y) /\ NoMore(evt_queue, evt_queue', y)
    <3>1. \A y : NoMore(results, RemoveAt(results, i), y)
      BY <2>2, <2>4, Removals
    <3> QED BY <2>1, <3>1, NoMoreIt
  <2>12. At(evt_queue, "PREP_SNAPSHOT_DONE") # {} => At(evt_queue', "PREP_SNAPSHOT_DONE") # {}
    BY <2>1
  <2>13. OnceEach' /\ PreparedOnce' /\ Shown'
    BY <2>6, <2>7, <2>11, <2>12, Elsewhere DEF Tracked
  <2> QED BY <2>10, <2>13 DEF Tracked
<1> QED BY <1>2, <1>3

LEMMA InternalDoneKeeps ==
    ASSUME Tracked, InternalDone
    PROVE  Tracked'
<1>1. /\ call["int"].evt \in {"taken", "clear"}
      /\ UNCHANGED <<setup, cam, evt_queue, results, asked>>
  BY DEF InternalDone
<1>2. /\ call \in [Callers -> Waits] /\ "app" \in Callers /\ "int" \in Callers
      /\ api_queue \in Queue(Orders) /\ cam.shot \in Nat
  BY DEF Tracked, Types, Callers, Camera
<1>3. /\ "SNAPSHOT_DONE" \in Orders \ Kinds /\ "START_PREVIEW" \in Orders \ Kinds
  BY DEF Orders, Requests, Reports, Kinds
<1>4. ASSUME NEW e \in {"SNAPSHOT_DONE", "START_PREVIEW"}, NEW shot \in Nat
      PROVE  /\ Append(api_queue, Msg(e, "none", shot)) \in Queue(Orders)
             /\ \A x \in Kinds : NoMore(api_queue, Append(api_queue, Msg(e, "none", shot)), x)
  BY <1>2, <1>3, QueueAppends
<1>5. api_queue' \in {api_queue, Append(api_queue, Msg("SNAPSHOT_DONE", "none", cam.shot)),
                      Append(api_queue, Msg("START_PREVIEW", "none", 0))}
  BY DEF InternalDone
<1>6. api_queue' \in Queue(Orders) /\ \A x \in Kinds : NoMore(api_queue, api_queue', x)
  BY <1>2, <1>4, <1>5, NoMoreIt
<1>7. /\ call' \in [Callers -> Waits] /\ call'["app"] = call["app"]
      /\ call'["int"].evt \in {"none", "clear"} /\ call'["int"].api \in {call["int"].api, "none"}
  <2>1. CASE call' = [call EXCEPT !["int"].evt = "clear"]
    BY <1>2, <2>1 DEF Waits
  <2>2. CASE call' = [call EXCEPT !["int"] = Idle]
    <3>1. Idle \in Waits /\ Idle.evt = "none" /\ Idle.api = "none"
      BY DEF Idle, Waits
    <3> QED BY <1>2, <2>2, <3>1
  <2> QED BY <2>1, <2>2 DEF InternalDone
<1>8. Types'
  BY <1>1, <1>6, <1>7 DEF Tracked, Types, InternalPics
<1>9. Keeps(cam, cam') /\ \A y : NoMore(results, results', y) /\ NoMore(evt_queue, evt_queue', y)
  BY <1>1, NoMoreIt, KeepsIt DEF Tracked, Types
<1>10. OnceEach' /\ PreparedOnce' /\ Shown'
  BY <1>1, <1>6, <1>7, <1>9, Elsewhere DEF Tracked
<1> QED BY <1>8, <1>10 DEF Tracked

\* The steps of other threads, which post a request of another kind, if any.
LEMMA OtherThreadsKeep ==
    ASSUME Tracked, Keeps(cam, cam'), UNCHANGED <<setup, results, call, asked>>,
           NEW e \in Orders \ Kinds, NEW n \in Nat, NEW f \in Events \ {"PREP_SNAPSHOT_DONE"},
           NEW m \in Nat,
           api_queue' = api_queue \/ api_queue' = Append(api_queue, Msg(e, "none", n)),
           evt_queue' = evt_queue \/ evt_queue' = Append(evt_queue, Msg(f, "none", m))
    PROVE  Tracked'
<1>1. api_queue \in Queue(Orders) /\ evt_queue \in Queue(Events)
  BY DEF Tracked, Types
<1>2. /\ Append(api_queue, Msg(e, "none", n)) \in Queue(Orders)
      /\ \A x \in Kinds : NoMore(api_queue, Append(api_queue, Msg(e, "none", n)), x)
  BY <1>1, QueueAppends
<1>3. api_queue' \in Queue(Orders) /\ \A x \in Kinds : NoMore(api_queue, api_queue', x)
  BY <1>1, <1>2, NoMoreIt
<1> DEFINE done == "PREP_SNAPSHOT_DONE"
<1>4. /\ Append(evt_queue, Msg(f, "none", m)) \in Queue(Events)
      /\ NoMore(evt_queue, Append(evt_queue, Msg(f, "none", m)), done)
      /\ At(evt_queue, done) # {} => At(Append(evt_queue, Msg(f, "none", m)), done) # {}
  BY <1>1, QueueAppends
<1>5. /\ evt_queue' \in Queue(Events) /\ NoMore(evt_queue, evt_queue', done)
      /\ At(evt_queue, done) # {} => At(evt_queue', done) # {}
  BY <1>1, <1>4, NoMoreIt
<1>6. Types'
  BY <1>3, <1>5 DEF Tracked, Types, InternalPics, Keeps
<1>7. \A y : NoMore(results, results', y)
  BY NoMoreIt
<1>8. OnceEach' /\ PreparedOnce' /\ Shown'
  BY <1>3, <1>5, <1>7, Elsewhere DEF Tracked
<1> QED BY <1>6, <1>8 DEF Tracked

LEMMA LiveSnapshotKeeps ==
    ASSUME Tracked, LiveSnapshot \/ LiveCancel
    PROVE  Tracked'
<1>1. Camera(cam) /\ Keeps(cam, cam)
  BY KeepsIt DEF Tracked, Types
<1>2. ASSUME NEW v
      PROVE  /\ Keeps(cam, [cam EXCEPT !.live = v])
             /\ Keeps(cam, [cam EXCEPT !.shot = 0, !.live = v])
  <2> DEFINE n == [cam EXCEPT !.live = v]
             m == [cam EXCEPT !.shot = 0, !.live = v]
  <2>1. /\ DOMAIN n = DOMAIN cam /\ n.st = cam.st /\ n.on = cam.on /\ n.held = cam.held
        /\ n.prepping = cam.prepping /\ n.shot = cam.shot /\ n.shots = cam.shots
    BY <1>1 DEF Camera, Flags
  <2>2. /\ DOMAIN m = DOMAIN cam /\ m.st = cam.st /\ m.on = cam.on /\ m.held = cam.held
        /\ m.prepping = cam.prepping /\ m.shot = 0 /\ m.shots = cam.shots
    BY <1>1 DEF Camera, Flags
  <2> HIDE DEF n, m
  <2>3. Keeps(cam, n)
    BY <1>1, <2>1, Others DEF Camera
  <2>4. Keeps(cam, m)
    BY <1>1, <2>2, Others DEF Camera
  <2> QED BY <2>3, <2>4 DEF n, m
<1>3. ASSUME NEW k, Keeps(cam, k) PROVE Keeps(cam, [k EXCEPT !.live = "none"])
  <2> DEFINE n == [k EXCEPT !.live = "none"]
  <2>1. /\ DOMAIN n = DOMAIN k /\ n.st = k.st /\ n.on = k.on /\ n.held = k.held
        /\ n.prepping = k.prepping /\ n.shot = k.shot /\ n.shots = k.shots
    BY <1>3 DEF Keeps, Camera, Flags
  <2> HIDE DEF n
  <2>2. Keeps(k, n)
    BY <1>3, <2>1, Others DEF Keeps, Camera
  <2> QED BY <1>3, <2>2, Then DEF n
<1>4. Keeps(cam, NewShot(cam))
  BY <1>1, PictureKeeps
<1>5. Keeps(cam, startChannel(NewShot(cam), "snapshot")) /\ Keeps(cam, stopChannel(cam, "snapshot"))
  <2>1. Camera(NewShot(cam))
    BY <1>4 DEF Keeps
  <2>2. Keeps(NewShot(cam), startChannel(NewShot(cam), "snapshot"))
    BY <2>1, ChannelsKeep
  <2>3. Keeps(cam, stopChannel(cam, "snapshot"))
    BY <1>1, ChannelsKeep
  <2> QED BY <1>4, <2>2, <2>3, Then
<1>6. Keeps(cam, cam')
  <2>1. CASE LiveSnapshot
    BY <1>2, <1>3, <1>5, <2>1 DEF LiveSnapshot
  <2>2. CASE LiveCancel
    BY <1>2, <1>3, <1>5, <2>2 DEF LiveCancel
  <2> QED BY <2>1, <2>2
<1>7. /\ UNCHANGED <<setup, results, call, asked, evt_queue>>
      /\ api_queue' = api_queue \/ api_queue' = Append(api_queue, Msg("CANCEL_PICTURE", "none", 0))
  BY DEF LiveSnapshot, LiveCancel
<1>8. "CANCEL_PICTURE" \in Orders \ Kinds /\ "SNAPSHOT_DONE" \in Events \ {"PREP_SNAPSHOT_DONE"}
  BY DEF Orders, Requests, Kinds, Events
<1> QED BY <1>6, <1>7, <1>8, OtherThreadsKeep

LEMMA ReportsKeep ==
    ASSUME Tracked, SnapshotDone \/ StopCapture \/ ReadyForSnapshot
    PROVE  Tracked'
<1>1. Keeps(cam, cam) /\ cam.shot \in Nat
  BY KeepsIt DEF Tracked, Types, Camera
<1>2. /\ "STOP_CAPTURE_CHANNEL" \in Orders \ Kinds
      /\ {"SNAPSHOT_DONE", "READY_FOR_SNAPSHOT"} \subseteq Events \ {"PREP_SNAPSHOT_DONE"}
  BY DEF Orders, Requests, Reports, Kinds, Events
<1>3. UNCHANGED <<setup, cam, results, call, asked>>
  BY DEF SnapshotDone, StopCapture, ReadyForSnapshot
<1>4. Keeps(cam, cam')
  BY <1>1, <1>3
<1>5. \/ api_queue' = api_queue
      \/ api_queue' = Append(api_queue, Msg("STOP_CAPTURE_CHANNEL", "none", cam.shot))
  BY DEF SnapshotDone, StopCapture, ReadyForSnapshot
<1>6. CASE \/ evt_queue' = evt_queue
           \/ evt_queue' = Append(evt_queue, Msg("SNAPSHOT_DONE", "none", cam.shot))
  BY <1>1, <1>2, <1>3, <1>4, <1>5, <1>6, OtherThreadsKeep
<1>7. CASE evt_queue' = Append(evt_queue, Msg("READY_FOR_SNAPSHOT", "none", cam.shot))
  BY <1>1, <1>2, <1>3, <1>4, <1>5, <1>7, OtherThreadsKeep
<1> QED BY <1>6, <1>7 DEF SnapshotDone, StopCapture, ReadyForSnapshot, Event

\* The metadata that ends a preparation.
LEMMA PrepSnapshotDoneKeeps ==
    ASSUME Tracked, PrepSnapshotDone
    PROVE  Tracked'
<1> DEFINE done == "PREP_SNAPSHOT_DONE"
<1>1. /\ cam.prepping /\ cam' = [cam EXCEPT !.prepping = FALSE]
      /\ evt_queue' = Append(evt_queue, Msg(done, "none", cam.shot))
      /\ UNCHANGED <<setup, api_queue, results, call, asked>>
  BY DEF PrepSnapshotDone, Event
<1>2. /\ Camera(cam) /\ evt_queue \in Queue(Events) /\ cam.shot \in Nat
  BY DEF Tracked, Types, Camera
<1>3. /\ Camera(cam') /\ (Shows(cam) => Shows(cam')) /\ cam'.prepping = FALSE /\ cam'.st = cam.st
  BY <1>1, <1>2 DEF Camera, Flags, Shows
<1>4. done \in Events /\ "none" \in Callers \cup {"none"}
  BY DEF Events
<1>5. /\ evt_queue' \in Queue(Events) /\ At(evt_queue', done) # {}
      /\ At(evt_queue, done) = {} => OneOf(At(evt_queue', done))
  BY <1>1, <1>2, <1>4, QueueAppends
<1>6. Types'
  BY <1>1, <1>3, <1>5 DEF Tracked, Types, InternalPics
<1>7. OnceEach'
  BY <1>1 DEF Tracked, OnceEach
<1>8. PreparedOnce'
  BY <1>1, <1>3, <1>5 DEF Tracked, PreparedOnce, Preparing
<1>9. Shown'
  BY <1>1, <1>3 DEF Tracked, Shown
<1> QED BY <1>6, <1>7, <1>8, <1>9 DEF Tracked
--------------------------------------------------------------------------------
(* The state machine thread.                                               *)

\* A request is taken from its queue, and from the other nothing is.
LEMMA RequestIsTaken ==
    ASSUME Tracked, Pending, NEW post,
           api_queue' = IF api_queue = <<>> THEN api_queue ELSE Tail(api_queue),
           evt_queue' = (IF api_queue = <<>> THEN Tail(evt_queue) ELSE evt_queue)
                         \o (IF post THEN <<Msg("SNAPSHOT_DONE", "none", cam.shot)>> ELSE <<>>)
    PROVE  LET e == NextRequest.evt
               done == "PREP_SNAPSHOT_DONE"
           IN  /\ e \in Requests
               /\ api_queue' \in Queue(Orders) /\ evt_queue' \in Queue(Events)
               /\ \A x \in Kinds : NoMore(api_queue, api_queue', x)
               /\ e \in Kinds => At(api_queue, e) # {} /\ At(api_queue', e) = {}
               /\ e = done => At(evt_queue, done) # {} /\ At(evt_queue', done) = {}
               /\ e # done => /\ NoMore(evt_queue, evt_queue', done)
                              /\ At(evt_queue, done) # {} => At(evt_queue', done) # {}
<1> DEFINE e == NextRequest.evt
           done == "PREP_SNAPSHOT_DONE"
           M(Q) == [evt : Q, by : Callers \cup {"none"}, shot : Nat]
           kept == IF api_queue = <<>> THEN Tail(evt_queue) ELSE evt_queue
<1>1. api_queue \in Seq(M(Orders)) /\ evt_queue \in Seq(M(Events)) /\ cam.shot \in Nat
  BY DEF Tracked, Types, Queue, Camera
<1>2. /\ Orders \subseteq Requests /\ Events \subseteq Requests
      /\ done \notin Orders /\ Events \cap Kinds = {}
  BY DEF Orders, Events, Requests, Reports, Kinds
<1>3. \A Q : \A m \in M(Q) : m.evt \in Q
  OBVIOUS
<1> HIDE DEF M
<1>4. OneOf(At(evt_queue, done)) /\ \A x \in Kinds : OneOf(At(api_queue, x))
  BY DEF Tracked, OnceEach, PreparedOnce
<1>5. /\ e \in Requests
      /\ api_queue' \in Seq(M(Orders)) /\ kept \in Seq(M(Events))
      /\ \A x \in Kinds : NoMore(api_queue, api_queue', x)
      /\ e \in Kinds => At(api_queue, e) # {} /\ At(api_queue', e) = {}
      /\ e = done => At(evt_queue, done) # {} /\ At(kept, done) = {}
      /\ e # done => /\ NoMore(evt_queue, kept, done)
                     /\ At(evt_queue, done) # {} => At(kept, done) # {}
  <2>1. CASE api_queue # <<>>
    <3>1. e = Head(api_queue).evt /\ api_queue' = Tail(api_queue) /\ kept = evt_queue
      BY <2>1 DEF NextRequest
    <3>2. Tail(api_queue) \in Seq(M(Orders)) /\ Head(api_queue) \in M(Orders)
      BY <1>1, <2>1, Tails
    <3>3. \A x \in Kinds : /\ NoMore(api_queue, Tail(api_queue), x)
                           /\ Head(api_queue).evt = x => At(api_queue, x) # {}
      BY <1>1, <2>1, Tails
    <3>4. \A x \in Kinds : OneOf(At(api_queue, x)) /\ Head(api_queue).evt = x
                           => At(Tail(api_queue), x) = {}
      BY <1>1, <2>1, Tails
    <3>5. e \in Orders
      BY <1>3, <3>1, <3>2
    <3> HIDE DEF e, kept
    <3>6. NoMore(evt_queue, kept, done)
      BY <3>1, NoMoreIt
    <3>7. e \in Kinds => At(api_queue, e) # {} /\ At(api_queue', e) = {}
      BY <1>4, <3>1, <3>3, <3>4
    <3>8. \A x \in Kinds : NoMore(api_queue, api_queue', x)
      BY <3>1, <3>3
    <3> QED BY <1>1, <1>2, <3>1, <3>2, <3>5, <3>6, <3>7, <3>8
  <2>2. CASE api_queue = <<>>
    <3>1. e = Head(evt_queue).evt /\ api_queue' = api_queue /\ kept = Tail(evt_queue)
          /\ evt_queue # <<>>
      BY <2>2 DEF NextRequest, Pending
    <3>2. Tail(evt_queue) \in Seq(M(Events)) /\ Head(evt_queue) \in M(Events)
      BY <1>1, <3>1, Tails
    <3>3. /\ NoMore(evt_queue, Tail(evt_queue), done)
          /\ Head(evt_queue).evt = done => At(evt_queue, done) # {}
      BY <1>1, <3>1, Tails
    <3>4. OneOf(At(evt_queue, done)) /\ Head(evt_queue).evt = done => At(Tail(evt_queue), done) = {}
      BY <1>1, <3>1, Tails
    <3>5. Head(evt_queue).evt # done /\ At(evt_queue, done) # {} => At(Tail(evt_queue), done) # {}
      BY <1>1, <3>1, Tails
    <3>6. e \in Events
      BY <1>3, <3>1, <3>2
    <3> HIDE DEF e, kept, done
    <3>7. \A x \in Kinds : NoMore(api_queue, api_queue', x)
      BY <3>1, NoMoreIt
    <3> QED BY <1>1, <1>2, <1>4, <3>1, <3>2, <3>3, <3>4, <3>5, <3>6, <3>7
  <2> QED BY <2>1, <2>2
<1> DEFINE m == Msg("SNAPSHOT_DONE", "none", cam.shot)
<1>6. evt_queue' = kept \o (IF post THEN <<m>> ELSE <<>>)
  OBVIOUS
<1>7. m.evt = "SNAPSHOT_DONE" /\ m \in M(Events)
  BY <1>1, MsgIs DEF Events, M, Msg
<1> HIDE DEF e, kept, m
<1>8. evt_queue' = kept \/ evt_queue' = Append(kept, m)
  <2>1. kept \o <<>> = kept
    BY <1>5, ConcatEmptySeq
  <2>2. kept \o <<m>> = Append(kept, m)
    BY <1>5, <1>7, AppendIsConcat
  <2> QED BY <1>6, <2>1, <2>2
<1>9. /\ Append(kept, m) \in Seq(M(Events)) /\ NoMore(kept, Append(kept, m), done)
      /\ At(kept, done) # {} => At(Append(kept, m), done) # {}
  <2>1. Append(kept, m) \in Seq(M(Events))
    BY <1>5, <1>7, AppendProperties
  <2>2. NoMore(kept, Append(kept, m), done)
    BY <1>5, <1>7, Appends
  <2>3. At(kept, done) # {} => At(Append(kept, m), done) # {}
    BY <1>5, <1>7, Appends
  <2> QED BY <2>1, <2>2, <2>3
<1>10. /\ evt_queue' \in Seq(M(Events)) /\ NoMore(kept, evt_queue', done)
       /\ At(kept, done) # {} => At(evt_queue', done) # {}
  BY <1>5, <1>8, <1>9, NoMoreIt
<1>11. e = done => At(evt_queue, done) # {} /\ At(evt_queue', done) = {}
  BY <1>5, <1>10 DEF NoMore
<1>12. e # done => /\ NoMore(evt_queue, evt_queue', done)
                   /\ At(evt_queue, done) # {} => At(evt_queue', done) # {}
  BY <1>5, <1>10 DEF NoMore
<1> QED BY <1>5, <1>10, <1>11, <1>12 DEF e, M, Queue

\* One answer at most is posted.
LEMMA AnswerIsPosted ==
    ASSUME NEW S, NEW q \in Seq(S), NEW x, NEW replies, Single(replies, x), NEW waiting
    PROVE  LET n == q \o Posted(replies, waiting)
           IN  /\ \E T : n \in Seq(T)
               /\ \A y : y # x => NoMore(q, n, y)
               /\ At(q, x) = {} => OneOf(At(n, x))
               /\ replies = <<>> => n = q
               /\ \A i \in DOMAIN n : n[i].evt = x \/ (i \in DOMAIN q /\ n[i] = q[i])
<1> DEFINE n == q \o Posted(replies, waiting)
<1>1. CASE replies = <<>>
  <2>1. Posted(replies, waiting) = <<>>
    BY <1>1 DEF Posted
  <2>2. n = q
    BY <2>1, ConcatEmptySeq
  <2> HIDE DEF n
  <2>3. \A y : NoMore(q, n, y)
    BY <2>2, NoMoreIt
  <2>4. At(q, x) = {} => OneOf(At(n, x))
    BY <2>2 DEF OneOf
  <2> QED BY <2>2, <2>3, <2>4 DEF n
<1>2. CASE replies # <<>>
  <2> DEFINE r == replies[1]
             m == [evt |-> r.evt, ok |-> r.ok,
                   to |-> {c \in Callers : waiting[c].seen /\ waiting[c].evt = r.evt}]
  <2>1. replies = <<r>> /\ r.evt = x
    BY <1>2 DEF Single
  <2>2. Posted(replies, waiting) = <<m>>
    <3>1. DOMAIN replies = {1}
      <4> HIDE DEF r
      <4> QED BY <2>1
    <3>2. Posted(replies, waiting) = [i \in {1} |-> m]
      BY <3>1 DEF Posted
    <3> HIDE DEF m
    <3> QED BY <3>2
  <2>3. m.evt = x
    BY <2>1
  <2> HIDE DEF m, r
  <2>4. n = Append(q, m)
    <3>1. q \in Seq(S \cup {m})
      BY SeqMonotonic
    <3> QED BY <2>2, <3>1, AppendIsConcat
  <2> HIDE DEF n
  <2>5. Append(q, m) \in Seq(S \cup {m})
    BY Appends
  <2>6. \A y : m.evt # y => NoMore(q, Append(q, m), y)
    BY Appends
  <2>7. At(q, x) = {} => OneOf(At(Append(q, m), x))
    BY Appends
  <2>8. \A i \in DOMAIN Append(q, m) : Append(q, m)[i] = m
                                       \/ (i \in DOMAIN q /\ Append(q, m)[i] = q[i])
    BY Appends
  <2> QED BY <1>2, <2>3, <2>4, <2>5, <2>6, <2>7, <2>8 DEF n
<1> QED BY <1>1, <1>2

\* The state machine's step, with the request's handler.
LEMMA HandleKeeps ==
    ASSUME Tracked, Handle
    PROVE  Tracked'
<1> DEFINE e == NextRequest.evt
           done == "PREP_SNAPSHOT_DONE"
           served == [c \in Callers |-> [call[c] EXCEPT !.seen = @ \/ c = NextRequest.by]]
<1>1. PICK o \in Outcomes(cam, e) :
          /\ cam' = o.cam
          /\ results' = results \o Posted(o.replies, served)
          /\ evt_queue' = (IF api_queue = <<>> THEN Tail(evt_queue) ELSE evt_queue)
                           \o (IF o.post THEN <<Msg("SNAPSHOT_DONE", "none", cam.shot)>> ELSE <<>>)
          /\ call' = [c \in Callers |->
                          [served[c] EXCEPT !.woken = @ \/ (o.replies # <<>>
                                                            /\ call[c].api # "none")]]
  BY Zenon DEF Handle
<1>2. /\ Pending /\ api_queue' = IF api_queue = <<>> THEN api_queue ELSE Tail(api_queue)
      /\ setup' = setup /\ asked' = asked
  BY DEF Handle
<1>3. /\ e \in Requests
      /\ api_queue' \in Queue(Orders) /\ evt_queue' \in Queue(Events)
      /\ \A x \in Kinds : NoMore(api_queue, api_queue', x)
      /\ e \in Kinds => At(api_queue, e) # {} /\ At(api_queue', e) = {}
      /\ e = done => At(evt_queue, done) # {} /\ At(evt_queue', done) = {}
      /\ e # done => /\ NoMore(evt_queue, evt_queue', done)
                     /\ At(evt_queue, done) # {} => At(evt_queue', done) # {}
  BY <1>1, <1>2, RequestIsTaken
<1>4. /\ call' \in [Callers -> Waits]
      /\ \A c \in Callers : call'[c].evt = call[c].evt /\ call'[c].api = call[c].api
  <2>1. call \in [Callers -> Waits]
    BY DEF Tracked, Types
  <2> DEFINE new(c, a, b) == [[call[c] EXCEPT !.seen = @ \/ a] EXCEPT !.woken = @ \/ b]
  <2>2. ASSUME NEW c \in Callers, NEW a, NEW b
        PROVE  /\ new(c, a, b) \in Waits
               /\ new(c, a, b).evt = call[c].evt /\ new(c, a, b).api = call[c].api
    BY <2>1 DEF Waits
  <2>3. \A c \in Callers : call'[c] = new(c, c = NextRequest.by,
                                          o.replies # <<>> /\ call[c].api # "none")
    BY <1>1
  <2> HIDE DEF new
  <2>4. \A c \in Callers : /\ call'[c] \in Waits
                           /\ call'[c].evt = call[c].evt /\ call'[c].api = call[c].api
    BY <2>2, <2>3
  <2>5. call' = [c \in Callers |-> call'[c]]
    BY <1>1
  <2> QED BY <2>4, <2>5
<1>5. "app" \in Callers /\ "int" \in Callers /\ Camera(cam)
  BY DEF Callers, Tracked, Types
<1>6. PICK S : results \in Seq(S)
  BY DEF Tracked, Types, Answers
<1>7. ASSUME NEW x \in Requests, Single(o.replies, x)
      PROVE  /\ Answers(results')
             /\ \A y : y # x => NoMore(results, results', y)
             /\ At(results, x) = {} => OneOf(At(results', x))
             /\ o.replies = <<>> => results' = results
  <2> HIDE DEF served
  <2>1. \A i \in DOMAIN results : results[i].evt \in Requests
    BY DEF Tracked, Types, Answers
  <2>2. LET n == results \o Posted(o.replies, served)
        IN  /\ \E T : n \in Seq(T)
            /\ \A y : y # x => NoMore(results, n, y)
            /\ At(results, x) = {} => OneOf(At(n, x))
            /\ o.replies = <<>> => n = results
            /\ \A i \in DOMAIN n : n[i].evt = x \/ (i \in DOMAIN results /\ n[i] = results[i])
    BY <1>6, <1>7, AnswerIsPosted
  <2>3. results' = results \o Posted(o.replies, served)
    BY <1>1
  <2> QED BY <1>7, <2>1, <2>2, <2>3 DEF Answers
<1> HIDE DEF e, served
<1>8. /\ \A x \in Kinds : At(api_queue, x) # {} => /\ call["app"].evt = x
                                                   /\ At(results, x) = {}
      /\ Preparing => call["app"].evt = "PREPARE_SNAPSHOT"
      /\ \A x \in Kinds : OneOf(At(api_queue, x)) /\ OneOf(At(results, x))
  BY DEF Tracked, OnceEach, PreparedOnce
<1>9. call'["app"].evt = call["app"].evt
  BY <1>4, <1>5
<1>10. SUFFICES Camera(cam') /\ OnceEach' /\ PreparedOnce' /\ Shown' /\ Answers(results')
  BY <1>2, <1>3, <1>4, <1>5 DEF Tracked, Types, InternalPics
<1>11. CASE e \in Enabling \ {"PREPARE_SNAPSHOT"}
  <2>1. Keeps(cam, cam') /\ Single(o.replies, Asks(e))
    BY <1>1, <1>5, <1>11, HandlersAre DEF Fine
  <2>2. Asks(e) \in Requests
    BY <1>3 DEF Asks, Requests, StoppedRefuses
  <2>3. /\ \A y : y # Asks(e) => NoMore(results, results', y)
        /\ At(results, Asks(e)) = {} => OneOf(At(results', Asks(e)))
        /\ Answers(results')
    BY <1>7, <2>1, <2>2
  <2>4. CASE e = done
    <3>1. Asks(e) = "PREPARE_SNAPSHOT"
      BY <2>4 DEF Asks
    <3>2. /\ At(evt_queue', done) = {} /\ ~cam.prepping /\ call["app"].evt = "PREPARE_SNAPSHOT"
          /\ At(api_queue, "PREPARE_SNAPSHOT") = {} /\ At(results, "PREPARE_SNAPSHOT") = {}
      BY <1>3, <2>4 DEF Tracked, PreparedOnce, Preparing
    <3>3. cam'.prepping = cam.prepping
      BY <2>1 DEF Keeps
    <3>4. cam'.st # "PREPARE_SNAPSHOT"
      <4>1. CASE cam.st = "PREPARE_SNAPSHOT"
        <5>1. o \in PrepareSnapshot(cam, e)
          BY <1>1, <4>1 DEF Outcomes
        <5>2. o.cam.st # "PREPARE_SNAPSHOT"
          BY <1>3, <1>5, <2>4, <4>1, <5>1, PrepareSnapshotAre
        <5> QED BY <1>1, <5>2
      <4>2. CASE cam.st # "PREPARE_SNAPSHOT"
        BY <2>1, <4>2 DEF Keeps
      <4> QED BY <4>1, <4>2
    <3>5. OnceEach'
      BY <1>3, <1>8, <1>9, <2>3, <3>1, <3>2 DEF Tracked, OnceEach, NoMore
    <3>6. PreparedOnce'
      BY <3>2, <3>3, <3>4 DEF PreparedOnce, Preparing, OneOf
    <3>7. Shown'
      BY <1>2, <1>9, <2>1, <2>3, <3>1 DEF Tracked, Shown, Keeps, NoMore
    <3> QED BY <2>1, <2>3, <3>5, <3>6, <3>7 DEF Keeps
  <2>5. CASE e = "ENABLE_MSG_TYPE"
    <3>1. Asks(e) = e /\ e \in Kinds /\ e # done
      BY <2>5 DEF Asks, Kinds
    <3>2. /\ At(api_queue, e) # {} /\ At(api_queue', e) = {}
          /\ call["app"].evt = e /\ At(results, e) = {} /\ ~Preparing
      BY <1>3, <1>8, <2>5, <3>1
    <3>3. cam.st # "PREPARE_SNAPSHOT"
      BY <3>2 DEF Tracked, PreparedOnce
    <3>4. Shows(cam')
      BY <1>1, <1>5, <2>5, <3>3, EnableIs
    <3>5. OnceEach'
      BY <1>3, <1>8, <1>9, <2>3, <3>1, <3>2 DEF Tracked, OnceEach, NoMore
    <3>6. PreparedOnce'
      BY <1>3, <2>1, <3>1, <3>2, <3>3 DEF Tracked, PreparedOnce, Preparing, Keeps, NoMore
    <3>7. Shown'
      BY <3>4 DEF Shown
    <3> QED BY <2>1, <2>3, <3>5, <3>6, <3>7 DEF Keeps
  <2>6. CASE e \notin {done, "ENABLE_MSG_TYPE"}
    <3>1. Asks(e) \notin Kinds
      BY <1>11, <2>6 DEF Asks, Kinds, Enabling
    <3>2. \A x \in Kinds : NoMore(api_queue, api_queue', x) /\ NoMore(results, results', x)
      BY <1>3, <2>3, <3>1
    <3>3. /\ NoMore(evt_queue, evt_queue', done)
          /\ At(evt_queue, done) # {} => At(evt_queue', done) # {}
      BY <1>3, <2>6
    <3>4. OnceEach' /\ PreparedOnce' /\ Shown'
      BY <1>2, <1>9, <2>1, <3>2, <3>3, Elsewhere DEF Tracked
    <3> QED BY <2>1, <2>3, <3>4 DEF Keeps
  <2> QED BY <2>4, <2>5, <2>6
<1>12. CASE e = "DISABLE_MSG_TYPE"
  <2>1. /\ Camera(cam') /\ cam'.st = cam.st /\ cam'.prepping = cam.prepping
        /\ Single(o.replies, "DISABLE_MSG_TYPE")
    BY <1>1, <1>5, <1>12, DisableIs
  <2>2. /\ \A y : y # e => NoMore(results, results', y)
        /\ At(results, e) = {} => OneOf(At(results', e))
        /\ Answers(results')
    BY <1>3, <1>7, <1>12, <2>1
  <2>3. e \in Kinds /\ e # done
    BY <1>12 DEF Kinds
  <2>4. /\ At(api_queue, e) # {} /\ At(api_queue', e) = {}
        /\ call["app"].evt = e /\ At(results, e) = {} /\ ~Preparing
    BY <1>3, <1>8, <1>12, <2>3
  <2>5. OnceEach'
    BY <1>3, <1>8, <1>9, <2>2, <2>3, <2>4 DEF Tracked, OnceEach, NoMore
  <2>6. PreparedOnce'
    BY <1>3, <2>1, <2>3, <2>4 DEF Tracked, PreparedOnce, Preparing, NoMore
  <2>7. At(results, "ENABLE_MSG_TYPE") = {}
    BY <1>12, <2>4 DEF Tracked, OnceEach, Kinds
  <2>8. Shown'
    BY <1>9, <1>12, <2>2, <2>4, <2>7 DEF Shown, NoMore
  <2> QED BY <2>1, <2>2, <2>5, <2>6, <2>8
<1>13. CASE e = "PREPARE_SNAPSHOT"
  <2>1. /\ Camera(cam') /\ (Shows(cam) => Shows(cam'))
        /\ \/ Keeps(cam, cam') /\ Single(o.replies, e)
           \/ cam'.prepping /\ o.replies = <<>>
    BY <1>1, <1>5, <1>13, PrepareIs
  <2>2. Single(o.replies, e)
    BY <2>1 DEF Single
  <2>3. /\ \A y : y # e => NoMore(results, results', y)
        /\ At(results, e) = {} => OneOf(At(results', e))
        /\ o.replies = <<>> => results' = results
        /\ Answers(results')
    BY <1>3, <1>7, <2>2
  <2>4. e \in Kinds /\ e # done
    BY <1>13 DEF Kinds
  <2>5. /\ At(api_queue, e) # {} /\ At(api_queue', e) = {}
        /\ call["app"].evt = e /\ At(results, e) = {}
    BY <1>3, <1>8, <2>4
  <2>6. ~Preparing /\ cam.st # "PREPARE_SNAPSHOT"
    BY <1>13, <2>5 DEF Tracked, PreparedOnce
  <2>7. OnceEach'
    BY <1>3, <1>8, <1>9, <2>3, <2>4, <2>5 DEF Tracked, OnceEach, NoMore
  <2>8. At(evt_queue', done) = {}
    BY <1>3, <2>4, <2>6 DEF Preparing, NoMore
  <2>9. PreparedOnce'
    <3>1. CASE Keeps(cam, cam')
      BY <2>6, <2>8, <3>1 DEF PreparedOnce, Preparing, Keeps, OneOf
    <3>2. CASE cam'.prepping /\ o.replies = <<>>
      BY <1>9, <1>13, <2>3, <2>5, <2>8, <3>2 DEF PreparedOnce, Preparing, OneOf
    <3> QED BY <2>1, <3>1, <3>2
  <2>10. Shown'
    BY <1>2, <1>9, <1>13, <2>1, <2>3 DEF Tracked, Shown, NoMore
  <2> QED BY <2>1, <2>3, <2>7, <2>9, <2>10
<1> QED BY <1>3, <1>11, <1>12, <1>13, SMTT(30) DEF Enabling
--------------------------------------------------------------------------------
LEMMA InitTracked ==
    ASSUME Init
    PROVE  Tracked
<1>1. /\ api_queue = <<>> /\ evt_queue = <<>> /\ results = <<>> /\ asked = FALSE
      /\ setup \in Setups /\ call = [c \in Callers |-> Idle]
  BY DEF Init
<1>2. Camera(cam) /\ cam.prepping = FALSE /\ cam.st = "STOPPED"
  BY DEF Init, Camera, Flags, States
<1>3. \A Q : <<>> \in Queue(Q)
  BY DEF Queue
<1>4. Answers(<<>>)
  BY DEF Answers
<1>5. \A x : At(<<>>, x) = {}
  BY DEF At
<1>6. /\ Idle \in Waits /\ Idle.api = "none" /\ Idle.evt = "none"
      /\ "app" \in Callers /\ "int" \in Callers
  BY DEF Idle, Waits, Callers
<1>7. Types
  BY <1>1, <1>2, <1>3, <1>4, <1>6 DEF Types
<1>8. OnceEach /\ PreparedOnce /\ Shown
  BY <1>1, <1>2, <1>5 DEF OnceEach, PreparedOnce, Preparing, Shown, OneOf
<1> QED BY <1>7, <1>8 DEF Tracked

LEMMA NextTracked ==
    ASSUME Alone, Tracked, [Next]_vars
    PROVE  Tracked'
<1>1. CASE Handle
  BY <1>1, HandleKeeps
<1>2. ASSUME NEW api \in Apis, Call(api) PROVE Tracked'
  BY <1>2, CallKeeps
<1>3. ASSUME NEW c \in Callers, Wake(c) PROVE Tracked'
  <2>1. c = "app" \/ c = "int"
    BY DEF Callers
  <2> QED BY <1>3, <2>1, WakeAppKeeps, WakeInternalKeeps
<1>4. CASE InternalPicture \/ InternalDone
  BY <1>4, InternalPictureKeeps, InternalDoneKeeps
<1>5. CASE LiveSnapshot \/ LiveCancel
  BY <1>5, LiveSnapshotKeeps
<1>6. CASE SnapshotDone \/ StopCapture \/ ReadyForSnapshot
  BY <1>6, ReportsKeep
<1>7. CASE PrepSnapshotDone
  BY <1>7, PrepSnapshotDoneKeeps
<1>8. CASE DaemonDies
  BY <1>8 DEF DaemonDies, Alone
<1>9. CASE UNCHANGED vars
  BY <1>9 DEF vars, Tracked, Types, OnceEach, PreparedOnce, Preparing, Shown, InternalPics
<1> QED BY <1>1, <1>2, <1>3, <1>4, <1>5, <1>6, <1>7, <1>8, <1>9 DEF Next

LEMMA SetupStays ==
    ASSUME [Next]_vars
    PROVE  Alone' => Alone
<1>1. setup' = setup
  BY Zenon DEF Next, vars, Handle, Call, Wake, InternalPicture, InternalDone, LiveSnapshot, LiveCancel,
         SnapshotDone, StopCapture, PrepSnapshotDone, ReadyForSnapshot, DaemonDies
<1> QED BY <1>1, SMTT(30) DEF Alone, InternalPics, Flash, DaemonMayDie

\* A preview frame message the application has enabled stays enabled, or held
\* back to be enabled, until it asks for the contrary, whatever pictures,
\* recordings, restarts and failures of the hardware there are meanwhile: no
\* handler of QCameraStateMachine and no operation of the hardware interface
\* forgets what ENABLE_MSG_TYPE asked for, and the one state that refuses it,
\* that of a snapshot being prepared, the application cannot ask it in, for
\* its own call waits there.  (But for a flash picture of the backend's own,
\* and for a daemon that dies.)
THEOREM QCameraEnableNotLost == Spec => []EnableNotLost
<1>1. Init => IInv
  BY InitTracked DEF IInv
<1>2. IInv /\ [Next]_vars => IInv'
  BY NextTracked, SetupStays DEF IInv
<1>3. IInv => EnableNotLost
  BY DEF IInv, Alone, Tracked, Shown, Shows, EnableNotLost
<1> QED BY <1>1, <1>2, <1>3, PTL DEF Spec
--------------------------------------------------------------------------------
(* The fields of the camera, and what an operation changes of them.        *)

LEMMA DiffersIt ==
    ASSUME NEW k, Typed(k), NEW F
    PROVE  Differs(k, k, F)
BY DEF Differs

LEMMA DiffersThen ==
    ASSUME NEW k, NEW n, NEW m, NEW F, NEW G, NEW H, Differs(k, n, F), Differs(n, m, G),
           F \cup G \subseteq H
    PROVE  Differs(k, m, H)
BY DEF Differs

LEMMA DiffersMore ==
    ASSUME NEW k, NEW n, NEW F, NEW G, Differs(k, n, F), F \subseteq G
    PROVE  Differs(k, n, G)
BY DEF Differs

LEMMA Put ==
    ASSUME NEW k, Typed(k), NEW f \in Fields, NEW v \in Sorts[f]
    PROVE  Differs(k, [k EXCEPT ![f] = v], {f}) /\ [k EXCEPT ![f] = v][f] = v
BY DEF Differs, Typed

LEMMA PutTwo ==
    ASSUME NEW k, Typed(k), NEW f \in Fields, NEW v \in Sorts[f], NEW g \in Fields \ {f}, NEW w \in Sorts[g]
    PROVE  LET n == [k EXCEPT ![f] = v, ![g] = w]
           IN  Differs(k, n, {f, g}) /\ n[f] = v /\ n[g] = w
BY DEF Differs, Typed

LEMMA SortsAre ==
    /\ \A f \in {"preview", "video", "snapshot"} : Sorts[f] = Channel
    /\ \A f \in {"hint", "longshot", "retro", "window", "needRestart", "again", "later", "prep",
                 "prepping", "dead", "restart", "hintSet", "delay", "held", "on"} : Sorts[f] = BOOLEAN
    /\ Sorts["st"] = States
    /\ Sorts["capture"] = {"none", "started", "stopped"}
    /\ Sorts["shot"] = Nat /\ Sorts["shots"] = Nat
    /\ Sorts["live"] = {"none", "take", "taking", "cancel", "cancelling"}
BY DEF Sorts

LEMMA ChannelsPut ==
    ASSUME NEW k, Typed(k), NEW ch \in {"preview", "video", "snapshot"}
    PROVE  /\ Differs(k, addChannel(k, ch), {ch}) /\ addChannel(k, ch)[ch] = "added"
           /\ Differs(k, delChannel(k, ch), {ch}) /\ delChannel(k, ch)[ch] = "none"
           /\ Differs(k, startChannel(k, ch), {ch}) /\ startChannel(k, ch)[ch] = "started"
           /\ Differs(k, stopChannel(k, ch), {ch}) /\ stopChannel(k, ch)[ch] # "started"
           /\ (stopChannel(k, ch)[ch] = "none" <=> k[ch] = "none")
<1>1. ch \in Fields /\ {"added", "none", "started"} \subseteq Sorts[ch]
  BY SortsAre DEF Fields, Channel
<1>2. ASSUME NEW v \in {"added", "none", "started"}
      PROVE  Differs(k, [k EXCEPT ![ch] = v], {ch}) /\ [k EXCEPT ![ch] = v][ch] = v
  BY <1>1, Put
<1>3. Differs(k, k, {ch})
  BY DiffersIt
<1> QED BY <1>2, <1>3 DEF addChannel, delChannel, startChannel, stopChannel

LEMMA Unprepares ==
    ASSUME NEW k, Typed(k)
    PROVE  LET n == unpreparePreview(k)
           IN  /\ Differs(k, n, Three)
               /\ n.preview = "none" /\ n.video = "none" /\ n.snapshot = "none"
<1> DEFINE a == delChannel(k, "preview")
           b == delChannel(a, "video")
           n == delChannel(b, "snapshot")
<1>1. Differs(k, a, {"preview"}) /\ a.preview = "none"
  BY ChannelsPut
<1>2. Differs(a, b, {"video"}) /\ b.video = "none"
  BY <1>1, ChannelsPut DEF Differs
<1>3. Differs(b, n, {"snapshot"}) /\ n.snapshot = "none"
  BY <1>2, ChannelsPut DEF Differs
<1>4. unpreparePreview(k) = n
  BY DEF unpreparePreview
<1> HIDE DEF a, b, n
<1>5. Differs(k, n, Three) /\ n.preview = "none" /\ n.video = "none"
  BY <1>1, <1>2, <1>3 DEF Differs, Three, Fields
<1> QED BY <1>3, <1>4, <1>5

LEMMA StopsPreview ==
    ASSUME NEW k, Typed(k)
    PROVE  LET n == stopPreview(k)
           IN  /\ Differs(k, n, Three)
               /\ n.preview = "none" /\ n.video = "none" /\ n.snapshot = "none"
<1> DEFINE a == stopChannel(k, "preview")
<1>1. Differs(k, a, {"preview"})
  BY ChannelsPut
<1>2. stopPreview(k) = unpreparePreview(a)
  BY DEF stopPreview
<1> HIDE DEF a
<1>3. /\ Differs(a, unpreparePreview(a), Three)
      /\ unpreparePreview(a).preview = "none" /\ unpreparePreview(a).video = "none"
      /\ unpreparePreview(a).snapshot = "none"
  BY <1>1, Unprepares DEF Differs
<1> QED BY <1>1, <1>2, <1>3, DiffersThen DEF Three

LEMMA Attempted ==
    ASSUME NEW olds, NEW new, NEW r \in Attempt(olds, new)
    PROVE  \/ r.ok = TRUE /\ r.cam = new /\ ~new.dead
           \/ r.ok = FALSE /\ r.cam \in olds /\ Refuses(new)
BY DEF Attempt, Did, Failed, Refuses

LEMMA PreparesIs ==
    ASSUME NEW k, Typed(k), NEW r \in preparePreview(k)
    PROVE  Prepares(k, r)
<1>1. CASE ~k.hint
  <2> DEFINE new == addChannel(k, "preview")
             del == delChannel(k, "preview")
  <2>1. /\ Differs(k, new, {"preview"}) /\ new.preview = "added"
        /\ Differs(k, del, {"preview"}) /\ del.preview = "none"
    BY ChannelsPut
  <2>2. r \in Attempt({k, del}, new)
    BY <1>1 DEF preparePreview, addZSLChannel, addPreviewChannel
  <2> HIDE DEF new, del
  <2>3. \/ r.ok = TRUE /\ r.cam = new /\ ~new.dead
        \/ r.ok = FALSE /\ r.cam \in {k, del} /\ Refuses(new)
    BY <2>2, Attempted
  <2>4. new.dead = k.dead
    BY <2>1 DEF Differs, Fields
  <2>5. Differs(k, k, {"preview"})
    BY DiffersIt
  <2>6. Differs(k, r.cam, {"preview"})
    BY <2>1, <2>3, <2>5
  <2>7. Differs(k, r.cam, Three \cup {"longshot", "prep"})
    BY <2>6, DiffersMore DEF Three
  <2>8. r.cam.longshot = k.longshot /\ r.cam.video = k.video
    BY <2>6 DEF Differs, Fields
  <2> QED BY <1>1, <2>1, <2>3, <2>4, <2>6, <2>7, <2>8 DEF Prepares, Refuses
<1>2. CASE k.hint
  <2> DEFINE off        == [k EXCEPT !.longshot = FALSE, !.prep = @ /\ ~k.longshot]
             noSnapshot == delChannel(off, "snapshot")
             noVideo    == delChannel(noSnapshot, "video")
             noPreview  == delChannel(noVideo, "preview")
             a          == addChannel(off, "snapshot")
             b          == addChannel(a, "video")
             new        == addChannel(b, "preview")
             All        == Three \cup {"longshot", "prep"}
  <2>1. Differs(k, off, {"longshot", "prep"}) /\ off.longshot = FALSE
    <3>1. {"longshot", "prep"} \subseteq Fields /\ Sorts["longshot"] = BOOLEAN /\ Sorts["prep"] = BOOLEAN
      BY SortsAre DEF Fields
    <3>2. PICK w \in BOOLEAN : w = (k.prep /\ ~k.longshot)
      BY Zenon
    <3>3. off = [k EXCEPT !.longshot = FALSE, !.prep = w]
      BY <3>2
    <3>4. Differs(k, off, {"longshot", "prep"})
      BY <3>1, <3>3, PutTwo
    <3>5. off.longshot = FALSE
      BY <3>1, <3>3 DEF Typed
    <3> QED BY <3>4, <3>5
  <2>2. r \in Attempt({k, noSnapshot, noVideo, noPreview}, new)
    BY <1>2 DEF preparePreview, addPreviewChannel, addVideoChannel, addSnapshotChannel
  <2>3. Typed(off)
    BY <2>1 DEF Differs
  <2> HIDE DEF off
  <2>4. Differs(off, noSnapshot, {"snapshot"})
    BY <2>3, ChannelsPut
  <2>5. Differs(noSnapshot, noVideo, {"video"}) /\ noVideo.video = "none"
    BY <2>4, ChannelsPut DEF Differs
  <2>6. Differs(noVideo, noPreview, {"preview"}) /\ noPreview.preview = "none"
    BY <2>5, ChannelsPut DEF Differs
  <2>7. Differs(off, a, {"snapshot"}) /\ a.snapshot = "added"
    BY <2>3, ChannelsPut
  <2>8. Differs(a, b, {"video"}) /\ b.video = "added"
    BY <2>7, ChannelsPut DEF Differs
  <2>9. Differs(b, new, {"preview"}) /\ new.preview = "added"
    BY <2>8, ChannelsPut DEF Differs
  <2> HIDE DEF off, noSnapshot, noVideo, noPreview, a, b, new
  <2>10. /\ Differs(k, noSnapshot, All) /\ noSnapshot.longshot = FALSE
        /\ noSnapshot.video = k.video /\ noSnapshot.preview = k.preview
    BY <2>1, <2>4 DEF Differs, Three, Fields
  <2>11. /\ Differs(k, noVideo, All) /\ noVideo.longshot = FALSE /\ noVideo.preview = k.preview
    BY <2>5, <2>10 DEF Differs, Three, Fields
  <2>12. /\ Differs(k, noPreview, All) /\ noPreview.longshot = FALSE /\ noPreview.video = "none"
    BY <2>5, <2>6, <2>11 DEF Differs, Three, Fields
  <2>13. /\ Differs(k, new, All) /\ new.longshot = FALSE
         /\ new.video = "added" /\ new.snapshot = "added"
    BY <2>1, <2>7, <2>8, <2>9 DEF Differs, Three, Fields
  <2>14. Differs(k, k, All)
    BY DiffersIt
  <2>15. new.dead = k.dead
    BY <2>13 DEF Differs, Three, Fields
  <2>16. \/ r.ok = TRUE /\ r.cam = new /\ ~new.dead
         \/ r.ok = FALSE /\ r.cam \in {k, noSnapshot, noVideo, noPreview} /\ Refuses(new)
    BY <2>2, Attempted
  <2> HIDE DEF All
  <2>17. CASE r.ok = TRUE /\ r.cam = new /\ ~new.dead
    BY <1>2, <2>9, <2>13, <2>15, <2>17 DEF Prepares, All
  <2>18. CASE r.ok = FALSE /\ r.cam \in {k, noSnapshot, noVideo, noPreview} /\ Refuses(new)
    BY <1>2, <2>5, <2>6, <2>10, <2>11, <2>12, <2>14, <2>15, <2>18 DEF Prepares, All, Refuses
  <2> QED BY <2>16, <2>17, <2>18
<1>3. k.hint \in BOOLEAN
  BY SortsAre DEF Typed, Fields
<1> QED BY <1>1, <1>2

LEMMA StartsIs ==
    ASSUME NEW k, Typed(k)
    PROVE  /\ \A r \in startPreview(k) : Starts(k, r)
           /\ \A r \in StartOrUnprepare(k) : StartsOrNot(k, r)
<1>1. ASSUME NEW r \in startPreview(k) PROVE Starts(k, r)
  <2> DEFINE new == startChannel(k, "preview")
  <2>1. Differs(k, new, {"preview"}) /\ new.preview = "started"
    BY ChannelsPut
  <2>2. Differs(k, k, {"preview"})
    BY DiffersIt
  <2>3. CASE k.preview = "none"
    <3>1. r.ok = FALSE /\ r.cam = k
      BY <1>1, <2>3 DEF startPreview, Failed
    <3> QED BY <2>2, <2>3, <3>1 DEF Starts
  <2>4. CASE k.preview # "none"
    <3>1. r \in Attempt({k, new}, new)
      BY <1>1, <2>4 DEF startPreview
    <3> HIDE DEF new
    <3>2. \/ r.ok = TRUE /\ r.cam = new /\ ~new.dead
          \/ r.ok = FALSE /\ r.cam \in {k, new} /\ Refuses(new)
      BY <3>1, Attempted
    <3>3. new.dead = k.dead
      BY <2>1 DEF Differs, Fields
    <3> QED BY <2>1, <2>2, <3>2, <3>3 DEF Starts, Refuses
  <2> QED BY <2>3, <2>4
<1>2. ASSUME NEW r \in StartOrUnprepare(k) PROVE StartsOrNot(k, r)
  <2>1. PICK s \in startPreview(k) : r = IF s.ok THEN s ELSE Failed(unpreparePreview(s.cam))
    BY DEF StartOrUnprepare
  <2>2. Starts(k, s)
    BY <1>1
  <2>3. CASE s.ok
    <3>1. r = s
      BY <2>1, <2>3
    <3>2. Differs(k, s.cam, Three)
      BY <2>2, DiffersMore DEF Starts, Three
    <3> QED BY <2>2, <2>3, <3>1, <3>2 DEF Starts, StartsOrNot
  <2>4. CASE ~s.ok
    <3> DEFINE n == unpreparePreview(s.cam)
    <3>1. r = Failed(n)
      BY <2>1, <2>4
    <3>2. /\ Differs(s.cam, n, Three)
          /\ n.preview = "none" /\ n.video = "none" /\ n.snapshot = "none"
      BY <2>2, Unprepares DEF Starts, Differs
    <3> HIDE DEF n
    <3>3. Differs(k, n, Three)
      BY <2>2, <3>2, DiffersThen DEF Starts, Three
    <3>4. r.ok = FALSE /\ r.cam = n
      BY <3>1 DEF Failed
    <3> QED BY <2>2, <2>4, <3>2, <3>3, <3>4 DEF Starts, StartsOrNot
  <2> QED BY <2>3, <2>4
<1> QED BY <1>1, <1>2

LEMMA Applies ==
    ASSUME NEW k, Typed(k)
    PROVE  Differs(k, Applied(k), Messaging)
<1>1. /\ k.on \in BOOLEAN /\ k.held \in BOOLEAN /\ k.delay \in BOOLEAN
      /\ Sorts["on"] = BOOLEAN /\ Sorts["held"] = BOOLEAN /\ Sorts["delay"] = BOOLEAN
  BY SortsAre DEF Typed, Fields
<1> DEFINE n == Applied(k)
<1>2. DOMAIN n = Fields /\ \A f \in Fields \ Messaging : n[f] = k[f]
  BY DEF Typed, Applied, Messaging
<1>3. /\ n.on = (k.on \/ (k.delay /\ k.held)) /\ n.held = (k.held /\ ~k.delay) /\ n.delay = FALSE
  BY DEF Typed, Applied, Fields
<1> HIDE DEF n
<1>4. n.on \in BOOLEAN /\ n.held \in BOOLEAN /\ n.delay \in BOOLEAN
  BY <1>1, <1>3
<1>5. \A f \in Fields : n[f] \in Sorts[f]
  BY <1>1, <1>2, <1>4 DEF Typed, Messaging
<1> QED BY <1>2, <1>5 DEF Differs, Typed, n

LEMMA RestartedIs ==
    ASSUME NEW k, Typed(k), NEW p \in preparePreview(k), NEW q,
           q = p.cam \/ q = Applied(p.cam)
    PROVE  /\ ~p.ok => RestartedOrNot(k, p)
           /\ p.ok => /\ \A r \in startPreview(q) : Restarted(k, r)
                      /\ \A r \in StartOrUnprepare(q) : RestartedOrNot(k, r)
<1>1. Prepares(k, p)
  BY PreparesIs
<1>2. Typed(p.cam)
  BY <1>1 DEF Prepares, Differs
<1>3. Differs(p.cam, q, Messaging)
  BY <1>2, Applies, DiffersIt
<1>4. /\ Differs(k, q, Around)
      /\ q.longshot => k.longshot
      /\ ~k.hint => q.longshot = k.longshot /\ q.video = k.video /\ q.snapshot = k.snapshot
      /\ p.ok => /\ ~k.dead /\ q.preview = "added"
                 /\ k.hint => q.video = "added" /\ q.snapshot = "added"
  <2>1. Differs(k, q, Around)
    BY <1>1, <1>3, DiffersThen DEF Prepares, Around
  <2>2. /\ q.longshot = p.cam.longshot /\ q.video = p.cam.video
        /\ q.snapshot = p.cam.snapshot /\ q.preview = p.cam.preview
    BY <1>3 DEF Differs, Fields, Messaging
  <2>3. ~k.hint => /\ p.cam.longshot = k.longshot /\ p.cam.video = k.video
                   /\ p.cam.snapshot = k.snapshot
    BY <1>1 DEF Prepares, Differs, Fields
  <2> QED BY <1>1, <2>1, <2>2, <2>3 DEF Prepares
<1>5. ~p.ok => RestartedOrNot(k, p)
  <2>1. Differs(k, p.cam, Around)
    BY <1>1, DiffersMore DEF Prepares, Around
  <2>2. ~k.hint => p.cam.longshot = k.longshot
    BY <1>1 DEF Prepares, Differs, Fields
  <2> QED BY <1>1, <2>1, <2>2 DEF Prepares, Restarted, RestartedOrNot
<1>6. ASSUME p.ok, NEW r, Differs(q, r.cam, Three), r.ok \in BOOLEAN,
             r.ok => ~q.dead /\ Differs(q, r.cam, {"preview"}) /\ r.cam.preview = "started",
             ~r.ok => q.preview = "none" \/ Refuses(q),
             ~r.ok => r.cam.video \in {q.video, "none"}
      PROVE  Restarted(k, r)
  <2>1. Differs(k, r.cam, Around)
    BY <1>4, <1>6, DiffersThen DEF Around, Three
  <2>2. r.cam.longshot = q.longshot /\ q.dead = k.dead
    BY <1>4, <1>6 DEF Differs, Fields, Three, Around, Messaging
  <2>3. r.ok => r.cam.video = q.video /\ r.cam.snapshot = q.snapshot
    BY <1>6 DEF Differs, Fields
  <2>4. ~r.ok => Refuses(k)
    BY <1>4, <1>6, <2>2 DEF Refuses
  <2>5. q.video \in {k.video, "added"}
    <3>1. k.hint \in BOOLEAN
      BY SortsAre DEF Typed, Fields
    <3> QED BY <1>4, <1>6, <3>1
  <2> QED BY <1>4, <1>6, <2>1, <2>2, <2>3, <2>4, <2>5 DEF Restarted
<1>7. Typed(q)
  BY <1>3 DEF Differs
<1>8. ASSUME p.ok, NEW r \in startPreview(q) PROVE Restarted(k, r)
  <2>1. Starts(q, r)
    BY <1>7, <1>8, StartsIs
  <2>2. Differs(q, r.cam, Three) /\ r.cam.video = q.video
    <3>1. Differs(q, r.cam, {"preview"})
      BY <2>1 DEF Starts
    <3>2. r.cam.video = q.video
      BY <3>1 DEF Differs, Fields
    <3> QED BY <3>1, <3>2, DiffersMore DEF Three
  <2> QED BY <1>6, <1>8, <2>1, <2>2 DEF Starts
<1>9. ASSUME p.ok, NEW r \in StartOrUnprepare(q) PROVE RestartedOrNot(k, r)
  <2>1. StartsOrNot(q, r)
    BY <1>7, <1>9, StartsIs
  <2>2. Restarted(k, r)
    BY <1>6, <1>9, <2>1 DEF StartsOrNot
  <2> QED BY <2>1, <2>2 DEF StartsOrNot, RestartedOrNot
<1> QED BY <1>5, <1>8, <1>9

LEMMA RestartsAre ==
    ASSUME NEW k, Typed(k)
    PROVE  /\ \A r \in Prepared(k, startPreview) : Restarted(k, r)
           /\ \A r \in Restart(k) : RestartedOrNot(k, r)
           /\ \A r \in ApplyAndRestart(k) : RestartedOrNot(k, r)
           /\ \A r \in Prepared(k, LAMBDA p : startPreview(Applied(p))) : Restarted(k, r)
<1>1. ASSUME NEW p \in preparePreview(k)
      PROVE  /\ ~p.ok => RestartedOrNot(k, p)
             /\ p.ok => /\ \A r \in startPreview(p.cam) : Restarted(k, r)
                        /\ \A r \in startPreview(Applied(p.cam)) : Restarted(k, r)
                        /\ \A r \in StartOrUnprepare(p.cam) : RestartedOrNot(k, r)
                        /\ \A r \in StartOrUnprepare(Applied(p.cam)) : RestartedOrNot(k, r)
  BY RestartedIs
<1>2. \A r \in Prepared(k, startPreview) : Restarted(k, r)
  BY <1>1 DEF Prepared, RestartedOrNot
<1>3. \A r \in Restart(k) : RestartedOrNot(k, r)
  BY <1>1 DEF Restart, Prepared
<1>4. \A r \in ApplyAndRestart(k) : RestartedOrNot(k, r)
  BY <1>1 DEF ApplyAndRestart, Prepared
<1>5. \A r \in Prepared(k, LAMBDA p : startPreview(Applied(p))) : Restarted(k, r)
  BY <1>1 DEF Prepared, RestartedOrNot
<1> QED BY <1>2, <1>3, <1>4, <1>5
--------------------------------------------------------------------------------
(* What the states say of the channels, and which requests may come.       *)

LEMMA FreeFits ==
    ASSUME NEW k, Fits(k), NEW e \in Requests \cup {"DAEMON_DIED"}, NEW n,
           Differs(k, n, Free \cup {"needRestart"}),
           e \notin {"SET_PARAMS", "SET_PARAMS_RESTART"} => n.needRestart = k.needRestart,
           e \in {"SET_PARAMS_STOP", "SET_PARAMS_RESTART"} => k.st \notin {"READY", "PREVIEWING", PPT},
           e = "RESTART_START_PREVIEW" => k.st \notin {"PREVIEWING", PPT},
           e = "SEND_COMMAND_RESTART" => ~Gap(k, "LONGSHOT_ON")
    PROVE  Fitting(k, e, n)
<1>1. /\ n.st = k.st /\ n.preview = k.preview /\ n.video = k.video /\ n.snapshot = k.snapshot
      /\ n.capture = k.capture /\ n.shot = k.shot /\ n.shots = k.shots /\ n.hint = k.hint
      /\ n.longshot = k.longshot /\ n.retro = k.retro /\ n.dead = k.dead /\ n.live = k.live
      /\ n.again = k.again /\ n.later = k.later
  BY DEF Differs, Fields, Free
<1>2. Typed(n)
  BY DEF Differs
<1>3. Fits(n)
  BY <1>1, <1>2 DEF Fits, InOrder, isRecording, Refuses
<1>4. Unprepared(k) => Unprepared(n)
  BY <1>1 DEF Unprepared
<1>5. e = "SET_PARAMS_STOP" => Unprepared(n)
  BY <1>1 DEF Unprepared
<1>6. Runs(k) => Runs(n)
  BY <1>1 DEF Runs, isPreviewRunning
<1>7. \A x \in Openers : Gap(k, x) <=> Gap(n, x)
  BY <1>1 DEF Gap, Openers
<1>8. \A x \in Openers : Gap(k, x) => e # Closes(x)
  BY DEF Gap, Closes, Openers
<1>9. Readies(k, e, n) /\ Streams(k, e, n)
  BY <1>4, <1>5, <1>6, <1>7, <1>8 DEF Readies, Streams
<1> QED BY <1>1, <1>3, <1>9 DEF Fitting, isRecording

LEMMA RepliesFit ==
    ASSUME NEW k, NEW e, NEW n, Fitting(k, e, n), NEW x
    PROVE  AllFit(k, e, Reply(n, x)) /\ AllFit(k, e, Invalid(n, x)) /\ AllFit(k, e, Silent(n))
BY DEF AllFit, Reply, Invalid, Silent, Outcome

LEMMA ReportsFit ==
    ASSUME NEW k, NEW e, NEW S, \A r \in S : Fitting(k, e, r.cam), NEW x
    PROVE  AllFit(k, e, Report(S, x))
BY DEF AllFit, Report, Outcome

LEMMA MoveOf ==
    ASSUME NEW S, \A s \in S : {"cam", "ok"} \subseteq DOMAIN s, NEW good, NEW bad,
           NEW r \in Move(S, good, bad)
    PROVE  \E s \in S : r.ok = s.ok /\ r.cam = In(s.cam, IF s.ok THEN good ELSE bad)
<1>1. PICK s \in S : r = [s EXCEPT !.cam = In(@, IF s.ok THEN good ELSE bad)]
  BY DEF Move
<1>2. r.ok = s.ok /\ r.cam = In(s.cam, IF s.ok THEN good ELSE bad)
  BY <1>1
<1> QED BY <1>2

LEMMA InIs ==
    ASSUME NEW k, Typed(k), NEW st \in States
    PROVE  Differs(k, In(k, st), {"st"}) /\ In(k, st).st = st
<1>1. "st" \in Fields /\ st \in Sorts["st"]
  BY SortsAre DEF Fields
<1> QED BY <1>1, Put DEF In

LEMMA CancelsPicture ==
    ASSUME NEW k, Typed(k)
    PROVE  LET n == cancelPicture(k)
           IN  /\ Differs(k, n, {"shot", "capture"}) /\ n.shot = 0
               /\ n.capture = IF ZSL THEN k.capture ELSE "none"
<1> DEFINE c == [k EXCEPT !.shot = 0]
           n == [c EXCEPT !.capture = "none"]
<1>1. Differs(k, c, {"shot"}) /\ c.shot = 0
  BY Put, SortsAre DEF Fields
<1> HIDE DEF c
<1>2. Typed(c) /\ "capture" \in Fields /\ "none" \in Sorts["capture"]
  BY <1>1, SortsAre DEF Fields, Differs
<1>3. Differs(c, n, {"capture"}) /\ n.capture = "none"
  BY <1>2, Put
<1>4. cancelPicture(k) = IF ZSL THEN c ELSE n
  BY DEF cancelPicture, delChannel, c
<1> HIDE DEF n
<1>5. /\ Differs(k, c, {"shot", "capture"}) /\ Differs(k, n, {"shot", "capture"})
      /\ n.shot = 0 /\ c.capture = k.capture
  BY <1>1, <1>3 DEF Differs, Fields
<1> QED BY <1>1, <1>3, <1>4, <1>5

\* A long shot switched on, and off.
LEMMA LongshotOnFits ==
    ASSUME NEW k, Fits(k), Due(k, "LONGSHOT_ON"), NEW r \in LongshotOn(k)
    PROVE  /\ Fitting(k, "LONGSHOT_ON", r.cam)
           /\ {"cam", "ok", "again"} \subseteq DOMAIN r
           /\ Differs(k, r.cam, {"longshot", "prep"}) /\ r.again \in BOOLEAN
           /\ r.again => ZSL /\ k.preview # "none"
           /\ k.st = "PREVIEWING" => r.cam.longshot
<1> DEFINE n == [k EXCEPT !.longshot = TRUE, !.prep = FALSE]
           e == "LONGSHOT_ON"
<1>0. Typed(k)
  BY DEF Fits
<1>1. Differs(k, n, {"longshot", "prep"}) /\ n.longshot = TRUE
  <2>1. {"longshot", "prep"} \subseteq Fields /\ Sorts["longshot"] = BOOLEAN /\ Sorts["prep"] = BOOLEAN
    BY SortsAre DEF Fields
  <2>2. Differs(k, n, {"longshot", "prep"})
    BY <1>0, <2>1, PutTwo
  <2>3. n.longshot = TRUE
    BY <1>0, <2>1 DEF Typed
  <2> QED BY <2>2, <2>3
<1>2. Differs(k, k, Free \cup {"needRestart"}) /\ Differs(k, k, {"longshot", "prep"})
  BY <1>0, DiffersIt
<1>3. Fitting(k, e, k)
  BY <1>2, FreeFits DEF Requests
<1> HIDE DEF n
<1>4. Fitting(k, e, n)
  <2>1. /\ n.st = k.st /\ n.preview = k.preview /\ n.video = k.video /\ n.snapshot = k.snapshot
        /\ n.capture = k.capture /\ n.shot = k.shot /\ n.shots = k.shots /\ n.hint = k.hint
        /\ n.retro = k.retro /\ n.dead = k.dead /\ n.live = k.live
        /\ n.needRestart = k.needRestart
    BY <1>1 DEF Differs, Fields
  <2>2. Fits(n)
    BY <1>1, <2>1 DEF Fits, InOrder, isRecording, Refuses, Due, Differs
  <2>3. Readies(k, e, n)
    BY DEF Readies, Reports
  <2>4. Streams(k, e, n)
    BY <2>1 DEF Streams, Runs, isPreviewRunning, Openers, Closes, Reports
  <2> QED BY <2>1, <2>2, <2>3, <2>4 DEF Fitting, Picturing, Reports
<1>5. CASE isCaptureRunning(k)
  <2>1. r = [ok |-> FALSE, cam |-> k, again |-> FALSE]
    BY <1>5 DEF LongshotOn
  <2> QED BY <1>2, <1>3, <1>5, <2>1 DEF isCaptureRunning
<1>6. CASE ~isCaptureRunning(k)
  <2>1. PICK b \in {FALSE} \cup (IF ZSL /\ isPreviewRunning(k) /\ k.preview # "none" THEN {TRUE} ELSE {}) :
            r = [ok |-> TRUE, cam |-> n, again |-> b]
    BY <1>6 DEF LongshotOn, n
  <2>2. b \in BOOLEAN /\ (b => ZSL /\ k.preview # "none")
    BY <2>1
  <2>3. r.cam = n /\ r.again = b /\ {"cam", "ok", "again"} \subseteq DOMAIN r
    BY <2>1
  <2> QED BY <1>1, <1>4, <2>2, <2>3
<1> QED BY <1>5, <1>6

LEMMA LongshotOffFits ==
    ASSUME NEW k, Fits(k), Due(k, "LONGSHOT_OFF"), NEW m, Differs(k, m, {"again", "later"}),
           NEW st \in States,
           \/ st = k.st /\ st # PPT
           \/ st = "PREVIEWING" /\ k.st \in {"PIC_TAKING", PPT}
    PROVE  AllFit(k, "LONGSHOT_OFF", LongshotOff(m, "LONGSHOT_OFF", st))
<1> DEFINE e == "LONGSHOT_OFF"
           cut == m.longshot /\ isCaptureRunning(m)
           c == IF cut THEN cancelPicture(m) ELSE m
           n == [c EXCEPT !.longshot = FALSE, !.prep = FALSE, !.st = st]
           O == [cam |-> n, replies |-> <<Result(e, TRUE)>>, post |-> cut]
<1>1. Typed(m) /\ Typed(k)
  BY DEF Differs, Fits
<1>2. /\ Differs(m, c, {"shot", "capture"}) /\ c.shot \in {m.shot, 0}
      /\ c.capture \in {m.capture, "none"}
  <2>1. Differs(m, m, {"shot", "capture"})
    BY <1>1, DiffersIt
  <2> QED BY <1>1, <2>1, CancelsPicture
<1>3. LongshotOff(m, e, st) = {O}
  BY DEF LongshotOff
<1> HIDE DEF c, cut
<1>4. Typed(c)
  BY <1>2 DEF Differs
<1>5. Differs(c, n, {"longshot", "prep", "st"}) /\ n.longshot = FALSE /\ n.st = st
  <2>1. /\ DOMAIN n = Fields /\ n.longshot = FALSE /\ n.prep = FALSE /\ n.st = st
        /\ \A f \in Fields \ {"longshot", "prep", "st"} : n[f] = c[f]
    BY <1>4 DEF Typed, Fields
  <2>2. FALSE \in Sorts["longshot"] /\ FALSE \in Sorts["prep"] /\ st \in Sorts["st"]
    BY SortsAre
  <2> HIDE DEF n
  <2>3. \A f \in Fields : n[f] \in Sorts[f]
    BY <1>4, <2>1, <2>2 DEF Typed
  <2> QED BY <2>1, <2>3 DEF Differs, Typed
<1>6. O.cam = n
  OBVIOUS
<1> HIDE DEF n
<1>7. /\ n.preview = k.preview /\ n.video = k.video /\ n.snapshot = k.snapshot
      /\ n.shots = k.shots /\ n.hint = k.hint
      /\ n.retro = k.retro /\ n.dead = k.dead /\ n.live = k.live
      /\ n.needRestart = k.needRestart
      /\ n.capture \in {k.capture, "none"} /\ n.shot \in {k.shot, 0}
  BY <1>2, <1>5 DEF Differs, Fields
<1>8. Typed(n)
  BY <1>5 DEF Differs
<1>9. ~NoLongShot
  BY DEF Due
<1>10. Fits(n)
  BY <1>5, <1>7, <1>8, <1>9 DEF Fits, InOrder, isRecording, Refuses, Orderly, PPT
<1>11. Readies(k, e, n)
  BY DEF Readies, Reports
<1>12. Orderly /\ Healthy => Streams(k, e, n)
  BY <1>5, <1>7, <1>9 DEF Streams, Runs, isPreviewRunning, Openers, Closes, Reports, Fits, InOrder,
                          Orderly, PPT
<1>13. Fitting(k, e, n)
  BY <1>5, <1>7, <1>10, <1>11, <1>12 DEF Fitting, Picturing, Reports, PPT
<1> HIDE DEF O
<1> QED BY <1>3, <1>6, <1>13 DEF AllFit

LEMMA QuietFit ==
    ASSUME NEW k, Fits(k), NEW e \in Requests \cup {"DAEMON_DIED"}, Quiet(k, e)
    PROVE  /\ Fitting(k, e, k)
           /\ \A x : AllFit(k, e, Reply(k, x)) /\ AllFit(k, e, Invalid(k, x)) /\ AllFit(k, e, Silent(k))
           /\ e = "SET_PARAMS" => AllFit(k, e, SetParams(k, e)) /\ AllFit(k, e, SetParamsRecording(k, e))
           /\ AllFit(k, e, Commit(k, e))
           /\ e \in {"ENABLE_MSG_TYPE", "DISABLE_MSG_TYPE", "PREVIEW_ENABLED"} =>
                  AllFit(k, e, Messages(k, e)) /\ AllFit(k, e, PreviewingMessages(k, e))
           /\ Fitting(k, e, [k EXCEPT !.window = TRUE])
           /\ e = "SET_PARAMS_RESTART" => Fitting(k, e, [k EXCEPT !.needRestart = FALSE])
           /\ Fitting(k, e, [k EXCEPT !.prepping = TRUE])
           /\ Fitting(k, e, Applied(k))
<1> DEFINE F == Free \cup {"needRestart"}
<1>1. Typed(k)
  BY DEF Fits
<1>2. ASSUME NEW n, Differs(k, n, Free) PROVE Fitting(k, e, n)
  <2>1. Differs(k, n, F) /\ n.needRestart = k.needRestart
    BY <1>2, DiffersMore DEF Differs, Fields, Free
  <2> QED BY <2>1, FreeFits DEF Quiet
<1>3. ASSUME e \in {"SET_PARAMS", "SET_PARAMS_RESTART"}, NEW b \in BOOLEAN
      PROVE  Fitting(k, e, [k EXCEPT !.needRestart = b])
  <2> DEFINE n == [k EXCEPT !.needRestart = b]
  <2>1. Differs(k, n, {"needRestart"})
    BY <1>1, Put, SortsAre DEF Fields
  <2> HIDE DEF n
  <2>2. Differs(k, n, F)
    BY <2>1, DiffersMore
  <2>3. Fitting(k, e, n)
    BY <1>3, <2>2, FreeFits DEF Quiet
  <2> QED BY <2>3 DEF n
<1>4. Fitting(k, e, k)
  BY <1>1, <1>2, DiffersIt
<1>5. ASSUME NEW f \in Free, NEW b \in BOOLEAN
      PROVE  Fitting(k, e, [k EXCEPT ![f] = b]) /\ Differs(k, [k EXCEPT ![f] = b], {f})
  <2> DEFINE n == [k EXCEPT ![f] = b]
  <2>1. f \in Fields /\ b \in Sorts[f]
    BY SortsAre DEF Fields, Free
  <2>2. Differs(k, n, {f})
    BY <1>1, <2>1, Put
  <2> HIDE DEF n
  <2>3. Differs(k, n, Free)
    BY <2>2, DiffersMore
  <2>4. Fitting(k, e, n)
    BY <1>2, <2>3
  <2> QED BY <2>2, <2>4 DEF n
<1>6. \A x : AllFit(k, e, Reply(k, x)) /\ AllFit(k, e, Invalid(k, x)) /\ AllFit(k, e, Silent(k))
  BY <1>4, RepliesFit
<1>7. e = "SET_PARAMS" => AllFit(k, e, SetParams(k, e)) /\ AllFit(k, e, SetParamsRecording(k, e))
  <2> SUFFICES ASSUME e = "SET_PARAMS"
               PROVE  AllFit(k, e, SetParams(k, e)) /\ AllFit(k, e, SetParamsRecording(k, e))
    OBVIOUS
  <2>1. ASSUME NEW o \in SetParams(k, e) PROVE Fitting(k, e, o.cam)
    <3>1. PICK b \in BOOLEAN : \E ok \in {TRUE, ~HwMayFail} :
              o = Outcome([k EXCEPT !.needRestart = b], <<Result(e, ok)>>)
      <4> DEFINE new(b, ok) == Outcome([k EXCEPT !.needRestart = b], <<Result(e, ok)>>)
                 oks == {TRUE, ~HwMayFail}
      <4>1. SetParams(k, e) = {new(b, ok) : b \in BOOLEAN, ok \in oks}
        BY DEF SetParams
      <4> HIDE DEF new, oks
      <4>2. \E b \in BOOLEAN : \E ok \in oks : o = new(b, ok)
        BY <4>1
      <4> QED BY <4>2 DEF new, oks
    <3>2. o.cam = [k EXCEPT !.needRestart = b]
      BY <3>1 DEF Outcome
    <3> QED BY <1>3, <3>2
  <2>2. ASSUME NEW o \in SetParamsRecording(k, e) PROVE Fitting(k, e, o.cam)
    <3>1. PICK ok \in BOOLEAN : o = Outcome([k EXCEPT !.needRestart = FALSE], <<Result(e, ok)>>)
      BY DEF SetParamsRecording
    <3>2. o.cam = [k EXCEPT !.needRestart = FALSE]
      BY <3>1 DEF Outcome
    <3> QED BY <1>3, <3>2
  <2> QED BY <2>1, <2>2 DEF AllFit
<1>8. AllFit(k, e, Commit(k, e))
  <2>1. \A r \in Try(k, k) : r.cam = k
    BY DEF Try, Attempt, Did, Failed
  <2>2. \A r \in Try(k, k) : Fitting(k, e, r.cam)
    BY <1>4, <2>1
  <2> QED BY <2>2, ReportsFit DEF Commit
<1>9. Fitting(k, e, Applied(k))
  <2>1. Differs(k, Applied(k), Free)
    BY <1>1, Applies, DiffersMore DEF Messaging, Free
  <2> QED BY <1>2, <2>1
<1>10. e \in {"ENABLE_MSG_TYPE", "DISABLE_MSG_TYPE", "PREVIEW_ENABLED"} =>
           AllFit(k, e, Messages(k, e)) /\ AllFit(k, e, PreviewingMessages(k, e))
  <2> DEFINE on == [k EXCEPT !.on = TRUE]
             held == [k EXCEPT !.held = TRUE]
             off == [k EXCEPT !.on = FALSE]
             forgot == [k EXCEPT !.on = FALSE, !.held = @ /\ ~k.delay, !.delay = @ /\ ~k.held]
  <2>1. Fitting(k, e, on) /\ Fitting(k, e, held) /\ Fitting(k, e, off)
    BY <1>5 DEF Free
  <2>2. Differs(k, forgot, {"on", "held", "delay"})
    <3>1. k.held \in BOOLEAN /\ k.delay \in BOOLEAN
      BY <1>1, SortsAre DEF Typed, Fields
    <3> DEFINE a == k.held /\ ~k.delay
               b == k.delay /\ ~k.held
    <3>2. /\ DOMAIN forgot = Fields
          /\ forgot.on = FALSE /\ forgot.held = a /\ forgot.delay = b
          /\ \A f \in Fields \ {"on", "held", "delay"} : forgot[f] = k[f]
      BY <1>1 DEF Typed, Fields
    <3>3. a \in BOOLEAN /\ b \in BOOLEAN
      BY <3>1
    <3>4. FALSE \in Sorts["on"] /\ a \in Sorts["held"] /\ b \in Sorts["delay"]
      BY <3>3, SortsAre
    <3> HIDE DEF forgot, a, b
    <3>5. \A f \in Fields : forgot[f] \in Sorts[f]
      BY <1>1, <3>2, <3>4 DEF Typed
    <3> QED BY <3>2, <3>5 DEF Differs, Typed
  <2> HIDE DEF on, held, off, forgot
  <2>3. Fitting(k, e, forgot)
    BY <1>2, <2>2, DiffersMore DEF Free
  <2>4. /\ AllFit(k, e, Reply(IF k.delay THEN held ELSE on, e)) /\ AllFit(k, e, Reply(on, e))
        /\ AllFit(k, e, Reply(off, e)) /\ AllFit(k, e, Reply(forgot, e))
        /\ AllFit(k, e, Reply(Applied(k), e))
    BY <1>9, <2>1, <2>3, RepliesFit
  <2>5. CASE e = "ENABLE_MSG_TYPE"
    BY <2>4, <2>5 DEF Messages, PreviewingMessages, on, held
  <2>6. CASE e = "DISABLE_MSG_TYPE"
    BY <2>4, <2>6 DEF Messages, PreviewingMessages, off, forgot
  <2>7. CASE e = "PREVIEW_ENABLED"
    BY <1>6, <2>4, <2>7 DEF Messages, PreviewingMessages
  <2> QED BY <2>5, <2>6, <2>7
<1>11. Fitting(k, e, [k EXCEPT !.window = TRUE]) /\ Fitting(k, e, [k EXCEPT !.prepping = TRUE])
  BY <1>5 DEF Free
<1> QED BY <1>3, <1>4, <1>6, <1>7, <1>8, <1>9, <1>10, <1>11
--------------------------------------------------------------------------------
(* The handlers keep it: the operations that most of them are built from.  *)

\* All but the channels and the state is as it was, or does not matter.
LEMMA PlainFits ==
    ASSUME NEW k, NEW e \in Plain, NEW n, Fits(n), n.retro = k.retro, n.dead = k.dead,
           n.needRestart = k.needRestart, n.st = PPT => k.st = PPT /\ n.shots = k.shots,
           Orderly /\ Healthy /\ Runs(k) => Runs(n)
    PROVE  Fitting(k, e, n)
<1>1. Readies(k, e, n)
  BY DEF Plain, Readies, Reports
<1>2. Orderly /\ Healthy => Streams(k, e, n)
  BY DEF Plain, Streams, Openers, Closes, Reports
<1> QED BY <1>1, <1>2 DEF Fitting, Plain, Picturing, Reports

LEMMA HealthyIs ==
    ASSUME NEW k, Fits(k), Healthy
    PROVE  ~Refuses(k)
BY DEF Fits, Healthy, Refuses

LEMMA TypedCamera ==
    ASSUME NEW k, Typed(k)
    PROVE  Camera(k)
<1>1. k.st \in States /\ k.shot \in Nat /\ k.shots \in Nat
  BY SortsAre DEF Typed, Fields
<1> QED BY <1>1 DEF Camera, Typed, Fields, Flags

\* The outcomes of operations are records.
LEMMA OutcomesAre ==
    ASSUME NEW k, Typed(k)
    PROVE  /\ \A r \in preparePreview(k) : {"cam", "ok"} \subseteq DOMAIN r
           /\ \A r \in startPreview(k) : {"cam", "ok"} \subseteq DOMAIN r
           /\ \A r \in StartOrUnprepare(k) : {"cam", "ok"} \subseteq DOMAIN r
           /\ \A r \in Restart(k) : {"cam", "ok"} \subseteq DOMAIN r
           /\ \A r \in ApplyAndRestart(k) : {"cam", "ok"} \subseteq DOMAIN r
           /\ \A r \in takePicture(k) : {"cam", "ok"} \subseteq DOMAIN r
           /\ \A r \in startRecording(k) : {"cam", "ok"} \subseteq DOMAIN r
<1>1. Camera(k)
  BY TypedCamera
<1>2. Keeps(k, k)
  BY <1>1, KeepsIt
<1> QED BY <1>1, <1>2, PrepareSteps, StartSteps, PreparedSteps, PictureSteps DEF Steps

LEMMA StoppedFits ==
    ASSUME NEW k, Fits(k), k.st = "STOPPED", NEW e \in Requests \cup {"DAEMON_DIED"}, Due(k, e)
    PROVE  AllFit(k, e, Stopped(k, e))
<1>1. Quiet(k, e) /\ Typed(k)
  BY DEF Quiet, Gap, PPT, Fits
<1>2. CASE e \in Settings
  <2>1. /\ AllFit(k, e, Reply([k EXCEPT !.window = TRUE], e)) /\ AllFit(k, e, Reply(k, e))
        /\ e = "SET_PARAMS" => AllFit(k, e, SetParams(k, e))
        /\ AllFit(k, e, Commit(k, e))
        /\ e = "SET_PARAMS_RESTART" => AllFit(k, e, Reply([k EXCEPT !.needRestart = FALSE], e))
        /\ e \in {"ENABLE_MSG_TYPE", "DISABLE_MSG_TYPE", "PREVIEW_ENABLED"} =>
               AllFit(k, e, Messages(k, e))
    BY <1>1, QuietFit, RepliesFit
  <2>2. AllFit(k, e, StoppedSettings(k, e))
    BY <1>2, <2>1 DEF StoppedSettings, Settings
  <2> QED BY <1>2, <2>2 DEF Stopped, Settings, Restarts, StoppedRefuses
<1>3. CASE e \in {"PREPARE_PREVIEW", "START_PREVIEW"}
  <2>1. ASSUME NEW s, NEW n, s.cam = n, Differs(k, n, Around), NEW st \in States,
               n.longshot => k.longshot,
               s.ok => st \in {"READY", "PREVIEWING"} /\ ~k.dead,
               s.ok => n.preview = IF st = "READY" THEN "added" ELSE "started",
               s.ok => n.video \in {"added", k.video},
               ~Refuses(k) /\ n.video # "none" => n.snapshot # "none",
               ~s.ok => st = "STOPPED" /\ n.preview \in {k.preview, "none"} /\ n.video \in {k.video, "none"}
        PROVE  Fitting(k, e, In(n, st))
    <3> DEFINE m == In(n, st)
    <3>1. Differs(n, m, {"st"}) /\ m.st = st
      BY <2>1, InIs DEF Differs
    <3> HIDE DEF m
    <3>2. /\ Typed(m) /\ m.preview = n.preview /\ m.video = n.video /\ m.snapshot = n.snapshot
          /\ m.longshot = n.longshot
          /\ m.capture = k.capture /\ m.shot = k.shot /\ m.shots = k.shots /\ m.hint = k.hint
          /\ m.retro = k.retro /\ m.dead = k.dead /\ m.live = k.live
          /\ m.needRestart = k.needRestart
      BY <2>1, <3>1 DEF Differs, Fields, Around, Three, Messaging
    <3>3. Fits(m)
      BY <2>1, <3>1, <3>2, SortsAre DEF Fits, InOrder, isRecording, Refuses, PPT, Typed, Fields
    <3>4. Runs(m) \/ st = "STOPPED"
      BY <2>1, <3>1, <3>2 DEF Runs
    <3>5. Runs(m)
      BY <3>1, <3>4 DEF Runs, isPreviewRunning
    <3>6. Fitting(k, e, m)
      BY <1>3, <2>1, <3>1, <3>2, <3>3, <3>5, PlainFits DEF Plain, PPT
    <3> QED BY <3>6 DEF m
  <2>2. ASSUME NEW r \in Move(preparePreview(k), "READY", "STOPPED") PROVE Fitting(k, e, r.cam)
    <3>1. PICK s \in preparePreview(k) : r.cam = In(s.cam, IF s.ok THEN "READY" ELSE "STOPPED")
      BY <1>1, OutcomesAre, MoveOf
    <3>2. Prepares(k, s)
      BY <1>1, PreparesIs
    <3>3. Differs(k, s.cam, Around)
      BY <3>2, DiffersMore DEF Prepares, Around
    <3>4. ~Refuses(k) /\ s.cam.video # "none" => s.cam.snapshot # "none"
      BY <3>2, SortsAre DEF Prepares, Fits, Differs, Fields, Typed
    <3>5. s.ok => s.cam.video \in {"added", k.video}
      BY <1>1, <3>2, SortsAre DEF Prepares, Differs, Fields, Typed
    <3> QED BY <2>1, <3>1, <3>2, <3>3, <3>4, <3>5 DEF Prepares, States
  <2>3. ASSUME NEW r \in Move(ApplyAndRestart(k), "PREVIEWING", "STOPPED") PROVE Fitting(k, e, r.cam)
    <3>1. PICK s \in ApplyAndRestart(k) : r.cam = In(s.cam, IF s.ok THEN "PREVIEWING" ELSE "STOPPED")
      BY <1>1, OutcomesAre, MoveOf
    <3>2. RestartedOrNot(k, s)
      BY <1>1, RestartsAre
    <3>4. ~Refuses(k) /\ s.cam.video # "none" => s.cam.snapshot # "none"
      BY <1>1, <3>2, SortsAre DEF RestartedOrNot, Restarted, Fits, Fields, Typed
    <3>5. s.ok => s.cam.video \in {"added", k.video}
      BY <1>1, <3>2, SortsAre DEF RestartedOrNot, Restarted, Fields, Typed
    <3> QED BY <2>1, <3>1, <3>2, <3>4, <3>5 DEF RestartedOrNot, Restarted, States
  <2>4. /\ AllFit(k, e, Report(Move(preparePreview(k), "READY", "STOPPED"), e))
        /\ AllFit(k, e, Report(Move(ApplyAndRestart(k), "PREVIEWING", "STOPPED"), e))
    BY <2>2, <2>3, ReportsFit
  <2>5. k.window \in BOOLEAN
    BY <1>1, SortsAre DEF Typed, Fields
  <2> QED BY <1>3, <2>4, <2>5 DEF Stopped, Settings, Restarts, StoppedRefuses
<1>4. CASE e = "RELEASE"
  <2> DEFINE u == unpreparePreview(k)
             n == [u EXCEPT !.capture = "none"]
  <2>1. Differs(k, u, Three) /\ u.preview = "none" /\ u.video = "none" /\ u.snapshot = "none"
    BY <1>1, Unprepares
  <2> HIDE DEF u
  <2>2. Typed(u) /\ "capture" \in Fields /\ "none" \in Sorts["capture"]
    BY <2>1, SortsAre DEF Differs, Fields
  <2>3. Differs(u, n, {"capture"}) /\ n.capture = "none"
    BY <2>2, Put
  <2>4. release(k) = n
    BY DEF release, delChannel, u
  <2> HIDE DEF n
  <2>5. /\ Typed(n) /\ n.st = "STOPPED" /\ n.preview = "none" /\ n.video = "none" /\ n.snapshot = "none"
        /\ n.longshot = k.longshot
        /\ n.shot = k.shot /\ n.shots = k.shots /\ n.hint = k.hint
        /\ n.retro = k.retro /\ n.dead = k.dead /\ n.live = k.live
        /\ n.needRestart = k.needRestart
    BY <2>1, <2>3 DEF Differs, Fields, Three
  <2>6. Fits(n)
    BY <2>3, <2>5 DEF Fits, InOrder, isRecording, Refuses, PPT
  <2>7. Runs(n)
    BY <2>5 DEF Runs, isPreviewRunning
  <2>8. Fitting(k, e, n)
    BY <1>4, <2>5, <2>6, <2>7, PlainFits DEF Plain, PPT
  <2>9. AllFit(k, e, Reply(release(k), e))
    BY <2>4, <2>8, RepliesFit
  <2> QED BY <1>4, <2>9 DEF Stopped, Settings, Restarts, StoppedRefuses
<1>5. CASE e \in {"LONGSHOT_ON", "LONGSHOT_OFF"}
  <2>1. AllFit(k, e, Command(k, e))
    <3>1. Differs(k, k, {"again", "later"})
      BY <1>1, DiffersIt
    <3>2. CASE e = "LONGSHOT_ON"
      BY <3>2, LongshotOnFits, ReportsFit DEF Command
    <3>3. CASE e = "LONGSHOT_OFF"
      BY <3>1, <3>3, LongshotOffFits DEF Command, States, PPT
    <3> QED BY <1>5, <3>2, <3>3
  <2> QED BY <1>5, <2>1 DEF Stopped, Settings, Restarts, StoppedRefuses
<1>6. CASE e \notin Settings \cup {"PREPARE_PREVIEW", "START_PREVIEW", "RELEASE", "LONGSHOT_ON",
                                   "LONGSHOT_OFF"}
  <2>1. AllFit(k, e, Reply(k, e)) /\ AllFit(k, e, Invalid(k, e)) /\ AllFit(k, e, Silent(k))
    BY <1>1, QuietFit
  <2> QED BY <1>6, <2>1 DEF Stopped
<1> QED BY <1>2, <1>3, <1>4, <1>5, <1>6

LEMMA ReadyFits ==
    ASSUME NEW k, Fits(k), k.st = "READY", NEW e \in Requests \cup {"DAEMON_DIED"}, Due(k, e)
    PROVE  AllFit(k, e, Ready(k, e))
<1>1. Typed(k)
  BY DEF Fits
<1>2. CASE e \in {"START_PREVIEW", "SET_PREVIEW_WINDOW"}
  <2>1. ASSUME NEW q, Differs(k, q, Messaging \cup {"window"}),
               NEW r \in Move(StartOrUnprepare(q), "PREVIEWING", "STOPPED")
        PROVE  Fitting(k, e, r.cam)
    <3>0. Typed(q)
      BY <2>1 DEF Differs
    <3>1. PICK s \in StartOrUnprepare(q) : r.cam = In(s.cam, IF s.ok THEN "PREVIEWING" ELSE "STOPPED")
      BY <2>1, <3>0, OutcomesAre, MoveOf
    <3>2. StartsOrNot(q, s)
      BY <3>0, StartsIs
    <3> DEFINE n == s.cam
               st == IF s.ok THEN "PREVIEWING" ELSE "STOPPED"
               m == In(n, st)
    <3>3. Differs(n, m, {"st"}) /\ m.st = st
      BY <3>2, InIs DEF StartsOrNot, Differs, States
    <3> HIDE DEF m
    <3>4. /\ Typed(m)
          /\ m.preview = n.preview /\ m.video = n.video /\ m.snapshot = n.snapshot
          /\ m.capture = k.capture /\ m.shot = k.shot /\ m.shots = k.shots /\ m.hint = k.hint
          /\ m.longshot = k.longshot /\ m.retro = k.retro /\ m.dead = k.dead /\ m.live = k.live
          /\ m.needRestart = k.needRestart
      BY <2>1, <3>2, <3>3 DEF StartsOrNot, Differs, Fields, Three, Messaging
    <3>5. s.ok => m.video = k.video /\ m.snapshot = k.snapshot /\ m.preview = "started"
      BY <2>1, <3>2, <3>4 DEF StartsOrNot, Differs, Fields, Messaging
    <3>6. ~s.ok => m.video = "none" /\ m.snapshot = "none" /\ m.preview = "none"
      BY <3>2, <3>4 DEF StartsOrNot
    <3>7. Fits(m)
      BY <3>3, <3>4, <3>5, <3>6 DEF Fits, InOrder, isRecording, Refuses, PPT
    <3>8. Runs(m)
      BY <3>3, <3>5 DEF Runs, isPreviewRunning
    <3>9. Fitting(k, e, m)
      BY <1>2, <3>3, <3>4, <3>7, <3>8, PlainFits DEF Plain, PPT
    <3> QED BY <3>1, <3>9 DEF m
  <2> DEFINE w == [k EXCEPT !.window = TRUE]
  <2>2. Differs(k, w, {"window"})
    BY <1>1, Put, SortsAre DEF Fields
  <2> HIDE DEF w
  <2>3. Differs(k, Applied(w), Messaging \cup {"window"}) /\ Differs(k, k, Messaging \cup {"window"})
    <3>1. Differs(w, Applied(w), Messaging)
      BY <2>2, Applies DEF Differs
    <3> QED BY <1>1, <2>2, <3>1, DiffersThen, DiffersIt
  <2>4. AllFit(k, e, Report(Move(StartOrUnprepare(Applied(w)), "PREVIEWING", "STOPPED"), e))
    BY <2>1, <2>3, ReportsFit
  <2>5. AllFit(k, e, UNION {Reply(r.cam, e) : r \in Move(StartOrUnprepare(k), "PREVIEWING", "STOPPED")})
    <3> DEFINE S == Move(StartOrUnprepare(k), "PREVIEWING", "STOPPED")
    <3> HIDE DEF S
    <3>1. ASSUME NEW r \in S PROVE AllFit(k, e, Reply(r.cam, e))
      BY <2>1, <2>3, <3>1, RepliesFit DEF S
    <3> QED BY <3>1 DEF AllFit, S
  <2>6. e = "START_PREVIEW" => AllFit(k, e, Reply(k, e))
    BY QuietFit DEF Quiet
  <2>7. k.window \in BOOLEAN
    BY <1>1, SortsAre DEF Typed, Fields
  <2>8. CASE e = "START_PREVIEW"
    BY <2>5, <2>6, <2>7, <2>8 DEF Ready, Settings, ReadyRefuses, Restarts, StoppedRefuses
  <2>9. CASE e = "SET_PREVIEW_WINDOW"
    BY <2>4, <2>9 DEF Ready, ReadySettings, Settings, ReadyRefuses, Restarts, StoppedRefuses, w
  <2> QED BY <1>2, <2>8, <2>9
<1>3. CASE e \in {"SET_PARAMS_STOP", "STOP_PREVIEW"}
  <2> DEFINE n == unpreparePreview(k)
             m == In(n, "STOPPED")
  <2>1. Differs(k, n, Three) /\ n.preview = "none" /\ n.video = "none" /\ n.snapshot = "none"
    BY <1>1, Unprepares
  <2>2. /\ n.st = k.st
        /\ n.capture = k.capture /\ n.shot = k.shot /\ n.shots = k.shots /\ n.hint = k.hint
        /\ n.longshot = k.longshot /\ n.retro = k.retro /\ n.dead = k.dead /\ n.live = k.live
        /\ n.needRestart = k.needRestart
    BY <2>1 DEF Differs, Fields, Three
  <2>3. Typed(n)
    BY <2>1 DEF Differs
  <2>4. Fits(n)
    BY <2>1, <2>2, <2>3 DEF Fits, InOrder, isRecording, Refuses, PPT
  <2> HIDE DEF n
  <2>5. CASE e = "SET_PARAMS_STOP"
    <3>1. Readies(k, e, n)
      BY <2>1 DEF Readies, Unprepared
    <3>2. Streams(k, e, n)
      BY <2>2, <2>5 DEF Streams, Gap, Openers, Closes, Reports
    <3>3. Fitting(k, e, n)
      BY <2>2, <2>4, <2>5, <3>1, <3>2 DEF Fitting, PPT, Picturing, Reports
    <3>4. AllFit(k, e, Reply(n, e))
      BY <3>3, RepliesFit
    <3> QED BY <2>5, <3>4 DEF Ready, ReadySettings, Settings, ReadyRefuses, Restarts, StoppedRefuses, n
  <2>6. CASE e = "STOP_PREVIEW"
    <3>1. Differs(n, m, {"st"}) /\ m.st = "STOPPED"
      BY <2>3, InIs DEF States
    <3> HIDE DEF m
    <3>2. /\ Typed(m) /\ m.preview = "none" /\ m.video = "none" /\ m.snapshot = "none"
          /\ m.capture = k.capture /\ m.shot = k.shot /\ m.shots = k.shots /\ m.hint = k.hint
          /\ m.longshot = k.longshot /\ m.retro = k.retro /\ m.dead = k.dead /\ m.live = k.live
          /\ m.needRestart = k.needRestart
      BY <2>1, <2>2, <3>1 DEF Differs, Fields
    <3>3. Fits(m) /\ Runs(m)
      BY <3>1, <3>2 DEF Fits, InOrder, isRecording, Refuses, PPT, Runs, isPreviewRunning
    <3>4. Fitting(k, e, m)
      BY <2>6, <3>1, <3>2, <3>3, PlainFits DEF Plain, PPT
    <3>5. AllFit(k, e, Reply(m, e))
      BY <3>4, RepliesFit
    <3> QED BY <2>6, <3>5 DEF Ready, Settings, ReadyRefuses, Restarts, StoppedRefuses, n, m
  <2> QED BY <1>3, <2>5, <2>6
<1>4. CASE e = "SET_PARAMS_RESTART"
  <2> DEFINE q == [k EXCEPT !.needRestart = FALSE]
  <2>1. Differs(k, q, {"needRestart"})
    BY <1>1, Put, SortsAre DEF Fields
  <2> HIDE DEF q
  <2>2. ASSUME NEW r \in Move(preparePreview(q), "READY", "STOPPED") PROVE Fitting(k, e, r.cam)
    <3>0. Typed(q)
      BY <2>1 DEF Differs
    <3>1. PICK s \in preparePreview(q) : r.cam = In(s.cam, IF s.ok THEN "READY" ELSE "STOPPED")
      BY <2>2, <3>0, OutcomesAre, MoveOf
    <3>2. Prepares(q, s)
      BY <3>0, PreparesIs
    <3> DEFINE n == s.cam
               st == IF s.ok THEN "READY" ELSE "STOPPED"
               m == In(n, st)
    <3>3. Differs(n, m, {"st"}) /\ m.st = st
      BY <3>2, InIs DEF Prepares, Differs, States
    <3> HIDE DEF m
    <3>4. /\ q.preview = k.preview /\ q.video = k.video /\ q.snapshot = k.snapshot
          /\ q.longshot = k.longshot /\ q.hint = k.hint /\ q.dead = k.dead
      BY <2>1 DEF Differs, Fields
    <3>5. /\ Typed(m)
          /\ m.preview = n.preview /\ m.video = n.video /\ m.snapshot = n.snapshot
          /\ m.longshot = n.longshot
          /\ m.capture = k.capture /\ m.shot = k.shot /\ m.shots = k.shots /\ m.hint = k.hint
          /\ m.retro = k.retro /\ m.dead = k.dead /\ m.live = k.live
      BY <2>1, <3>2, <3>3 DEF Prepares, Differs, Fields, Three
    <3>6. k.hint \in BOOLEAN /\ k.dead \in BOOLEAN
      BY <1>1, SortsAre DEF Typed, Fields
    <3>7. s.ok => /\ m.preview = "added"
                  /\ (m.video = "added" /\ m.snapshot = "added")
                     \/ (m.video = k.video /\ m.snapshot = k.snapshot)
      BY <3>2, <3>4, <3>5, <3>6 DEF Prepares, Differs, Fields
    <3>8. ~s.ok => /\ Refuses(k) /\ m.preview \in {k.preview, "none"} /\ m.video \in {k.video, "none"}
      BY <3>2, <3>4, <3>5 DEF Prepares, Refuses
    <3>9. Orderly => k.video = "none" /\ k.preview # "started"
      BY <1>4 DEF Due, Unprepared
    <3>10. m.longshot => k.longshot
      BY <3>2, <3>4, <3>5 DEF Prepares
    <3>11. Fits(m)
      BY <3>3, <3>5, <3>7, <3>8, <3>9, <3>10 DEF Fits, InOrder, isRecording, Refuses, PPT
    <3>12. Runs(m)
      BY <3>3, <3>7 DEF Runs, isPreviewRunning
    <3>13. Readies(k, e, m)
      BY <1>4 DEF Readies, Reports
    <3>14. Streams(k, e, m)
      BY <1>4, <3>12 DEF Streams, Reports
    <3>15. Fitting(k, e, m)
      BY <1>4, <3>3, <3>5, <3>11, <3>13, <3>14 DEF Fitting, PPT, Picturing, Reports
    <3> QED BY <3>1, <3>15 DEF m
  <2>3. AllFit(k, e, Report(Move(preparePreview(q), "READY", "STOPPED"), e))
    BY <2>2, ReportsFit
  <2> QED BY <1>4, <2>3 DEF Ready, ReadySettings, Settings, ReadyRefuses, Restarts, StoppedRefuses, q
<1>5. CASE e \in {"LONGSHOT_ON", "LONGSHOT_OFF"}
  <2>1. AllFit(k, e, Command(k, e))
    <3>1. Differs(k, k, {"again", "later"})
      BY <1>1, DiffersIt
    <3>2. CASE e = "LONGSHOT_ON"
      BY <3>2, LongshotOnFits, ReportsFit DEF Command
    <3>3. CASE e = "LONGSHOT_OFF"
      BY <3>1, <3>3, LongshotOffFits DEF Command, States, PPT
    <3> QED BY <1>5, <3>2, <3>3
  <2> QED BY <1>5, <2>1 DEF Ready, Settings, ReadyRefuses, Restarts, StoppedRefuses
<1>6. CASE e \notin {"START_PREVIEW", "SET_PREVIEW_WINDOW", "SET_PARAMS_STOP", "STOP_PREVIEW",
                     "SET_PARAMS_RESTART", "LONGSHOT_ON", "LONGSHOT_OFF"}
  <2>1. Quiet(k, e)
    BY <1>6 DEF Quiet, Gap, PPT
  <2>2. /\ AllFit(k, e, Reply(k, e)) /\ AllFit(k, e, Invalid(k, e)) /\ AllFit(k, e, Silent(k))
        /\ e = "SET_PARAMS" => AllFit(k, e, SetParams(k, e))
        /\ AllFit(k, e, Commit(k, e))
        /\ e \in {"ENABLE_MSG_TYPE", "DISABLE_MSG_TYPE", "PREVIEW_ENABLED"} =>
               AllFit(k, e, Messages(k, e))
    BY <2>1, QuietFit
  <2>3. CASE e \in Settings
    <3>1. AllFit(k, e, ReadySettings(k, e))
      BY <1>6, <2>2, <2>3 DEF ReadySettings, Settings
    <3> QED BY <2>3, <3>1 DEF Ready, Settings, ReadyRefuses, Restarts, StoppedRefuses
  <2>4. CASE e \notin Settings
    BY <1>6, <2>2, <2>4 DEF Ready
  <2> QED BY <2>3, <2>4
<1> QED BY <1>2, <1>3, <1>4, <1>5, <1>6

\* An operation that changes nothing, whether it succeeds or not.
LEMMA LongShotFits ==
    ASSUME NEW k, NEW e, Fitting(k, e, k), NEW x
    PROVE  AllFit(k, e, Report(longShot(k), x)) /\ AllFit(k, e, DaemonDied(k))
<1>1. \A r \in longShot(k) : r.cam = k
  BY DEF longShot, Try, Attempt, Did, Failed
<1>2. \A o \in DaemonDied(k) : o.cam = k
  BY DEF DaemonDied, Outcome
<1>3. AllFit(k, e, Report(longShot(k), x))
  <2>1. \A r \in longShot(k) : Fitting(k, e, r.cam)
    BY <1>1
  <2> QED BY <2>1, ReportsFit
<1>4. AllFit(k, e, DaemonDied(k))
  <2>1. \A o \in DaemonDied(k) : Fitting(k, e, o.cam)
    BY <1>2
  <2> QED BY <2>1 DEF AllFit
<1> QED BY <1>3, <1>4

LEMMA PrepareSnapshotFits ==
    ASSUME NEW k, Fits(k), k.st = "PREPARE_SNAPSHOT", NEW e \in Requests \cup {"DAEMON_DIED"}, Due(k, e)
    PROVE  AllFit(k, e, PrepareSnapshot(k, e))
<1>1. CASE e = "PREP_SNAPSHOT_DONE"
  <2> DEFINE n == In(k, "PREVIEWING")
  <2>1. Differs(k, n, {"st"}) /\ n.st = "PREVIEWING"
    BY InIs DEF Fits, States
  <2> HIDE DEF n
  <2>2. /\ Typed(n) /\ n.preview = k.preview /\ n.video = k.video /\ n.snapshot = k.snapshot
        /\ n.capture = k.capture /\ n.shot = k.shot /\ n.shots = k.shots /\ n.hint = k.hint
        /\ n.longshot = k.longshot /\ n.retro = k.retro /\ n.dead = k.dead /\ n.live = k.live
        /\ n.needRestart = k.needRestart
    BY <2>1 DEF Differs, Fields
  <2>3. Fits(n)
    BY <2>1, <2>2 DEF Fits, InOrder, isRecording, Refuses, PPT
  <2>4. Readies(k, e, n) /\ Streams(k, e, n)
    BY <1>1, <2>1, <2>2 DEF Readies, Unprepared, Streams, Runs, isPreviewRunning, Gap, Openers, PPT
  <2>5. Fitting(k, e, n)
    BY <1>1, <2>1, <2>2, <2>3, <2>4 DEF Fitting, PPT, isRecording
  <2>6. AllFit(k, e, Reply(n, "PREPARE_SNAPSHOT"))
    BY <2>5, RepliesFit
  <2> QED BY <1>1, <2>6 DEF PrepareSnapshot, n
<1>2. CASE e # "PREP_SNAPSHOT_DONE"
  <2>1. Quiet(k, e)
    BY DEF Quiet, Gap, PPT
  <2>2. AllFit(k, e, Invalid(k, e)) /\ AllFit(k, e, Silent(k)) /\ Fitting(k, e, k)
    BY <2>1, QuietFit
  <2>3. AllFit(k, e, DaemonDied(k))
    BY <2>2, LongShotFits
  <2> QED BY <1>2, <2>2, <2>3 DEF PrepareSnapshot
<1> QED BY <1>1, <1>2

LEMMA PicTakingFits ==
    ASSUME NEW k, Fits(k), k.st = "PIC_TAKING", NEW e \in Requests \cup {"DAEMON_DIED"}, Due(k, e)
    PROVE  AllFit(k, e, PicTaking(k, e))
<1>1. Typed(k)
  BY DEF Fits
<1>2. CASE e = "STOP_CAPTURE_CHANNEL"
  <2> DEFINE c == stopCaptureChannel(k)
             q == [k EXCEPT !.capture = "stopped"]
             S == IF c.ok /\ RestartEarly
                  THEN Prepared(c.cam, LAMBDA p : startPreview(Applied(p))) ELSE {c}
  <2>1. Differs(k, q, {"capture"}) /\ q.capture = "stopped"
    <3>1. "capture" \in Fields /\ "stopped" \in Sorts["capture"]
      BY SortsAre DEF Fields
    <3> QED BY <1>1, <3>1, Put
  <2>2. c.cam = k \/ c.cam = q
    BY DEF stopCaptureChannel, Did, Failed
  <2> HIDE DEF q, c
  <2>3. Differs(k, c.cam, {"capture"}) /\ c.cam.capture \in {k.capture, "stopped"}
    BY <1>1, <2>1, <2>2, DiffersIt
  <2>4. ASSUME NEW r \in S PROVE Fitting(k, e, r.cam)
    <3> DEFINE n == r.cam
    <3>1. \/ r = c
          \/ RestartEarly /\ Restarted(c.cam, r)
      BY <2>3, <2>4, RestartsAre DEF Differs
    <3>2. /\ Typed(n) /\ n.st = k.st
          /\ n.shot = k.shot /\ n.shots = k.shots /\ n.hint = k.hint
          /\ n.retro = k.retro /\ n.dead = k.dead /\ n.live = k.live
          /\ n.needRestart = k.needRestart /\ n.capture \in {k.capture, "stopped"}
      BY <2>3, <3>1 DEF Restarted, Differs, Fields, Around, Three, Messaging
    <3>3. /\ c.cam.preview = k.preview /\ c.cam.video = k.video /\ c.cam.snapshot = k.snapshot
          /\ c.cam.longshot = k.longshot /\ c.cam.dead = k.dead /\ c.cam.hint = k.hint
      BY <2>3 DEF Differs, Fields
    <3>4. k.hint \in BOOLEAN
      BY <1>1, SortsAre DEF Typed, Fields
    <3>5. /\ n.longshot => k.longshot
          /\ n.video \in {k.video, "none", "added"}
          /\ ~Refuses(k) /\ n.video # "none" => n.snapshot # "none"
      BY <3>1, <3>3, <3>4 DEF Restarted, Refuses, Fits
    <3>6. Orderly => n.preview = k.preview /\ n.video = k.video /\ n.longshot = k.longshot
      BY <3>1, <3>3 DEF Orderly
    <3>7. Fits(n)
      BY <3>2, <3>5, <3>6 DEF Fits, InOrder, isRecording, Refuses, PPT
    <3>8. Readies(k, e, n) /\ Streams(k, e, n)
      BY <1>2, <3>2 DEF Readies, Unprepared, Streams, Runs, isPreviewRunning, Gap, Openers, PPT
    <3>9. ~ZSL
      BY <1>2 DEF Due
    <3> QED BY <1>2, <3>2, <3>7, <3>8, <3>9 DEF Fitting, PPT, isRecording, EarlyFrames
  <2>5. AllFit(k, e, Report(S, e))
    BY <2>4, ReportsFit
  <2>6. PicTakingReports(k, e) = Report(S, e)
    BY <1>2 DEF PicTakingReports, c
  <2> HIDE DEF S
  <2> QED BY <1>2, <2>5, <2>6 DEF PicTaking, Settings, Reports
<1>3. CASE e \in {"SNAPSHOT_DONE", "STOP_PREVIEW", "CANCEL_PICTURE"}
  <2>1. ASSUME NEW st \in {"STOPPED", "PREVIEWING"}, st = "PREVIEWING" => RestartEarly
        PROVE  Fitting(k, e, In(cancelPicture(k), st))
    <3> DEFINE c == cancelPicture(k)
               n == In(c, st)
    <3>1. Differs(k, c, {"shot", "capture"}) /\ c.shot = 0
          /\ c.capture = IF ZSL THEN k.capture ELSE "none"
      BY <1>1, CancelsPicture
    <3> HIDE DEF c
    <3>2. Differs(c, n, {"st"}) /\ n.st = st
      BY <3>1, InIs DEF Differs, States
    <3> HIDE DEF n
    <3>3. /\ Typed(n) /\ n.preview = k.preview /\ n.video = k.video /\ n.snapshot = k.snapshot
          /\ n.capture = c.capture /\ n.shot = 0 /\ n.shots = k.shots /\ n.hint = k.hint
          /\ n.longshot = k.longshot /\ n.retro = k.retro /\ n.dead = k.dead /\ n.live = k.live
          /\ n.needRestart = k.needRestart
      BY <3>1, <3>2 DEF Differs, Fields
    <3>4. Fits(n)
      BY <2>1, <3>1, <3>2, <3>3 DEF Fits, InOrder, isRecording, Refuses, PPT, Orderly
    <3>5. Readies(k, e, n)
      BY <1>3, <3>2 DEF Readies, Unprepared, PPT
    <3>6. Orderly => Streams(k, e, n)
      BY <1>3, <2>1, <3>2 DEF Streams, Runs, isPreviewRunning, Gap, Openers, PPT, Orderly
    <3>7. Fitting(k, e, n)
      BY <1>3, <3>2, <3>3, <3>4, <3>5, <3>6 DEF Fitting, PPT, isRecording
    <3> QED BY <3>7 DEF n, c
  <2> DEFINE st == IF RestartEarly THEN "PREVIEWING" ELSE "STOPPED"
             n == In(cancelPicture(k), st)
             m == In(cancelPicture(k), "STOPPED")
  <2>2. Fitting(k, e, n) /\ Fitting(k, e, m)
    BY <2>1
  <2>3. PicTakingReports(k, "SNAPSHOT_DONE") = Silent(n)
    BY DEF PicTakingReports
  <2> HIDE DEF n
  <2>4. AllFit(k, e, Silent(n)) /\ AllFit(k, e, Reply(m, e))
    BY <2>2, RepliesFit
  <2> QED BY <1>3, <2>3, <2>4 DEF PicTaking, Settings, Reports
<1>4. CASE e \in {"LONGSHOT_ON", "LONGSHOT_OFF"}
  <2>1. Differs(k, k, {"again", "later"})
    BY <1>1, DiffersIt
  <2>2. CASE e = "LONGSHOT_ON"
    <3>1. AllFit(k, e, Command(k, e))
      BY <2>2, LongshotOnFits, ReportsFit DEF Command
    <3> QED BY <2>2, <3>1 DEF PicTaking, Settings, Reports
  <2>3. CASE e = "LONGSHOT_OFF"
    <3>1. AllFit(k, e, LongshotOff(k, e, "PREVIEWING"))
      BY <2>1, <2>3, LongshotOffFits DEF States
    <3> QED BY <2>3, <3>1 DEF PicTaking, Settings, Reports
  <2> QED BY <1>4, <2>2, <2>3
<1>5. CASE e \notin {"STOP_CAPTURE_CHANNEL", "SNAPSHOT_DONE", "STOP_PREVIEW", "CANCEL_PICTURE",
                     "LONGSHOT_ON", "LONGSHOT_OFF"}
  <2>1. Quiet(k, e)
    BY DEF Quiet, Gap, PPT
  <2>2. /\ AllFit(k, e, Reply(k, e)) /\ AllFit(k, e, Invalid(k, e)) /\ AllFit(k, e, Silent(k))
        /\ e = "SET_PARAMS" => AllFit(k, e, SetParams(k, e))
        /\ AllFit(k, e, Commit(k, e)) /\ Fitting(k, e, k)
        /\ e \in {"ENABLE_MSG_TYPE", "DISABLE_MSG_TYPE", "PREVIEW_ENABLED"} =>
               AllFit(k, e, Messages(k, e))
        /\ e = "SET_PARAMS_RESTART" => AllFit(k, e, Reply([k EXCEPT !.needRestart = FALSE], e))
    BY <2>1, QuietFit, RepliesFit
  <2>3. AllFit(k, e, Report(longShot(k), e)) /\ AllFit(k, e, DaemonDied(k))
    BY <2>2, LongShotFits
  <2>4. CASE e \in Settings
    <3>1. AllFit(k, e, PicTakingSettings(k, e))
      BY <2>2, <2>4 DEF PicTakingSettings, Settings
    <3> QED BY <2>4, <3>1 DEF PicTaking, Settings, Reports
  <2>5. CASE e \in Reports
    <3>1. AllFit(k, e, PicTakingReports(k, e))
      BY <1>5, <2>2, <2>3, <2>5 DEF PicTakingReports, Reports
    <3> QED BY <2>5, <3>1 DEF PicTaking, Settings, Reports
  <2>6. CASE e \notin Settings \cup Reports
    BY <1>5, <2>2, <2>3, <2>6 DEF PicTaking
  <2> QED BY <2>4, <2>5, <2>6
<1> QED BY <1>2, <1>3, <1>4, <1>5
--------------------------------------------------------------------------------
(* The handlers of the recording states.                                   *)

LEMMA LiveIs ==
    ASSUME NEW k, Typed(k)
    PROVE  /\ Differs(k, takeLiveSnapshot(k), {"live"}) /\ takeLiveSnapshot(k).live = "take"
           /\ Differs(k, cancelLiveSnapshot(k), {"live"}) /\ cancelLiveSnapshot(k).live = "cancel"
<1>1. "live" \in Fields /\ {"take", "cancel"} \subseteq Sorts["live"]
  BY SortsAre DEF Fields
<1> QED BY <1>1, Put DEF takeLiveSnapshot, cancelLiveSnapshot

\* The end of a recording, with a live snapshot under way or not.
LEMMA RecordingEnds ==
    ASSUME NEW k, Fits(k), isRecording(k), NEW e \in Requests, NEW q, Differs(k, q, {"live"}),
           q.live \notin {"take", "taking"}
    PROVE  /\ e = "STOP_RECORDING" => Fitting(k, e, In(stopRecording(q), "PREVIEWING"))
           /\ e = "STOP_PREVIEW" => Fitting(k, e, StopAll(q))
<1> DEFINE s == stopChannel(q, "video")
           n == In(s, "PREVIEWING")
           u == stopPreview(s)
           m == In(u, "STOPPED")
<1>0. Typed(q)
  BY DEF Differs
<1>1. Differs(q, s, {"video"}) /\ s.video # "started" /\ (s.video = "none" <=> q.video = "none")
  BY <1>0, ChannelsPut
<1>2. stopRecording(q) = s /\ StopAll(q) = m
  BY DEF stopRecording, StopAll
<1> HIDE DEF s
<1>3. Typed(s)
  BY <1>1 DEF Differs
<1>4. Differs(s, n, {"st"}) /\ n.st = "PREVIEWING"
  BY <1>3, InIs DEF States
<1>5. Differs(s, u, Three) /\ u.preview = "none" /\ u.video = "none" /\ u.snapshot = "none"
  BY <1>3, StopsPreview
<1> HIDE DEF u, n
<1>6. Differs(u, m, {"st"}) /\ m.st = "STOPPED"
  BY <1>5, InIs DEF States, Differs
<1> HIDE DEF m
<1>7. /\ n.preview = k.preview /\ n.video = s.video /\ n.snapshot = k.snapshot
      /\ n.capture = k.capture /\ n.shot = k.shot /\ n.shots = k.shots /\ n.hint = k.hint
      /\ n.longshot = k.longshot /\ n.retro = k.retro /\ n.dead = k.dead /\ n.live = q.live
      /\ n.needRestart = k.needRestart /\ q.video = k.video
  BY <1>1, <1>4 DEF Differs, Fields
<1>8. /\ m.preview = "none" /\ m.video = "none" /\ m.snapshot = "none"
      /\ m.capture = k.capture /\ m.shot = k.shot /\ m.shots = k.shots /\ m.hint = k.hint
      /\ m.longshot = k.longshot /\ m.retro = k.retro /\ m.dead = k.dead /\ m.live = q.live
      /\ m.needRestart = k.needRestart
  BY <1>1, <1>5, <1>6 DEF Differs, Fields, Three
<1>9. Typed(n) /\ Typed(m)
  BY <1>4, <1>6 DEF Differs
<1>10. Fits(n)
  BY <1>1, <1>4, <1>7, <1>9 DEF Fits, InOrder, isRecording, Refuses, PPT
<1>11. Fits(m)
  BY <1>6, <1>8, <1>9 DEF Fits, InOrder, isRecording, Refuses, PPT
<1>12. Runs(k) => Runs(n)
  BY <1>4, <1>7 DEF Runs, isPreviewRunning, isRecording
<1>13. Runs(m)
  BY <1>6 DEF Runs, isPreviewRunning
<1>14. e = "STOP_RECORDING" => Fitting(k, e, n)
  BY <1>4, <1>7, <1>10, <1>12, PlainFits DEF Plain, PPT
<1>15. e = "STOP_PREVIEW" => Fitting(k, e, m)
  BY <1>6, <1>8, <1>11, <1>13, PlainFits DEF Plain, PPT
<1> QED BY <1>2, <1>14, <1>15 DEF n

\* A live snapshot taken, or over.
LEMMA LiveFits ==
    ASSUME NEW k, Fits(k), isRecording(k), NEW e \in {"TAKE_PICTURE", "CANCEL_PICTURE", "SNAPSHOT_DONE"},
           NEW q, Differs(k, q, {"live"}), NEW st \in {"RECORDING", "VIDEO_PIC_TAKING"},
           q.live \in {"take", "taking"} => st = "VIDEO_PIC_TAKING"
    PROVE  Fitting(k, e, In(q, st))
<1> DEFINE n == In(q, st)
<1>1. Differs(q, n, {"st"}) /\ n.st = st
  BY InIs DEF States, Differs
<1> HIDE DEF n
<1>2. /\ Typed(n) /\ n.preview = k.preview /\ n.video = k.video /\ n.snapshot = k.snapshot
      /\ n.capture = k.capture /\ n.shot = k.shot /\ n.shots = k.shots /\ n.hint = k.hint
      /\ n.longshot = k.longshot /\ n.retro = k.retro /\ n.dead = k.dead /\ n.live = q.live
      /\ n.needRestart = k.needRestart
  BY <1>1 DEF Differs, Fields
<1>3. Fits(n)
  BY <1>1, <1>2 DEF Fits, InOrder, isRecording, Refuses, PPT
<1>4. Readies(k, e, n) /\ Streams(k, e, n)
  BY <1>1, <1>2 DEF Readies, Unprepared, Streams, Runs, isPreviewRunning, isRecording, Gap, Openers, PPT
<1>5. Fitting(k, e, n)
  BY <1>1, <1>2, <1>3, <1>4 DEF Fitting, PPT, isRecording
<1> QED BY <1>5 DEF n

\* What both recording states do alike.
LEMMA RecordingQuiet ==
    ASSUME NEW k, Fits(k), isRecording(k), NEW e \in Requests \cup {"DAEMON_DIED"}, Due(k, e)
    PROVE  /\ AllFit(k, e, Reply(k, e)) /\ AllFit(k, e, Invalid(k, e)) /\ AllFit(k, e, Silent(k))
           /\ e = "SET_PARAMS" => AllFit(k, e, SetParamsRecording(k, e))
           /\ AllFit(k, e, Commit(k, e))
           /\ e \in {"ENABLE_MSG_TYPE", "DISABLE_MSG_TYPE", "PREVIEW_ENABLED"} =>
                  AllFit(k, e, Messages(k, e))
           /\ e \in {"LONGSHOT_ON", "LONGSHOT_OFF"} => AllFit(k, e, Command(k, e))
<1>1. Quiet(k, e)
  BY DEF Quiet, Gap, PPT, isRecording
<1>2. Differs(k, k, {"again", "later"})
  BY DiffersIt DEF Fits
<1>3. CASE e = "LONGSHOT_ON"
  <2>1. AllFit(k, e, Command(k, e))
    BY <1>3, LongshotOnFits, ReportsFit DEF Command
  <2> QED BY <1>1, <1>3, <2>1, QuietFit
<1>4. CASE e = "LONGSHOT_OFF"
  <2>1. AllFit(k, e, Command(k, e))
    BY <1>2, <1>4, LongshotOffFits DEF Command, States, PPT, isRecording
  <2> QED BY <1>1, <1>4, <2>1, QuietFit
<1>5. CASE e \notin {"LONGSHOT_ON", "LONGSHOT_OFF"}
  BY <1>1, <1>5, QuietFit
<1> QED BY <1>3, <1>4, <1>5

LEMMA RecordingFits ==
    ASSUME NEW k, Fits(k), k.st = "RECORDING", NEW e \in Requests \cup {"DAEMON_DIED"}, Due(k, e)
    PROVE  AllFit(k, e, Recording(k, e))
<1>1. Typed(k) /\ isRecording(k)
  BY DEF Fits, isRecording
<1>2. CASE e = "TAKE_PICTURE"
  <2>1. Fitting(k, e, In(takeLiveSnapshot(k), "VIDEO_PIC_TAKING"))
    BY <1>1, <1>2, LiveIs, LiveFits
  <2>2. AllFit(k, e, Reply(In(takeLiveSnapshot(k), "VIDEO_PIC_TAKING"), e))
    BY <2>1, RepliesFit
  <2> QED BY <1>2, <2>2 DEF Recording, Settings, RecordingIgnores, RecordingRefuses, Restarts
<1>3. CASE e \in {"STOP_RECORDING", "STOP_PREVIEW"}
  <2>1. Differs(k, k, {"live"}) /\ k.live \notin {"take", "taking"}
    BY <1>1, DiffersIt DEF Fits
  <2>2. /\ e = "STOP_RECORDING" => Fitting(k, e, In(stopRecording(k), "PREVIEWING"))
        /\ e = "STOP_PREVIEW" => Fitting(k, e, StopAll(k))
    BY <1>1, <1>3, <2>1, RecordingEnds DEF Requests, StoppedRefuses
  <2>3. /\ e = "STOP_RECORDING" => AllFit(k, e, Reply(In(stopRecording(k), "PREVIEWING"), e))
        /\ e = "STOP_PREVIEW" => AllFit(k, e, Reply(StopAll(k), e))
    BY <2>2, RepliesFit
  <2> QED BY <1>3, <2>3 DEF Recording, Settings, RecordingIgnores, RecordingRefuses, Restarts
<1>4. CASE e \notin {"TAKE_PICTURE", "STOP_RECORDING", "STOP_PREVIEW"}
  <2>1. /\ AllFit(k, e, Reply(k, e)) /\ AllFit(k, e, Invalid(k, e)) /\ AllFit(k, e, Silent(k))
        /\ e = "SET_PARAMS" => AllFit(k, e, SetParamsRecording(k, e))
        /\ AllFit(k, e, Commit(k, e))
        /\ e \in {"ENABLE_MSG_TYPE", "DISABLE_MSG_TYPE", "PREVIEW_ENABLED"} =>
               AllFit(k, e, Messages(k, e))
        /\ e \in {"LONGSHOT_ON", "LONGSHOT_OFF"} => AllFit(k, e, Command(k, e))
    BY <1>1, RecordingQuiet
  <2>2. CASE e \in Settings
    <3>1. AllFit(k, e, RecordingSettings(k, e))
      BY <2>1, <2>2 DEF RecordingSettings, Settings
    <3> QED BY <2>2, <3>1 DEF Recording, Settings, RecordingIgnores, RecordingRefuses, Restarts
  <2>3. CASE e \notin Settings
    BY <1>4, <2>1, <2>3 DEF Recording
  <2> QED BY <2>2, <2>3
<1> QED BY <1>2, <1>3, <1>4

LEMMA VideoPicTakingFits ==
    ASSUME NEW k, Fits(k), k.st = "VIDEO_PIC_TAKING", NEW e \in Requests \cup {"DAEMON_DIED"}, Due(k, e)
    PROVE  AllFit(k, e, VideoPicTaking(k, e))
<1>1. Typed(k) /\ isRecording(k)
  BY DEF Fits, isRecording
<1>2. Differs(k, cancelLiveSnapshot(k), {"live"}) /\ cancelLiveSnapshot(k).live = "cancel"
  BY <1>1, LiveIs
<1>3. CASE e \in {"CANCEL_PICTURE", "SNAPSHOT_DONE"}
  <2>1. Fitting(k, e, In(cancelLiveSnapshot(k), "RECORDING"))
    BY <1>1, <1>2, <1>3, LiveFits
  <2>2. /\ AllFit(k, e, Reply(In(cancelLiveSnapshot(k), "RECORDING"), e))
        /\ AllFit(k, e, Silent(In(cancelLiveSnapshot(k), "RECORDING")))
    BY <2>1, RepliesFit
  <2> QED BY <1>3, <2>2 DEF VideoPicTaking, Settings, VideoPicTakingRefuses, Restarts
<1>4. CASE e \in {"STOP_RECORDING", "STOP_PREVIEW"}
  <2>1. /\ e = "STOP_RECORDING" => Fitting(k, e, In(stopRecording(cancelLiveSnapshot(k)), "PREVIEWING"))
        /\ e = "STOP_PREVIEW" => Fitting(k, e, StopAll(cancelLiveSnapshot(k)))
    BY <1>1, <1>2, <1>4, RecordingEnds DEF Requests, StoppedRefuses
  <2>2. /\ e = "STOP_RECORDING" =>
               AllFit(k, e, Reply(In(stopRecording(cancelLiveSnapshot(k)), "PREVIEWING"), e))
        /\ e = "STOP_PREVIEW" => AllFit(k, e, Reply(StopAll(cancelLiveSnapshot(k)), e))
    BY <2>1, RepliesFit
  <2> QED BY <1>4, <2>2 DEF VideoPicTaking, Settings, VideoPicTakingRefuses, Restarts
<1>5. CASE e \notin {"CANCEL_PICTURE", "SNAPSHOT_DONE", "STOP_RECORDING", "STOP_PREVIEW"}
  <2>1. /\ AllFit(k, e, Reply(k, e)) /\ AllFit(k, e, Invalid(k, e)) /\ AllFit(k, e, Silent(k))
        /\ e = "SET_PARAMS" => AllFit(k, e, SetParamsRecording(k, e))
        /\ AllFit(k, e, Commit(k, e))
        /\ e \in {"ENABLE_MSG_TYPE", "DISABLE_MSG_TYPE", "PREVIEW_ENABLED"} =>
               AllFit(k, e, Messages(k, e))
        /\ e \in {"LONGSHOT_ON", "LONGSHOT_OFF"} => AllFit(k, e, Command(k, e))
    BY <1>1, RecordingQuiet
  <2>2. CASE e \in Settings
    <3>1. AllFit(k, e, VideoPicTakingSettings(k, e))
      BY <2>1, <2>2 DEF VideoPicTakingSettings, Settings
    <3> QED BY <2>2, <3>1 DEF VideoPicTaking, Settings, VideoPicTakingRefuses, Restarts
  <2>3. CASE e \notin Settings
    BY <1>5, <2>1, <2>3 DEF VideoPicTaking
  <2> QED BY <2>2, <2>3
<1> QED BY <1>3, <1>4, <1>5
--------------------------------------------------------------------------------
(* The handlers of STOPPED, READY and PREVIEWING.                          *)

LEMMA NewShotIs ==
    ASSUME NEW k, Typed(k)
    PROVE  Differs(k, NewShot(k), {"shot", "shots"}) /\ NewShot(k).shot = NewShot(k).shots
<1> DEFINE n == NewShot(k)
<1>1. k.shots \in Nat
  BY SortsAre DEF Typed, Fields
<1>2. /\ DOMAIN n = Fields /\ n.shot = k.shots + 1 /\ n.shots = k.shots + 1
      /\ \A f \in Fields \ {"shot", "shots"} : n[f] = k[f]
  BY DEF NewShot, Typed, Fields
<1>3. k.shots + 1 \in Sorts["shot"] /\ k.shots + 1 \in Sorts["shots"]
  BY <1>1, SortsAre
<1> HIDE DEF n
<1>4. \A f \in Fields : n[f] \in Sorts[f]
  BY <1>2, <1>3 DEF Typed
<1> QED BY <1>2, <1>4 DEF Differs, Typed, n

LEMMA TakesPicture ==
    ASSUME NEW d, Typed(d), NEW r \in takePicture(d)
    PROVE  Takes(d, r)
<1>1. CASE ZSL
  <2> DEFINE n == NewShot(d)
  <2>1. Differs(d, n, {"shot", "shots"}) /\ n.shot = n.shots
    BY NewShotIs
  <2>2. n.dead = d.dead
    BY <2>1 DEF Differs, Fields
  <2>3. r \in IF d.preview = "started" /\ ~d.hint THEN Try(d, n) ELSE {Failed(d)}
    BY <1>1 DEF takePicture
  <2> HIDE DEF n
  <2>4. CASE d.preview = "started" /\ ~d.hint
    <3>1. \/ r.ok = TRUE /\ r.cam = n /\ ~n.dead
          \/ r.ok = FALSE /\ r.cam \in {d} /\ Refuses(n)
      BY <2>3, <2>4, Attempted DEF Try
    <3> QED BY <1>1, <2>1, <2>2, <2>4, <3>1 DEF Takes
  <2>5. CASE ~(d.preview = "started" /\ ~d.hint)
    <3>1. r.ok = FALSE /\ r.cam = d
      BY <2>3, <2>5 DEF Failed
    <3> QED BY <1>1, <3>1 DEF Takes
  <2> QED BY <2>4, <2>5
<1>2. CASE ~ZSL
  <2> DEFINE s == stopPreview(d)
             del == [s EXCEPT !.capture = "none"]
             t == NewShot(s)
             a == [t EXCEPT !.capture = "added"]
             n == [a EXCEPT !.capture = "started"]
             All == Three \cup {"shot", "shots", "capture"}
  <2>1. Differs(d, s, Three) /\ s.preview = "none" /\ s.video = "none" /\ s.snapshot = "none"
    BY StopsPreview
  <2>2. r \in Attempt({s, delChannel(s, "capture")}, startChannel(addCaptureChannel(t), "capture"))
    BY <1>2 DEF takePicture
  <2>3. delChannel(s, "capture") = del
    BY DEF delChannel
  <2>4. startChannel(addCaptureChannel(t), "capture") = n
    <3>1. addCaptureChannel(t) = a
      BY DEF addCaptureChannel, addChannel
    <3> HIDE DEF a, t
    <3> QED BY <3>1 DEF startChannel
  <2> HIDE DEF s
  <2>5. Typed(s) /\ "capture" \in Fields /\ "none" \in Sorts["capture"] /\ "started" \in Sorts["capture"]
    BY <2>1, SortsAre DEF Differs, Fields
  <2>6. Differs(s, del, {"capture"}) /\ del.capture = "none"
    BY <2>5, Put
  <2>7. Differs(s, t, {"shot", "shots"}) /\ t.shot = t.shots
    BY <2>5, NewShotIs
  <2> HIDE DEF del, t
  <2>8. n = [t EXCEPT !.capture = "started"]
    OBVIOUS
  <2> HIDE DEF n
  <2>9. Differs(t, n, {"capture"})
    <3>1. Typed(t)
      BY <2>7 DEF Differs
    <3>2. Differs(t, [t EXCEPT !["capture"] = "started"], {"capture"})
      BY <2>5, <3>1, Put
    <3> QED BY <2>8, <3>2
  <2>10. \/ r.ok = TRUE /\ r.cam = n /\ ~n.dead
         \/ r.ok = FALSE /\ r.cam \in {s, del} /\ Refuses(n)
    BY <2>2, <2>3, <2>4, Attempted
  <2>11. n.dead = d.dead /\ n.shot = n.shots
    BY <2>1, <2>7, <2>9 DEF Differs, Fields, Three
  <2>12. /\ Differs(d, n, All) /\ Differs(d, s, All) /\ Differs(d, del, All)
         /\ n.preview = "none" /\ n.video = "none" /\ n.snapshot = "none"
         /\ del.preview = "none" /\ del.video = "none" /\ del.snapshot = "none"
    BY <2>1, <2>6, <2>7, <2>9 DEF Differs, Fields, Three
  <2>13. /\ s.shot = d.shot /\ s.shots = d.shots /\ s.capture = d.capture
         /\ del.shot = d.shot /\ del.shots = d.shots
    BY <2>1, <2>6 DEF Differs, Fields, Three
  <2>14. CASE r.ok = TRUE /\ r.cam = n /\ ~n.dead
    BY <1>2, <2>11, <2>12, <2>14 DEF Takes
  <2>15. CASE r.ok = FALSE /\ r.cam \in {s, del} /\ Refuses(n)
    BY <1>2, <2>1, <2>6, <2>11, <2>12, <2>13, <2>15 DEF Takes, Refuses
  <2> QED BY <2>10, <2>14, <2>15
<1> QED BY <1>1, <1>2

LEMMA StopFits ==
    ASSUME NEW k, Fits(k), k.st \in Shows2
    PROVE  LET n == stopPreview(k)
           IN  /\ Fits(n) /\ Differs(k, n, Three)
               /\ n.preview = "none" /\ n.video = "none" /\ n.snapshot = "none"
<1> DEFINE n == stopPreview(k)
<1>1. Differs(k, n, Three) /\ n.preview = "none" /\ n.video = "none" /\ n.snapshot = "none"
  BY StopsPreview DEF Fits
<1> HIDE DEF n
<1>2. /\ Typed(n) /\ n.st = k.st /\ n.longshot = k.longshot
      /\ n.capture = k.capture /\ n.shot = k.shot /\ n.shots = k.shots /\ n.hint = k.hint
      /\ n.retro = k.retro /\ n.dead = k.dead /\ n.live = k.live
  BY <1>1 DEF Differs, Fields, Three
<1>3. Fits(n)
  BY <1>1, <1>2 DEF Fits, InOrder, isRecording, Refuses, PPT, Shows2
<1> QED BY <1>1, <1>3 DEF n

\* Fields that may change while the hint does.
LEMMA HintFits ==
    ASSUME NEW k, Fits(k), k.st \in Shows2, NEW b \in BOOLEAN, EarlyFrames /\ k.st = PPT => ~b
    PROVE  LET n == [k EXCEPT !.hint = b] IN Fits(n) /\ Differs(k, n, {"hint"}) /\ n.hint = b
<1> DEFINE n == [k EXCEPT !.hint = b]
<1>1. Differs(k, n, {"hint"}) /\ n.hint = b
  BY Put, SortsAre DEF Fits, Fields
<1> HIDE DEF n
<1>2. /\ Typed(n) /\ n.st = k.st /\ n.longshot = k.longshot
      /\ n.preview = k.preview /\ n.video = k.video /\ n.snapshot = k.snapshot
      /\ n.capture = k.capture /\ n.shot = k.shot /\ n.shots = k.shots
      /\ n.retro = k.retro /\ n.dead = k.dead /\ n.live = k.live
  BY <1>1 DEF Differs, Fields
<1>3. Fits(n)
  BY <1>1, <1>2 DEF Fits, InOrder, isRecording, Refuses
<1> QED BY <1>1, <1>3 DEF n

LEMMA RestartedFits ==
    ASSUME NEW q, Fits(q), q.st \in Shows2, NEW r, Restarted(q, r)
    PROVE  /\ Fits(r.cam) /\ Differs(q, r.cam, Around)
           /\ r.cam.st = q.st /\ r.cam.retro = q.retro /\ r.cam.dead = q.dead /\ r.cam.shots = q.shots
           /\ r.cam.needRestart = q.needRestart /\ r.cam.hint = q.hint
           /\ ~q.hint => r.cam.longshot = q.longshot
           /\ Healthy => Runs(r.cam)
<1> DEFINE n == r.cam
<1>1. /\ Typed(n) /\ n.st = q.st
      /\ n.capture = q.capture /\ n.shot = q.shot /\ n.shots = q.shots /\ n.hint = q.hint
      /\ n.retro = q.retro /\ n.dead = q.dead /\ n.live = q.live /\ n.needRestart = q.needRestart
  BY DEF Restarted, Differs, Fields, Around, Three, Messaging
<1>2. q.hint \in BOOLEAN
  BY SortsAre DEF Fits, Typed, Fields
<1>3. /\ n.longshot => q.longshot
      /\ ~q.hint => n.longshot = q.longshot
      /\ ~Refuses(q) /\ n.video # "none" => n.snapshot # "none"
      /\ q.video # "started" => n.video # "started"
  BY <1>2 DEF Restarted, Fits
<1>4. Fits(n)
  BY <1>1, <1>3 DEF Fits, InOrder, isRecording, Refuses, PPT, Shows2
<1>5. Healthy => Runs(n)
  BY <1>1, HealthyIs DEF Restarted, Runs, Shows2, PPT
<1> QED BY <1>1, <1>3, <1>4, <1>5 DEF Restarted

\* The preview of these states stopped, for the next request to start it.
LEMMA StoppingFits ==
    ASSUME NEW k, Fits(k), k.st \in Shows2, NEW e \in {"SET_PARAMS_STOP", "RESTART_STOP_PREVIEW"}
    PROVE  AllFit(k, e, Reply(stopPreview(k), e))
<1> DEFINE n == stopPreview(k)
<1>1. /\ Fits(n) /\ Differs(k, n, Three)
      /\ n.preview = "none" /\ n.video = "none" /\ n.snapshot = "none"
  BY StopFits
<1> HIDE DEF n
<1>2. /\ n.st = k.st /\ n.longshot = k.longshot /\ n.shots = k.shots
      /\ n.retro = k.retro /\ n.dead = k.dead /\ n.needRestart = k.needRestart
  BY <1>1 DEF Differs, Fields, Three
<1>3. Readies(k, e, n)
  BY <1>1 DEF Readies, Unprepared, Reports
<1>4. Streams(k, e, n)
  BY <1>2 DEF Streams, Gap, Shows2, Openers, Closes, Reports, PPT
<1>5. Fitting(k, e, n)
  BY <1>1, <1>2, <1>3, <1>4 DEF Fitting, PPT, Picturing, Reports, Shows2
<1>6. AllFit(k, e, Reply(n, e))
  BY <1>5, RepliesFit
<1> QED BY <1>6 DEF n

\* Started again by the next request, or by the one that has stopped it.
LEMMA RestartingFits ==
    ASSUME NEW k, Fits(k), k.st \in Shows2,
           NEW e \in {"RESTART_START_PREVIEW", "SEND_COMMAND_RESTART", "PRE_START_RECORDING",
                      "PRE_TAKE_PICTURE"},
           NEW q, Fits(q), Differs(k, q, Three \cup {"hint"}), e = "PRE_TAKE_PICTURE" => ~q.hint,
           NEW r, Restarted(q, r)
    PROVE  Fitting(k, e, r.cam)
<1> DEFINE n == r.cam
<1>1. /\ q.st = k.st /\ q.longshot = k.longshot /\ q.shots = k.shots
      /\ q.retro = k.retro /\ q.dead = k.dead /\ q.needRestart = k.needRestart
  BY DEF Differs, Fields, Three
<1>2. /\ Fits(n) /\ n.st = q.st /\ n.retro = q.retro /\ n.dead = q.dead /\ n.shots = q.shots
      /\ n.needRestart = q.needRestart
      /\ ~q.hint => n.longshot = q.longshot
      /\ Healthy => Runs(n)
  BY <1>1, RestartedFits
<1> HIDE DEF n
<1>3. Readies(k, e, n)
  BY DEF Readies, Reports
<1>4. Healthy => Streams(k, e, n)
  BY <1>2 DEF Streams, Openers, Closes, Reports
<1>5. Fitting(k, e, n)
  BY <1>1, <1>2, <1>3, <1>4 DEF Fitting, PPT, Picturing, Reports, Shows2, isRecording
<1> QED BY <1>5 DEF n

\* A recording, or a picture, that changes the hint.
LEMMA WithHintFits ==
    ASSUME NEW k, Fits(k), k.st \in Shows2, NEW e \in {"PRE_START_RECORDING", "PRE_TAKE_PICTURE"},
           NEW b \in BOOLEAN, e = "PRE_TAKE_PICTURE" <=> ~b, k.st = PPT => b /\ ~EarlyFrames
    PROVE  /\ b => AllFit(k, e, Report(preStartRecording(k), e))
           /\ ~b => AllFit(k, e, Report(preTakePicture(k), e))
<1> DEFINE s == stopPreview(k)
           q == [s EXCEPT !.hint = b]
           d == [k EXCEPT !.restart = TRUE]
<1>1. Fits(s) /\ Differs(k, s, Three)
  BY StopFits
<1>2. s.st = k.st
  BY <1>1 DEF Differs, Fields, Three
<1> HIDE DEF s
<1>3. Fits(q) /\ Differs(s, q, {"hint"}) /\ q.hint = b
  BY <1>1, <1>2, HintFits
<1> HIDE DEF q
<1>4. Differs(k, q, Three \cup {"hint"})
  BY <1>1, <1>3, DiffersThen
<1>5. Typed(q) /\ Typed(k)
  BY <1>3 DEF Fits
<1>6. Quiet(k, e)
  BY DEF Quiet
<1>7. Fitting(k, e, k)
  BY <1>6, QuietFit DEF Requests, StoppedRefuses
<1>8. Fitting(k, e, d)
  <2>1. Differs(k, d, {"restart"})
    BY <1>5, Put, SortsAre DEF Fields
  <2> HIDE DEF d
  <2>2. Differs(k, d, Free \cup {"needRestart"}) /\ d.needRestart = k.needRestart
    BY <2>1 DEF Differs, Fields, Free
  <2> QED BY <2>2, FreeFits DEF Requests, StoppedRefuses
<1>9. \A r \in Prepared(q, startPreview) : Fitting(k, e, r.cam)
  BY <1>3, <1>4, <1>5, RestartsAre, RestartingFits
<1>10. \A r \in Prepared(q, StartOrUnprepare) : Fitting(k, e, r.cam)
  <2>1. \A r \in Restart(q) : Restarted(q, r)
    BY <1>5, RestartsAre DEF RestartedOrNot
  <2>2. \A r \in Restart(q) : Fitting(k, e, r.cam)
    BY <1>3, <1>4, <2>1, RestartingFits
  <2> QED BY <2>2 DEF Restart
<1> DEFINE S == WithHint(k, TRUE, startPreview)
           T == WithHint(k, FALSE, StartOrUnprepare)
<1>11. ASSUME b = TRUE PROVE \A r \in S : Fitting(k, e, r.cam)
  <2>1. S = IF k.hint = TRUE THEN {Did(k)} ELSE IF DualCamera THEN {Did(d)} ELSE Prepared(q, startPreview)
    BY <1>11 DEF WithHint, q, s
  <2> HIDE DEF d, S
  <2> QED BY <1>7, <1>8, <1>9, <2>1 DEF Did
<1>12. ASSUME b = FALSE PROVE \A r \in T : Fitting(k, e, r.cam)
  <2>1. T = IF k.hint = FALSE THEN {Did(k)} ELSE IF DualCamera THEN {Did(d)}
            ELSE Prepared(q, StartOrUnprepare)
    BY <1>12 DEF WithHint, q, s
  <2> HIDE DEF d, T
  <2> QED BY <1>7, <1>8, <1>10, <2>1 DEF Did
<1> HIDE DEF S, T
<1>13. b => AllFit(k, e, Report(S, e))
  BY <1>11, ReportsFit
<1>14. ~b => AllFit(k, e, Report(T, e))
  BY <1>12, ReportsFit
<1> QED BY <1>13, <1>14 DEF preStartRecording, preTakePicture, S, T

\* A recording started.
LEMMA StartRecordingFits ==
    ASSUME NEW k, Fits(k), k.st \in Shows2, NEW r \in startRecording(k)
    PROVE  LET e == "START_RECORDING"
           IN  /\ ~r.ok => Fitting(k, e, r.cam) /\ r.cam = k
               /\ r.ok => /\ Fitting(k, e, In(r.cam, "VIDEO_PIC_TAKING"))
                          /\ Fitting(k, e, Applied(In(r.cam, "RECORDING")))
<1> DEFINE e == "START_RECORDING"
           n == startChannel(k, "video")
<1>1. Differs(k, n, {"video"}) /\ n.video = "started" /\ Typed(k)
  BY ChannelsPut DEF Fits
<1>2. Fitting(k, e, k)
  BY QuietFit DEF Quiet, Requests, StoppedRefuses
<1> HIDE DEF n
<1>3. \/ r.ok = FALSE /\ r.cam = k
      \/ r.ok = TRUE /\ r.cam = n /\ k.video # "none"
  <2>1. CASE k.video = "none"
    BY <2>1 DEF startRecording, Failed
  <2>2. CASE k.video # "none"
    <3>1. \/ r.ok = TRUE /\ r.cam = n /\ ~n.dead
          \/ r.ok = FALSE /\ r.cam \in {k} /\ Refuses(n)
      BY <2>2, Attempted DEF startRecording, Try, n
    <3> QED BY <2>2, <3>1
  <2> QED BY <2>1, <2>2
<1>4. ASSUME k.video # "none", NEW st \in {"VIDEO_PIC_TAKING", "RECORDING"}, NEW m, NEW F,
             Differs(n, m, F), F \subseteq Messaging \cup {"st"}, m.st = st
      PROVE  Fitting(k, e, m)
  <2>1. /\ Typed(m) /\ m.preview = k.preview /\ m.video = "started" /\ m.snapshot = k.snapshot
        /\ m.capture = k.capture /\ m.shot = k.shot /\ m.shots = k.shots /\ m.hint = k.hint
        /\ m.longshot = k.longshot /\ m.retro = k.retro /\ m.dead = k.dead /\ m.live = k.live
        /\ m.needRestart = k.needRestart
    BY <1>1, <1>4 DEF Differs, Fields, Messaging
  <2>2. Fits(m)
    BY <1>4, <2>1 DEF Fits, InOrder, isRecording, Refuses, PPT, Shows2
  <2>3. Runs(k) => Runs(m)
    BY <1>4, <2>1 DEF Runs, isPreviewRunning, Shows2, PPT
  <2> QED BY <1>4, <2>1, <2>2, <2>3, PlainFits DEF Plain, PPT
<1>5. ASSUME k.video # "none"
      PROVE  Fitting(k, e, In(n, "VIDEO_PIC_TAKING")) /\ Fitting(k, e, Applied(In(n, "RECORDING")))
  <2> DEFINE v == In(n, "VIDEO_PIC_TAKING")
             w == In(n, "RECORDING")
             a == Applied(w)
  <2>1. /\ Differs(n, v, {"st"}) /\ v.st = "VIDEO_PIC_TAKING"
        /\ Differs(n, w, {"st"}) /\ w.st = "RECORDING"
    BY <1>1, InIs DEF Differs, States
  <2> HIDE DEF v, w
  <2>2. Differs(w, a, Messaging)
    BY <2>1, Applies DEF Differs
  <2> HIDE DEF a
  <2>3. Differs(n, a, Messaging \cup {"st"}) /\ a.st = "RECORDING"
    BY <2>1, <2>2 DEF Differs, Fields, Messaging
  <2>4. Fitting(k, e, v)
    BY <1>4, <1>5, <2>1
  <2>5. Fitting(k, e, a)
    BY <1>4, <1>5, <2>3
  <2> QED BY <2>4, <2>5 DEF v, w, a
<1> QED BY <1>2, <1>3, <1>5

\* Preparing a snapshot leaves PREVIEWING.
LEMMA PreparingFits ==
    ASSUME NEW k, Fits(k), k.st = "PREVIEWING"
    PROVE  LET e == "PREPARE_SNAPSHOT"
           IN  AllFit(k, e, UNION {IF r.ok THEN Silent(Applied(r.cam)) ELSE Report({r}, e) :
                                r \in Try(k, [k EXCEPT !.st = "PREPARE_SNAPSHOT", !.prepping = TRUE])})
<1> DEFINE e == "PREPARE_SNAPSHOT"
           n == [k EXCEPT !.st = "PREPARE_SNAPSHOT", !.prepping = TRUE]
           a == Applied(n)
           S == Try(k, n)
           Out(r) == IF r.ok THEN Silent(Applied(r.cam)) ELSE Report({r}, e)
<1>1. Fitting(k, e, k) /\ Typed(k)
  BY QuietFit DEF Quiet, Requests, StoppedRefuses, Fits
<1>2. Differs(k, n, {"st", "prepping"}) /\ n.st = "PREPARE_SNAPSHOT"
  <2>1. /\ {"st", "prepping"} \subseteq Fields /\ Sorts["prepping"] = BOOLEAN
        /\ "PREPARE_SNAPSHOT" \in Sorts["st"]
    BY SortsAre DEF Fields, States
  <2>2. Differs(k, n, {"st", "prepping"})
    BY <1>1, <2>1, PutTwo
  <2>3. n.st = "PREPARE_SNAPSHOT"
    BY <1>1, <2>1 DEF Typed
  <2> QED BY <2>2, <2>3
<1> HIDE DEF n
<1>3. Differs(n, a, Messaging)
  BY <1>2, Applies DEF Differs
<1> HIDE DEF a
<1>4. /\ Typed(a) /\ a.st = "PREPARE_SNAPSHOT"
      /\ a.preview = k.preview /\ a.video = k.video /\ a.snapshot = k.snapshot
      /\ a.capture = k.capture /\ a.shot = k.shot /\ a.shots = k.shots /\ a.hint = k.hint
      /\ a.longshot = k.longshot /\ a.retro = k.retro /\ a.dead = k.dead /\ a.live = k.live
      /\ a.needRestart = k.needRestart
  BY <1>2, <1>3 DEF Differs, Fields, Messaging
<1>5. Fits(a)
  BY <1>4 DEF Fits, InOrder, isRecording, Refuses, PPT
<1>6. Readies(k, e, a) /\ Streams(k, e, a)
  BY <1>4 DEF Readies, Unprepared, Streams, Runs, isPreviewRunning, Openers, Closes, Reports, PPT
<1>7. Fitting(k, e, a)
  BY <1>4, <1>5, <1>6 DEF Fitting, PPT, isRecording
<1>8. ASSUME NEW r \in S PROVE AllFit(k, e, Out(r))
  <2>1. (r.ok /\ r.cam = n) \/ (~r.ok /\ r.cam = k)
    BY <1>8 DEF Try, Attempt, Did, Failed
  <2>2. CASE r.ok /\ r.cam = n
    BY <1>7, <2>2, RepliesFit DEF a
  <2>3. CASE ~r.ok /\ r.cam = k
    BY <1>1, <2>3, ReportsFit
  <2> QED BY <2>1, <2>2, <2>3
<1>9. AllFit(k, e, UNION {Out(r) : r \in S})
  <2> HIDE DEF Out, S
  <2> QED BY <1>8 DEF AllFit
<1> QED BY <1>9 DEF n

LEMMA StopPreviewFits ==
    ASSUME NEW k, Fits(k), k.st = "PREVIEWING"
    PROVE  Fitting(k, "STOP_PREVIEW", In(Applied(stopPreview(k)), "STOPPED"))
<1> DEFINE e == "STOP_PREVIEW"
           s == stopPreview(k)
           a == Applied(s)
           n == In(a, "STOPPED")
<1>1. Differs(k, s, Three) /\ s.preview = "none" /\ s.video = "none" /\ s.snapshot = "none"
  BY StopsPreview DEF Fits
<1> HIDE DEF s
<1>2. Differs(s, a, Messaging)
  BY <1>1, Applies DEF Differs
<1> HIDE DEF a
<1>3. Differs(a, n, {"st"}) /\ n.st = "STOPPED"
  BY <1>2, InIs DEF Differs, States
<1> HIDE DEF n
<1>4. /\ Typed(n) /\ n.preview = "none" /\ n.video = "none" /\ n.snapshot = "none"
      /\ n.capture = k.capture /\ n.shot = k.shot /\ n.shots = k.shots /\ n.hint = k.hint
      /\ n.longshot = k.longshot /\ n.retro = k.retro /\ n.dead = k.dead /\ n.live = k.live
      /\ n.needRestart = k.needRestart
  BY <1>1, <1>2, <1>3 DEF Differs, Fields, Three, Messaging
<1>5. Fits(n) /\ Runs(n)
  BY <1>3, <1>4 DEF Fits, InOrder, isRecording, Refuses, PPT, Runs, isPreviewRunning
<1>6. Fitting(k, e, n)
  BY <1>3, <1>4, <1>5, PlainFits DEF Plain, PPT
<1> QED BY <1>6 DEF n, a, s

\* What a restart leaves of the state it came from, for set_parameters.
LEMMA SetRestartFits ==
    ASSUME NEW k, Fits(k), k.st \in Shows2, NEW n, Fits(n), n.retro = k.retro, n.dead = k.dead,
           n.st = PPT => k.st = PPT /\ n.shots = k.shots,
           Orderly /\ Healthy => Runs(n)
    PROVE  Fitting(k, "SET_PARAMS_RESTART", n)
<1> DEFINE e == "SET_PARAMS_RESTART"
<1>1. Readies(k, e, n)
  BY DEF Readies, Reports
<1>2. Orderly /\ Healthy => Streams(k, e, n)
  BY DEF Streams, Reports
<1> QED BY <1>1, <1>2 DEF Fitting, PPT, Picturing, Reports

LEMMA PreviewingRestartFits ==
    ASSUME NEW k, Fits(k), k.st = "PREVIEWING", Due(k, "SET_PARAMS_RESTART")
    PROVE  AllFit(k, "SET_PARAMS_RESTART", PreviewingRestart(k, "SET_PARAMS_RESTART"))
<1> DEFINE e == "SET_PARAMS_RESTART"
           q == [k EXCEPT !.needRestart = FALSE]
           Rest(p) == Move(StartOrUnprepare(Applied(p)), "PREVIEWING", "STOPPED")
           S == Prepared(q, Rest)
<1>1. Typed(k)
  BY DEF Fits
<1>2. Differs(k, q, {"needRestart"})
  BY <1>1, Put, SortsAre DEF Fields
<1>3. PreviewingRestart(k, e) = Report(S, e)
  BY DEF PreviewingRestart
<1> HIDE DEF q
<1>4. /\ Typed(q) /\ q.st = k.st
      /\ q.preview = k.preview /\ q.video = k.video /\ q.snapshot = k.snapshot
      /\ q.capture = k.capture /\ q.shot = k.shot /\ q.shots = k.shots /\ q.hint = k.hint
      /\ q.longshot = k.longshot /\ q.retro = k.retro /\ q.dead = k.dead /\ q.live = k.live
  BY <1>2 DEF Differs, Fields
<1>5. Fits(q)
  BY <1>4 DEF Fits, InOrder, isRecording, Refuses
<1>6. ASSUME NEW r, Fits(r.cam), r.cam.st = "PREVIEWING", r.cam.retro = q.retro, r.cam.dead = q.dead,
             Healthy => Runs(r.cam)
      PROVE  Fitting(k, e, r.cam)
  BY <1>4, <1>6, SetRestartFits DEF Shows2, PPT
<1>7. ASSUME NEW p \in preparePreview(q)
      PROVE  /\ ~p.ok => Fitting(k, e, p.cam)
             /\ p.ok => \A r \in Rest(p.cam) : Fitting(k, e, r.cam)
  <2> DEFINE a == Applied(p.cam)
  <2>1. /\ ~p.ok => RestartedOrNot(q, p)
        /\ p.ok => \A r \in StartOrUnprepare(a) : RestartedOrNot(q, r)
    BY <1>4, RestartedIs
  <2>2. Prepares(q, p)
    BY <1>4, PreparesIs
  <2>3. Typed(a)
    BY <2>2, Applies DEF Prepares, Differs
  <2>4. ~p.ok => Fitting(k, e, p.cam)
    BY <1>4, <1>5, <1>6, <2>1, RestartedFits DEF RestartedOrNot, Shows2
  <2> HIDE DEF a
  <2>5. ASSUME p.ok, NEW r \in Move(StartOrUnprepare(a), "PREVIEWING", "STOPPED")
        PROVE  Fitting(k, e, r.cam)
    <3>1. PICK s \in StartOrUnprepare(a) : r.cam = In(s.cam, IF s.ok THEN "PREVIEWING" ELSE "STOPPED")
      BY <2>3, <2>5, OutcomesAre, MoveOf
    <3>2. RestartedOrNot(q, s) /\ StartsOrNot(a, s)
      BY <2>1, <2>3, <2>5, StartsIs
    <3>3. /\ Fits(s.cam) /\ s.cam.st = "PREVIEWING" /\ s.cam.retro = k.retro /\ s.cam.dead = k.dead
          /\ Healthy => Runs(s.cam)
      BY <1>4, <1>5, <3>2, RestartedFits DEF RestartedOrNot, Shows2
    <3> DEFINE n == s.cam
               st == IF s.ok THEN "PREVIEWING" ELSE "STOPPED"
               m == In(n, st)
    <3>4. Differs(n, m, {"st"}) /\ m.st = st
      BY <3>3, InIs DEF Fits, States
    <3> HIDE DEF m
    <3>5. /\ Typed(m) /\ m.preview = n.preview /\ m.video = n.video /\ m.snapshot = n.snapshot
          /\ m.capture = n.capture /\ m.shot = n.shot /\ m.shots = n.shots /\ m.hint = n.hint
          /\ m.longshot = n.longshot /\ m.retro = n.retro /\ m.dead = n.dead /\ m.live = n.live
      BY <3>4 DEF Differs, Fields
    <3>6. ~s.ok => n.preview = "none" /\ n.video = "none"
      BY <3>2 DEF StartsOrNot
    <3>7. Fits(m)
      BY <3>3, <3>4, <3>5, <3>6 DEF Fits, InOrder, isRecording, Refuses, PPT
    <3>8. Healthy => Runs(m)
      BY <3>3, <3>4, <3>5 DEF Runs, isPreviewRunning
    <3>9. Fitting(k, e, m)
      BY <3>3, <3>4, <3>5, <3>7, <3>8, SetRestartFits DEF Shows2, PPT
    <3> QED BY <3>1, <3>9 DEF m
  <2> QED BY <2>4, <2>5 DEF a
<1>8. ASSUME NEW r \in S PROVE Fitting(k, e, r.cam)
  <2>1. PICK p \in preparePreview(q) : r \in IF p.ok THEN Rest(p.cam) ELSE {p}
    BY <1>8 DEF Prepared
  <2> HIDE DEF Rest
  <2> QED BY <1>7, <2>1
<1> HIDE DEF S
<1>9. AllFit(k, e, Report(S, e))
  BY <1>8, ReportsFit
<1> QED BY <1>3, <1>9

LEMMA PreviewingLongshotFits ==
    ASSUME NEW k, Fits(k), k.st = "PREVIEWING", Due(k, "LONGSHOT_ON")
    PROVE  AllFit(k, "LONGSHOT_ON", PreviewingLongshotOn(k, "LONGSHOT_ON"))
<1> DEFINE e == "LONGSHOT_ON"
           c(r) == [r.cam EXCEPT !.again = r.again, !.later = r.again /\ DualCamera]
           Out(r) == IF ~r.again THEN Report({[r EXCEPT !.cam = c(r)]}, e)
                     ELSE IF c(r).later THEN Reply(stopPreview(c(r)), e)
                     ELSE Report(ApplyAndRestart(stopPreview(c(r))), e)
           S == LongshotOn(k)
<1>1. PreviewingLongshotOn(k, e) = UNION {Out(r) : r \in S}
  BY DEF PreviewingLongshotOn
<1>2. ASSUME NEW n, Fits(n), n.st = "PREVIEWING", n.retro = k.retro, n.dead = k.dead,
             n.needRestart = k.needRestart, Healthy /\ Runs(k) => Runs(n) \/ Gap(n, e)
      PROVE  Fitting(k, e, n)
  <2>1. Readies(k, e, n)
    BY DEF Readies, Reports
  <2>2. Healthy => Streams(k, e, n)
    BY <1>2 DEF Streams, Openers, Closes, Reports
  <2> QED BY <1>2, <2>1, <2>2 DEF Fitting, PPT, Picturing, Reports
<1>3. ASSUME NEW r \in S PROVE AllFit(k, e, Out(r))
  <2> DEFINE m == r.cam
             d == c(r)
             s == stopPreview(d)
  <2>1. /\ Fitting(k, e, m) /\ Differs(k, m, {"longshot", "prep"}) /\ r.again \in BOOLEAN
        /\ {"cam", "ok", "again"} \subseteq DOMAIN r
    BY <1>3, LongshotOnFits
  <2>2. Fits(m)
    BY <2>1 DEF Fitting
  <2>3. DualCamera \in BOOLEAN \/ DualCamera \notin BOOLEAN
    OBVIOUS
  <2> DEFINE l == r.again /\ DualCamera
  <2>4. l \in BOOLEAN
    OBVIOUS
  <2>5. Differs(m, d, {"again", "later"}) /\ d.again = r.again /\ d.later = l
    <3>1. /\ DOMAIN d = Fields /\ d.again = r.again /\ d.later = l
          /\ \A f \in Fields \ {"again", "later"} : d[f] = m[f]
      BY <2>2 DEF Fits, Typed, Fields
    <3>2. r.again \in Sorts["again"] /\ l \in Sorts["later"]
      BY <2>1, <2>4, SortsAre
    <3> HIDE DEF d, l
    <3>3. \A f \in Fields : d[f] \in Sorts[f]
      BY <2>2, <3>1, <3>2 DEF Fits, Typed
    <3> QED BY <3>1, <3>3 DEF Differs, Typed
  <2>6. r.again /\ ~l => ~d.later
    BY <2>5
  <2> HIDE DEF c
  <2>7. /\ d.st = k.st /\ d.preview = k.preview /\ d.video = k.video /\ d.snapshot = k.snapshot
        /\ d.capture = k.capture /\ d.shot = k.shot /\ d.shots = k.shots /\ d.hint = k.hint
        /\ d.longshot = m.longshot /\ d.retro = k.retro /\ d.dead = k.dead /\ d.live = k.live
        /\ d.needRestart = k.needRestart /\ m.st = k.st /\ m.capture = k.capture /\ m.shot = k.shot
        /\ m.shots = k.shots /\ m.live = k.live /\ m.preview = k.preview /\ m.video = k.video
        /\ m.snapshot = k.snapshot /\ m.hint = k.hint /\ m.retro = k.retro /\ m.dead = k.dead
    BY <2>1, <2>5 DEF Differs, Fields
  <2>8. Typed(d)
    BY <2>5 DEF Differs
  <2>9. Fits(d)
    BY <2>2, <2>7, <2>8 DEF Fits, InOrder, isRecording, Refuses
  <2>10. Fitting(k, e, d)
    BY <1>2, <2>7, <2>9 DEF Runs, isPreviewRunning
  <2>11. /\ Fits(s) /\ Differs(d, s, Three)
        /\ s.preview = "none" /\ s.video = "none" /\ s.snapshot = "none"
    BY <2>7, <2>9, StopFits DEF Shows2
  <2> HIDE DEF s
  <2>12. /\ s.st = k.st /\ s.retro = k.retro /\ s.dead = k.dead /\ s.needRestart = k.needRestart
         /\ s.again = d.again /\ s.later = d.later
    BY <2>7, <2>11 DEF Differs, Fields, Three
  <2>13. CASE ~r.again
    <3> DEFINE t == [r EXCEPT !.cam = d]
    <3>1. t.cam = d
      BY <2>1
    <3> HIDE DEF t
    <3>2. AllFit(k, e, Report({t}, e))
      BY <2>10, <3>1, ReportsFit
    <3> QED BY <2>13, <3>2 DEF t
  <2>14. CASE r.again /\ l
    <3>1. Gap(s, e)
      BY <2>5, <2>12, <2>14 DEF Gap
    <3>2. Fitting(k, e, s)
      BY <1>2, <2>11, <2>12, <3>1
    <3>3. AllFit(k, e, Reply(s, e))
      BY <3>2, RepliesFit
    <3> QED BY <2>5, <2>14, <3>3 DEF s
  <2>15. CASE r.again /\ ~l
    <3>1. ASSUME NEW p \in ApplyAndRestart(s) PROVE Fitting(k, e, p.cam)
      <4>1. Restarted(s, p)
        BY <2>11, RestartsAre DEF Fits, RestartedOrNot
      <4>2. /\ Fits(p.cam) /\ p.cam.st = s.st /\ p.cam.retro = s.retro /\ p.cam.dead = s.dead
            /\ p.cam.needRestart = s.needRestart
            /\ Healthy => Runs(p.cam)
        BY <2>11, <2>12, <4>1, RestartedFits DEF Shows2
      <4> QED BY <1>2, <2>12, <4>2
    <3>2. AllFit(k, e, Report(ApplyAndRestart(s), e))
      BY <3>1, ReportsFit
    <3> QED BY <2>6, <2>15, <3>2 DEF s
  <2> QED BY <2>1, <2>13, <2>14, <2>15
<1>4. AllFit(k, e, UNION {Out(r) : r \in S})
  <2> HIDE DEF Out, S
  <2> QED BY <1>3 DEF AllFit
<1> QED BY <1>1, <1>4

\* A picture from the preview, which is shown without the hint first.
LEMMA ShownIs ==
    ASSUME NEW k, Fits(k), k.st = "PREVIEWING",
           NEW r \in IF k.hint THEN Prepared([stopPreview(k) EXCEPT !.hint = FALSE], StartOrUnprepare)
                     ELSE {Did(k)}
    PROVE  LET p == r.cam
           IN  /\ Fits(p) /\ p.st = "PREVIEWING" /\ p.hint = FALSE /\ p.longshot = k.longshot
               /\ p.retro = k.retro /\ p.dead = k.dead /\ p.needRestart = k.needRestart
               /\ Healthy /\ Runs(k) => Runs(p)
<1> DEFINE s == stopPreview(k)
           q == [s EXCEPT !.hint = FALSE]
<1>1. Fits(s) /\ Differs(k, s, Three)
  BY StopFits DEF Shows2
<1>2. s.st = k.st
  BY <1>1 DEF Differs, Fields, Three
<1> HIDE DEF s
<1>3. Fits(q) /\ Differs(s, q, {"hint"}) /\ q.hint = FALSE
  BY <1>1, <1>2, HintFits DEF Shows2
<1> HIDE DEF q
<1>4. Differs(k, q, Three \cup {"hint"})
  BY <1>1, <1>3, DiffersThen
<1>5. /\ q.st = k.st /\ q.longshot = k.longshot
      /\ q.retro = k.retro /\ q.dead = k.dead /\ q.needRestart = k.needRestart
  BY <1>4 DEF Differs, Fields, Three
<1>6. CASE k.hint
  <2>1. r \in Restart(q)
    BY <1>6 DEF Restart, q, s
  <2>2. Restarted(q, r)
    BY <1>3, <2>1, RestartsAre DEF Fits, RestartedOrNot
  <2> QED BY <1>3, <1>5, <2>2, RestartedFits DEF Shows2
<1>7. CASE ~k.hint
  <2>1. r.cam = k
    BY <1>7 DEF Did
  <2>2. k.hint = FALSE
    BY <1>7, SortsAre DEF Fits, Typed, Fields
  <2> QED BY <2>1, <2>2
<1> QED BY <1>6, <1>7

LEMMA TakePictureFits ==
    ASSUME NEW k, Fits(k), k.st = "PREVIEWING", Due(k, "TAKE_PICTURE")
    PROVE  AllFit(k, "TAKE_PICTURE", PreviewingTakePicture(k, "TAKE_PICTURE"))
<1> DEFINE e == "TAKE_PICTURE"
           shown == IF k.hint THEN Prepared([stopPreview(k) EXCEPT !.hint = FALSE], StartOrUnprepare)
                    ELSE {Did(k)}
           taken(p) == Move(takePicture([p EXCEPT !.delay = TRUE]), "PREVIEW_PIC_TAKING", "PREVIEWING")
           fromPreview(p) ==
               UNION {IF r.ok /\ r.cam.retro THEN Silent(r.cam) ELSE Report({r}, e) : r \in taken(p)}
           again(n) == Move(Restart(stopPreview(n)), "PREVIEWING", "STOPPED")
           fromCapture(p) ==
               UNION {IF r.ok THEN Reply(In(r.cam, "PIC_TAKING"), e)
                      ELSE UNION {Invalid(q.cam, e) : q \in again(r.cam)} : r \in takePicture(p)}
           Presented(p) == /\ Fits(p) /\ p.st = "PREVIEWING" /\ p.hint = FALSE /\ p.longshot = k.longshot
                           /\ p.retro = k.retro /\ p.dead = k.dead /\ p.needRestart = k.needRestart
                           /\ Healthy /\ Runs(k) => Runs(p)
<1>1. PreviewingTakePicture(k, e) =
          UNION {IF ZSL \/ r.cam.longshot THEN fromPreview(r.cam) ELSE fromCapture(r.cam) : r \in shown}
  BY DEF PreviewingTakePicture
<1>2. \A r \in shown : Presented(r.cam)
  BY ShownIs
<1>3. ASSUME NEW n, Fits(n), n.retro = k.retro, n.dead = k.dead, n.needRestart = k.needRestart,
             n.st = PPT => ~k.dead, n.st \in {"STOPPED", "PREVIEWING", "PIC_TAKING", PPT},
             EarlyFrames => n.longshot = k.longshot,
             Orderly /\ Healthy /\ Runs(k) => Runs(n)
      PROVE  Fitting(k, e, n)
  <2>1. Readies(k, e, n)
    BY <1>3 DEF Readies, Unprepared, Reports, PPT
  <2>2. Orderly /\ Healthy => Streams(k, e, n)
    BY <1>3 DEF Streams, Openers, Closes, Reports
  <2> QED BY <1>3, <2>1, <2>2 DEF Fitting, PPT, isRecording
<1>4. ASSUME NEW p, Presented(p), ZSL \/ p.longshot PROVE AllFit(k, e, fromPreview(p))
  <2> DEFINE d == [p EXCEPT !.delay = TRUE]
  <2>0. Presented(p) /\ Fits(p) /\ p.st = "PREVIEWING"
    BY <1>4
  <2>1. Differs(p, d, {"delay"})
    <3>1. "delay" \in Fields /\ TRUE \in Sorts["delay"] /\ Typed(p)
      BY <2>0, SortsAre DEF Fields, Fits
    <3> QED BY <3>1, Put
  <2> HIDE DEF d
  <2>2. ASSUME NEW r \in Move(takePicture(d), PPT, "PREVIEWING") PROVE Fitting(k, e, r.cam)
    <3>1. PICK s \in takePicture(d) : r.cam = In(s.cam, IF s.ok THEN PPT ELSE "PREVIEWING")
      BY <2>1, <2>2, OutcomesAre, MoveOf DEF Differs
    <3>2. Takes(d, s)
      BY <2>1, TakesPicture DEF Differs
    <3> DEFINE n == s.cam
               st == IF s.ok THEN PPT ELSE "PREVIEWING"
               m == In(n, st)
    <3>3. Typed(n)
      <4>1. Typed(d)
        BY <2>1 DEF Differs
      <4> QED BY <3>2, <4>1 DEF Takes, Differs
    <3>4. Differs(n, m, {"st"}) /\ m.st = st
      BY <3>3, InIs DEF States, PPT
    <3> HIDE DEF m
    <3>5. /\ Typed(m) /\ m.preview = n.preview /\ m.video = n.video /\ m.snapshot = n.snapshot
          /\ m.capture = n.capture /\ m.shot = n.shot /\ m.shots = n.shots /\ m.hint = n.hint
          /\ m.longshot = n.longshot /\ m.retro = n.retro /\ m.dead = n.dead /\ m.live = n.live
          /\ m.needRestart = n.needRestart
      BY <3>4 DEF Differs, Fields
    <3>6. /\ d.st = p.st /\ d.preview = p.preview /\ d.video = p.video /\ d.snapshot = p.snapshot
          /\ d.capture = p.capture /\ d.shot = p.shot /\ d.shots = p.shots /\ d.hint = p.hint
          /\ d.longshot = p.longshot /\ d.retro = p.retro /\ d.dead = p.dead /\ d.live = p.live
          /\ d.needRestart = p.needRestart
      BY <2>1 DEF Differs, Fields
    <3>7. /\ n.hint = p.hint /\ n.longshot = p.longshot /\ n.retro = p.retro /\ n.dead = p.dead
          /\ n.live = p.live /\ n.needRestart = p.needRestart
          /\ ZSL => n.preview = p.preview /\ n.video = p.video /\ n.snapshot = p.snapshot
                    /\ n.capture = p.capture
      BY <3>2, <3>6 DEF Takes, Differs, Fields, Three
    <3>8. n.shot \in {0, n.shots}
      BY <2>0, <3>2, <3>6 DEF Takes, Fits
    <3>9. ~ZSL => n.video = "none" /\ n.preview = "none"
      BY <3>2 DEF Takes
    <3>10. Orderly => ZSL
      BY <1>4, <2>0 DEF Orderly, Fits
    <3>11. s.ok => ~k.dead
      BY <2>0, <3>2, <3>6 DEF Takes
    <3>12. EarlyFrames /\ s.ok => k.retro \/ k.longshot
      BY <3>11 DEF Due
    <3>13. /\ n.video # "started"
           /\ ~Refuses(n) /\ n.video # "none" => n.snapshot # "none"
           /\ n.live \notin {"take", "taking"}
           /\ n.dead => DaemonMayDie
           /\ n.retro => Retro /\ ZSL
           /\ NoLongShot => ~n.longshot
           /\ Orderly => n.capture # "started"
      BY <2>0, <3>7, <3>9, <3>10 DEF Fits, isRecording, Refuses, InOrder
    <3>14. Fits(m)
      BY <2>0, <3>4, <3>5, <3>7, <3>8, <3>10, <3>12, <3>13
         DEF Fits, InOrder, isRecording, Refuses, PPT
    <3>15. Orderly /\ Healthy /\ Runs(k) => Runs(m)
      BY <2>0, <3>4, <3>5, <3>7, <3>10 DEF Runs, isPreviewRunning, PPT
    <3>16. Fitting(k, e, m)
      <4>1. /\ m.retro = k.retro /\ m.dead = k.dead /\ m.needRestart = k.needRestart
            /\ m.longshot = k.longshot /\ m.st = st
        BY <2>0, <3>4, <3>5, <3>7
      <4>2. st \in {PPT, "PREVIEWING"} /\ (st = PPT => ~k.dead)
        BY <3>11 DEF PPT
      <4> HIDE DEF st
      <4>3. m.st = PPT => ~k.dead
        BY <4>1, <4>2
      <4>4. m.st \in {"STOPPED", "PREVIEWING", "PIC_TAKING", PPT}
        BY <4>1, <4>2
      <4> QED BY <1>3, <3>14, <3>15, <4>1, <4>3, <4>4
    <3> QED BY <3>1, <3>16 DEF m
  <2> DEFINE S == taken(p)
  <2> HIDE DEF S
  <2>3. \A r \in S : Fitting(k, e, r.cam)
    BY <2>2 DEF S, d, PPT
  <2>4. ASSUME NEW r \in S PROVE AllFit(k, e, Silent(r.cam)) /\ AllFit(k, e, Report({r}, e))
    BY <2>3, RepliesFit, ReportsFit
  <2>5. AllFit(k, e, UNION {IF r.ok /\ r.cam.retro THEN Silent(r.cam) ELSE Report({r}, e) : r \in S})
    BY <2>4 DEF AllFit
  <2> QED BY <2>5 DEF S
<1>5. ASSUME NEW p, Presented(p), ~(ZSL \/ p.longshot) PROVE AllFit(k, e, fromCapture(p))
  <2>0. Presented(p) /\ Fits(p) /\ p.st = "PREVIEWING" /\ Typed(p)
    BY <1>5 DEF Fits
  <2>1. ASSUME NEW r \in takePicture(p)
        PROVE  /\ r.ok => Fitting(k, e, In(r.cam, "PIC_TAKING"))
               /\ ~r.ok => \A q \in again(r.cam) : Fitting(k, e, q.cam)
    <3> DEFINE n == r.cam
               m == In(n, "PIC_TAKING")
    <3>1. Takes(p, r)
      BY <2>0, <2>1, TakesPicture
    <3>2. /\ Typed(n) /\ n.st = p.st /\ n.preview = "none" /\ n.video = "none" /\ n.snapshot = "none"
          /\ n.hint = p.hint /\ n.longshot = p.longshot /\ n.retro = p.retro /\ n.dead = p.dead
          /\ n.live = p.live /\ n.needRestart = p.needRestart
      BY <1>5, <3>1 DEF Takes, Differs, Fields, Three
    <3>3. ASSUME r.ok PROVE Fitting(k, e, m)
      <4>1. Differs(n, m, {"st"}) /\ m.st = "PIC_TAKING"
        BY <3>2, InIs DEF States
      <4> HIDE DEF m
      <4>2. /\ Typed(m) /\ m.preview = "none" /\ m.video = "none" /\ m.snapshot = "none"
            /\ m.shot = n.shot /\ m.shots = n.shots /\ m.hint = n.hint
            /\ m.longshot = n.longshot /\ m.retro = n.retro /\ m.dead = n.dead /\ m.live = n.live
            /\ m.needRestart = n.needRestart
        BY <3>2, <4>1 DEF Differs, Fields
      <4>3. n.shot = n.shots
        BY <1>5, <3>1, <3>3 DEF Takes
      <4>4. Fits(m)
        BY <1>5, <2>0, <3>2, <4>1, <4>2, <4>3 DEF Fits, InOrder, isRecording, Refuses, PPT
      <4>5. Runs(m)
        BY <4>1 DEF Runs, isPreviewRunning
      <4> QED BY <1>3, <1>5, <2>0, <3>2, <4>1, <4>2, <4>4, <4>5 DEF PPT
    <3>4. ASSUME ~r.ok, NEW q \in again(n) PROVE Fitting(k, e, q.cam)
      <4>1. Refuses(p) /\ n.shot = p.shot /\ n.shots = p.shots /\ n.capture \in {p.capture, "none"}
        BY <1>5, <3>1, <3>4 DEF Takes
      <4>2. Fits(n)
        BY <2>0, <3>2, <4>1 DEF Fits, InOrder, isRecording, Refuses, PPT
      <4> DEFINE s == stopPreview(n)
      <4>3. /\ Fits(s) /\ Differs(n, s, Three)
            /\ s.preview = "none" /\ s.video = "none" /\ s.snapshot = "none"
        BY <2>0, <3>2, <4>2, StopFits DEF Shows2
      <4> HIDE DEF s
      <4>4. s.st = "PREVIEWING" /\ s.retro = n.retro /\ s.dead = n.dead /\ s.needRestart = n.needRestart
        BY <2>0, <3>2, <4>3 DEF Differs, Fields, Three
      <4>5. PICK t \in Restart(s) : q.cam = In(t.cam, IF t.ok THEN "PREVIEWING" ELSE "STOPPED")
        BY <3>4, <4>3, OutcomesAre, MoveOf DEF s, Fits
      <4>6. RestartedOrNot(s, t)
        BY <4>3, RestartsAre DEF Fits
      <4> DEFINE o == t.cam
                 st == IF t.ok THEN "PREVIEWING" ELSE "STOPPED"
                 u == In(o, st)
      <4>7. /\ Fits(o) /\ o.st = s.st /\ o.retro = s.retro /\ o.dead = s.dead
            /\ o.needRestart = s.needRestart
        BY <4>3, <4>4, <4>6, RestartedFits DEF RestartedOrNot, Shows2
      <4>8. ~t.ok => o.preview = "none" /\ o.video = "none"
        BY <4>3, <4>6 DEF RestartedOrNot
      <4>9. Differs(o, u, {"st"}) /\ u.st = st
        BY <4>7, InIs DEF Fits, States
      <4> HIDE DEF u
      <4>10. /\ Typed(u) /\ u.preview = o.preview /\ u.video = o.video /\ u.snapshot = o.snapshot
             /\ u.capture = o.capture /\ u.shot = o.shot /\ u.shots = o.shots /\ u.hint = o.hint
             /\ u.longshot = o.longshot /\ u.retro = o.retro /\ u.dead = o.dead /\ u.live = o.live
             /\ u.needRestart = o.needRestart
        BY <4>9 DEF Differs, Fields
      <4>11. Fits(u)
        BY <4>4, <4>7, <4>8, <4>9, <4>10 DEF Fits, InOrder, isRecording, Refuses, PPT
      <4>12. ~Healthy
        BY <2>0, <4>1, HealthyIs
      <4>13. Fitting(k, e, u)
        BY <1>3, <1>5, <2>0, <3>2, <4>4, <4>7, <4>9, <4>10, <4>11, <4>12 DEF PPT, EarlyFrames
      <4> QED BY <4>5, <4>13 DEF u
    <3> QED BY <3>3, <3>4
  <2> DEFINE bad(n) == UNION {Invalid(q.cam, e) : q \in again(n)}
  <2>2. ASSUME NEW r \in takePicture(p)
        PROVE  /\ r.ok => AllFit(k, e, Reply(In(r.cam, "PIC_TAKING"), e))
               /\ ~r.ok => AllFit(k, e, bad(r.cam))
    <3>1. r.ok => AllFit(k, e, Reply(In(r.cam, "PIC_TAKING"), e))
      BY <2>1, RepliesFit
    <3>2. ASSUME ~r.ok PROVE AllFit(k, e, bad(r.cam))
      <4> DEFINE S == again(r.cam)
      <4>1. \A q \in S : Fitting(k, e, q.cam)
        BY <2>1, <3>2
      <4> HIDE DEF S
      <4>2. \A q \in S : AllFit(k, e, Invalid(q.cam, e))
        BY <4>1, RepliesFit
      <4>3. AllFit(k, e, UNION {Invalid(q.cam, e) : q \in S})
        BY <4>2 DEF AllFit
      <4> QED BY <4>3 DEF S
    <3> QED BY <3>1, <3>2
  <2> DEFINE S == takePicture(p)
  <2> HIDE DEF bad, S
  <2>3. AllFit(k, e, UNION {IF r.ok THEN Reply(In(r.cam, "PIC_TAKING"), e) ELSE bad(r.cam) : r \in S})
    BY <2>2 DEF AllFit, S
  <2> QED BY <2>3 DEF S, bad
<1>6. ASSUME NEW r \in shown
      PROVE  AllFit(k, e, IF ZSL \/ r.cam.longshot THEN fromPreview(r.cam) ELSE fromCapture(r.cam))
  <2>1. Presented(r.cam)
    BY <1>2, <1>6
  <2> HIDE DEF fromPreview, fromCapture, Presented, shown
  <2> QED BY <1>4, <1>5, <2>1
<1> HIDE DEF fromPreview, fromCapture, shown
<1>7. AllFit(k, e, UNION {IF ZSL \/ r.cam.longshot THEN fromPreview(r.cam)
                          ELSE fromCapture(r.cam) : r \in shown})
  BY <1>6 DEF AllFit
<1> QED BY <1>1, <1>7
--------------------------------------------------------------------------------
(* The handlers of the states of a picture.                                *)

\* The muxer's halves of a restart.
LEMMA RestartPreviewFits ==
    ASSUME NEW k, Fits(k), k.st \in Shows2, NEW e \in Restarts
    PROVE  AllFit(k, e, RestartPreview(k, e))
<1>1. CASE e = "RESTART_STOP_PREVIEW"
  <2>1. AllFit(k, e, Reply(stopPreview(k), e))
    BY <1>1, StoppingFits
  <2> QED BY <1>1, <2>1 DEF RestartPreview
<1>2. CASE e = "RESTART_START_PREVIEW"
  <2>1. Typed(k)
    BY DEF Fits
  <2>2. Differs(k, k, Three \cup {"hint"})
    BY <2>1, DiffersIt
  <2>3. \A r \in Prepared(k, startPreview) : Fitting(k, e, r.cam)
    BY <1>2, <2>1, <2>2, RestartsAre, RestartingFits
  <2>4. AllFit(k, e, Report(Prepared(k, startPreview), e))
    BY <2>3, ReportsFit
  <2> QED BY <1>2, <2>4 DEF RestartPreview
<1> QED BY <1>1, <1>2 DEF Restarts

LEMMA PreviewingCommandFits ==
    ASSUME NEW k, Fits(k), k.st = "PREVIEWING"
    PROVE  AllFit(k, "SEND_COMMAND_RESTART", PreviewingCommandRestart(k, "SEND_COMMAND_RESTART"))
<1> DEFINE e == "SEND_COMMAND_RESTART"
           S == IF k.again /\ k.later THEN Restart(k) ELSE {Did(k)}
<1>1. ASSUME NEW r \in S PROVE Fitting(k, e, r.cam)
  <2>1. CASE k.again /\ k.later
    <3>1. Typed(k)
      BY DEF Fits
    <3>2. Differs(k, k, Three \cup {"hint"})
      BY <3>1, DiffersIt
    <3>3. Restarted(k, r)
      BY <1>1, <2>1, <3>1, RestartsAre DEF RestartedOrNot
    <3> QED BY <3>2, <3>3, RestartingFits DEF Shows2
  <2>2. CASE ~(k.again /\ k.later)
    <3>1. Quiet(k, e)
      BY <2>2 DEF Quiet, Gap
    <3>2. Fitting(k, e, k)
      BY <3>1, QuietFit DEF Requests
    <3> QED BY <1>1, <2>2, <3>2 DEF Did
  <2> QED BY <2>1, <2>2
<1> HIDE DEF S
<1>2. AllFit(k, e, Report(S, e))
  BY <1>1, ReportsFit
<1> QED BY <1>2 DEF PreviewingCommandRestart, S

LEMMA PreviewingFits ==
    ASSUME NEW k, Fits(k), k.st = "PREVIEWING", NEW e \in Requests \cup {"DAEMON_DIED"}, Due(k, e)
    PROVE  AllFit(k, e, Previewing(k, e))
<1>1. Typed(k) /\ k.st \in Shows2
  BY DEF Fits, Shows2
<1>2. CASE e \in {"SET_PARAMS_STOP", "SET_PARAMS_RESTART"}
  <2>1. e = "SET_PARAMS_STOP" => AllFit(k, e, Reply(stopPreview(k), e))
    BY <1>1, StoppingFits
  <2>2. e = "SET_PARAMS_RESTART" => AllFit(k, e, PreviewingRestart(k, e))
    BY PreviewingRestartFits
  <2>3. AllFit(k, e, PreviewingSettings(k, e))
    BY <1>2, <2>1, <2>2 DEF PreviewingSettings
  <2> QED BY <1>2, <2>3 DEF Previewing, Settings, Restarts, PreviewingRefuses
<1>3. CASE e \in {"STOP_PREVIEW", "PRE_START_RECORDING", "START_RECORDING"}
  <2>1. e = "STOP_PREVIEW" => AllFit(k, e, Reply(In(Applied(stopPreview(k)), "STOPPED"), e))
    BY StopPreviewFits, RepliesFit
  <2>2. e = "PRE_START_RECORDING" => AllFit(k, e, Report(preStartRecording(k), e))
    BY <1>1, WithHintFits, k.st # PPT DEF PPT
  <2> DEFINE S == {IF r.ok THEN Did(Applied(In(r.cam, "RECORDING"))) ELSE r : r \in startRecording(k)}
  <2>3. ASSUME e = "START_RECORDING", NEW r \in S PROVE Fitting(k, e, r.cam)
    <3>1. PICK s \in startRecording(k) :
              r = IF s.ok THEN Did(Applied(In(s.cam, "RECORDING"))) ELSE s
      BY <2>3
    <3>2. /\ ~s.ok => Fitting(k, e, s.cam)
          /\ s.ok => Fitting(k, e, Applied(In(s.cam, "RECORDING")))
      BY <1>1, <2>3, StartRecordingFits
    <3> QED BY <3>1, <3>2 DEF Did
  <2>4. e = "START_RECORDING" => AllFit(k, e, Report(S, e))
    <3> HIDE DEF S
    <3> QED BY <2>3, ReportsFit
  <2> QED BY <1>3, <2>1, <2>2, <2>4 DEF Previewing, Settings, Restarts, PreviewingRefuses
<1>4. CASE e \in {"PREPARE_SNAPSHOT", "PRE_TAKE_PICTURE", "TAKE_PICTURE"}
  <2>1. e = "PRE_TAKE_PICTURE" => AllFit(k, e, Report(preTakePicture(k), e))
    BY <1>1, WithHintFits, k.st # PPT DEF PPT
  <2>2. e = "TAKE_PICTURE" => AllFit(k, e, PreviewingTakePicture(k, e))
    BY TakePictureFits
  <2>3. e = "PREPARE_SNAPSHOT" =>
            AllFit(k, e, UNION {IF r.ok THEN Silent(Applied(r.cam)) ELSE Report({r}, e) :
                             r \in Try(k, [k EXCEPT !.st = "PREPARE_SNAPSHOT", !.prepping = TRUE])})
    <3> DEFINE S == Try(k, [k EXCEPT !.st = "PREPARE_SNAPSHOT", !.prepping = TRUE])
               Out(x) == UNION {IF r.ok THEN Silent(Applied(r.cam)) ELSE Report({r}, x) : r \in S}
    <3>1. AllFit(k, "PREPARE_SNAPSHOT", Out("PREPARE_SNAPSHOT"))
      BY PreparingFits
    <3> HIDE DEF Out
    <3>2. e = "PREPARE_SNAPSHOT" => AllFit(k, e, Out(e))
      BY <3>1
    <3> QED BY <3>2 DEF Out
  <2> QED BY <1>4, <2>1, <2>2, <2>3 DEF Previewing, Settings, Restarts, PreviewingRefuses
<1>5. CASE e \in {"LONGSHOT_ON", "LONGSHOT_OFF", "SEND_COMMAND_RESTART"} \cup Restarts
  <2>1. e = "LONGSHOT_ON" => AllFit(k, e, PreviewingLongshotOn(k, e))
    BY PreviewingLongshotFits
  <2> DEFINE m == [k EXCEPT !.again = FALSE, !.later = FALSE]
  <2>2. Differs(k, m, {"again", "later"})
    <3>1. {"again", "later"} \subseteq Fields /\ Sorts["again"] = BOOLEAN /\ Sorts["later"] = BOOLEAN
      BY SortsAre DEF Fields
    <3> QED BY <1>1, <3>1, PutTwo
  <2>3. e = "LONGSHOT_OFF" => AllFit(k, e, LongshotOff(m, e, "PREVIEWING"))
    <3> HIDE DEF m
    <3> QED BY <2>2, LongshotOffFits DEF States, PPT
  <2>4. e = "SEND_COMMAND_RESTART" => AllFit(k, e, PreviewingCommandRestart(k, e))
    BY PreviewingCommandFits
  <2>5. e \in Restarts => AllFit(k, e, RestartPreview(k, e))
    BY <1>1, RestartPreviewFits
  <2> QED BY <1>5, <2>1, <2>3, <2>4, <2>5 DEF Previewing, Settings, Restarts, PreviewingRefuses
<1>6. CASE e \notin {"SET_PARAMS_STOP", "SET_PARAMS_RESTART", "STOP_PREVIEW", "PRE_START_RECORDING",
                     "START_RECORDING", "PREPARE_SNAPSHOT", "PRE_TAKE_PICTURE", "TAKE_PICTURE",
                     "LONGSHOT_ON", "LONGSHOT_OFF", "SEND_COMMAND_RESTART"} \cup Restarts
  <2>1. Quiet(k, e)
    BY <1>6 DEF Quiet, Restarts
  <2>2. /\ AllFit(k, e, Reply(k, e)) /\ AllFit(k, e, Invalid(k, e)) /\ AllFit(k, e, Silent(k))
        /\ e = "SET_PARAMS" => AllFit(k, e, SetParams(k, e))
        /\ AllFit(k, e, Commit(k, e))
        /\ e \in {"ENABLE_MSG_TYPE", "DISABLE_MSG_TYPE", "PREVIEW_ENABLED"} =>
               AllFit(k, e, PreviewingMessages(k, e))
        /\ AllFit(k, e, Reply(Applied(k), e))
    BY <2>1, QuietFit, RepliesFit
  <2>3. CASE e \in Settings
    <3>1. AllFit(k, e, PreviewingSettings(k, e))
      BY <1>6, <2>2, <2>3 DEF PreviewingSettings, Settings
    <3> QED BY <2>3, <3>1 DEF Previewing, Settings, Restarts, PreviewingRefuses
  <2>4. CASE e \notin Settings
    BY <1>6, <2>2, <2>4 DEF Previewing, PreviewingRefuses, Restarts
  <2> QED BY <2>3, <2>4
<1> QED BY <1>2, <1>3, <1>4, <1>5, <1>6

\* The end of a picture over the preview.
LEMMA PicOverPreviewFits ==
    ASSUME NEW k, Fits(k), k.st = PPT
    PROVE  /\ \A e \in {"SNAPSHOT_DONE", "CANCEL_PICTURE"} :
                  Fitting(k, e, In(PicOverPreview(k), "PREVIEWING"))
           /\ Fitting(k, "STOP_PREVIEW", In(unpreparePreview(PicOverPreview(k)), "STOPPED"))
<1> DEFINE q == PicOverPreview(k)
<1>1. /\ Differs(k, q, {"shot", "capture", "live"}) /\ q.shot \in {k.shot, 0}
      /\ q.capture \in {k.capture, "none"} /\ q.live \in {k.live, "cancel"}
  <2>1. Typed(k)
    BY DEF Fits
  <2>2. CASE ZSL \/ k.longshot
    <3>1. q = cancelPicture(k)
      BY <2>2 DEF PicOverPreview
    <3> HIDE DEF q
    <3>2. /\ Differs(k, q, {"shot", "capture"}) /\ q.shot = 0
          /\ q.capture = IF ZSL THEN k.capture ELSE "none"
      BY <2>1, <3>1, CancelsPicture
    <3> QED BY <3>2 DEF Differs, Fields
  <2>3. CASE ~(ZSL \/ k.longshot)
    <3>1. q = cancelLiveSnapshot(k)
      BY <2>3 DEF PicOverPreview
    <3> HIDE DEF q
    <3>2. Differs(k, q, {"live"}) /\ q.live = "cancel"
      BY <2>1, <3>1, LiveIs
    <3> QED BY <3>2 DEF Differs, Fields
  <2> QED BY <2>2, <2>3
<1> HIDE DEF q
<1>2. Typed(q)
  BY <1>1 DEF Differs
<1>3. ASSUME NEW e \in {"SNAPSHOT_DONE", "CANCEL_PICTURE"} PROVE Fitting(k, e, In(q, "PREVIEWING"))
  <2> DEFINE n == In(q, "PREVIEWING")
  <2>1. Differs(q, n, {"st"}) /\ n.st = "PREVIEWING"
    BY <1>2, InIs DEF States
  <2> HIDE DEF n
  <2>2. /\ Typed(n) /\ n.preview = k.preview /\ n.video = k.video /\ n.snapshot = k.snapshot
        /\ n.capture \in {k.capture, "none"} /\ n.shot \in {k.shot, 0} /\ n.shots = k.shots
        /\ n.hint = k.hint /\ n.longshot = k.longshot /\ n.retro = k.retro /\ n.dead = k.dead
        /\ n.live \in {k.live, "cancel"} /\ n.needRestart = k.needRestart
    BY <1>1, <2>1 DEF Differs, Fields
  <2>3. Fits(n)
    BY <2>1, <2>2 DEF Fits, InOrder, isRecording, Refuses, PPT
  <2>4. Readies(k, e, n)
    BY <2>1 DEF Readies, Unprepared, PPT
  <2>5. Streams(k, e, n)
    BY <2>1, <2>2 DEF Streams, Runs, isPreviewRunning, Gap, Openers, Closes, Reports, PPT
  <2>6. Fitting(k, e, n)
    BY <2>1, <2>2, <2>3, <2>4, <2>5 DEF Fitting, PPT, isRecording
  <2> QED BY <2>6 DEF n
<1>4. Fitting(k, "STOP_PREVIEW", In(unpreparePreview(q), "STOPPED"))
  <2> DEFINE u == unpreparePreview(q)
             n == In(u, "STOPPED")
  <2>1. Differs(q, u, Three) /\ u.preview = "none" /\ u.video = "none" /\ u.snapshot = "none"
    BY <1>2, Unprepares
  <2> HIDE DEF u
  <2>2. Differs(u, n, {"st"}) /\ n.st = "STOPPED"
    BY <2>1, InIs DEF Differs, States
  <2> HIDE DEF n
  <2>3. /\ Typed(n) /\ n.preview = "none" /\ n.video = "none" /\ n.snapshot = "none"
        /\ n.capture \in {k.capture, "none"} /\ n.shot \in {k.shot, 0} /\ n.shots = k.shots
        /\ n.hint = k.hint /\ n.longshot = k.longshot /\ n.retro = k.retro /\ n.dead = k.dead
        /\ n.live \in {k.live, "cancel"} /\ n.needRestart = k.needRestart
    BY <1>1, <2>1, <2>2 DEF Differs, Fields, Three
  <2>4. Fits(n) /\ Runs(n)
    BY <2>2, <2>3 DEF Fits, InOrder, isRecording, Refuses, PPT, Runs, isPreviewRunning
  <2>5. Fitting(k, "STOP_PREVIEW", n)
    BY <2>2, <2>3, <2>4, PlainFits DEF Plain, PPT
  <2> QED BY <2>5 DEF n, u
<1> QED BY <1>3, <1>4 DEF q

\* The second half of set_parameters over a picture.
LEMMA PicRestartFits ==
    ASSUME NEW k, Fits(k), k.st = PPT, Due(k, "SET_PARAMS_RESTART")
    PROVE  AllFit(k, "SET_PARAMS_RESTART",
                  Report(Move(ApplyAndRestart([k EXCEPT !.needRestart = FALSE]), PPT, "PIC_TAKING"),
                         "SET_PARAMS_RESTART"))
<1> DEFINE e == "SET_PARAMS_RESTART"
           q == [k EXCEPT !.needRestart = FALSE]
           S == Move(ApplyAndRestart(q), PPT, "PIC_TAKING")
<1>1. Differs(k, q, {"needRestart"})
  BY Put, SortsAre DEF Fields, Fits
<1> HIDE DEF q
<1>2. /\ Typed(q) /\ q.st = k.st
      /\ q.preview = k.preview /\ q.video = k.video /\ q.snapshot = k.snapshot
      /\ q.capture = k.capture /\ q.shot = k.shot /\ q.shots = k.shots /\ q.hint = k.hint
      /\ q.longshot = k.longshot /\ q.retro = k.retro /\ q.dead = k.dead /\ q.live = k.live
  BY <1>1 DEF Differs, Fields
<1>3. Fits(q)
  BY <1>2 DEF Fits, InOrder, isRecording, Refuses
<1>4. Orderly => q.video = "none" /\ q.preview # "started"
  BY <1>2 DEF Due, Unprepared
<1>5. ASSUME NEW r \in S PROVE Fitting(k, e, r.cam)
  <2>1. PICK s \in ApplyAndRestart(q) : r.cam = In(s.cam, IF s.ok THEN PPT ELSE "PIC_TAKING")
    BY <1>2, <1>5, OutcomesAre, MoveOf
  <2>2. RestartedOrNot(q, s)
    BY <1>2, RestartsAre
  <2> DEFINE n == s.cam
             st == IF s.ok THEN PPT ELSE "PIC_TAKING"
             m == In(n, st)
  <2>3. /\ Fits(n) /\ Differs(q, n, Around)
        /\ n.st = q.st /\ n.retro = q.retro /\ n.dead = q.dead /\ n.shots = q.shots
        /\ Healthy => Runs(n)
    BY <1>2, <1>3, <2>2, RestartedFits DEF RestartedOrNot, Shows2
  <2>4. ~s.ok => /\ Refuses(q)
                 /\ Orderly => n.video = "none" /\ n.preview # "started"
    BY <1>4, <2>2 DEF RestartedOrNot, Restarted
  <2>5. Differs(n, m, {"st"}) /\ m.st = st
    BY <2>3, InIs DEF Fits, States, PPT
  <2> HIDE DEF m
  <2>6. /\ Typed(m) /\ m.preview = n.preview /\ m.video = n.video /\ m.snapshot = n.snapshot
        /\ m.capture = n.capture /\ m.shot = n.shot /\ m.shots = n.shots /\ m.hint = n.hint
        /\ m.longshot = n.longshot /\ m.retro = n.retro /\ m.dead = n.dead /\ m.live = n.live
    BY <2>5 DEF Differs, Fields
  <2>7. Healthy => ~Refuses(q)
    BY <1>3, HealthyIs
  <2>8. Fits(m)
    <3>1. CASE s.ok
      <4>1. m.st = n.st
        BY <1>2, <2>3, <2>5, <3>1
      <4> QED BY <2>3, <2>6, <4>1 DEF Fits, InOrder, isRecording, Refuses
    <3>2. CASE ~s.ok
      <4>1. m.st = "PIC_TAKING" /\ n.st = PPT
        BY <1>2, <2>3, <2>5, <3>2
      <4> QED BY <2>3, <2>4, <2>6, <2>7, <3>2, <4>1 DEF Fits, InOrder, isRecording, Refuses, PPT
    <3> QED BY <3>1, <3>2
  <2>9. Healthy => Runs(m)
    BY <1>2, <2>3, <2>5, <2>6 DEF Runs, isPreviewRunning, PPT
  <2>10. Fitting(k, e, m)
    BY <1>2, <2>3, <2>6, <2>8, <2>9, SetRestartFits DEF Shows2
  <2> QED BY <2>1, <2>10 DEF m
<1> HIDE DEF S
<1>6. AllFit(k, e, Report(S, e))
  BY <1>5, ReportsFit
<1> QED BY <1>6 DEF S, q

LEMMA PicRecordingFits ==
    ASSUME NEW k, Fits(k), k.st = PPT, ~(ZSL \/ k.longshot)
    PROVE  /\ AllFit(k, "PRE_START_RECORDING", Report(preStartRecording(k), "PRE_START_RECORDING"))
           /\ AllFit(k, "START_RECORDING",
                     Report(Move(startRecording(k), "VIDEO_PIC_TAKING", k.st), "START_RECORDING"))
<1> DEFINE e == "START_RECORDING"
           S == Move(startRecording(k), "VIDEO_PIC_TAKING", k.st)
<1>1. Typed(k) /\ k.st \in Shows2
  BY DEF Fits, Shows2
<1>2. AllFit(k, "PRE_START_RECORDING", Report(preStartRecording(k), "PRE_START_RECORDING"))
  BY <1>1, WithHintFits, TRUE \in BOOLEAN DEF EarlyFrames
<1>3. ASSUME NEW r \in S PROVE Fitting(k, e, r.cam)
  <2>1. PICK s \in startRecording(k) : r.cam = In(s.cam, IF s.ok THEN "VIDEO_PIC_TAKING" ELSE k.st)
    BY <1>1, <1>3, OutcomesAre, MoveOf
  <2>2. /\ ~s.ok => s.cam = k
        /\ s.ok => Fitting(k, e, In(s.cam, "VIDEO_PIC_TAKING"))
    BY <1>1, StartRecordingFits
  <2> DEFINE n == In(k, k.st)
  <2>3. Differs(k, n, {"st"}) /\ n.st = k.st
    BY <1>1, InIs, SortsAre DEF Typed, Fields
  <2> HIDE DEF n
  <2>4. Differs(k, n, Free \cup {"needRestart"}) /\ n.needRestart = k.needRestart
    BY <2>3 DEF Differs, Fields, Free
  <2>5. Fitting(k, e, n)
    BY <2>4, FreeFits DEF Requests, StoppedRefuses
  <2> QED BY <2>1, <2>2, <2>5 DEF n
<1> HIDE DEF S
<1>4. AllFit(k, e, Report(S, e))
  BY <1>3, ReportsFit
<1> QED BY <1>2, <1>4 DEF S

LEMMA PreviewPicTakingFits ==
    ASSUME NEW k, Fits(k), k.st = PPT, NEW e \in Requests \cup {"DAEMON_DIED"}, Due(k, e)
    PROVE  AllFit(k, e, PreviewPicTaking(k, e))
<1>1. Typed(k) /\ k.st \in Shows2
  BY DEF Fits, Shows2
<1>2. CASE e \in {"SET_PARAMS_STOP", "SET_PARAMS_RESTART"}
  <2>1. e = "SET_PARAMS_STOP" => AllFit(k, e, Reply(stopPreview(k), e))
    BY <1>1, StoppingFits
  <2> DEFINE S == Move(ApplyAndRestart([k EXCEPT !.needRestart = FALSE]), PPT, "PIC_TAKING")
  <2>2. e = "SET_PARAMS_RESTART" => AllFit(k, e, Report(S, e))
    <3>1. AllFit(k, "SET_PARAMS_RESTART", Report(S, "SET_PARAMS_RESTART")) \/ e # "SET_PARAMS_RESTART"
      BY PicRestartFits
    <3> HIDE DEF S
    <3> QED BY <3>1
  <2>3. AllFit(k, e, PreviewPicTakingSettings(k, e))
    BY <1>2, <2>1, <2>2 DEF PreviewPicTakingSettings, PPT
  <2> QED BY <1>2, <2>3 DEF PreviewPicTaking, Settings, Reports, Restarts,
                                   PreviewPicTakingRefuses
<1>3. CASE e \in {"STOP_PREVIEW", "CANCEL_PICTURE", "SNAPSHOT_DONE"}
  <2> DEFINE n == In(PicOverPreview(k), "PREVIEWING")
             m == In(unpreparePreview(PicOverPreview(k)), "STOPPED")
             rs == IF k.retro THEN <<Result(e, TRUE)>> ELSE <<>>
  <2>1. /\ e \in {"SNAPSHOT_DONE", "CANCEL_PICTURE"} => Fitting(k, e, n)
        /\ e = "STOP_PREVIEW" => Fitting(k, e, m)
    BY PicOverPreviewFits
  <2> HIDE DEF rs
  <2>2. /\ e = "CANCEL_PICTURE" => AllFit(k, e, Reply(n, e))
        /\ e = "STOP_PREVIEW" => AllFit(k, e, Reply(m, e))
        /\ e = "SNAPSHOT_DONE" => AllFit(k, e, {Outcome(n, rs)})
    <3> HIDE DEF n, m
    <3>1. Outcome(n, rs).cam = n
      BY DEF Outcome
    <3> QED BY <2>1, <3>1, RepliesFit DEF AllFit
  <2>3. e = "SNAPSHOT_DONE" => AllFit(k, e, PreviewPicTakingReports(k, e))
    BY <2>2 DEF PreviewPicTakingReports, rs
  <2> QED BY <1>3, <2>2, <2>3 DEF PreviewPicTaking, Settings, Reports, Restarts, PreviewPicTakingRefuses
<1>4. CASE e \in {"LONGSHOT_ON", "LONGSHOT_OFF"} \cup Restarts
  <2>1. e = "LONGSHOT_ON" => AllFit(k, e, Command(k, e))
    BY LongshotOnFits, ReportsFit DEF Command
  <2>2. e = "LONGSHOT_OFF" => AllFit(k, e, LongshotOff(k, e, "PREVIEWING"))
    BY <1>1, DiffersIt, LongshotOffFits DEF States
  <2>3. e \in Restarts => AllFit(k, e, RestartPreview(k, e))
    BY <1>1, RestartPreviewFits
  <2> QED BY <1>4, <2>1, <2>2, <2>3
          DEF PreviewPicTaking, Settings, Reports, Restarts, PreviewPicTakingRefuses
<1>5. CASE e \notin {"SET_PARAMS_STOP", "SET_PARAMS_RESTART", "STOP_PREVIEW", "CANCEL_PICTURE",
                     "SNAPSHOT_DONE", "LONGSHOT_ON", "LONGSHOT_OFF"} \cup Restarts
  <2>1. Quiet(k, e)
    BY <1>5 DEF Quiet, Restarts, Gap, PPT
  <2>2. /\ \A x : AllFit(k, e, Reply(k, x)) /\ AllFit(k, e, Invalid(k, x)) /\ AllFit(k, e, Silent(k))
        /\ Fitting(k, e, k)
        /\ e = "SET_PARAMS" => AllFit(k, e, SetParams(k, e))
        /\ AllFit(k, e, Commit(k, e))
        /\ e \in {"ENABLE_MSG_TYPE", "DISABLE_MSG_TYPE", "PREVIEW_ENABLED"} =>
               AllFit(k, e, Messages(k, e))
        /\ Fitting(k, e, [k EXCEPT !.prepping = TRUE])
    BY <2>1, QuietFit
  <2>3. AllFit(k, e, Report(longShot(k), e)) /\ AllFit(k, e, DaemonDied(k))
    BY <2>2, LongShotFits
  <2>4. CASE e \in Settings
    <3>1. AllFit(k, e, PreviewPicTakingSettings(k, e))
      BY <1>5, <2>2, <2>4 DEF PreviewPicTakingSettings, Settings
    <3> QED BY <2>4, <3>1 DEF PreviewPicTaking, Settings, Reports, Restarts,
                                   PreviewPicTakingRefuses
  <2>5. CASE e \in Reports
    <3>1. AllFit(k, e, PreviewPicTakingReports(k, e))
      BY <1>5, <2>2, <2>3, <2>5 DEF PreviewPicTakingReports, FramesReady, Reports
    <3> QED BY <2>5, <3>1 DEF PreviewPicTaking, Settings, Reports, Restarts,
                                   PreviewPicTakingRefuses
  <2>6. CASE e = "PREPARE_SNAPSHOT"
    <3> DEFINE n == [k EXCEPT !.prepping = TRUE]
               S == Try(k, n)
               Out(r) == IF r.ok THEN Silent(r.cam) ELSE Report({r}, e)
    <3>1. Fitting(k, e, n)
      BY <2>2
    <3>2. ASSUME NEW r \in S PROVE AllFit(k, e, Out(r))
      <4> HIDE DEF n
      <4>1. (r.ok /\ r.cam = n) \/ (~r.ok /\ r.cam = k)
        BY <3>2 DEF Try, Attempt, Did, Failed
      <4>2. AllFit(k, e, Silent(n)) /\ (r.cam = k => AllFit(k, e, Report({r}, e)))
        BY <2>2, <3>1, RepliesFit, ReportsFit
      <4> QED BY <4>1, <4>2
    <3>3. AllFit(k, e, UNION {Out(r) : r \in S})
      <4> HIDE DEF Out, S
      <4> QED BY <3>2 DEF AllFit
    <3>4. AllFit(k, e, PreviewPicTakingPrepare(k, e))
      BY <2>2, <3>3 DEF PreviewPicTakingPrepare
    <3> QED BY <2>6, <3>4 DEF PreviewPicTaking, Settings, Reports, Restarts, PreviewPicTakingRefuses
  <2>7. CASE e \in {"PRE_START_RECORDING", "START_RECORDING"}
    <3> DEFINE P == Report(preStartRecording(k), e)
               R == Report(Move(startRecording(k), "VIDEO_PIC_TAKING", k.st), e)
    <3>1. ~(ZSL \/ k.longshot) /\ e = "PRE_START_RECORDING" => AllFit(k, e, P)
      BY PicRecordingFits
    <3>2. ~(ZSL \/ k.longshot) /\ e = "START_RECORDING" => AllFit(k, e, R)
      BY PicRecordingFits
    <3>3. PreviewPicTaking(k, e) = IF ZSL \/ k.longshot THEN Invalid(k, e)
                                   ELSE IF e = "PRE_START_RECORDING" THEN P ELSE R
      BY <2>7 DEF PreviewPicTaking, Settings, Reports, Restarts, PreviewPicTakingRefuses
    <3> HIDE DEF P, R
    <3> QED BY <2>2, <2>7, <3>1, <3>2, <3>3
  <2>8. CASE e \in {"PRE_TAKE_PICTURE", "TAKE_PICTURE"}
    BY <2>2, <2>3, <2>8 DEF PreviewPicTaking, Settings, Reports, Restarts, PreviewPicTakingRefuses
  <2>9. CASE e \notin Settings \cup Reports \cup {"PREPARE_SNAPSHOT", "PRE_START_RECORDING",
                      "START_RECORDING", "PRE_TAKE_PICTURE", "TAKE_PICTURE"}
    BY <1>5, <2>2, <2>9 DEF PreviewPicTaking
  <2> QED BY <2>4, <2>5, <2>6, <2>7, <2>8, <2>9
<1> QED BY <1>2, <1>3, <1>4, <1>5

LEMMA OutcomesFit ==
    ASSUME NEW k, Fits(k), NEW e \in Requests \cup {"DAEMON_DIED"}, Due(k, e)
    PROVE  AllFit(k, e, Outcomes(k, e))
<1>1. k.st \in States
  BY SortsAre DEF Fits, Typed, Fields
<1> QED BY <1>1, StoppedFits, ReadyFits, PreviewingFits, PrepareSnapshotFits, PicTakingFits,
           RecordingFits, VideoPicTakingFits, PreviewPicTakingFits DEF Outcomes, States, PPT
--------------------------------------------------------------------------------
(* Which answers the handlers give.                                        *)

LEMMA OutcomeIs ==
    ASSUME NEW n, NEW r, NEW o, o = Outcome(n, r)
    PROVE  o.cam = n /\ o.replies = r
BY DEF Outcome

LEMMA ReplyLeaves ==
    ASSUME NEW n, NEW x, NEW o \in Reply(n, x)
    PROVE  o.cam = n /\ o.replies = Answer(x, TRUE)
BY OutcomeIs DEF Reply, Answer

LEMMA InvalidLeaves ==
    ASSUME NEW n, NEW x, NEW o \in Invalid(n, x)
    PROVE  o.cam = n /\ o.replies = Answer(x, FALSE)
BY OutcomeIs DEF Invalid, Answer

LEMMA ReportsLeave ==
    ASSUME NEW S, NEW x, NEW o \in Report(S, x)
    PROVE  \E r \in S : o.cam = r.cam /\ o.replies = Answer(x, r.ok)
<1>1. PICK r \in S : o = Outcome(r.cam, Answer(x, r.ok))
  BY DEF Report, Answer
<1> HIDE DEF Report
<1>2. ASSUME NEW n, NEW y, o = Outcome(n, y) PROVE o.cam = n /\ o.replies = y
  BY <1>2 DEF Outcome
<1> QED BY <1>1, <1>2

\* Who is answered, and that nobody but PREPARE_SNAPSHOT has a snapshot prepared.
LEMMA AnswersAre ==
    ASSUME NEW k, Typed(k), NEW e \in Requests, NEW o \in Outcomes(k, e)
    PROVE  /\ {"cam", "replies", "post"} \subseteq DOMAIN o
           /\ Single(o.replies, Asks(e))
           /\ o.cam.prepping => k.prepping \/ e = "PREPARE_SNAPSHOT"
<1>1. Camera(k)
  BY TypedCamera
<1>2. CASE e = "DISABLE_MSG_TYPE"
  BY <1>1, <1>2, DisableIs DEF Asks
<1>3. CASE e = "PREPARE_SNAPSHOT"
  <2>1. Single(<<>>, Asks(e))
    BY DEF Single
  <2> QED BY <1>1, <1>3, <2>1, PrepareIs DEF Asks
<1>4. CASE e \notin {"DISABLE_MSG_TYPE", "PREPARE_SNAPSHOT"}
  <2>1. e \in Enabling \ {"PREPARE_SNAPSHOT"}
    BY <1>4 DEF Enabling
  <2>2. Fine(k, Asks(e), Outcomes(k, e))
    BY <1>1, <2>1, HandlersAre
  <2> QED BY <2>2 DEF Fine, Keeps
<1> QED BY <1>2, <1>3, <1>4

\* A daemon that dies lets go of whoever waits for it, and moves nothing.
LEMMA DyingAnswers ==
    ASSUME NEW k, Typed(k), NEW o \in Outcomes(k, "DAEMON_DIED")
    PROVE  /\ {"cam", "replies", "post"} \subseteq DOMAIN o /\ o.cam = k
           /\ o.replies \in {<<>>, <<Result("PREPARE_SNAPSHOT", TRUE), Result("TAKE_PICTURE", TRUE)>>}
<1> DEFINE e == "DAEMON_DIED"
<1>1. k.st \in States
  BY SortsAre DEF Typed, Fields
<1>2. /\ Stopped(k, e) = Silent(k) /\ Ready(k, e) = Silent(k)
  BY DEF Stopped, Ready, Settings, StoppedRefuses, ReadyRefuses, Restarts
<1>3. Previewing(k, e) = Silent(k) /\ PrepareSnapshot(k, e) = DaemonDied(k)
  BY DEF Previewing, PrepareSnapshot, Settings, PreviewingRefuses, Restarts
<1>4. PicTaking(k, e) = DaemonDied(k)
  BY DEF PicTaking, PicTakingReports, Settings, Reports
<1>5. PreviewPicTaking(k, e) = DaemonDied(k)
  BY DEF PreviewPicTaking, PreviewPicTakingReports, Settings, Reports, Restarts,
         PreviewPicTakingRefuses
<1>6. Recording(k, e) = Silent(k) /\ VideoPicTaking(k, e) = Silent(k)
  BY DEF Recording, VideoPicTaking, Settings, RecordingIgnores, RecordingRefuses,
         VideoPicTakingRefuses, Restarts
<1> HIDE DEF e
<1>7. Outcomes(k, e) \in {Silent(k), DaemonDied(k)}
  BY <1>1, <1>2, <1>3, <1>4, <1>5, <1>6 DEF Outcomes, States
<1> DEFINE both == <<Result("PREPARE_SNAPSHOT", TRUE), Result("TAKE_PICTURE", TRUE)>>
<1>8. Silent(k) = {Outcome(k, <<>>)} /\ DaemonDied(k) = {Outcome(k, both)}
  BY DEF Silent, DaemonDied
<1> HIDE DEF both
<1>9. PICK x \in {<<>>, both} : o = Outcome(k, x)
  BY <1>7, <1>8 DEF e
<1> QED BY <1>9 DEF Outcome, both

\* A picture with frames from before the call is not answered yet.
LEMMA PictureAnswers ==
    ASSUME NEW k, Typed(k), NEW o \in Outcomes(k, "TAKE_PICTURE"), o.cam.st = PPT, o.cam.retro
    PROVE  o.cam = k \/ o.replies = <<>>
<1> DEFINE e == "TAKE_PICTURE"
<1>1. k.st \in States
  BY SortsAre DEF Typed, Fields
<1>2. CASE k.st \in {"STOPPED", "READY", "PREPARE_SNAPSHOT"}
  <2>1. /\ Stopped(k, e) = Invalid(k, e) /\ Ready(k, e) = Invalid(k, e)
        /\ PrepareSnapshot(k, e) = Invalid(k, e)
    BY DEF Stopped, Ready, PrepareSnapshot, Settings, StoppedRefuses, ReadyRefuses, Restarts
  <2>2. o \in Invalid(k, e)
    BY <1>2, <2>1 DEF Outcomes
  <2> QED BY <2>2 DEF Invalid, Outcome
<1>3. CASE k.st \in {"PIC_TAKING", PPT}
  <2>1. /\ PicTaking(k, e) = IF k.longshot THEN Report(longShot(k), e) ELSE Invalid(k, e)
        /\ PreviewPicTaking(k, e) = IF k.longshot THEN Report(longShot(k), e) ELSE Invalid(k, e)
    BY DEF PicTaking, PreviewPicTaking, Settings, Reports, Restarts, PreviewPicTakingRefuses
  <2> HIDE DEF e
  <2>2. o \in Report(longShot(k), e) \cup Invalid(k, e)
    BY <1>3, <2>1 DEF Outcomes, PPT, e
  <2>3. \A r \in {Did(k), Failed(k)} : r.cam = k
    BY DEF Did, Failed
  <2>4. longShot(k) \subseteq {Did(k), Failed(k)}
    BY DEF longShot, Try, Attempt
  <2>5. CASE o \in Report(longShot(k), e)
    <3> DEFINE S == longShot(k)
    <3>1. \A r \in S : r.cam = k
      BY <2>3, <2>4
    <3> HIDE DEF S
    <3> QED BY <2>5, <3>1, ReportsLeave DEF S
  <2> QED BY <2>2, <2>5, InvalidLeaves
<1>4. CASE k.st \in {"RECORDING", "VIDEO_PIC_TAKING"}
  <2> DEFINE l == [k EXCEPT !.live = "take"]
             n == [l EXCEPT !.st = "VIDEO_PIC_TAKING"]
  <2>1. n.st = "VIDEO_PIC_TAKING"
    BY DEF Typed, Fields
  <2>2. /\ Recording(k, e) = Reply(n, e)
        /\ VideoPicTaking(k, e) = Invalid(k, e)
    BY DEF Recording, VideoPicTaking, Settings, RecordingIgnores, RecordingRefuses,
           VideoPicTakingRefuses, Restarts, takeLiveSnapshot, In
  <2> HIDE DEF n, e
  <2>3. Outcomes(k, e) \in {Recording(k, e), VideoPicTaking(k, e)}
    BY <1>4 DEF Outcomes
  <2>4. o \in Reply(n, e) \cup Invalid(k, e)
    BY <2>2, <2>3 DEF e
  <2>5. o.cam = n \/ o.cam = k
    BY <2>4, ReplyLeaves, InvalidLeaves
  <2> QED BY <1>4, <2>1, <2>5 DEF PPT
<1>5. CASE k.st = "PREVIEWING"
  <2> DEFINE shown == IF k.hint THEN Prepared([stopPreview(k) EXCEPT !.hint = FALSE], StartOrUnprepare)
                      ELSE {Did(k)}
             taken(p) == Move(takePicture([p EXCEPT !.delay = TRUE]), "PREVIEW_PIC_TAKING", "PREVIEWING")
             fromPreview(p) ==
                 UNION {IF r.ok /\ r.cam.retro THEN Silent(r.cam) ELSE Report({r}, e) : r \in taken(p)}
             again(n) == Move(Restart(stopPreview(n)), "PREVIEWING", "STOPPED")
             fromCapture(p) ==
                 UNION {IF r.ok THEN Reply(In(r.cam, "PIC_TAKING"), e)
                        ELSE UNION {Invalid(q.cam, e) : q \in again(r.cam)} : r \in takePicture(p)}
  <2>1. Outcomes(k, e) = Previewing(k, e) /\ Previewing(k, e) = PreviewingTakePicture(k, e)
    BY <1>5 DEF Outcomes, Previewing, Settings, Restarts, PreviewingRefuses
  <2>2. PreviewingTakePicture(k, e) =
            UNION {IF ZSL \/ r.cam.longshot THEN fromPreview(r.cam) ELSE fromCapture(r.cam) : r \in shown}
    BY DEF PreviewingTakePicture
  <2>3. ASSUME NEW p, Typed(p) PROVE \A r \in taken(p) : ~r.ok => r.cam.st # PPT
    <3> DEFINE d == [p EXCEPT !.delay = TRUE]
    <3>1. Typed(d)
      <4>1. "delay" \in Fields /\ TRUE \in Sorts["delay"]
        BY SortsAre DEF Fields
      <4> QED BY <2>3, <4>1, Put DEF Differs
    <3>2. ASSUME NEW r \in Move(takePicture(d), "PREVIEW_PIC_TAKING", "PREVIEWING"), ~r.ok
          PROVE  r.cam.st # PPT
      <4>1. PICK s \in takePicture(d) :
                r.ok = s.ok /\ r.cam = In(s.cam, IF s.ok THEN "PREVIEW_PIC_TAKING" ELSE "PREVIEWING")
        BY <3>1, <3>2, OutcomesAre, MoveOf
      <4>2. r.cam = In(s.cam, "PREVIEWING")
        BY <3>2, <4>1
      <4>3. Typed(s.cam)
        BY <3>1, <4>1, TakesPicture DEF Takes, Differs
      <4>4. In(s.cam, "PREVIEWING").st = "PREVIEWING"
        BY <4>3, InIs DEF States
      <4> QED BY <4>2, <4>4 DEF PPT
    <3> QED BY <3>2
  <2>4. ASSUME NEW p, Typed(p), o \in fromPreview(p) PROVE o.replies = <<>>
    <3> DEFINE S == taken(p)
    <3> HIDE DEF S
    <3>1. PICK r \in S : o \in IF r.ok /\ r.cam.retro THEN Silent(r.cam) ELSE Report({r}, e)
      BY <2>4 DEF S
    <3>2. ~r.ok => r.cam.st # PPT
      BY <2>3, <2>4 DEF S
    <3>3. o.cam = r.cam
      BY <3>1 DEF Silent, Report, Outcome
    <3> QED BY <3>1, <3>2, <3>3 DEF Silent, Outcome
  <2>5. ASSUME NEW p, Typed(p), o \in fromCapture(p) PROVE FALSE
    <3> DEFINE bad(n) == UNION {Invalid(q.cam, e) : q \in again(n)}
               S == takePicture(p)
    <3>0. \A r \in S : Typed(r.cam)
      BY <2>5, TakesPicture DEF Takes, Differs
    <3> HIDE DEF S, bad
    <3>1. PICK r \in S : o \in IF r.ok THEN Reply(In(r.cam, "PIC_TAKING"), e) ELSE bad(r.cam)
      BY <2>5 DEF S, bad
    <3>2. Typed(r.cam)
      BY <3>0
    <3>3. CASE o \in Reply(In(r.cam, "PIC_TAKING"), e)
      <4>1. In(r.cam, "PIC_TAKING").st = "PIC_TAKING"
        BY <3>2, InIs DEF States
      <4> QED BY <3>3, <4>1 DEF Reply, Outcome, PPT
    <3>4. CASE o \in bad(r.cam)
      <4> DEFINE s == stopPreview(r.cam)
      <4>1. Typed(s)
        BY <3>2, StopsPreview DEF Differs
      <4> HIDE DEF s
      <4>2. PICK q \in Move(Restart(s), "PREVIEWING", "STOPPED") : o \in Invalid(q.cam, e)
        BY <3>4 DEF bad, s
      <4>3. PICK t \in Restart(s) : q.cam = In(t.cam, IF t.ok THEN "PREVIEWING" ELSE "STOPPED")
        BY <4>1, OutcomesAre, MoveOf
      <4>4. Typed(t.cam)
        BY <4>1, RestartsAre DEF RestartedOrNot, Restarted, Differs
      <4>5. \A st \in {"PREVIEWING", "STOPPED"} : In(t.cam, st).st = st
        BY <4>4, InIs DEF States
      <4>6. q.cam.st \in {"PREVIEWING", "STOPPED"}
        BY <4>3, <4>5
      <4> QED BY <4>2, <4>6 DEF Invalid, Outcome, PPT
    <3> QED BY <3>1, <3>3, <3>4
  <2>6. \A r \in shown : Typed(r.cam)
    <3> DEFINE s == stopPreview(k)
               h == [s EXCEPT !.hint = FALSE]
    <3>1. Typed(s)
      BY StopsPreview DEF Differs
    <3> HIDE DEF s
    <3>2. Typed(h)
      <4>1. "hint" \in Fields /\ FALSE \in Sorts["hint"]
        BY SortsAre DEF Fields
      <4> QED BY <3>1, <4>1, Put DEF Differs
    <3> HIDE DEF h
    <3>3. \A r \in Restart(h) : Typed(r.cam)
      BY <3>2, RestartsAre DEF RestartedOrNot, Restarted, Differs
    <3>4. k.hint => shown = Restart(h)
      BY DEF Restart, h, s
    <3> QED BY <3>3, <3>4 DEF Did
  <2> HIDE DEF fromPreview, fromCapture, shown
  <2>7. PICK r \in shown : o \in IF ZSL \/ r.cam.longshot THEN fromPreview(r.cam) ELSE fromCapture(r.cam)
    BY <2>1, <2>2
  <2> QED BY <2>4, <2>5, <2>6, <2>7
<1> QED BY <1>1, <1>2, <1>3, <1>4, <1>5 DEF States, PPT

\* A restart with two halves of two cameras' long shot does not start it here.
LEMMA LongshotAnswers ==
    ASSUME NEW k, Fits(k), k.st = "PREVIEWING", Due(k, "LONGSHOT_ON"), Runs(k),
           NEW o \in PreviewingLongshotOn(k, "LONGSHOT_ON")
    PROVE  o.replies = Answer("LONGSHOT_ON", TRUE) \/ Runs(o.cam) \/ ~Gap(o.cam, "LONGSHOT_ON")
<1> DEFINE e == "LONGSHOT_ON"
           c(r) == [r.cam EXCEPT !.again = r.again, !.later = r.again /\ DualCamera]
           Out(r) == IF ~r.again THEN Report({[r EXCEPT !.cam = c(r)]}, e)
                     ELSE IF c(r).later THEN Reply(stopPreview(c(r)), e)
                     ELSE Report(ApplyAndRestart(stopPreview(c(r))), e)
           S == LongshotOn(k)
<1>1. PreviewingLongshotOn(k, e) = UNION {Out(r) : r \in S}
  BY DEF PreviewingLongshotOn
<1> HIDE DEF Out, S
<1>2. PICK r \in S : o \in Out(r)
  BY <1>1
<1> USE DEF Out, S
<1> DEFINE m == r.cam
           d == c(r)
           s == stopPreview(d)
           l == r.again /\ DualCamera
<1>3. /\ Typed(m) /\ m.st = k.st /\ m.preview = k.preview /\ r.again \in BOOLEAN
      /\ {"cam", "ok", "again"} \subseteq DOMAIN r
  BY <1>2, LongshotOnFits DEF Fitting, Fits, Differs, Fields
<1>4. Typed(d) /\ d.st = m.st /\ d.preview = m.preview /\ d.later = l
  <2>1. /\ DOMAIN d = Fields /\ d.again = r.again /\ d.later = l
        /\ \A f \in Fields \ {"again", "later"} : d[f] = m[f]
    BY <1>3 DEF Typed, Fields
  <2>2. r.again \in Sorts["again"] /\ l \in Sorts["later"]
    BY <1>3, SortsAre
  <2> HIDE DEF d, l
  <2>3. \A f \in Fields : d[f] \in Sorts[f]
    BY <1>3, <2>1, <2>2 DEF Typed
  <2> QED BY <2>1, <2>3 DEF Typed, Fields
<1>5. CASE ~r.again
  <2> DEFINE t == [r EXCEPT !.cam = d]
  <2>1. t.cam = d
    BY <1>3
  <2>2. o \in Report({t}, e)
    BY <1>2, <1>5
  <2> HIDE DEF t, d
  <2>3. o.cam = d
    BY <2>1, <2>2, ReportsLeave
  <2>4. Runs(d)
    BY <1>3, <1>4 DEF Runs, isPreviewRunning
  <2> QED BY <2>3, <2>4
<1>6. CASE r.again /\ l
  <2> HIDE DEF c
  <2>1. o \in Reply(s, e)
    BY <1>2, <1>4, <1>6
  <2> QED BY <2>1, ReplyLeaves
<1>7. CASE r.again /\ ~l
  <2> HIDE DEF c
  <2>1. o \in Report(ApplyAndRestart(s), e)
    BY <1>2, <1>4, <1>7
  <2>2. Typed(s) /\ s.later = d.later
    <3> HIDE DEF d
    <3>1. Differs(d, s, Three)
      BY <1>4, StopsPreview
    <3> QED BY <3>1 DEF Differs, Fields, Three
  <2> HIDE DEF s
  <2>3. \A q \in ApplyAndRestart(s) : q.cam.later = s.later
    <3>1. ASSUME NEW q \in ApplyAndRestart(s) PROVE q.cam.later = s.later
      <4>1. Differs(s, q.cam, Around)
        BY <2>2, <3>1, RestartsAre DEF RestartedOrNot, Restarted
      <4> QED BY <4>1 DEF Differs, Fields, Around, Three, Messaging
    <3> QED BY <3>1
  <2>4. o.cam.later = s.later
    BY <2>1, <2>3, ReportsLeave
  <2> QED BY <1>4, <1>7, <2>2, <2>4 DEF Gap
<1> QED BY <1>3, <1>5, <1>6, <1>7

\* A request that stops the preview for a while says so.
LEMMA OpensAnswer ==
    ASSUME NEW k, Fits(k), NEW e \in Openers, Due(k, e), Runs(k),
           NEW o \in Outcomes(k, e)
    PROVE  o.replies = Answer(e, TRUE) \/ Runs(o.cam) \/ ~Gap(o.cam, e)
<1>0. Typed(k) /\ k.st \in States
  BY SortsAre DEF Fits, Typed, Fields
<1>1. o.cam = k => Runs(o.cam)
  OBVIOUS
<1>2. CASE e = "SET_PARAMS_STOP"
  <2> DEFINE s == stopPreview(k)
             u == unpreparePreview(k)
             x == "SET_PARAMS_STOP"
  <2>0. /\ Stopped(k, x) = Reply(k, x) /\ Ready(k, x) = Reply(unpreparePreview(k), x)
    BY DEF Stopped, StoppedSettings, Ready, ReadySettings, Settings, Restarts, StoppedRefuses,
           ReadyRefuses
  <2>1. /\ Previewing(k, x) = Reply(stopPreview(k), x)
        /\ PrepareSnapshot(k, x) = Invalid(k, x)
    BY DEF Previewing, PreviewingSettings, PrepareSnapshot, Settings, Restarts, PreviewingRefuses
  <2>2. /\ PicTaking(k, x) = Reply(k, x) /\ PreviewPicTaking(k, x) = Reply(stopPreview(k), x)
    BY DEF PicTaking, PicTakingSettings, PreviewPicTaking, PreviewPicTakingSettings, Settings,
           Reports, Restarts, PreviewPicTakingRefuses
  <2>3. /\ Recording(k, x) = Invalid(k, x) /\ VideoPicTaking(k, x) = Invalid(k, x)
    BY DEF Recording, RecordingSettings, VideoPicTaking, VideoPicTakingSettings, Settings,
           RecordingIgnores, RecordingRefuses, Restarts, VideoPicTakingRefuses
  <2>4. e = x
    BY <1>2
  <2> HIDE DEF x, s, u
  <2>5. Outcomes(k, x) \in {Reply(k, x), Reply(s, x), Reply(u, x), Invalid(k, x)}
    BY <1>0, <1>2, <2>0, <2>1, <2>2, <2>3 DEF Outcomes, States, PPT, s, u
  <2>6. o \in Outcomes(k, x)
    BY <2>4
  <2>7. o \in Invalid(k, x) => Runs(o.cam)
    BY <1>1, InvalidLeaves
  <2>8. ASSUME NEW n, o \in Reply(n, x) PROVE o.replies = Answer(x, TRUE)
    BY <2>8, ReplyLeaves
  <2> QED BY <2>4, <2>5, <2>6, <2>7, <2>8
<1>3. CASE e = "RESTART_STOP_PREVIEW"
  <2> DEFINE s == stopPreview(k)
             x == "RESTART_STOP_PREVIEW"
  <2>0. /\ Stopped(k, x) = Invalid(k, x) /\ Ready(k, x) = Invalid(k, x)
    BY DEF Stopped, Ready, Settings, Restarts, StoppedRefuses, ReadyRefuses
  <2>1. /\ Previewing(k, x) = Reply(stopPreview(k), x)
        /\ PrepareSnapshot(k, x) = Invalid(k, x)
    BY DEF Previewing, RestartPreview, PrepareSnapshot, Settings, Restarts, PreviewingRefuses
  <2>2. PicTaking(k, x) = Invalid(k, x)
    BY DEF PicTaking, Settings, Reports
  <2>3. PreviewPicTaking(k, x) = Reply(stopPreview(k), x)
    BY DEF PreviewPicTaking, RestartPreview, Settings, Reports, Restarts, PreviewPicTakingRefuses
  <2>4. /\ Recording(k, x) = Reply(k, x) /\ VideoPicTaking(k, x) = Invalid(k, x)
    BY DEF Recording, VideoPicTaking, Settings, RecordingIgnores, RecordingRefuses, Restarts,
           VideoPicTakingRefuses
  <2>5. e = x
    BY <1>3
  <2> HIDE DEF x, s
  <2>6. Outcomes(k, x) \in {Reply(k, x), Reply(s, x), Invalid(k, x)}
    BY <1>0, <1>3, <2>0, <2>1, <2>2, <2>3, <2>4 DEF Outcomes, States, PPT, s
  <2>7. o \in Outcomes(k, x)
    BY <2>5
  <2>8. o \in Invalid(k, x) => Runs(o.cam)
    BY <1>1, InvalidLeaves
  <2>9. ASSUME NEW n, o \in Reply(n, x) PROVE o.replies = Answer(x, TRUE)
    BY <2>9, ReplyLeaves
  <2> QED BY <2>5, <2>6, <2>7, <2>8, <2>9
<1>4. CASE e = "LONGSHOT_ON"
  <2> DEFINE x == "LONGSHOT_ON"
  <2>1. /\ Stopped(k, x) = Command(k, x) /\ Ready(k, x) = Command(k, x)
    BY DEF Stopped, Ready, Settings, Restarts, StoppedRefuses, ReadyRefuses
  <2>2. /\ Previewing(k, x) = PreviewingLongshotOn(k, x)
        /\ PrepareSnapshot(k, x) = Invalid(k, x)
    BY DEF Previewing, PrepareSnapshot, Settings, Restarts, PreviewingRefuses
  <2>3. PicTaking(k, x) = Command(k, x) /\ PreviewPicTaking(k, x) = Command(k, x)
    BY DEF PicTaking, PreviewPicTaking, Settings, Reports, Restarts, PreviewPicTakingRefuses
  <2>4. Recording(k, x) = Command(k, x) /\ VideoPicTaking(k, x) = Command(k, x)
    BY DEF Recording, VideoPicTaking, Settings, RecordingIgnores, RecordingRefuses, Restarts,
           VideoPicTakingRefuses
  <2>5. Command(k, x) = Report(LongshotOn(k), x)
    BY DEF Command
  <2>6. ASSUME o \in Report(LongshotOn(k), x) PROVE Runs(o.cam)
    <3> DEFINE S == LongshotOn(k)
    <3>1. \A r \in S : r.cam.st = k.st /\ r.cam.preview = k.preview
      BY <1>4, LongshotOnFits DEF Differs, Fields
    <3> HIDE DEF S
    <3>2. o.cam.st = k.st /\ o.cam.preview = k.preview
      BY <2>6, <3>1, ReportsLeave DEF S
    <3> QED BY <3>2 DEF Runs, isPreviewRunning
  <2>7. o \in Outcomes(k, x) /\ e = x
    BY <1>4
  <2> HIDE DEF x
  <2>8. \/ o \in Report(LongshotOn(k), x) \/ o \in Invalid(k, x)
        \/ k.st = "PREVIEWING" /\ o \in PreviewingLongshotOn(k, x)
    BY <1>0, <2>1, <2>2, <2>3, <2>4, <2>5, <2>7 DEF Outcomes, States, PPT
  <2> QED BY <1>1, <1>4, <2>6, <2>8, InvalidLeaves, LongshotAnswers DEF x
<1> QED BY <1>2, <1>3, <1>4 DEF Openers

\* What is committed between the halves is accepted.
LEMMA CommitsAnswer ==
    ASSUME NEW k, Fits(k), Healthy, Gap(k, "SET_PARAMS_STOP"),
           NEW o \in Outcomes(k, "SET_PARAMS_COMMIT")
    PROVE  o.replies = Answer("SET_PARAMS_COMMIT", TRUE)
<1> DEFINE e == "SET_PARAMS_COMMIT"
<1>1. k.st \in {"READY", "PREVIEWING", PPT} /\ ~Refuses(k)
  BY HealthyIs DEF Gap
<1>2. /\ Ready(k, e) = Commit(k, e) /\ Previewing(k, e) = Commit(k, e)
      /\ PreviewPicTaking(k, e) = Commit(k, e)
  BY DEF Ready, ReadySettings, Previewing, PreviewingSettings, PreviewPicTaking,
         PreviewPicTakingSettings, Settings, Reports, Restarts, StoppedRefuses, ReadyRefuses,
         PreviewingRefuses, PreviewPicTakingRefuses
<1> HIDE DEF e
<1>3. o \in Commit(k, e)
  BY <1>1, <1>2 DEF Outcomes, PPT, e
<1>4. Try(k, k) = {Did(k)}
  BY <1>1 DEF Try, Attempt, Refuses
<1>5. o \in Report({Did(k)}, e)
  BY <1>3, <1>4 DEF Commit
<1>6. o.replies = Answer(e, Did(k).ok)
  BY <1>5, ReportsLeave
<1> QED BY <1>6 DEF Did, e
--------------------------------------------------------------------------------
(* What the invariant says of the states.                                  *)

LEMMA RequestsAre ==
    /\ {"SET_PARAMS_STOP", "SET_PARAMS_COMMIT", "SET_PARAMS_RESTART", "RESTART_STOP_PREVIEW",
        "RESTART_START_PREVIEW", "LONGSHOT_ON", "SEND_COMMAND_RESTART"} \subseteq Orders \ Loose
    /\ {"none", "taken", "clear", "DAEMON_DIED"} \cap Requests = {}
    /\ Reports \cap Awaited("none") = {}
    /\ Orders \subseteq Requests
BY DEF Orders, Requests, Settings, StoppedRefuses, Restarts, Reports, Loose, Awaited

\* Nobody waits for a report, or for a result without a call.
LEMMA AwaitedAre ==
    ASSUME NEW api \in PublicCalls \cup {"take_retro", "internal"}, NEW e \in Awaited(api)
    PROVE  e # "none" /\ e \notin Reports
<1>1. CASE api \in {"start_recording", "STOP_RECORDING", "take_picture", "take_retro",
                    "set_parameters", "LONGSHOT_ON", "internal"}
  BY <1>1 DEF Awaited, Restarts, Reports
<1>2. CASE api \notin {"start_recording", "STOP_RECORDING", "take_picture", "take_retro",
                       "set_parameters", "LONGSHOT_ON", "internal"}
  <2>1. api # "none" /\ api \notin Reports
    BY <1>2 DEF PublicCalls, Reports
  <2>2. e = api
    BY <1>2, <2>1 DEF Awaited
  <2> QED BY <2>1, <2>2
<1> QED BY <1>1, <1>2

LEMMA CallingsAre ==
    ASSUME Callings, NEW c \in Callers
    PROVE  /\ call[c] \in Waits
           /\ (call[c].api = "none") <=> (call[c].evt = "none")
           /\ call[c].evt \notin Reports
<1>1. call[c] \in Waits /\ call[c].evt \in Awaited(call[c].api)
  BY DEF Callings
<1>2. call[c].api \in PublicCalls \cup {"take_retro", "internal", "none"}
  BY <1>1 DEF Waits
<1>3. CASE call[c].api = "none"
  BY <1>1, <1>3 DEF Awaited, Reports
<1>4. CASE call[c].api # "none"
  BY <1>1, <1>2, <1>4, AwaitedAre
<1> QED BY <1>1, <1>3, <1>4

LEMMA TypesFit ==
    ASSUME Common
    PROVE  TypeOK
<1>1. /\ DOMAIN cam = Fields /\ \A f \in Fields : cam[f] \in Sorts[f]
      /\ cam.shot \in {0, cam.shots}
  BY DEF Common, Fits, Typed
<1>2. /\ cam.st \in States /\ {cam.preview, cam.video, cam.snapshot} \subseteq Channel
      /\ cam.capture \in {"none", "started", "stopped"} /\ cam.shots \in Nat
      /\ cam.live \in {"none", "take", "taking", "cancel", "cancelling"}
  BY <1>1, SortsAre DEF Fields
<1>3. {cam.hint, cam.longshot, cam.retro, cam.window, cam.needRestart, cam.again, cam.later,
       cam.prep, cam.prepping, cam.dead, cam.restart, cam.hintSet, cam.delay, cam.held,
       cam.on} \subseteq BOOLEAN
  BY <1>1, SortsAre DEF Fields
<1>4. \A c \in Callers : (call[c].api = "none") <=> (call[c].evt = "none")
  BY CallingsAre DEF Common
<1> QED BY <1>1, <1>2, <1>3, <1>4 DEF TypeOK, Common

LEMMA LapsesOver ==
    ASSUME Common, Once, Lapses, App = Idle
    PROVE  Runs(cam)
<1>1. App.evt = "none"
  BY DEF Idle
<1>2. \A x \in Orders \ Loose : ~Queued(x) /\ ~Answered(x)
  <2>1. "none" \notin Orders
    BY RequestsAre
  <2> QED BY <1>1, <2>1 DEF Once, Kept, Whole
<1>3. \A x \in Openers : x \in Orders \ Loose /\ Closes(x) \in Orders \ Loose
  BY RequestsAre DEF Openers, Closes
<1>4. \A x \in Orders \ Loose : ~Ok(x)
  BY <1>2 DEF Ok, Answered
<1>5. ~Stops
  BY <1>1, <1>2, <1>4, RequestsAre DEF Stops
<1>6. \A x \in Openers : ~Under(x)
  BY <1>2, <1>3, <1>4, <1>5 DEF Under
<1> QED BY <1>6 DEF Lapses

LEMMA StatesFit ==
    ASSUME FitInv
    PROVE  ChannelsFitState
<1>1. Common /\ Fits(cam)
  BY DEF FitInv, Common
<1>2. TypeOK
  BY <1>1, TypesFit
<1>3. RunningIsRunning
  <2>1. isRecording(cam) <=> cam.video = "started"
    BY <1>1 DEF Fits
  <2>2. Healthy /\ Orderly /\ call["app"] = Idle => Runs(cam)
    BY <1>1, LapsesOver DEF FitInv, Orderly, App
  <2> QED BY <2>1, <2>2 DEF RunningIsRunning, Runs
<1>4. StoppedIsStopped
  BY <1>1 DEF StoppedIsStopped, Fits, InOrder
<1> QED BY <1>2, <1>3, <1>4 DEF ChannelsFitState
--------------------------------------------------------------------------------
(* The queues and the results.                                             *)

LEMMA TailIsFewer ==
    ASSUME NEW S, NEW q \in Seq(S), q # <<>>
    PROVE  /\ Fewer(q, Tail(q)) /\ \E i \in DOMAIN q : Head(q) = q[i]
           /\ Tail(q) \in Seq(S) /\ Head(q) \in S
           /\ At(q, Head(q).evt) # {}
           /\ OneOf(At(q, Head(q).evt)) => At(Tail(q), Head(q).evt) = {}
           /\ \A x : x # Head(q).evt /\ At(q, x) # {} => At(Tail(q), x) # {}
<1>1. \A x : NoMore(q, Tail(q), x)
  BY Tails
<1>2. /\ Len(q) \in Nat /\ Len(q) > 0 /\ DOMAIN q = 1..Len(q) /\ DOMAIN Tail(q) = 1..(Len(q) - 1)
      /\ \A i \in 1..(Len(q) - 1) : Tail(q)[i] = q[i + 1]
      /\ Head(q) = q[1]
  OBVIOUS
<1>3. \A j \in DOMAIN Tail(q) : j + 1 \in DOMAIN q /\ Tail(q)[j] = q[j + 1]
  BY <1>2
<1>4. Fewer(q, Tail(q))
  BY <1>1, <1>3 DEF Fewer
<1>5. \E i \in DOMAIN q : Head(q) = q[i]
  BY <1>2
<1>6. Tail(q) \in Seq(S) /\ Head(q) \in S /\ At(q, Head(q).evt) # {}
  BY Tails
<1>7. OneOf(At(q, Head(q).evt)) => At(Tail(q), Head(q).evt) = {}
  BY Tails
<1>8. \A x : x # Head(q).evt /\ At(q, x) # {} => At(Tail(q), x) # {}
  BY Tails
<1> QED BY <1>4, <1>5, <1>6, <1>7, <1>8

\* The request the state machine takes, and what is left.
Taken(e) ==
    /\ api_queue' \in Queue(Orders) /\ evt_queue' \in Queue(EventKinds)
    /\ Fewer(api_queue, api_queue') /\ \A x \in EventKinds \ {"SNAPSHOT_DONE"} :
                                           NoMore(evt_queue, evt_queue', x)
    /\ e \in Requests \cup {"DAEMON_DIED"}
    /\ e \notin EventKinds => /\ Queued(e)
                              /\ OneOf(At(api_queue, e)) => At(api_queue', e) = {}
                              /\ \E i \in DOMAIN api_queue : NextRequest = api_queue[i]
    /\ e \notin Orders => /\ At(evt_queue, e) # {}
                          /\ OneOf(At(evt_queue, e)) => At(evt_queue', e) = {}
    /\ \A x : x # e => /\ Queued(x) => At(api_queue', x) # {}
                       /\ At(evt_queue, x) # {} => At(evt_queue', x) # {}

LEMMA EventsAre ==
    /\ Orders \subseteq Requests /\ Events \subseteq Requests /\ "SNAPSHOT_DONE" \in Events
    /\ "DAEMON_DIED" \notin Requests /\ Orders \cap EventKinds = {"SNAPSHOT_DONE"}
    /\ EventKinds = {"PREP_SNAPSHOT_DONE", "READY_FOR_SNAPSHOT", "SNAPSHOT_DONE", "DAEMON_DIED"}
    /\ Events \cap Orders = {"SNAPSHOT_DONE"}
<1>1. /\ Orders \subseteq Requests /\ Events \subseteq Requests /\ "SNAPSHOT_DONE" \in Events
      /\ EventKinds = {"PREP_SNAPSHOT_DONE", "READY_FOR_SNAPSHOT", "SNAPSHOT_DONE", "DAEMON_DIED"}
  BY DEF Orders, Events, EventKinds, Requests, Reports
<1>2. "DAEMON_DIED" \notin Requests
  BY RequestsAre
<1>3. "SNAPSHOT_DONE" \in Orders
  BY DEF Orders, Requests, Reports
<1>4. Orders \cap EventKinds = {"SNAPSHOT_DONE"} /\ Events \cap Orders = {"SNAPSHOT_DONE"}
  BY <1>1, <1>2, <1>3 DEF Orders, Events
<1> QED BY <1>1, <1>2, <1>4

LEMMA HandleTakes ==
    ASSUME api_queue \in Queue(Orders), evt_queue \in Queue(EventKinds), cam.shot \in Nat,
           Pending, NEW post,
           api_queue' = IF api_queue = <<>> THEN api_queue ELSE Tail(api_queue),
           evt_queue' = (IF api_queue = <<>> THEN Tail(evt_queue) ELSE evt_queue)
                         \o (IF post THEN <<Msg("SNAPSHOT_DONE", "none", cam.shot)>> ELSE <<>>)
    PROVE  Taken(NextRequest.evt)
<1> DEFINE e == NextRequest.evt
           M(Q) == [evt : Q, by : Callers \cup {"none"}, shot : Nat]
           kept == IF api_queue = <<>> THEN Tail(evt_queue) ELSE evt_queue
           m == Msg("SNAPSHOT_DONE", "none", cam.shot)
<1>1. api_queue \in Seq(M(Orders)) /\ evt_queue \in Seq(M(EventKinds))
  BY DEF Queue
<1>2. \A Q : \A r \in M(Q) : r.evt \in Q
  OBVIOUS
<1>3. evt_queue' = kept \o (IF post THEN <<m>> ELSE <<>>)
  OBVIOUS
<1>4. m.evt = "SNAPSHOT_DONE" /\ m \in M(EventKinds)
  BY MsgIs, EventsAre DEF EventKinds, M, Msg
<1> HIDE DEF M, kept, m, e
<1>5. /\ api_queue' \in Seq(M(Orders)) /\ kept \in Seq(M(EventKinds))
      /\ Fewer(api_queue, api_queue') /\ \A x : NoMore(evt_queue, kept, x)
      /\ e \in Orders \cup EventKinds
      /\ e \notin EventKinds => /\ Queued(e)
                                /\ OneOf(At(api_queue, e)) => At(api_queue', e) = {}
                                /\ \E i \in DOMAIN api_queue : NextRequest = api_queue[i]
      /\ e \notin Orders => /\ At(evt_queue, e) # {}
                            /\ OneOf(At(evt_queue, e)) => At(kept, e) = {}
      /\ \A x : x # e => /\ Queued(x) => At(api_queue', x) # {}
                         /\ At(evt_queue, x) # {} => At(kept, x) # {}
  <2>1. CASE api_queue # <<>>
    <3>1. NextRequest = Head(api_queue) /\ e = Head(api_queue).evt /\ api_queue' = Tail(api_queue)
          /\ kept = evt_queue
      BY <2>1 DEF NextRequest, kept, e
    <3>2. /\ Fewer(api_queue, Tail(api_queue)) /\ \E i \in DOMAIN api_queue : Head(api_queue) = api_queue[i]
          /\ Tail(api_queue) \in Seq(M(Orders)) /\ Head(api_queue) \in M(Orders)
          /\ At(api_queue, Head(api_queue).evt) # {}
          /\ OneOf(At(api_queue, Head(api_queue).evt)) => At(Tail(api_queue), Head(api_queue).evt) = {}
          /\ \A x : x # Head(api_queue).evt /\ At(api_queue, x) # {} => At(Tail(api_queue), x) # {}
      BY <1>1, <2>1, TailIsFewer
    <3>3. e \in Orders
      BY <1>2, <3>1, <3>2
    <3>4. \A x : NoMore(evt_queue, kept, x)
      BY <3>1, NoMoreIt
    <3> QED BY <1>1, <3>1, <3>2, <3>3, <3>4 DEF Queued
  <2>2. CASE api_queue = <<>>
    <3>1. e = Head(evt_queue).evt /\ api_queue' = api_queue /\ kept = Tail(evt_queue)
          /\ evt_queue # <<>>
      BY <2>2 DEF NextRequest, Pending, kept, e
    <3>2. /\ Fewer(evt_queue, Tail(evt_queue))
          /\ Tail(evt_queue) \in Seq(M(EventKinds)) /\ Head(evt_queue) \in M(EventKinds)
          /\ At(evt_queue, Head(evt_queue).evt) # {}
          /\ OneOf(At(evt_queue, Head(evt_queue).evt)) => At(Tail(evt_queue), Head(evt_queue).evt) = {}
          /\ \A x : x # Head(evt_queue).evt /\ At(evt_queue, x) # {} => At(Tail(evt_queue), x) # {}
      BY <1>1, <3>1, TailIsFewer
    <3>3. e \in EventKinds
      BY <1>2, <3>1, <3>2
    <3>4. Fewer(api_queue, api_queue')
      BY <3>1, NoMoreIt DEF Fewer
    <3> QED BY <1>1, <3>1, <3>2, <3>3, <3>4 DEF Queued, Fewer
  <2> QED BY <2>1, <2>2
<1>6. evt_queue' = kept \/ evt_queue' = Append(kept, m)
  <2>1. kept \o <<>> = kept
    BY <1>5, ConcatEmptySeq
  <2>2. kept \o <<m>> = Append(kept, m)
    BY <1>4, <1>5, AppendIsConcat
  <2> QED BY <1>3, <2>1, <2>2
<1>7. /\ Append(kept, m) \in Seq(M(EventKinds))
      /\ \A x : "SNAPSHOT_DONE" # x => NoMore(kept, Append(kept, m), x)
      /\ \A x : At(kept, x) # {} => At(Append(kept, m), x) # {}
  <2>1. Append(kept, m) \in Seq(M(EventKinds))
    BY <1>4, <1>5, AppendProperties
  <2>2. \A x : "SNAPSHOT_DONE" # x => NoMore(kept, Append(kept, m), x)
    BY <1>4, <1>5, Appends
  <2>3. \A x : At(kept, x) # {} => At(Append(kept, m), x) # {}
    BY <1>5, Appends
  <2> QED BY <2>1, <2>2, <2>3
<1>8. /\ evt_queue' \in Seq(M(EventKinds))
      /\ \A x : "SNAPSHOT_DONE" # x => NoMore(kept, evt_queue', x)
      /\ \A x : At(kept, x) # {} => At(evt_queue', x) # {}
  BY <1>5, <1>6, <1>7, NoMoreIt
<1>9. api_queue' \in Queue(Orders) /\ evt_queue' \in Queue(EventKinds)
  BY <1>5, <1>8 DEF Queue, M
<1>10. \A x \in EventKinds \ {"SNAPSHOT_DONE"} : NoMore(evt_queue, evt_queue', x)
  BY <1>5, <1>8 DEF NoMore
<1>11. e \in Requests \cup {"DAEMON_DIED"}
  BY <1>5, EventsAre DEF EventKinds
<1>12. e \notin Orders => /\ At(evt_queue, e) # {}
                          /\ OneOf(At(evt_queue, e)) => At(evt_queue', e) = {}
  <2>1. e \notin Orders => e # "SNAPSHOT_DONE"
    BY EventsAre
  <2> QED BY <1>5, <1>8, <2>1 DEF NoMore
<1>13. \A x : x # e => /\ Queued(x) => At(api_queue', x) # {}
                       /\ At(evt_queue, x) # {} => At(evt_queue', x) # {}
  BY <1>5, <1>8
<1>14. Taken(e)
  BY <1>5, <1>9, <1>10, <1>11, <1>12, <1>13 DEF Taken
<1> QED BY <1>14 DEF e

LEMMA PostedAre ==
    ASSUME NEW S, NEW q \in Seq(S), NEW R, NEW replies \in Seq(R), NEW waiting
    PROVE  LET n == q \o Posted(replies, waiting)
           IN  /\ \E T : n \in Seq(T)
               /\ DOMAIN q \subseteq DOMAIN n /\ \A i \in DOMAIN q : n[i] = q[i]
               /\ \A i \in DOMAIN n : i \in DOMAIN q
                                      \/ \E j \in DOMAIN replies : n[i] = Signal(replies[j], waiting)
               /\ \A j \in DOMAIN replies : \E i \in DOMAIN n : n[i] = Signal(replies[j], waiting)
               /\ Len(n) \in Nat /\ Len(n) >= Len(q)
<1> DEFINE p == Posted(replies, waiting)
           sig(j) == Signal(replies[j], waiting)
           T == S \cup {sig(j) : j \in DOMAIN replies}
           n == q \o p
<1>1. p = [j \in DOMAIN replies |-> sig(j)]
  BY DEF Posted, Signal
<1>2. Len(replies) \in Nat /\ DOMAIN replies = 1..Len(replies)
  OBVIOUS
<1>3. \A j \in DOMAIN replies : sig(j) \in T
  OBVIOUS
<1>4. S \subseteq T
  OBVIOUS
<1> HIDE DEF sig, T
<1>5. p \in [1..Len(replies) -> T]
  BY <1>1, <1>2, <1>3
<1>6. p \in Seq(T) /\ Len(p) = Len(replies) /\ \A j \in 1..Len(replies) : p[j] = sig(j)
  <2>1. p \in Seq(T)
    BY <1>2, <1>5, SeqDef
  <2>2. DOMAIN p = 1..Len(replies) /\ \A j \in 1..Len(replies) : p[j] = sig(j)
    BY <1>1, <1>2
  <2> HIDE DEF p
  <2>3. Len(p) = Len(replies)
    BY <1>2, <2>1, <2>2, LenProperties
  <2> QED BY <2>1, <2>2, <2>3
<1> HIDE DEF p
<1>7. q \in Seq(T)
  BY <1>4, SeqMonotonic
<1>8. /\ n \in Seq(T) /\ Len(n) = Len(q) + Len(p)
      /\ \A j \in 1..(Len(q) + Len(p)) : n[j] = IF j <= Len(q) THEN q[j] ELSE p[j - Len(q)]
  BY <1>6, <1>7, ConcatProperties
<1>9. Len(q) \in Nat /\ DOMAIN q = 1..Len(q)
  OBVIOUS
<1> HIDE DEF n
<1>10. DOMAIN n = 1..(Len(q) + Len(replies)) /\ Len(n) \in Nat /\ Len(n) >= Len(q)
  BY <1>2, <1>6, <1>8, <1>9
<1>11. DOMAIN q \subseteq DOMAIN n /\ \A i \in DOMAIN q : n[i] = q[i]
  BY <1>2, <1>6, <1>8, <1>9, <1>10
<1>12. \A i \in DOMAIN n : i \in DOMAIN q \/ \E j \in DOMAIN replies : n[i] = sig(j)
  <2>1. ASSUME NEW i \in DOMAIN n, i \notin DOMAIN q
        PROVE  i - Len(q) \in 1..Len(replies) /\ n[i] = p[i - Len(q)]
    BY <1>2, <1>6, <1>8, <1>9, <1>10, <2>1
  <2> QED BY <1>2, <1>6, <2>1
<1>13. \A j \in DOMAIN replies : \E i \in DOMAIN n : n[i] = sig(j)
  <2>1. ASSUME NEW j \in DOMAIN replies
        PROVE  Len(q) + j \in DOMAIN n /\ n[Len(q) + j] = p[j]
    <3>1. Len(q) + j \in 1..(Len(q) + Len(p)) /\ ~(Len(q) + j <= Len(q)) /\ (Len(q) + j) - Len(q) = j
      BY <1>2, <1>6, <1>9
    <3> QED BY <1>6, <1>8, <1>10, <3>1
  <2> QED BY <1>2, <1>6, <2>1
<1> QED BY <1>8, <1>10, <1>11, <1>12, <1>13 DEF sig, n, p

LEMMA GrownAre ==
    ASSUME NEW q, NEW n, NEW Q, NEW waiting, Grown(q, n, Q, waiting)
    PROVE  /\ \A y : y \notin Q => At(n, y) = At(q, y)
           /\ \A y : At(q, y) \subseteq At(n, y)
BY DEF Grown, At

LEMMA AnswerGrows ==
    ASSUME NEW S, NEW q \in Seq(S), NEW x, NEW replies, Single(replies, x), NEW waiting,
           NEW n, n = q \o Posted(replies, waiting)
    PROVE  Replied(q, n, x, replies, waiting)
<1>1. replies \in Seq({replies[1]})
  <2>1. CASE replies = <<>>
    BY <2>1
  <2>2. CASE replies # <<>>
    <3>1. PICK r : r = replies[1]
      OBVIOUS
    <3>2. replies = <<r>>
      BY <2>2, <3>1 DEF Single
    <3>3. <<r>> \in Seq({r})
      OBVIOUS
    <3> QED BY <3>1, <3>2, <3>3
  <2> QED BY <2>1, <2>2
<1>2. /\ \E T : n \in Seq(T)
      /\ DOMAIN q \subseteq DOMAIN n /\ \A i \in DOMAIN q : n[i] = q[i]
      /\ \A i \in DOMAIN n : i \in DOMAIN q
                             \/ \E j \in DOMAIN replies : n[i] = Signal(replies[j], waiting)
      /\ \A j \in DOMAIN replies : \E i \in DOMAIN n : n[i] = Signal(replies[j], waiting)
      /\ Len(n) \in Nat /\ Len(n) >= Len(q)
  BY <1>1, PostedAre
<1>3. \A j \in DOMAIN replies : j = 1 /\ replies[j].evt = x
  BY DEF Single
<1>4. \A j : Signal(replies[j], waiting).evt = replies[j].evt
             /\ Signal(replies[j], waiting).ok = replies[j].ok
             /\ Signal(replies[j], waiting).to
                    = {c \in Callers : waiting[c].seen /\ waiting[c].evt = replies[j].evt}
  BY DEF Signal
<1>5. Grown(q, n, {x}, waiting)
  <2>1. ASSUME NEW i \in DOMAIN n \ DOMAIN q
        PROVE  /\ n[i].evt = x
               /\ n[i].to = {c \in Callers : waiting[c].seen /\ waiting[c].evt = n[i].evt}
    <3>1. PICK j \in DOMAIN replies : n[i] = Signal(replies[j], waiting)
      BY <1>2
    <3>2. /\ n[i].evt = replies[j].evt
          /\ n[i].to = {c \in Callers : waiting[c].seen /\ waiting[c].evt = replies[j].evt}
      BY <1>4, <3>1
    <3>3. replies[j].evt = x
      BY <1>3
    <3> QED BY <3>2, <3>3
  <2> QED BY <1>2, <2>1 DEF Grown
<1>6. At(q, x) = {} => OneOf(At(n, x)) /\ (replies = <<>> => n = q)
  BY AnswerIsPosted
<1>7. replies = <<>> => n = q
  <2>1. replies = <<>> => Posted(replies, waiting) = <<>>
    BY DEF Posted
  <2> QED BY <2>1, ConcatEmptySeq
<1>8. ASSUME replies = Answer(x, TRUE)
      PROVE  /\ \E i \in At(n, x) : n[i].ok
             /\ \A i \in At(n, x) \ At(q, x) : n[i].ok
  <2>1. 1 \in DOMAIN replies /\ replies[1].ok /\ replies[1].evt = x
    BY <1>8 DEF Answer, Result
  <2>2. Signal(replies[1], waiting).ok /\ Signal(replies[1], waiting).evt = x
    BY <1>4, <2>1
  <2>3. \E i \in DOMAIN n : n[i] = Signal(replies[1], waiting)
    BY <1>2, <2>1
  <2>4. ASSUME NEW i \in At(n, x) \ At(q, x) PROVE n[i].ok
    <3>1. i \in DOMAIN n /\ i \notin DOMAIN q
      BY <1>2, <2>4 DEF At
    <3>2. PICK j \in DOMAIN replies : n[i] = Signal(replies[j], waiting)
      BY <1>2, <3>1
    <3> QED BY <1>3, <2>2, <3>2
  <2> QED BY <2>2, <2>3, <2>4 DEF At
<1> QED BY <1>5, <1>6, <1>7, <1>8 DEF Replied

LEMMA DyingGrows ==
    ASSUME NEW S, NEW q \in Seq(S), NEW waiting, NEW replies,
           replies \in {<<>>, <<Result("PREPARE_SNAPSHOT", TRUE), Result("TAKE_PICTURE", TRUE)>>},
           NEW n, n = q \o Posted(replies, waiting)
    PROVE  Grown(q, n, {"PREPARE_SNAPSHOT", "TAKE_PICTURE"}, waiting)
<1>0. PICK a, b : a = Result("PREPARE_SNAPSHOT", TRUE) /\ b = Result("TAKE_PICTURE", TRUE)
  OBVIOUS
<1>1. replies \in Seq({a, b})
  <2>1. replies = <<>> \/ replies = <<a, b>>
    BY <1>0
  <2>2. <<a, b>> \in Seq({a, b}) /\ <<>> \in Seq({a, b})
    OBVIOUS
  <2> QED BY <2>1, <2>2
<1>2. /\ \E T : n \in Seq(T)
      /\ DOMAIN q \subseteq DOMAIN n /\ \A i \in DOMAIN q : n[i] = q[i]
      /\ \A i \in DOMAIN n : i \in DOMAIN q
                             \/ \E j \in DOMAIN replies : n[i] = Signal(replies[j], waiting)
      /\ Len(n) \in Nat /\ Len(n) >= Len(q)
  BY <1>1, PostedAre
<1>3. \A j \in DOMAIN replies : replies[j].evt \in {"PREPARE_SNAPSHOT", "TAKE_PICTURE"}
  BY DEF Result
<1>4. ASSUME NEW i \in DOMAIN n \ DOMAIN q
      PROVE  /\ n[i].evt \in {"PREPARE_SNAPSHOT", "TAKE_PICTURE"}
             /\ n[i].to = {c \in Callers : waiting[c].seen /\ waiting[c].evt = n[i].evt}
  <2>1. PICK j \in DOMAIN replies : n[i] = Signal(replies[j], waiting)
    BY <1>2
  <2> QED BY <1>3, <2>1 DEF Signal
<1> QED BY <1>2, <1>4 DEF Grown
--------------------------------------------------------------------------------
(* The steps, as the invariant sees them.                                  *)

LEMMA SameSetup ==
    ASSUME setup' = setup
    PROVE  /\ Fits(cam)' <=> Fits(cam')
           /\ InternalPics' = InternalPics /\ DualCamera' = DualCamera /\ ZSL' = ZSL
           /\ Retro' = Retro /\ Apis' = Apis /\ HwMayFail' = HwMayFail
           /\ Healthy' = Healthy /\ Orderly' = Orderly /\ NoLongShot' = NoLongShot
           /\ EarlyFrames' = EarlyFrames /\ Alone' = Alone
<1>1. /\ InternalPics' = InternalPics /\ DualCamera' = DualCamera /\ ZSL' = ZSL
      /\ Retro' = Retro /\ Apis' = Apis /\ HwMayFail' = HwMayFail /\ DaemonMayDie' = DaemonMayDie
      /\ RestartEarly' = RestartEarly /\ Flash' = Flash
  BY DEF InternalPics, DualCamera, ZSL, Retro, Apis, HwMayFail, DaemonMayDie, RestartEarly, Flash
<1>2. /\ Healthy' = Healthy /\ NoLongShot' = NoLongShot /\ EarlyFrames' = EarlyFrames
      /\ Alone' = Alone
  BY <1>1 DEF Healthy, NoLongShot, EarlyFrames, Alone
<1>3. Orderly' = Orderly
  BY <1>1, <1>2 DEF Orderly
<1>4. InOrder(cam)' <=> InOrder(cam')
  BY <1>1, <1>2 DEF InOrder
<1>5. Typed(cam)' <=> Typed(cam')
  BY DEF Typed
<1>6. Refuses(cam)' <=> Refuses(cam')
  BY <1>1 DEF Refuses
<1>7. isRecording(cam)' <=> isRecording(cam')
  BY DEF isRecording
<1>8. Fits(cam)' <=> Fits(cam')
  BY <1>1, <1>2, <1>3, <1>4, <1>5, <1>6, <1>7 DEF Fits
<1> QED BY <1>1, <1>2, <1>3, <1>8

\* What the state machine does with a request.
Signals(e, o) ==
    IF e = "DAEMON_DIED"
    THEN cam' = cam /\ Grown(results, results', {"PREPARE_SNAPSHOT", "TAKE_PICTURE"}, call')
    ELSE Replied(results, results', Asks(e), o.replies, call')

Serves(e, o) ==
    /\ e = NextRequest.evt /\ o \in Outcomes(cam, e) /\ cam' = o.cam
    /\ Joins(cam, e) => cam.live = "none"
    /\ e # "DAEMON_DIED" /\ cam'.prepping => cam.prepping \/ e = "PREPARE_SNAPSHOT"
    /\ Taken(e)
    /\ Signals(e, o)
    /\ call' \in [Callers -> Waits]
    /\ \A c \in Callers : /\ call'[c].api = call[c].api /\ call'[c].evt = call[c].evt
                          /\ call[c].seen \/ c = NextRequest.by => call'[c].seen
    /\ UNCHANGED <<setup, reported, asked>> /\ notifier' \in BOOLEAN

LEMMA HandleIs ==
    ASSUME Common, Handle
    PROVE  \E o : Serves(NextRequest.evt, o)
<1> DEFINE e == NextRequest.evt
           served == [c \in Callers |-> [call[c] EXCEPT !.seen = @ \/ c = NextRequest.by]]
<1>1. PICK o \in Outcomes(cam, e) :
          /\ cam' = o.cam
          /\ results' = results \o Posted(o.replies, served)
          /\ evt_queue' = (IF api_queue = <<>> THEN Tail(evt_queue) ELSE evt_queue)
                           \o (IF o.post THEN <<Msg("SNAPSHOT_DONE", "none", cam.shot)>> ELSE <<>>)
          /\ call' = [c \in Callers |->
                          [served[c] EXCEPT !.woken = @ \/ (o.replies # <<>>
                                                            /\ call[c].api # "none")]]
  BY DEF Handle
<1>2. /\ Pending /\ api_queue' = IF api_queue = <<>> THEN api_queue ELSE Tail(api_queue)
      /\ UNCHANGED <<setup, reported, asked>> /\ notifier' \in BOOLEAN
      /\ Joins(cam, e) => cam.live = "none"
  BY DEF Handle
<1>3. /\ call' \in [Callers -> Waits]
      /\ \A c \in Callers : /\ call'[c].api = call[c].api /\ call'[c].evt = call[c].evt
                            /\ call'[c].seen = (call[c].seen \/ c = NextRequest.by)
                            /\ served[c].seen = call'[c].seen /\ served[c].evt = call'[c].evt
  <2>1. call \in [Callers -> Waits]
    BY DEF Common, Callings
  <2> DEFINE new(c, a, b) == [[call[c] EXCEPT !.seen = @ \/ a] EXCEPT !.woken = @ \/ b]
  <2>2. ASSUME NEW c \in Callers, NEW a \in BOOLEAN, NEW b \in BOOLEAN
        PROVE  /\ new(c, a, b) \in Waits
               /\ new(c, a, b).evt = call[c].evt /\ new(c, a, b).api = call[c].api
               /\ new(c, a, b).seen = (call[c].seen \/ a)
    BY <2>1 DEF Waits
  <2>3. \A c \in Callers : call'[c] = new(c, c = NextRequest.by,
                                          o.replies # <<>> /\ call[c].api # "none")
    BY <1>1
  <2>4. \A c \in Callers : /\ served[c].seen = (call[c].seen \/ c = NextRequest.by)
                           /\ served[c].evt = call[c].evt
    BY <2>1 DEF Waits
  <2>5. call' = [c \in Callers |-> call'[c]]
    BY <1>1
  <2> HIDE DEF new, served
  <2>6. ASSUME NEW c \in Callers
        PROVE  /\ call'[c] \in Waits
               /\ call'[c].api = call[c].api /\ call'[c].evt = call[c].evt
               /\ call'[c].seen = (call[c].seen \/ c = NextRequest.by)
    <3>1. PICK a \in BOOLEAN, b \in BOOLEAN :
              call'[c] = new(c, a, b) /\ a = (c = NextRequest.by)
      BY <2>3
    <3>2. /\ new(c, a, b) \in Waits
          /\ new(c, a, b).evt = call[c].evt /\ new(c, a, b).api = call[c].api
          /\ new(c, a, b).seen = (call[c].seen \/ a)
      BY <2>2
    <3> QED BY <3>1, <3>2
  <2> QED BY <2>4, <2>5, <2>6
<1>4. /\ Typed(cam) /\ cam.shot \in Nat
      /\ api_queue \in Queue(Orders) /\ evt_queue \in Queue(EventKinds)
  BY SortsAre DEF Common, Queues, Fits, Typed, Fields, EventKinds
<1> HIDE DEF served
<1>5. Taken(e)
  BY <1>1, <1>2, <1>4, HandleTakes
<1>6. PICK S : results \in Seq(S)
  BY DEF Common, Answers
<1> HIDE DEF e
<1>7. ASSUME NEW Q, Grown(results, results', Q, served)
      PROVE  Grown(results, results', Q, call')
  <2>1. \A x : {c \in Callers : served[c].seen /\ served[c].evt = x}
               = {c \in Callers : call'[c].seen /\ call'[c].evt = x}
    BY <1>3
  <2> QED BY <1>7, <2>1 DEF Grown
<1>8. CASE e = "DAEMON_DIED"
  <2>1. /\ o.cam = cam
        /\ o.replies \in {<<>>, <<Result("PREPARE_SNAPSHOT", TRUE), Result("TAKE_PICTURE", TRUE)>>}
    BY <1>1, <1>4, <1>8, DyingAnswers
  <2>2. Grown(results, results', {"PREPARE_SNAPSHOT", "TAKE_PICTURE"}, served)
    BY <1>1, <1>6, <2>1, DyingGrows
  <2>3. Signals(e, o)
    BY <1>1, <1>7, <1>8, <2>1, <2>2 DEF Signals
  <2>4. Serves(e, o)
    BY <1>1, <1>2, <1>3, <1>5, <1>8, <2>3 DEF Serves, e
  <2> QED BY <2>4 DEF e
<1>9. CASE e # "DAEMON_DIED"
  <2>1. e \in Requests
    BY <1>5, <1>9 DEF Taken
  <2>2. Single(o.replies, Asks(e)) /\ (o.cam.prepping => cam.prepping \/ e = "PREPARE_SNAPSHOT")
    BY <1>1, <1>4, <2>1, AnswersAre
  <2>3. Replied(results, results', Asks(e), o.replies, served)
    BY <1>1, <1>6, <2>2, AnswerGrows
  <2>4. Replied(results, results', Asks(e), o.replies, call')
    BY <1>7, <2>3 DEF Replied
  <2>5. Signals(e, o)
    BY <1>9, <2>4 DEF Signals
  <2>6. Serves(e, o)
    BY <1>1, <1>2, <1>3, <1>5, <2>2, <2>5 DEF Serves, e
  <2> QED BY <2>6 DEF e
<1> QED BY <1>8, <1>9
--------------------------------------------------------------------------------
(* The calls, from one request to the next.                                *)

\* A call that goes on to f, or is over.
GoesOn(c, api, f) ==
    /\ call'[c] = IF f = "none" THEN Idle
                  ELSE [api |-> api, evt |-> f, seen |-> FALSE, woken |-> FALSE]
    /\ DOMAIN call' = Callers /\ \A d \in Callers \ {c} : call'[d] = call[d]
    /\ call' = [call EXCEPT ![c] = call'[c]]
    /\ api_queue' = IF f \in {"none", "taken", "clear"} THEN api_queue
                    ELSE Append(api_queue, Msg(f, c, 0))

LEMMA AdvanceIs ==
    ASSUME Typed(cam), DOMAIN call = Callers, NEW c \in Callers, NEW api, NEW e, NEW ok,
           Advance(c, api, e, ok)
    PROVE  /\ GoesOn(c, api, Following(api, e, ok, cam'))
           /\ Differs(cam, cam', Steered)
           /\ e # "RESTART_STOP_PREVIEW" => cam'.hint = cam.hint
           /\ e # "none" => cam'.retro = cam.retro
           /\ e = "none" => (cam'.retro <=> api = "take_retro"
                                \/ (cam.retro /\ api \notin {"take_picture", "internal"}))
           /\ api = "take_retro" /\ e = "none" => cam'.retro
<1> DEFINE m == MuxerAfter(api, e, ok, cam)
           r == IF e # "none" THEN m.retro
                ELSE api = "take_retro" \/ (m.retro /\ api \notin {"take_picture", "internal"})
           p == PrepAfter(api, e, cam)
           n == [m EXCEPT !.prep = p]
           k == [n EXCEPT !.retro = r]
<1>0. /\ cam.hintSet \in BOOLEAN /\ cam.prep \in BOOLEAN /\ cam.longshot \in BOOLEAN
      /\ cam.retro \in BOOLEAN
      /\ {"hint", "hintSet", "restart", "prep", "retro"} \subseteq Fields
      /\ \A f \in {"hint", "hintSet", "restart", "prep", "retro"} : Sorts[f] = BOOLEAN
  BY SortsAre DEF Typed, Fields
<1>1. /\ Differs(cam, m, {"hint", "hintSet", "restart"})
      /\ e # "RESTART_STOP_PREVIEW" => m.hint = cam.hint
  <2>1. CASE e = "RESTART_STOP_PREVIEW" /\ ok
    <3> DEFINE b == api = "start_recording"
               h == b \/ (cam.hintSet /\ api # "STOP_RECORDING")
               x == [cam EXCEPT !.hint = b]
               y == [x EXCEPT !.hintSet = h]
    <3>1. m = y
      BY <2>1 DEF MuxerAfter
    <3>2. b \in BOOLEAN /\ h \in BOOLEAN
      BY <1>0
    <3> HIDE DEF b, h, m
    <3>3. Differs(cam, x, {"hint"})
      BY <1>0, <3>2, Put
    <3> HIDE DEF x
    <3>4. Typed(x) /\ h \in BOOLEAN
      BY <3>2, <3>3 DEF Differs, h, b
    <3>5. "hintSet" \in Fields /\ Sorts["hintSet"] = BOOLEAN
      BY <1>0
    <3>6. Differs(x, y, {"hintSet"})
      BY <3>4, <3>5, Put
    <3> HIDE DEF y
    <3>7. Differs(cam, y, {"hint", "hintSet", "restart"})
      BY <3>3, <3>6, DiffersThen
    <3> QED BY <2>1, <3>1, <3>7
  <2>2. CASE e = "RESTART_START_PREVIEW"
    <3> DEFINE x == [cam EXCEPT !.restart = FALSE]
    <3>1. m = x
      BY <2>2 DEF MuxerAfter
    <3>2. Differs(cam, x, {"restart"})
      BY <1>0, Put
    <3>3. m.hint = cam.hint
      BY <1>0, <3>1 DEF Typed
    <3> HIDE DEF x, m
    <3>4. Differs(cam, x, {"hint", "hintSet", "restart"})
      BY <3>2, DiffersMore DEF x
    <3> QED BY <3>1, <3>3, <3>4 DEF x, m
  <2>3. CASE ~(e = "RESTART_STOP_PREVIEW" /\ ok) /\ e # "RESTART_START_PREVIEW"
    <3>1. m = cam
      BY <2>3 DEF MuxerAfter
    <3> HIDE DEF m
    <3> QED BY <3>1, DiffersIt
  <2> QED BY <2>1, <2>2, <2>3
<1>2. p \in BOOLEAN
  BY <1>0 DEF PrepAfter
<1>3. /\ cam' = k
      /\ call' = [call EXCEPT ![c] = IF Following(api, e, ok, k) = "none" THEN Idle
                                     ELSE [api |-> api, evt |-> Following(api, e, ok, k),
                                           seen |-> FALSE, woken |-> FALSE]]
      /\ api_queue' = IF Following(api, e, ok, k) \in {"none", "taken", "clear"} THEN api_queue
                      ELSE Append(api_queue, Msg(Following(api, e, ok, k), c, 0))
  BY DEF Advance
<1> HIDE DEF m, p
<1>4. Typed(m) /\ m.retro = cam.retro
  BY <1>0, <1>1 DEF Differs
<1>5. Differs(m, n, {"prep"})
  BY <1>0, <1>2, <1>4, Put
<1>6. r \in BOOLEAN
  BY <1>0, <1>4
<1> HIDE DEF n, r
<1>7. Differs(n, k, {"retro"}) /\ k.retro = r
  <2>1. Typed(n) /\ r \in BOOLEAN
    BY <1>5, <1>6 DEF Differs, n, r
  <2>2. "retro" \in Fields /\ Sorts["retro"] = BOOLEAN
    BY <1>0
  <2> QED BY <2>1, <2>2, Put
<1> HIDE DEF k
<1>8. Differs(cam, k, Steered)
  <2>1. Differs(m, k, {"prep", "retro"})
    BY <1>5, <1>7, DiffersThen
  <2> QED BY <1>1, <2>1, DiffersThen DEF Steered
<1>9. k.hint = m.hint
  BY <1>0, <1>5, <1>7 DEF Differs
<1>10. PICK f : f = Following(api, e, ok, k)
  OBVIOUS
<1>11. GoesOn(c, api, f)
  <2> DEFINE new == IF f = "none" THEN Idle
                    ELSE [api |-> api, evt |-> f, seen |-> FALSE, woken |-> FALSE]
  <2>1. call' = [call EXCEPT ![c] = new]
    BY <1>3, <1>10
  <2> HIDE DEF new
  <2>2. call'[c] = new /\ DOMAIN call' = Callers /\ \A d \in Callers \ {c} : call'[d] = call[d]
    BY <2>1
  <2>3. call' = [call EXCEPT ![c] = call'[c]]
    BY <2>1, <2>2
  <2> QED BY <1>3, <1>10, <2>2, <2>3 DEF GoesOn, new
<1>12. GoesOn(c, api, Following(api, e, ok, cam'))
  BY <1>3, <1>10, <1>11
<1>13. e # "none" => cam'.retro = cam.retro
  BY <1>3, <1>4, <1>7 DEF r
<1>14. e = "none" => (cam'.retro <=> api = "take_retro"
                          \/ (cam.retro /\ api \notin {"take_picture", "internal"}))
  BY <1>3, <1>4, <1>7 DEF r
<1> QED BY <1>1, <1>3, <1>8, <1>9, <1>12, <1>13, <1>14

LEMMA AdvanceFits ==
    ASSUME setup \in Setups, Fits(cam), NEW api, NEW e,
           Differs(cam, cam', Steered),
           e # "RESTART_STOP_PREVIEW" => cam'.hint = cam.hint,
           e = "RESTART_STOP_PREVIEW" => DualCamera,
           e # "none" => cam'.retro = cam.retro,
           e = "none" => Begun(api) /\ (cam'.retro <=> api = "take_retro"
                                \/ (cam.retro /\ api \notin {"take_picture", "internal"}))
    PROVE  Fits(cam')
<1>0. /\ cam'.st = cam.st /\ cam'.preview = cam.preview /\ cam'.video = cam.video
      /\ cam'.snapshot = cam.snapshot /\ cam'.capture = cam.capture /\ cam'.shot = cam.shot
      /\ cam'.shots = cam.shots /\ cam'.longshot = cam.longshot /\ cam'.dead = cam.dead
      /\ cam'.live = cam.live
  BY DEF Differs, Fields, Steered
<1>1. Typed(cam')
  BY DEF Differs
<1>2. DualCamera => ~EarlyFrames
  BY QCameraStateMachineAssumption DEF DualCamera, EarlyFrames, Retro
<1>3. Apis \subseteq PublicCalls /\ "take_retro" \notin PublicCalls /\ "internal" \notin PublicCalls
  BY QCameraStateMachineAssumption DEF Apis, PublicCalls
<1>4. cam'.retro => Retro /\ ZSL
  BY <1>3 DEF Fits, Begun
<1>5. EarlyFrames /\ cam'.st = PPT => ~cam'.hint /\ (cam'.retro \/ cam'.longshot)
  <2>1. EarlyFrames /\ cam.st = PPT => ~cam.hint /\ (cam.retro \/ cam.longshot) /\ ~isRecording(cam)
    BY DEF Fits, isRecording, PPT
  <2>2. EarlyFrames => ~InternalPics /\ e # "RESTART_STOP_PREVIEW"
    BY <1>2 DEF EarlyFrames
  <2> QED BY <1>3, <1>0, <2>1, <2>2 DEF Begun
<1>6. InOrder(cam) => InOrder(cam')
  BY <1>0 DEF InOrder
<1>7. isRecording(cam') <=> isRecording(cam)
  BY <1>0 DEF isRecording
<1>8. Refuses(cam') <=> Refuses(cam)
  BY <1>0 DEF Refuses
<1> QED BY <1>0, <1>1, <1>4, <1>5, <1>6, <1>7, <1>8 DEF Fits

\* What the calls wait for, and go on to.
LEMMA AwaitedBy ==
    ASSUME NEW api \in AppCalls \cup {"internal"}, NEW e \in Awaited(api)
    PROVE  /\ e \in {"SET_PARAMS", "SET_PARAMS_STOP", "SET_PARAMS_COMMIT", "SET_PARAMS_RESTART"}
              => api = "set_parameters"
           /\ e \in Restarts => DualCamera /\ api \in {"start_recording", "STOP_RECORDING", "take_picture"}
           /\ e \in {"LONGSHOT_ON", "LONGSHOT_OFF"} => api = e
           /\ e = "SEND_COMMAND_RESTART" => DualCamera /\ api = "LONGSHOT_ON"
           /\ e \in {"PREPARE_SNAPSHOT", "PRE_TAKE_PICTURE", "TAKE_PICTURE"}
              => api \in {"take_picture", "take_retro", "internal"}
           /\ e \in {"taken", "clear"} => api = "internal"
           /\ e \in Orders \cup {"taken", "clear"} /\ e \notin Reports
<1> DEFINE Several == {"start_recording", "STOP_RECORDING", "take_picture", "take_retro",
                       "set_parameters", "LONGSHOT_ON", "internal"}
<1>1. CASE api \in Several
  BY <1>1 DEF Awaited, Restarts, Orders, Requests, StoppedRefuses, Settings, Reports
<1>2. CASE api \notin Several
  <2>1. e = api /\ api \in PublicCalls \ Several
    BY <1>2 DEF Awaited, AppCalls, PublicCalls
  <2>2. /\ PublicCalls \ Several \subseteq Orders \ Reports
        /\ (PublicCalls \ Several) \cap
             ({"SET_PARAMS", "SET_PARAMS_STOP", "SET_PARAMS_COMMIT", "SET_PARAMS_RESTART",
               "SEND_COMMAND_RESTART", "PREPARE_SNAPSHOT", "PRE_TAKE_PICTURE", "TAKE_PICTURE",
               "taken", "clear"} \cup Restarts) = {}
    BY DEF PublicCalls, Orders, Requests, StoppedRefuses, Settings, Reports, Restarts
  <2> HIDE DEF Several
  <2> QED BY <2>1, <2>2
<1> QED BY <1>1, <1>2

LEMMA FollowingAwaited ==
    ASSUME NEW api \in AppCalls \cup {"internal"}, NEW e \in Awaited(api) \cup {"none"},
           e \notin {"taken", "clear"}, NEW ok, NEW k
    PROVE  LET f == Following(api, e, ok, k) IN f = "none" \/ f \in Awaited(api)
<1>1. CASE api = "start_recording"
  BY <1>1 DEF Following, Awaited, start_recording, muxer_start_recording, AfterRestart, Restarts
<1>2. CASE api = "STOP_RECORDING"
  BY <1>2 DEF Following, Awaited, muxer_stop_recording, AfterRestart, Restarts
<1>3. CASE api = "take_picture"
  BY <1>3 DEF Following, Awaited, take_picture, muxer_take_picture, prepare_snapshot, AfterRestart,
              Restarts
<1>4. CASE api = "take_retro"
  BY <1>4 DEF Following, Awaited, take_retro, prepare_snapshot
<1>5. CASE api = "set_parameters"
  BY <1>5 DEF Following, Awaited, set_parameters
<1>6. CASE api = "LONGSHOT_ON"
  BY <1>6 DEF Following, Awaited, send_command_restart
<1>7. CASE api = "internal"
  BY <1>7 DEF Following, Awaited, takeBackendPic_internal
<1>8. CASE api \notin {"start_recording", "STOP_RECORDING", "take_picture", "take_retro",
                       "set_parameters", "LONGSHOT_ON", "internal"}
  <2>1. api # "none"
    BY <1>8 DEF AppCalls, PublicCalls
  <2> QED BY <1>8, <2>1 DEF Following, Awaited
<1> QED BY <1>1, <1>2, <1>3, <1>4, <1>5, <1>6, <1>7, <1>8

\* The requests of a call that follow one another.
LEMMA FollowingOf ==
    ASSUME NEW api \in AppCalls \cup {"internal"}, NEW e \in Awaited(api) \cup {"none"},
           e \notin {"taken", "clear"}, NEW ok, NEW k, k.needRestart \in BOOLEAN
    PROVE  LET f == Following(api, e, ok, k)
           IN  /\ f = "SET_PARAMS_STOP" => k.needRestart
               /\ f = "SET_PARAMS_COMMIT" /\ k.needRestart => e = "SET_PARAMS_STOP" /\ ok
               /\ f = "SET_PARAMS_RESTART" => e = "SET_PARAMS_COMMIT" /\ ok /\ k.needRestart
               /\ e = "SET_PARAMS_STOP" /\ ok => f = "SET_PARAMS_COMMIT"
               /\ e = "SET_PARAMS_COMMIT" /\ ok /\ k.needRestart => f = "SET_PARAMS_RESTART"
               /\ e = "RESTART_STOP_PREVIEW" /\ ok => f = "RESTART_START_PREVIEW"
               /\ e = "LONGSHOT_ON" /\ ok /\ DualCamera => f = "SEND_COMMAND_RESTART"
<1> DEFINE f == Following(api, e, ok, k)
<1>1. api = "set_parameters" => f = set_parameters(e, ok, k)
  BY DEF Following
<1>2. /\ f \in {"SET_PARAMS_STOP", "SET_PARAMS_COMMIT", "SET_PARAMS_RESTART"} => api = "set_parameters"
      /\ e \in {"SET_PARAMS_STOP", "SET_PARAMS_COMMIT", "SET_PARAMS_RESTART"} => api = "set_parameters"
  <2>1. f = "none" \/ f \in Awaited(api)
    BY FollowingAwaited
  <2> HIDE DEF f
  <2>2. f # "none" => f \in Awaited(api)
    BY <2>1
  <2>3. e # "none" => e \in Awaited(api)
    OBVIOUS
  <2> QED BY <2>2, <2>3, AwaitedBy
<1>3. api = "set_parameters" =>
         /\ f = "SET_PARAMS_STOP" => k.needRestart
         /\ f = "SET_PARAMS_COMMIT" /\ k.needRestart => e = "SET_PARAMS_STOP" /\ ok
         /\ f = "SET_PARAMS_RESTART" => e = "SET_PARAMS_COMMIT" /\ ok /\ k.needRestart
         /\ e = "SET_PARAMS_STOP" /\ ok => f = "SET_PARAMS_COMMIT"
         /\ e = "SET_PARAMS_COMMIT" /\ ok /\ k.needRestart => f = "SET_PARAMS_RESTART"
  <2> HIDE DEF f
  <2> QED BY <1>1 DEF set_parameters
<1>4. e = "RESTART_STOP_PREVIEW" /\ ok => f = "RESTART_START_PREVIEW"
  <2>1. e = "RESTART_STOP_PREVIEW"
        => DualCamera /\ api \in {"start_recording", "STOP_RECORDING", "take_picture"}
    BY AwaitedBy DEF Restarts
  <2> QED BY <2>1 DEF Following, muxer_start_recording, muxer_stop_recording, muxer_take_picture,
                      AfterRestart
<1>5. e = "LONGSHOT_ON" /\ ok /\ DualCamera => f = "SEND_COMMAND_RESTART"
  <2>1. e = "LONGSHOT_ON" => api = "LONGSHOT_ON"
    BY AwaitedBy
  <2> QED BY <2>1 DEF Following, send_command_restart
<1> HIDE DEF f
<1> QED BY <1>2, <1>3, <1>4, <1>5 DEF f

LEMMA CallersAre == "app" \in Callers /\ "int" \in Callers /\ Callers = {"app", "int"}
BY DEF Callers

\* The application is in a public call or in none.
LEMMA AppCallIs ==
    ASSUME setup \in Setups, Callings
    PROVE  App.api \in AppCalls \cup {"none"} /\ App.api # "internal" /\ "internal" \notin AppCalls
BY QCameraStateMachineAssumption DEF Callings, Apis, AppCalls, PublicCalls

\* A request comes when it may.
LEMMA DueIs ==
    ASSUME FitInv, NEW e, NEW o, Serves(e, o)
    PROVE  Due(cam, e)
<1>0. Common /\ Callings /\ setup \in Setups
  BY DEF FitInv, Common
<1>1. e \notin EventKinds => Queued(e)
  BY DEF Serves, Taken
<1>2. {"LONGSHOT_ON", "LONGSHOT_OFF", "SET_PARAMS_RESTART", "TAKE_PICTURE",
       "STOP_CAPTURE_CHANNEL"} \cap EventKinds = {}
  BY EventsAre
<1>3. e \in {"LONGSHOT_ON", "LONGSHOT_OFF"} => ~NoLongShot
  BY <1>0, <1>1, <1>2 DEF Common, Queues
<1>4. Joins(cam, e) => cam.live = "none"
  BY DEF Serves
<1>5. Orderly /\ e = "SET_PARAMS_RESTART" => Unprepared(cam)
  BY <1>1, <1>2 DEF FitInv, NoneStarted, Stops
<1>6. ASSUME EarlyFrames, ~cam.dead, e = "TAKE_PICTURE", cam.st = "PREVIEWING"
      PROVE  cam.retro \/ cam.longshot
  <2>1. Once /\ Pictures
    BY <1>6 DEF FitInv, EarlyFrames
  <2>2. "TAKE_PICTURE" \in Whole
    BY <1>6 DEF Whole, Loose, Orders, Requests, StoppedRefuses, Reports
  <2>3. App.evt = "TAKE_PICTURE"
    BY <1>1, <1>2, <1>6, <2>1, <2>2 DEF Once, Kept
  <2>4. App.evt \in Awaited(App.api)
    BY <1>0, CallersAre DEF Callings, App
  <2>5. App.api # "none"
    BY <2>3, <2>4 DEF Awaited
  <2>6. App.api \in {"take_picture", "take_retro"}
    BY <1>0, <2>3, <2>4, <2>5, AppCallIs, AwaitedBy
  <2> QED BY <1>6, <2>1, <2>6 DEF Pictures, isRecording
<1>7. ZSL => e # "STOP_CAPTURE_CHANNEL"
  BY <1>0, <1>1, <1>2 DEF Common, Queues
<1> QED BY <1>3, <1>4, <1>5, <1>6, <1>7 DEF Due

LEMMA HandleFits ==
    ASSUME FitInv, NEW e, NEW o, Serves(e, o)
    PROVE  /\ Fitting(cam, e, cam')
           /\ e = "DAEMON_DIED" => cam.dead
<1>1. e \in Requests \cup {"DAEMON_DIED"} /\ o \in Outcomes(cam, e) /\ cam' = o.cam
  BY DEF Serves, Taken
<1>2. Fits(cam)
  BY DEF FitInv, Common
<1>3. Due(cam, e)
  BY DueIs
<1>4. Fitting(cam, e, cam')
  BY <1>1, <1>2, <1>3, OutcomesFit DEF AllFit
<1>5. e = "DAEMON_DIED" => At(evt_queue, "DAEMON_DIED") # {}
  BY EventsAre DEF Serves, Taken
<1> QED BY <1>4, <1>5 DEF FitInv, Common, Queues

\* What comes to be under way, and what was before.
LEMMA SignalsAre ==
    ASSUME NEW e, NEW o, Serves(e, o)
    PROVE  /\ \A x : At(results, x) \subseteq At(results', x)
           /\ \A i \in DOMAIN results : i \in DOMAIN results' /\ results'[i] = results[i]
           /\ Len(results') \in Nat /\ Len(results') >= Len(results)
           /\ \E T : results' \in Seq(T)
           /\ e # "DAEMON_DIED" => \A x : x # Asks(e) => At(results', x) = At(results, x)
           /\ e = "DAEMON_DIED" => \A x : x \notin {"PREPARE_SNAPSHOT", "TAKE_PICTURE"}
                                          => At(results', x) = At(results, x)
<1>1. PICK Q : /\ Grown(results, results', Q, call')
               /\ Q = IF e = "DAEMON_DIED" THEN {"PREPARE_SNAPSHOT", "TAKE_PICTURE"} ELSE {Asks(e)}
  BY DEF Serves, Signals, Replied
<1>2. /\ \A y : y \notin Q => At(results', y) = At(results, y)
      /\ \A y : At(results, y) \subseteq At(results', y)
  BY <1>1, GrownAre
<1>3. /\ \A i \in DOMAIN results : i \in DOMAIN results' /\ results'[i] = results[i]
      /\ Len(results') \in Nat /\ Len(results') >= Len(results)
      /\ \E T : results' \in Seq(T)
  BY <1>1 DEF Grown
<1> QED BY <1>1, <1>2, <1>3

LEMMA HandleCommon ==
    ASSUME FitInv, NEW e, NEW o, Serves(e, o)
    PROVE  Common'
<1>0. Common /\ setup' = setup
  BY DEF FitInv, Serves
<1>1. Fitting(cam, e, cam')
  BY HandleFits
<1>2. Fits(cam)' /\ cam'.dead = cam.dead
  BY <1>0, <1>1, SameSetup DEF Fitting
<1>3. Queues'
  <2>1. api_queue' \in Queue(Orders) /\ evt_queue' \in Queue(EventKinds)
    BY DEF Serves, Taken
  <2>2. NoMore(evt_queue, evt_queue', "DAEMON_DIED")
    BY EventsAre DEF Serves, Taken
  <2>3. \A x : Queued(x)' => Queued(x)
    BY DEF Serves, Taken, Fewer, NoMore, Queued
  <2>4. NoLongShot' = NoLongShot /\ ZSL' = ZSL
    BY <1>0, SameSetup
  <2> QED BY <1>0, <1>2, <2>1, <2>2, <2>3, <2>4 DEF Common, Queues, EventKinds, NoMore
<1>4. Answers(results')
  <2>1. e \in Requests \cup {"DAEMON_DIED"}
    BY DEF Serves, Taken
  <2>2. {"PREPARE_SNAPSHOT", "TAKE_PICTURE"} \subseteq Requests
    BY DEF Requests, StoppedRefuses
  <2>3. e \in Requests => Asks(e) \in Requests
    BY <2>2 DEF Asks
  <2>4. PICK Q : Q \subseteq Requests /\ Grown(results, results', Q, call')
    BY <2>1, <2>2, <2>3 DEF Serves, Signals, Replied
  <2> QED BY <1>0, <2>4 DEF Common, Answers, Grown
<1>5. Callings'
  <2>1. /\ call' \in [Callers -> Waits]
        /\ \A c \in Callers : call'[c].api = call[c].api /\ call'[c].evt = call[c].evt
    BY DEF Serves
  <2>2. \A api : Awaited(api)' = Awaited(api)
    BY <1>0, SameSetup DEF Awaited
  <2> QED BY <1>0, <2>1, <2>2, SameSetup, CallersAre DEF Common, Callings, App
<1>6. UNCHANGED reported /\ notifier' \in BOOLEAN /\ UNCHANGED asked
  BY DEF Serves
<1> QED BY <1>0, <1>2, <1>3, <1>4, <1>5, <1>6 DEF Common

LEMMA GoesAre ==
    ASSUME Common, NEW c \in Callers, NEW api, NEW e, NEW ok, Goes(c, api, e, ok)
    PROVE  LET f == Following(api, e, ok, cam')
           IN  /\ GoesOn(c, api, f)
               /\ f = "none" \/ f \in Awaited(api)
               /\ Fits(cam') /\ Differs(cam, cam', Steered)
               /\ e # "none" => cam'.retro = cam.retro
               /\ e = "none" => (cam'.retro <=> api = "take_retro"
                                    \/ (cam.retro /\ api \notin {"take_picture", "internal"}))
<1>1. /\ Fits(cam) /\ Typed(cam) /\ DOMAIN call = Callers /\ setup \in Setups
  BY DEF Common, Fits, Callings
<1>2. Advance(c, api, e, ok) /\ api \in AppCalls \cup {"internal"}
      /\ e \in Awaited(api) \cup {"none"} /\ e \notin {"taken", "clear"}
  BY DEF Goes
<1>3. /\ GoesOn(c, api, Following(api, e, ok, cam'))
      /\ Differs(cam, cam', Steered)
      /\ e # "RESTART_STOP_PREVIEW" => cam'.hint = cam.hint
      /\ e # "none" => cam'.retro = cam.retro
      /\ e = "none" => (cam'.retro <=> api = "take_retro"
                           \/ (cam.retro /\ api \notin {"take_picture", "internal"}))
  BY <1>1, <1>2, AdvanceIs
<1>4. e = "RESTART_STOP_PREVIEW" => DualCamera
  BY <1>2, AwaitedBy DEF Restarts
<1>5. e = "none" => Begun(api)
  BY DEF Goes
<1>6. Fits(cam')
  BY <1>1, <1>3, <1>4, <1>5, AdvanceFits
<1>7. LET f == Following(api, e, ok, cam') IN f = "none" \/ f \in Awaited(api)
  BY <1>2, FollowingAwaited
<1> QED BY <1>3, <1>6, <1>7

LEMMA GoesCommon ==
    ASSUME Common, NEW c \in Callers, NEW api, NEW e, NEW ok, Goes(c, api, e, ok),
           Answers(results'), asked' \in BOOLEAN
    PROVE  Common'
<1>1. PICK f : /\ f = Following(api, e, ok, cam')
               /\ GoesOn(c, api, f)
               /\ f = "none" \/ f \in Awaited(api)
               /\ Fits(cam') /\ Differs(cam, cam', Steered)
  BY GoesAre
<1>2. /\ setup' = setup /\ evt_queue' = evt_queue /\ api \in AppCalls \cup {"internal"}
      /\ reported' = reported /\ notifier' = notifier
  BY DEF Goes
<1>3. f = "none" \/ (f \in Orders \cup {"taken", "clear"} /\ f \notin Reports)
  BY <1>1, <1>2, AwaitedBy
<1>4. /\ api_queue \in Queue(Orders) /\ cam'.dead = cam.dead
      /\ call \in [Callers -> Waits]
  BY <1>1 DEF Common, Queues, Callings, Differs, Fields, Steered
<1>5. f \in Orders => f \notin {"none", "taken", "clear"}
  BY RequestsAre
<1>6. \/ f \in Orders /\ api_queue' = Append(api_queue, Msg(f, c, 0))
      \/ f \in {"none", "taken", "clear"} /\ api_queue' = api_queue
  BY <1>1, <1>3, <1>5 DEF GoesOn
<1>7. f \in Orders => /\ Append(api_queue, Msg(f, c, 0)) \in Queue(Orders)
                      /\ \A x : x # f => NoMore(api_queue, Append(api_queue, Msg(f, c, 0)), x)
  BY <1>4, QueueAppends
<1>8. api_queue' \in Queue(Orders) /\ \A x : x # f => (Queued(x)' => Queued(x))
  BY <1>4, <1>6, <1>7 DEF NoMore, Queued
<1>9. f \in {"LONGSHOT_ON", "LONGSHOT_OFF"} => ~NoLongShot
  <2> SUFFICES ASSUME f \in {"LONGSHOT_ON", "LONGSHOT_OFF"} PROVE ~NoLongShot
    OBVIOUS
  <2>1. api = f
    BY <1>1, <1>2, AwaitedBy
  <2>2. api \in Apis
    BY <2>1 DEF Goes
  <2> QED BY <2>1, <2>2 DEF NoLongShot
<1>10. Queues'
  <2>1. NoLongShot' = NoLongShot /\ ZSL' = ZSL
    BY <1>2, SameSetup
  <2>2. f # "STOP_CAPTURE_CHANNEL"
    BY <1>3 DEF Reports
  <2> QED BY <1>2, <1>4, <1>8, <1>9, <2>1, <2>2 DEF Common, Queues
<1>11. Callings'
  <2>1. Idle \in Waits /\ Idle.evt \in Awaited(Idle.api) /\ Idle.api = "none"
    BY DEF Idle, Waits, Awaited
  <2>2. f # "none" => [api |-> api, evt |-> f, seen |-> FALSE, woken |-> FALSE] \in Waits
    BY <1>2, <1>3, EventsAre DEF Waits, AppCalls
  <2>3. call'[c] \in Waits /\ call'[c].api \in {api, "none"} /\ call'[c].evt \in Awaited(call'[c].api)
    BY <1>1, <2>1, <2>2 DEF GoesOn
  <2>4. call' \in [Callers -> Waits] /\ \A d \in Callers \ {c} : call'[d] = call[d]
    BY <1>1, <1>4, <2>3 DEF GoesOn
  <2>5. \A x : Awaited(x)' = Awaited(x)
    BY <1>2, SameSetup DEF Awaited
  <2>6. \A d \in Callers : call'[d].evt \in Awaited(call'[d].api)
    BY <2>3, <2>4 DEF Common, Callings
  <2>7. /\ Apis' = Apis /\ Retro' = Retro /\ ZSL' = ZSL /\ InternalPics' = InternalPics
    BY <1>2, SameSetup
  <2>8. call'["app"].api \in Apis \cup {"none"} \/ (call'["app"].api = "take_retro" /\ Retro /\ ZSL)
    BY <2>3, <2>4, CallersAre DEF Common, Callings, App, Goes
  <2>9. call'["int"].api \in {"none", "internal"} /\ (~InternalPics => call'["int"].api = "none")
    BY <2>3, <2>4, CallersAre DEF Common, Callings, Goes
  <2> QED BY <2>4, <2>5, <2>6, <2>7, <2>8, <2>9 DEF Callings, App
<1> QED BY <1>1, <1>2, <1>10, <1>11, SameSetup DEF Common

LEMMA CallIs ==
    ASSUME setup \in Setups, NEW api \in Apis, Call(api)
    PROVE  \E made : /\ Goes("app", made, "none", TRUE)
                     /\ App = Idle /\ UNCHANGED <<results, asked>>
                     /\ made = "take_retro" => ~cam.longshot
<1> DEFINE made == IF api = "take_picture" THEN PictureCall ELSE api
<1>1. /\ App = Idle /\ Advance("app", made, "none", TRUE)
      /\ UNCHANGED <<setup, evt_queue, results, notifier, reported, asked>>
  BY DEF Call, App
<1>2. Apis \subseteq PublicCalls /\ "take_retro" \notin PublicCalls
  BY QCameraStateMachineAssumption DEF Apis, PublicCalls
<1>3. made \in AppCalls /\ (made \in Apis \/ (made = "take_retro" /\ Retro /\ ZSL))
  BY <1>2 DEF AppCalls, PictureCall
<1>4. EarlyFrames /\ made = "take_picture" => cam.longshot \/ isRecording(cam)
  BY DEF PictureCall, EarlyFrames
<1>5. made = "take_retro" => ~cam.longshot
  BY <1>2 DEF PictureCall
<1> HIDE DEF made
<1>6. Begun(made)
  BY <1>2, <1>3, <1>4 DEF Begun
<1>7. Goes("app", made, "none", TRUE)
  BY <1>1, <1>3, <1>6 DEF Goes
<1> QED BY <1>1, <1>7, <1>5

\* A caller that has its result, the first of its kind.
Hears(c, i) ==
    /\ call[c].woken /\ call[c].api # "none"
    /\ i \in At(results, call[c].evt) /\ \A j \in At(results, call[c].evt) : i <= j
    /\ i = CHOOSE j \in At(results, call[c].evt) : \A l \in At(results, call[c].evt) : j <= l
    /\ Goes(c, call[c].api, call[c].evt, results[i].ok)
    /\ results' = RemoveAt(results, i) /\ Fewer(results, results') /\ Answers(results')
    /\ OneOf(At(results, call[c].evt)) => At(results', call[c].evt) = {}
    /\ asked' \in BOOLEAN

\* A caller that is woken for another's.
Dozes(c) ==
    /\ At(results, call[c].evt) = {}
    /\ call' = [call EXCEPT ![c].woken = FALSE]
    /\ UNCHANGED <<setup, cam, api_queue, evt_queue, results, notifier, reported, asked>>

LEMMA LeastIs ==
    ASSUME NEW S, S \subseteq Nat, S # {}
    PROVE  LET i == CHOOSE j \in S : \A l \in S : j <= l
           IN  i \in S /\ \A j \in S : i <= j
<1> DEFINE R == {p \in Nat \X Nat : p[1] < p[2]}
<1>1. IsWellFoundedOn(R, Nat)
  BY NatLessThanWellFounded DEF OpToRel
<1>2. PICK j \in S : \A l \in S : ~(<<l, j>> \in R)
  BY <1>1, WFMin
<1>3. ASSUME NEW l \in S PROVE j <= l
  <2>1. <<l, j>> \in Nat \X Nat
    OBVIOUS
  <2>2. ~(<<l, j>>[1] < <<l, j>>[2])
    BY <1>2, <2>1
  <2> QED BY <2>2
<1> QED BY <1>3

LEMMA WakeIs ==
    ASSUME Common, NEW c \in Callers, Wake(c)
    PROVE  Dozes(c) \/ \E i : Hears(c, i)
<1> DEFINE x == call[c].evt
           fits == {i \in DOMAIN results : results[i].evt = x}
           i == CHOOSE j \in fits : \A l \in fits : j <= l
<1>0. fits = At(results, x)
  BY DEF At
<1>1. CASE fits = {}
  BY <1>0, <1>1 DEF Wake, Dozes
<1>2. CASE fits # {}
  <2>1. /\ call[c].woken /\ Advance(c, call[c].api, x, results[i].ok)
        /\ results' = RemoveAt(results, i)
        /\ asked' = CASE x = "ENABLE_MSG_TYPE"  -> TRUE
                      [] x = "DISABLE_MSG_TYPE" -> FALSE
                      [] OTHER -> asked
        /\ UNCHANGED <<setup, evt_queue, notifier, reported>>
    BY <1>2 DEF Wake
  <2>2. PICK S : results \in Seq(S)
    BY DEF Common, Answers
  <2>3. fits \subseteq Nat
    BY <2>2
  <2> HIDE DEF fits
  <2>4. i \in fits /\ \A j \in fits : i <= j
    BY <1>2, <2>3, LeastIs
  <2>5. i = CHOOSE j \in fits : \A l \in fits : j <= l
    OBVIOUS
  <2> HIDE DEF i
  <2>6. i \in At(results, x) /\ (\A j \in At(results, x) : i <= j)
        /\ i = CHOOSE j \in At(results, x) : \A l \in At(results, x) : j <= l
    BY <1>0, <2>4, <2>5
  <2>7. i \in DOMAIN results /\ results[i].evt = x
    BY <2>6 DEF At
  <2>8. x \in Requests
    BY <2>7 DEF Common, Answers
  <2>9. /\ \A y : NoMore(results, RemoveAt(results, i), y)
        /\ OneOf(At(results, x)) => At(RemoveAt(results, i), x) = {}
        /\ \A j \in DOMAIN RemoveAt(results, i) :
               \E l \in DOMAIN results : RemoveAt(results, i)[j] = results[l]
        /\ RemoveAt(results, i) \in Seq(S)
    <3>1. \A y : NoMore(results, RemoveAt(results, i), y)
      BY <2>2, <2>7, Removals
    <3>2. OneOf(At(results, x)) => At(RemoveAt(results, i), x) = {}
      BY <2>2, <2>7, Removals
    <3>3. /\ \A j \in DOMAIN RemoveAt(results, i) :
                 \E l \in DOMAIN results : RemoveAt(results, i)[j] = results[l]
          /\ RemoveAt(results, i) \in Seq(S)
      BY <2>2, <2>7, Removals
    <3> QED BY <3>1, <3>2, <3>3
  <2>10. Fewer(results, results')
    BY <2>1, <2>9 DEF Fewer
  <2>11. Answers(results')
    BY <2>1, <2>9 DEF Common, Answers
  <2>12. asked' \in BOOLEAN
    BY <2>1 DEF Common
  <2>13. call[c].api # "none"
    <3>1. call[c].api = "none" => x = "none"
      BY DEF Common, Callings, Awaited
    <3>2. x # "none"
      BY <2>8, RequestsAre
    <3> HIDE DEF x
    <3> QED BY <3>1, <3>2
  <2>14. Goes(c, call[c].api, x, results[i].ok)
    <3>1. x \in Awaited(call[c].api) /\ x \notin {"none", "taken", "clear"}
      BY <2>8, RequestsAre DEF Common, Callings
    <3>2. IF c = "int" THEN call[c].api = "internal" /\ InternalPics
          ELSE c = "app" /\ call[c].api \in AppCalls
               /\ (call[c].api \in Apis \/ (call[c].api = "take_retro" /\ Retro /\ ZSL))
      BY <2>13, CallersAre, AppCallIs DEF Common, Callings, App
    <3> HIDE DEF x
    <3> QED BY <2>1, <3>1, <3>2 DEF Goes
  <2>15. Hears(c, i)
    BY <2>1, <2>6, <2>9, <2>10, <2>11, <2>12, <2>13, <2>14 DEF Hears
  <2> QED BY <2>15
<1> QED BY <1>1, <1>2

LEMMA DozesCommon ==
    ASSUME Common, NEW c \in Callers, Dozes(c)
    PROVE  /\ Common' /\ cam' = cam
           /\ \A d \in Callers : /\ call'[d].api = call[d].api /\ call'[d].evt = call[d].evt
                                 /\ call'[d].seen = call[d].seen
<1>1. /\ call \in [Callers -> Waits] /\ setup' = setup /\ cam' = cam /\ Fits(cam)
      /\ call' = [call EXCEPT ![c].woken = FALSE]
  BY DEF Common, Callings, Dozes
<1>2. \A d \in Callers : /\ call'[d].api = call[d].api /\ call'[d].evt = call[d].evt
                         /\ call'[d].seen = call[d].seen /\ call'[d] \in Waits
  BY <1>1 DEF Waits
<1>3. call' \in [Callers -> Waits]
  BY <1>1, <1>2
<1>4. \A api : Awaited(api)' = Awaited(api)
  BY <1>1, SameSetup DEF Awaited
<1>5. Callings'
  BY <1>1, <1>2, <1>3, <1>4, SameSetup, CallersAre DEF Common, Callings, App
<1>6. Queues'
  BY <1>1, SameSetup DEF Common, Queues, Dozes, Queued
<1>7. Fits(cam')
  BY <1>1
<1> QED BY <1>1, <1>2, <1>5, <1>6, <1>7, SameSetup DEF Common, Dozes

LEMMA TouchedFits ==
    ASSUME NEW k, NEW n, Fits(k), Differs(k, n, Touched),
           n.shot \in {0, n.shots}, n.live \in {"take", "taking"} => k.live \in {"take", "taking"},
           n.snapshot = "none" => k.snapshot = "none", k.dead => n.dead, n.dead => DaemonMayDie
    PROVE  Fits(n)
<1>1. /\ n.st = k.st /\ n.preview = k.preview /\ n.video = k.video /\ n.capture = k.capture
      /\ n.hint = k.hint /\ n.longshot = k.longshot /\ n.retro = k.retro
  BY DEF Differs, Fields, Touched
<1>2. Typed(n)
  BY DEF Differs
<1> QED BY <1>1, <1>2 DEF Fits, InOrder, isRecording, Refuses

\* A step of another thread, which posts at most a request x and an event y.
Aside(x, y) ==
    /\ Differs(cam, cam', Touched) /\ Fits(cam')
    /\ UNCHANGED <<setup, results, call, asked>> /\ notifier' \in BOOLEAN
    /\ \/ x = "none" /\ api_queue' = api_queue
       \/ x = "CANCEL_PICTURE" /\ ~Healthy
          /\ \E n \in Nat : api_queue' = Append(api_queue, Msg(x, "none", n))
       \/ x = "STOP_CAPTURE_CHANNEL" /\ ~ZSL
          /\ \E n \in Nat : api_queue' = Append(api_queue, Msg(x, "none", n))
    /\ \/ y = "none" /\ evt_queue' = evt_queue
       \/ y \in EventKinds /\ \E n \in Nat : evt_queue' = Append(evt_queue, Msg(y, "none", n))
    /\ cam'.dead <=> cam.dead \/ y = "DAEMON_DIED"
    /\ cam'.prepping => cam.prepping
    /\ y = "PREP_SNAPSHOT_DONE" => cam.prepping
    /\ cam'.shots # cam.shots => cam.st = "VIDEO_PIC_TAKING"
    /\ IF y = "READY_FOR_SNAPSHOT" THEN Coming /\ reported'.ready = cam.shots
       ELSE reported'.ready = reported.ready
    /\ reported' \in [{"done", "ready", "prepared", "stop"} -> Nat]

LEMMA LiveAside ==
    ASSUME Common, LiveSnapshot \/ LiveCancel
    PROVE  \E x : Aside(x, "none")
<1>0. /\ Fits(cam) /\ Typed(cam) /\ cam.shots \in Nat /\ cam.shot \in {0, cam.shots}
      /\ reported \in [{"done", "ready", "prepared", "stop"} -> Nat] /\ notifier \in BOOLEAN
  BY SortsAre DEF Common, Fits, Typed, Fields
<1>1. /\ {"none", "taking", "cancelling"} \subseteq Sorts["live"] /\ Sorts["shot"] = Nat
      /\ Sorts["shots"] = Nat /\ {"shot", "shots", "snapshot", "live"} \subseteq Fields
  BY SortsAre DEF Fields
<1>2. cam.shots + 1 \in Nat /\ 0 \in Nat
  BY <1>0
<1>3. ASSUME NEW k, Typed(k), NEW v \in Nat
       PROVE  /\ Differs(k, [k EXCEPT !.shot = v], {"shot"}) /\ [k EXCEPT !.shot = v].shot = v
              /\ Differs(k, [k EXCEPT !.shots = v], {"shots"}) /\ [k EXCEPT !.shots = v].shots = v
  <2>1. v \in Sorts["shot"] /\ v \in Sorts["shots"] /\ "shot" \in Fields /\ "shots" \in Fields
    BY <1>1
  <2> QED BY <1>3, <2>1, Put
<1>4. ASSUME NEW k, Typed(k), NEW v \in {"none", "taking", "cancelling"}
      PROVE  Differs(k, [k EXCEPT !.live = v], {"live"}) /\ [k EXCEPT !.live = v].live = v
  BY <1>1, <1>4, Put
<1>5. ASSUME NEW x, Differs(cam, cam', {"shot", "shots", "snapshot", "live"}),
             cam'.shot \in {0, cam'.shots},
             cam'.live \in {"take", "taking"} => cam.live \in {"take", "taking"},
             cam'.snapshot = "none" => cam.snapshot = "none",
             cam'.shots # cam.shots => cam.live = "taking",
             \/ x = "none" /\ api_queue' = api_queue
             \/ x = "CANCEL_PICTURE" /\ ~Healthy
                /\ \E n \in Nat : api_queue' = Append(api_queue, Msg(x, "none", n))
      PROVE  Aside(x, "none")
  <2>1. UNCHANGED <<setup, evt_queue, results, call, notifier, reported, asked>>
    BY DEF LiveSnapshot, LiveCancel
  <2>2. cam'.dead = cam.dead /\ cam'.prepping = cam.prepping
    BY <1>5 DEF Differs, Fields
  <2>3. Differs(cam, cam', Touched)
    BY <1>5, DiffersMore DEF Touched
  <2>4. Fits(cam')
    BY <1>0, <1>5, <2>2, <2>3, TouchedFits DEF Fits
  <2>5. cam'.shots # cam.shots => cam.st = "VIDEO_PIC_TAKING"
    BY <1>0, <1>5 DEF Fits
  <2> QED BY <1>0, <1>5, <2>1, <2>2, <2>3, <2>4, <2>5 DEF Aside, EventKinds, Events
<1>6. CASE LiveSnapshot
  <2>1. CASE /\ cam.live = "take"
             /\ cam' = [cam EXCEPT !.live = "taking"] /\ UNCHANGED api_queue
    <3>1. Differs(cam, cam', {"live"}) /\ cam'.live = "taking"
      BY <1>0, <1>4, <2>1
    <3>2. cam'.shot = cam.shot /\ cam'.shots = cam.shots /\ cam'.snapshot = cam.snapshot
      BY <3>1 DEF Differs, Fields
    <3>3. Differs(cam, cam', {"shot", "shots", "snapshot", "live"})
      BY <3>1, DiffersMore
    <3>4. Aside("none", "none")
      BY <1>0, <1>5, <2>1, <3>1, <3>2, <3>3
    <3> QED BY <3>4
  <2>2. CASE /\ cam.live = "taking"
             /\ cam' = [startChannel(NewShot(cam), "snapshot") EXCEPT !.live = "none"]
             /\ UNCHANGED api_queue
    <3> DEFINE a == [cam EXCEPT !.shot = cam.shots + 1]
               b == [a EXCEPT !.shots = cam.shots + 1]
               d == startChannel(b, "snapshot")
               h == [d EXCEPT !.live = "none"]
    <3>1. Differs(cam, a, {"shot"}) /\ a.shot = cam.shots + 1
      BY <1>0, <1>2, <1>3
    <3>2. b = NewShot(cam)
      BY <1>0 DEF NewShot, Typed, Fields
    <3> HIDE DEF a
    <3>3. Differs(a, b, {"shots"}) /\ b.shots = cam.shots + 1
      <4>1. Typed(a)
        BY <3>1 DEF Differs
      <4> QED BY <1>2, <1>3, <4>1
    <3> HIDE DEF b
    <3>4. Differs(b, d, {"snapshot"}) /\ d.snapshot = "started"
      BY <3>3, ChannelsPut DEF Differs
    <3> HIDE DEF d
    <3>5. Differs(d, h, {"live"}) /\ h.live = "none"
      BY <1>4, <3>4 DEF Differs
    <3>6. cam' = h
      BY <2>2, <3>2 DEF d
    <3> HIDE DEF h
    <3>7. /\ cam'.shot = cam'.shots /\ cam'.live = "none" /\ cam'.snapshot = "started"
      BY <3>1, <3>3, <3>4, <3>5, <3>6 DEF Differs, Fields
    <3>8. Differs(cam, cam', {"shot", "shots", "snapshot", "live"})
      BY <3>1, <3>3, <3>4, <3>5, <3>6 DEF Differs
    <3>9. Aside("none", "none")
      BY <1>5, <2>2, <3>7, <3>8
    <3> QED BY <3>9
  <2>3. CASE /\ \/ cam.live = "take" /\ cam.snapshot = "none"
                \/ cam.live \in {"take", "taking"} /\ HwMayFail
             /\ cam' = [cam EXCEPT !.live = "none"]
             /\ api_queue' = Append(api_queue, Msg("CANCEL_PICTURE", "none", 0))
    <3>1. Differs(cam, cam', {"live"}) /\ cam'.live = "none"
      BY <1>0, <1>4, <2>3
    <3>2. cam'.shot = cam.shot /\ cam'.shots = cam.shots /\ cam'.snapshot = cam.snapshot
      BY <3>1 DEF Differs, Fields
    <3>3. Differs(cam, cam', {"shot", "shots", "snapshot", "live"})
      BY <3>1, DiffersMore
    <3>4. ~Healthy
      <4>1. cam.st = "VIDEO_PIC_TAKING" => cam.video = "started"
        BY <1>0 DEF Fits, isRecording
      <4>2. Healthy => cam.snapshot # "none"
        BY <1>0, <2>3, <4>1, HealthyIs DEF Fits
      <4> QED BY <2>3, <4>2 DEF Healthy
    <3>5. Aside("CANCEL_PICTURE", "none")
      BY <1>0, <1>5, <2>3, <3>1, <3>2, <3>3, <3>4
    <3> QED BY <3>5
  <2> QED BY <1>6, <2>1, <2>2, <2>3 DEF LiveSnapshot
<1>7. CASE LiveCancel
  <2>0. api_queue' = api_queue
    BY <1>7 DEF LiveCancel
  <2>1. CASE cam' = [cam EXCEPT !.shot = 0,
                                !.live = IF cam.snapshot = "none" THEN "none" ELSE "cancelling"]
    <3> DEFINE v == IF cam.snapshot = "none" THEN "none" ELSE "cancelling"
               a == [cam EXCEPT !.shot = 0]
               h == [a EXCEPT !.live = v]
    <3>1. Differs(cam, a, {"shot"}) /\ a.shot = 0
      BY <1>0, <1>2, <1>3
    <3>2. cam' = h /\ v \in {"none", "taking", "cancelling"} /\ v # "taking"
      BY <2>1
    <3> HIDE DEF a, v
    <3>3. Differs(a, h, {"live"}) /\ h.live = v
      <4>1. Typed(a) /\ v \in {"none", "taking", "cancelling"}
        BY <3>1 DEF Differs, v
      <4> QED BY <1>4, <4>1
    <3> HIDE DEF h
    <3>4. /\ cam'.shot = 0 /\ cam'.shots = cam.shots /\ cam'.snapshot = cam.snapshot
          /\ cam'.live \in {"none", "cancelling"}
      BY <3>1, <3>2, <3>3 DEF Differs, Fields, v
    <3>5. Differs(cam, cam', {"shot", "shots", "snapshot", "live"})
      BY <3>1, <3>2, <3>3 DEF Differs
    <3>6. Aside("none", "none")
      BY <1>5, <2>0, <3>4, <3>5
    <3> QED BY <3>6
  <2>2. CASE cam' = [stopChannel(cam, "snapshot") EXCEPT !.live = "none"]
    <3> DEFINE a == stopChannel(cam, "snapshot")
               h == [a EXCEPT !.live = "none"]
    <3>1. Differs(cam, a, {"snapshot"}) /\ (a.snapshot = "none" <=> cam.snapshot = "none")
      BY <1>0, ChannelsPut
    <3> HIDE DEF a
    <3>2. Differs(a, h, {"live"}) /\ h.live = "none"
      BY <1>4, <3>1 DEF Differs
    <3>3. cam' = h
      BY <2>2 DEF a
    <3> HIDE DEF h
    <3>4. /\ cam'.shot = cam.shot /\ cam'.shots = cam.shots /\ cam'.live = "none"
          /\ (cam'.snapshot = "none" => cam.snapshot = "none")
      BY <3>1, <3>2, <3>3 DEF Differs, Fields
    <3>5. Differs(cam, cam', {"shot", "shots", "snapshot", "live"})
      BY <3>1, <3>2, <3>3 DEF Differs
    <3>6. Aside("none", "none")
      BY <1>0, <1>5, <2>0, <3>4, <3>5
    <3> QED BY <3>6
  <2> QED BY <1>7, <2>1, <2>2 DEF LiveCancel
<1> QED BY <1>6, <1>7

LEMMA ReportsAside ==
    ASSUME Common, SnapshotDone \/ StopCapture \/ PrepSnapshotDone \/ ReadyForSnapshot \/ DaemonDies
    PROVE  \E x, y : Aside(x, y)
<1>0. /\ Fits(cam) /\ Typed(cam) /\ cam.shot \in Nat /\ cam.shots \in Nat
      /\ reported \in [{"done", "ready", "prepared", "stop"} -> Nat] /\ notifier \in BOOLEAN
  BY SortsAre DEF Common, Fits, Typed, Fields
<1>1. {"SNAPSHOT_DONE", "PREP_SNAPSHOT_DONE", "READY_FOR_SNAPSHOT", "DAEMON_DIED"} = EventKinds
  BY EventsAre
<1>2. Differs(cam, cam, Touched)
  BY <1>0, DiffersIt
<1>3. CASE SnapshotDone
  <2>1. /\ UNCHANGED <<setup, cam, api_queue, results, call, asked>> /\ notifier' = TRUE
        /\ evt_queue' = Append(evt_queue, Msg("SNAPSHOT_DONE", "none", cam.shot))
        /\ reported' = [reported EXCEPT !.done = cam.shot]
    BY <1>3 DEF SnapshotDone, Event
  <2>2. /\ reported'.ready = reported.ready
        /\ reported' \in [{"done", "ready", "prepared", "stop"} -> Nat]
    BY <1>0, <2>1
  <2>3. Aside("none", "SNAPSHOT_DONE")
    BY <1>0, <1>1, <1>2, <2>1, <2>2 DEF Aside
  <2> QED BY <2>3
<1>4. CASE StopCapture
  <2>1. /\ UNCHANGED <<setup, cam, evt_queue, results, call, notifier, asked>> /\ ~ZSL
        /\ api_queue' = Append(api_queue, Msg("STOP_CAPTURE_CHANNEL", "none", cam.shot))
        /\ reported' = [reported EXCEPT !.stop = cam.shot]
    BY <1>4 DEF StopCapture
  <2>2. /\ reported'.ready = reported.ready
        /\ reported' \in [{"done", "ready", "prepared", "stop"} -> Nat]
    BY <1>0, <2>1
  <2>3. Aside("STOP_CAPTURE_CHANNEL", "none")
    BY <1>0, <1>1, <1>2, <2>1, <2>2 DEF Aside
  <2> QED BY <2>3
<1>5. CASE PrepSnapshotDone
  <2>1. /\ UNCHANGED <<setup, api_queue, results, call, notifier, asked>>
        /\ cam.prepping /\ cam' = [cam EXCEPT !.prepping = FALSE]
        /\ evt_queue' = Append(evt_queue, Msg("PREP_SNAPSHOT_DONE", "none", cam.shot))
        /\ reported' = [reported EXCEPT !.prepared = cam.shot]
    BY <1>5 DEF PrepSnapshotDone, Event
  <2>2. /\ reported'.ready = reported.ready
        /\ reported' \in [{"done", "ready", "prepared", "stop"} -> Nat]
    BY <1>0, <2>1
  <2>3. Differs(cam, cam', {"prepping"}) /\ ~cam'.prepping
    <3>1. "prepping" \in Fields /\ FALSE \in Sorts["prepping"]
      BY SortsAre DEF Fields
    <3> QED BY <1>0, <2>1, <3>1, Put
  <2>4. /\ cam'.shot = cam.shot /\ cam'.shots = cam.shots /\ cam'.live = cam.live
        /\ cam'.snapshot = cam.snapshot /\ cam'.dead = cam.dead
    BY <2>3 DEF Differs, Fields
  <2>5. Differs(cam, cam', Touched)
    BY <2>3, DiffersMore DEF Touched
  <2>6. Fits(cam')
    BY <1>0, <2>4, <2>5, TouchedFits DEF Fits
  <2>7. Aside("none", "PREP_SNAPSHOT_DONE")
    BY <1>0, <1>1, <2>1, <2>2, <2>3, <2>4, <2>5, <2>6 DEF Aside
  <2> QED BY <2>7
<1>6. CASE ReadyForSnapshot
  <2>1. /\ UNCHANGED <<setup, cam, api_queue, results, call, notifier, asked>>
        /\ cam.retro /\ cam.st = "PREVIEW_PIC_TAKING" /\ reported.ready # cam.shots
        /\ evt_queue' = Append(evt_queue, Msg("READY_FOR_SNAPSHOT", "none", cam.shot))
        /\ reported' = [reported EXCEPT !.ready = cam.shots]
    BY <1>6 DEF ReadyForSnapshot, Event
  <2>2. /\ reported'.ready = cam.shots
        /\ reported' \in [{"done", "ready", "prepared", "stop"} -> Nat]
    BY <1>0, <2>1
  <2>3. Coming
    BY <2>1 DEF Coming, PPT
  <2>4. Aside("none", "READY_FOR_SNAPSHOT")
    BY <1>0, <1>1, <1>2, <2>1, <2>2, <2>3 DEF Aside
  <2> QED BY <2>4
<1>7. CASE DaemonDies
  <2>1. /\ UNCHANGED <<setup, api_queue, results, call, notifier, reported, asked>> /\ DaemonMayDie
        /\ cam' = [cam EXCEPT !.dead = TRUE, !.prepping = FALSE]
        /\ evt_queue' = Append(evt_queue, Msg("DAEMON_DIED", "none", cam.shot))
    BY <1>7 DEF DaemonDies, Event
  <2> DEFINE a == [cam EXCEPT !.dead = TRUE]
             h == [a EXCEPT !.prepping = FALSE]
  <2>2. /\ "dead" \in Fields /\ "prepping" \in Fields
        /\ TRUE \in Sorts["dead"] /\ FALSE \in Sorts["prepping"]
    BY SortsAre DEF Fields
  <2>3. cam' = h
    BY <2>1
  <2>4. Differs(cam, a, {"dead"}) /\ a.dead
    BY <1>0, <2>2, Put
  <2> HIDE DEF a
  <2>5. Differs(a, h, {"prepping"}) /\ ~h.prepping
    <3>1. Typed(a)
      BY <2>4 DEF Differs
    <3> QED BY <2>2, <3>1, Put
  <2> HIDE DEF h
  <2>6. /\ cam'.shot = cam.shot /\ cam'.shots = cam.shots /\ cam'.live = cam.live
        /\ cam'.snapshot = cam.snapshot /\ cam'.dead /\ ~cam'.prepping
    BY <2>3, <2>4, <2>5 DEF Differs, Fields
  <2>7. Differs(cam, cam', {"dead", "prepping"})
    BY <2>3, <2>4, <2>5, DiffersThen
  <2>8. Differs(cam, cam', Touched)
    BY <2>7, DiffersMore DEF Touched
  <2>9. Fits(cam')
    <3>1. cam.shot \in {0, cam.shots}
      BY <1>0 DEF Fits
    <3>2. /\ cam'.shot \in {0, cam'.shots}
          /\ (cam'.live \in {"take", "taking"} => cam.live \in {"take", "taking"})
          /\ (cam'.snapshot = "none" => cam.snapshot = "none")
      BY <2>6, <3>1
    <3>3. (cam.dead => cam'.dead) /\ (cam'.dead => DaemonMayDie)
      BY <2>1, <2>6
    <3> QED BY <1>0, <2>8, <3>2, <3>3, TouchedFits
  <2>10. Aside("none", "DAEMON_DIED")
    BY <1>0, <1>1, <2>1, <2>6, <2>8, <2>9 DEF Aside
  <2> QED BY <2>10
<1> QED BY <1>3, <1>4, <1>5, <1>6, <1>7

LEMMA AsideCommon ==
    ASSUME Common, NEW x, NEW y, Aside(x, y)
    PROVE  /\ Common'
           /\ \A z : z # x => NoMore(api_queue, api_queue', z)
           /\ \A z : z # y => NoMore(evt_queue, evt_queue', z)
           /\ y \in EventKinds /\ At(evt_queue, y) = {} => OneOf(At(evt_queue', y))
           /\ \A z : Queued(z) => At(api_queue', z) # {}
           /\ \A j \in DOMAIN api_queue' : \/ api_queue'[j].evt = x
                                           \/ j \in DOMAIN api_queue /\ api_queue'[j] = api_queue[j]
<1>0. /\ setup' = setup /\ Fits(cam') /\ api_queue \in Queue(Orders) /\ evt_queue \in Queue(EventKinds)
  BY DEF Common, Queues, Aside, EventKinds
<1>1. {"CANCEL_PICTURE", "STOP_CAPTURE_CHANNEL"} \subseteq Orders
  BY DEF Orders, Requests, Reports
<1>2. ASSUME NEW z \in Orders, NEW n \in Nat
      PROVE  /\ Append(api_queue, Msg(z, "none", n)) \in Queue(Orders)
             /\ \A w : w # z => NoMore(api_queue, Append(api_queue, Msg(z, "none", n)), w)
             /\ \A w : Queued(w) => At(Append(api_queue, Msg(z, "none", n)), w) # {}
             /\ \A j \in DOMAIN Append(api_queue, Msg(z, "none", n)) :
                    \/ Append(api_queue, Msg(z, "none", n))[j].evt = z
                    \/ j \in DOMAIN api_queue
                       /\ Append(api_queue, Msg(z, "none", n))[j] = api_queue[j]
  <2>1. /\ Append(api_queue, Msg(z, "none", n)) \in Queue(Orders)
        /\ \A w : w # z => NoMore(api_queue, Append(api_queue, Msg(z, "none", n)), w)
        /\ \A w : At(api_queue, w) # {} => At(Append(api_queue, Msg(z, "none", n)), w) # {}
    BY <1>0, <1>2, QueueAppends
  <2>2. \A j \in DOMAIN Append(api_queue, Msg(z, "none", n)) :
            \/ Append(api_queue, Msg(z, "none", n))[j] = Msg(z, "none", n)
            \/ j \in DOMAIN api_queue /\ Append(api_queue, Msg(z, "none", n))[j] = api_queue[j]
    BY <1>0, Appends DEF Queue
  <2>3. Msg(z, "none", n).evt = z
    BY DEF Msg
  <2> QED BY <2>1, <2>2, <2>3 DEF Queued
<1>3. /\ api_queue' \in Queue(Orders)
      /\ \A z : z # x => NoMore(api_queue, api_queue', z)
      /\ \A z : Queued(z) => At(api_queue', z) # {}
      /\ \A j \in DOMAIN api_queue' : \/ api_queue'[j].evt = x
                                      \/ j \in DOMAIN api_queue /\ api_queue'[j] = api_queue[j]
  <2>1. CASE api_queue' = api_queue
    BY <1>0, <2>1, NoMoreIt DEF Queued
  <2>2. CASE api_queue' # api_queue
    <3>1. PICK n \in Nat : api_queue' = Append(api_queue, Msg(x, "none", n)) /\ x \in Orders
      BY <1>1, <2>2 DEF Aside
    <3> QED BY <1>2, <3>1
  <2> QED BY <2>1, <2>2
<1>4. /\ evt_queue' \in Queue(EventKinds)
      /\ \A z : z # y => NoMore(evt_queue, evt_queue', z)
      /\ y \in EventKinds /\ At(evt_queue, y) = {} => OneOf(At(evt_queue', y))
  <2>1. CASE evt_queue' = evt_queue
    BY <1>0, <2>1, NoMoreIt DEF OneOf
  <2>2. CASE evt_queue' # evt_queue
    <3>1. PICK n \in Nat : evt_queue' = Append(evt_queue, Msg(y, "none", n)) /\ y \in EventKinds
      BY <2>2 DEF Aside
    <3> QED BY <1>0, <3>1, QueueAppends
  <2> QED BY <2>1, <2>2
<1>5. Queues'
  <2>1. NoLongShot' = NoLongShot /\ ZSL' = ZSL
    BY <1>0, SameSetup
  <2>2. x \notin {"LONGSHOT_ON", "LONGSHOT_OFF"} /\ (x = "STOP_CAPTURE_CHANNEL" => ~ZSL)
    BY DEF Aside
  <2>3. \A z : z # x => (Queued(z)' => Queued(z))
    BY <1>3 DEF NoMore, Queued
  <2>4. ~cam'.dead => ~cam.dead /\ y # "DAEMON_DIED"
    BY DEF Aside
  <2>5. ~cam'.dead => At(evt_queue', "DAEMON_DIED") = {}
    BY <1>4, <2>4 DEF Common, Queues, NoMore
  <2> QED BY <1>3, <1>4, <2>1, <2>2, <2>3, <2>5 DEF Common, Queues, EventKinds
<1>6. Callings'
  <2>1. \A api : Awaited(api)' = Awaited(api)
    BY <1>0, SameSetup DEF Awaited
  <2> QED BY <1>0, <2>1, SameSetup DEF Common, Callings, App, Aside
<1>7. Common'
  BY <1>0, <1>5, <1>6, SameSetup DEF Common, Aside
<1> QED BY <1>3, <1>4, <1>7

LEMMA InternalCommon ==
    ASSUME Common, InternalPicture \/ InternalDone
    PROVE  Common' /\ InternalPics
<1>0. /\ setup \in Setups /\ Fits(cam) /\ Typed(cam) /\ cam.shot \in Nat
      /\ api_queue \in Queue(Orders) /\ call \in [Callers -> Waits]
      /\ reported \in [{"done", "ready", "prepared", "stop"} -> Nat]
  BY SortsAre DEF Common, Queues, Callings, Fits, Typed, Fields
<1>1. CASE InternalPicture
  <2>1. Goes("int", "internal", "none", TRUE)
    BY <1>1 DEF InternalPicture, Goes, Begun
  <2>2. results' = results /\ asked' = asked /\ InternalPics
    BY <1>1 DEF InternalPicture
  <2> QED BY <2>1, <2>2, GoesCommon, CallersAre DEF Common
<1>2. CASE InternalDone
  <2>1. /\ call["int"].evt \in {"taken", "clear"}
        /\ UNCHANGED <<setup, cam, evt_queue, results, notifier, asked>>
    BY <1>2 DEF InternalDone
  <2>2. call["int"].api = "internal" /\ InternalPics
    BY <2>1, CallersAre DEF Common, Callings, Awaited
  <2>3. {"SNAPSHOT_DONE", "START_PREVIEW"} \subseteq Orders
    BY EventsAre DEF Orders, Requests, Settings
  <2>4. ASSUME NEW z \in {"SNAPSHOT_DONE", "START_PREVIEW"}, NEW n \in Nat
        PROVE  /\ Append(api_queue, Msg(z, "none", n)) \in Queue(Orders)
               /\ \A w : w # z => NoMore(api_queue, Append(api_queue, Msg(z, "none", n)), w)
    BY <1>0, <2>3, <2>4, QueueAppends
  <2>5. \/ api_queue' = api_queue
        \/ \E z \in {"SNAPSHOT_DONE", "START_PREVIEW"}, n \in Nat :
               api_queue' = Append(api_queue, Msg(z, "none", n))
    <3>1. 0 \in Nat
      OBVIOUS
    <3> QED BY <1>0, <1>2, <3>1 DEF InternalDone
  <2>6. /\ api_queue' \in Queue(Orders)
        /\ \A w \in {"LONGSHOT_ON", "LONGSHOT_OFF", "STOP_CAPTURE_CHANNEL"} :
               NoMore(api_queue, api_queue', w)
    BY <1>0, <2>4, <2>5, NoMoreIt
  <2>7. Queues'
    BY <2>1, <2>6, SameSetup DEF Common, Queues, Queued, NoMore
  <2>8. \/ call' = [call EXCEPT !["int"] = Idle]
        \/ call' = [call EXCEPT !["int"] = [@ EXCEPT !.evt = "clear"]]
    BY <1>2 DEF InternalDone
  <2>9. /\ call' \in [Callers -> Waits] /\ call'["app"] = call["app"]
        /\ call'["int"].api \in {"none", "internal"}
        /\ call'["int"].evt \in Awaited(call'["int"].api)
    <3>1. Idle \in Waits /\ Idle.api = "none" /\ Idle.evt = "none"
      BY DEF Idle, Waits
    <3>2. [call["int"] EXCEPT !.evt = "clear"] \in Waits
      BY <1>0, CallersAre DEF Waits
    <3>3. "none" \in Awaited("none") /\ "clear" \in Awaited("internal")
      BY DEF Awaited
    <3>4. [call["int"] EXCEPT !.evt = "clear"].api = "internal"
          /\ [call["int"] EXCEPT !.evt = "clear"].evt = "clear"
      BY <1>0, <2>2, CallersAre DEF Waits
    <3>5. PICK w : call' = [call EXCEPT !["int"] = w] /\ w \in {Idle, [call["int"] EXCEPT !.evt = "clear"]}
      BY <2>8
    <3> QED BY <1>0, <3>1, <3>2, <3>3, <3>4, <3>5, CallersAre
  <2>10. Callings'
    <3>1. \A api : Awaited(api)' = Awaited(api)
      BY <2>1, SameSetup DEF Awaited
    <3> QED BY <2>1, <2>2, <2>9, <3>1, SameSetup, CallersAre DEF Common, Callings, App
  <2>11. reported' \in [{"done", "ready", "prepared", "stop"} -> Nat]
    BY <1>0, <1>2 DEF InternalDone
  <2> QED BY <1>0, <2>1, <2>2, <2>7, <2>10, <2>11, SameSetup DEF Common
<1> QED BY <1>1, <1>2

\* A step of the application's call, from its request e to its request f.
Turns(api, e, ok, f) ==
    /\ f = Following(api, e, ok, cam')
    /\ api \in AppCalls /\ e \in Awaited(api) \cup {"none"} /\ e \notin {"taken", "clear"}
    /\ App.evt = e /\ (e # "none" => App.api = api)
    /\ f # "none" => f \in Awaited(api)
    /\ call'["app"].evt = f /\ ~call'["app"].seen
    /\ call'["app"].api = IF f = "none" THEN "none" ELSE api
    /\ Differs(cam, cam', Steered)
    /\ e # "none" => cam'.retro = cam.retro
    /\ e = "none" => /\ cam'.retro => cam.retro \/ api = "take_retro"
                     /\ api = "take_retro" => cam'.retro /\ ~cam.longshot /\ Retro /\ ZSL
                     /\ EarlyFrames /\ api = "take_picture" => cam.longshot \/ isRecording(cam)
    /\ e # "none" => \E i \in At(results, e) : ok = results[i].ok
    /\ UNCHANGED <<setup, evt_queue, reported>>
    /\ Fewer(results, results')
    /\ \A x : x # f => NoMore(api_queue, api_queue', x)
    /\ f # "none" => At(api_queue', f) # {}
    /\ \A x \in Whole : ~Queued(x) /\ OneOf(At(api_queue', x)) /\ At(results', x) = {}
    /\ \A j \in DOMAIN api_queue' : \/ api_queue'[j].by = "app"
                                    \/ j \in DOMAIN api_queue /\ api_queue'[j] = api_queue[j]

LEMMA GoesTurns ==
    ASSUME Common, Once, NEW api, NEW e, NEW ok, Goes("app", api, e, ok),
           App.evt = e, e # "none" => App.api = api,
           Fewer(results, results'), \A x \in Whole : ~Queued(x) /\ At(results', x) = {},
           e # "none" => \E i \in At(results, e) : ok = results[i].ok,
           e = "none" /\ api = "take_retro" => ~cam.longshot
    PROVE  \E f : Turns(api, e, ok, f)
<1>1. PICK f : /\ f = Following(api, e, ok, cam')
               /\ GoesOn("app", api, f)
               /\ f = "none" \/ f \in Awaited(api)
               /\ Differs(cam, cam', Steered)
               /\ e # "none" => cam'.retro = cam.retro
               /\ e = "none" => (cam'.retro <=> api = "take_retro"
                                    \/ (cam.retro /\ api \notin {"take_picture", "internal"}))
  BY GoesAre, CallersAre
<1>2. /\ api \in AppCalls /\ e \in Awaited(api) \cup {"none"} /\ e \notin {"taken", "clear"}
      /\ api \in Apis \/ (api = "take_retro" /\ Retro /\ ZSL)
      /\ UNCHANGED <<setup, evt_queue, reported>>
      /\ e = "none" => Begun(api)
  BY DEF Goes
<1>3. "internal" \notin AppCalls /\ "take_retro" \notin Apis
  BY QCameraStateMachineAssumption DEF AppCalls, PublicCalls, Apis, Common
<1>4. f # "none" => f \in Orders \ Reports /\ f \notin {"taken", "clear"}
  BY <1>1, <1>2, <1>3, AwaitedBy
<1>5. /\ f = "none" => api_queue' = api_queue
      /\ f # "none" => api_queue' = Append(api_queue, Msg(f, "app", 0))
      /\ call'["app"].evt = f /\ ~call'["app"].seen
      /\ call'["app"].api = IF f = "none" THEN "none" ELSE api
  BY <1>1, <1>4 DEF GoesOn, Idle
<1>6. api_queue \in Queue(Orders)
  BY DEF Common, Queues
<1>7. ASSUME f # "none"
      PROVE  /\ \A x : x # f => NoMore(api_queue, Append(api_queue, Msg(f, "app", 0)), x)
             /\ At(api_queue, f) = {} => OneOf(At(Append(api_queue, Msg(f, "app", 0)), f))
             /\ At(Append(api_queue, Msg(f, "app", 0)), f) # {}
  BY <1>4, <1>6, <1>7, QueueAppends, CallersAre
<1>8. \A x : x # f => NoMore(api_queue, api_queue', x)
  BY <1>5, <1>7, NoMoreIt
<1>9. f # "none" => At(api_queue', f) # {} /\ (At(api_queue, f) = {} => OneOf(At(api_queue', f)))
  BY <1>5, <1>7
<1>10. \A x \in Whole : OneOf(At(api_queue', x))
  <2> SUFFICES ASSUME NEW x \in Whole PROVE OneOf(At(api_queue', x))
    OBVIOUS
  <2>1. At(api_queue, x) = {} /\ OneOf(At(api_queue, x)) /\ x \in Requests
    BY RequestsAre DEF Queued, OneOf, Whole
  <2>2. x # "none"
    BY <2>1, RequestsAre
  <2> QED BY <1>8, <1>9, <2>1, <2>2 DEF NoMore
<1>11. \A j \in DOMAIN api_queue' : \/ api_queue'[j].by = "app"
                                    \/ j \in DOMAIN api_queue /\ api_queue'[j] = api_queue[j]
  <2>1. CASE f = "none"
    BY <1>5, <2>1
  <2>2. CASE f # "none"
    <3>1. \A j \in DOMAIN Append(api_queue, Msg(f, "app", 0)) :
              \/ Append(api_queue, Msg(f, "app", 0))[j] = Msg(f, "app", 0)
              \/ j \in DOMAIN api_queue /\ Append(api_queue, Msg(f, "app", 0))[j] = api_queue[j]
      BY <1>6, Appends DEF Queue
    <3>2. Msg(f, "app", 0).by = "app"
      BY DEF Msg
    <3> QED BY <1>5, <2>2, <3>1, <3>2
  <2> QED BY <2>1, <2>2
<1>12. e = "none" => /\ cam'.retro => cam.retro \/ api = "take_retro"
                     /\ api = "take_retro" => cam'.retro /\ ~cam.longshot /\ Retro /\ ZSL
                     /\ EarlyFrames /\ api = "take_picture" => cam.longshot \/ isRecording(cam)
  BY <1>1, <1>2, <1>3 DEF Begun
<1>13. Turns(api, e, ok, f)
  BY <1>1, <1>2, <1>5, <1>8, <1>9, <1>10, <1>11, <1>12 DEF Turns
<1> QED BY <1>13

LEMMA CallTurns ==
    ASSUME Common, Once, NEW api \in Apis, Call(api)
    PROVE  \E made, f : Turns(made, "none", TRUE, f)
<1>1. PICK made : /\ Goes("app", made, "none", TRUE)
                  /\ App = Idle /\ UNCHANGED <<results, asked>>
                  /\ made = "take_retro" => ~cam.longshot
  BY CallIs DEF Common
<1>2. App.evt = "none"
  BY <1>1 DEF Idle
<1>3. \A x \in Whole : ~Queued(x) /\ ~Answered(x)
  <2>1. "none" \notin Whole
    BY RequestsAre DEF Whole
  <2> QED BY <1>2, <2>1 DEF Once, Kept
<1>4. Fewer(results, results')
  BY <1>1, NoMoreIt DEF Fewer
<1> QED BY <1>1, <1>2, <1>3, <1>4, GoesTurns DEF Answered

LEMMA HearsTurns ==
    ASSUME Common, Once, NEW i, Hears("app", i)
    PROVE  \E f : Turns(App.api, App.evt, results[i].ok, f)
<1>1. /\ App.api # "none" /\ i \in At(results, App.evt)
      /\ Goes("app", App.api, App.evt, results[i].ok) /\ Fewer(results, results')
      /\ OneOf(At(results, App.evt)) => At(results', App.evt) = {}
  BY DEF Hears, App
<1>2. ASSUME NEW x \in Whole PROVE ~Queued(x) /\ At(results', x) = {}
  <2>1. Kept(x) /\ NoMore(results, results', x)
    BY <1>1 DEF Once, Fewer
  <2>2. CASE x = App.evt
    BY <1>1, <2>1, <2>2 DEF Kept, Answered
  <2>3. CASE x # App.evt
    BY <2>1, <2>3 DEF Kept, Answered, NoMore
  <2> QED BY <2>2, <2>3
<1>3. App.evt # "none"
  BY CallersAre, CallingsAre, <1>1 DEF Common, App
<1> QED BY <1>1, <1>2, <1>3, GoesTurns

\* The requests the state machine takes by their kind.
LEMMA ServedAre ==
    ASSUME Common, NEW e, NEW o, Serves(e, o)
    PROVE  /\ e \in Whole \cup Loose
           /\ e \notin Reports => e \in Orders /\ e \notin EventKinds /\ Queued(e) /\ Asks(e) = e
           /\ e \in Reports \ {"DAEMON_DIED"}
              => Asks(e) \in {"PREPARE_SNAPSHOT", "TAKE_PICTURE"} \cup Reports
           /\ cam'.dead = cam.dead => Whole' = Whole
<1>1. e \in Requests \cup {"DAEMON_DIED"} /\ (e \notin EventKinds => Queued(e)) /\ setup' = setup
  BY DEF Serves, Taken
<1>2. EventKinds \subseteq Reports /\ Requests \subseteq Orders \cup Reports
  BY EventsAre DEF Orders, Reports
<1>3. e \notin Reports => Asks(e) = e
  BY DEF Asks, Reports
<1>4. e \in Reports => Asks(e) \in {"PREPARE_SNAPSHOT", "TAKE_PICTURE"} \cup Reports
  BY DEF Asks
<1>5. cam'.dead = cam.dead => Whole' = Whole
  BY <1>1, SameSetup DEF Whole, Loose
<1>6. Reports \subseteq Loose /\ "DAEMON_DIED" \in Reports
  BY DEF Loose, Reports
<1> QED BY <1>1, <1>2, <1>3, <1>4, <1>5, <1>6 DEF Whole

LEMMA WholeAre ==
    /\ \A x \in Whole : x \in Orders /\ x \notin Reports /\ x # "PREPARE_SNAPSHOT" /\ x # "none"
    /\ "TAKE_PICTURE" \in Whole <=> ~cam.dead
    /\ "CANCEL_PICTURE" \in Whole <=> Healthy
    /\ {"SET_PARAMS", "SET_PARAMS_STOP", "SET_PARAMS_COMMIT", "SET_PARAMS_RESTART",
        "RESTART_STOP_PREVIEW", "RESTART_START_PREVIEW", "LONGSHOT_ON",
        "SEND_COMMAND_RESTART"} \subseteq Whole
<1>1. \A x \in Whole : x \in Orders /\ x \notin Reports /\ x # "PREPARE_SNAPSHOT"
  BY DEF Whole, Loose
<1>2. \A x \in Orders : x # "none"
  BY RequestsAre
<1>3. {"TAKE_PICTURE", "CANCEL_PICTURE", "SET_PARAMS"} \subseteq Orders
  BY DEF Orders, Requests, StoppedRefuses, Settings
<1>4. {"TAKE_PICTURE", "CANCEL_PICTURE", "SET_PARAMS"} \cap Reports = {}
  BY DEF Reports
<1>5. /\ "TAKE_PICTURE" \in Whole <=> ~cam.dead
      /\ "CANCEL_PICTURE" \in Whole <=> Healthy
      /\ "SET_PARAMS" \in Whole
  BY <1>3, <1>4 DEF Whole, Loose
<1> QED BY <1>1, <1>2, <1>5, RequestsAre DEF Whole

LEMMA HandleOnce ==
    ASSUME FitInv, ~InternalPics, NEW e, NEW o, Serves(e, o)
    PROVE  Once'
<1>1. Common /\ Once /\ (~cam.dead => Frames)
  BY DEF FitInv
<1>2. cam'.dead = cam.dead /\ (e = "DAEMON_DIED" => cam.dead)
  BY HandleFits DEF Fitting
<1>3. Whole' = Whole /\ App'.evt = App.evt
  BY <1>1, <1>2, ServedAre, CallersAre DEF Serves, App
<1>4. ASSUME NEW x \in Whole PROVE Kept(x)'
  <2>1. Kept(x) /\ NoMore(api_queue, api_queue', x) /\ x \in Orders /\ x \notin Reports
    BY <1>1, WholeAre DEF Once, Serves, Taken, Fewer
  <2>2. CASE At(results', x) = At(results, x)
    BY <1>3, <2>1, <2>2 DEF Kept, NoMore, Queued, Answered
  <2>3. CASE At(results', x) # At(results, x)
    <3>1. e # "DAEMON_DIED"
      BY <1>2, <2>1, <2>3, SignalsAre, WholeAre
    <3>2. x = Asks(e)
      BY <2>3, <3>1, SignalsAre
    <3>3. At(results, x) = {} => OneOf(At(results', x))
      BY <3>1, <3>2 DEF Serves, Signals, Replied
    <3>4. CASE e \notin Reports
      <4>1. e = x /\ Queued(x) /\ x \notin EventKinds
        BY <1>1, <3>2, <3>4, ServedAre
      <4>2. At(api_queue', x) = {}
        BY <2>1, <4>1 DEF Serves, Taken, Kept
      <4> QED BY <1>3, <2>1, <3>3, <4>1, <4>2 DEF Kept, NoMore, Queued, Answered
    <3>5. CASE e \in Reports
      <4>1. x = "TAKE_PICTURE"
        BY <1>1, <2>1, <3>1, <3>2, <3>5, ServedAre, WholeAre
      <4>2. e = "READY_FOR_SNAPSHOT"
        BY <3>2, <3>5, <4>1 DEF Asks, Reports
      <4>3. At(evt_queue, e) # {} /\ Frames
        BY <1>1, <4>1, <4>2, WholeAre, EventsAre DEF Serves, Taken, Orders
      <4>4. App.evt = x /\ ~Queued(x) /\ ~Answered(x)
        BY <4>1, <4>2, <4>3 DEF Frames, Owing, Come
      <4> QED BY <1>3, <2>1, <3>3, <4>4 DEF Kept, NoMore, Queued, Answered
    <3> QED BY <3>4, <3>5
  <2> QED BY <2>2, <2>3
<1> QED BY <1>3, <1>4 DEF Once

LEMMA TurnOnce ==
    ASSUME Common, Once, NEW api, NEW e, NEW ok, NEW f, Turns(api, e, ok, f)
    PROVE  Once'
<1>1. Whole' = Whole
  <2>1. setup' = setup /\ cam'.dead = cam.dead
    BY DEF Turns, Differs, Fields, Steered
  <2> QED BY <2>1, SameSetup DEF Whole, Loose
<1>2. ASSUME NEW x \in Whole PROVE Kept(x)'
  <2>1. /\ ~Queued(x) /\ OneOf(At(api_queue', x)) /\ At(results', x) = {}
        /\ x # f => NoMore(api_queue, api_queue', x)
        /\ App'.evt = f
    BY DEF Turns, App
  <2> QED BY <2>1 DEF Kept, Queued, Answered, NoMore, OneOf
<1> QED BY <1>1, <1>2 DEF Once

LEMMA AsideOnce ==
    ASSUME Common, Once, NEW x, NEW y, Aside(x, y)
    PROVE  Once'
<1>1. Whole' \subseteq Whole /\ x \notin Whole'
  <2>1. setup' = setup /\ (cam.dead => cam'.dead) /\ (x = "CANCEL_PICTURE" => ~Healthy)
        /\ x \in {"none", "CANCEL_PICTURE", "STOP_CAPTURE_CHANNEL"}
    BY DEF Aside
  <2>2. Whole' \subseteq Whole
    BY <2>1, SameSetup DEF Whole, Loose
  <2>3. x \notin Whole
    BY <2>1, WholeAre DEF Reports
  <2> QED BY <2>2, <2>3
<1>2. ASSUME NEW z \in Whole' PROVE Kept(z)'
  <2>1. Kept(z) /\ NoMore(api_queue, api_queue', z) /\ results' = results /\ App' = App
    BY <1>1, AsideCommon DEF Once, Aside, App
  <2> QED BY <2>1 DEF Kept, Queued, Answered, NoMore
<1> QED BY <1>2 DEF Once

LEMMA DozesOnce ==
    ASSUME Common, Once, NEW c \in Callers, Dozes(c)
    PROVE  Once'
<1>1. /\ UNCHANGED <<setup, cam, api_queue, results>> /\ App'.evt = App.evt
  BY DozesCommon, CallersAre DEF Dozes, App
<1>2. Whole' = Whole
  BY <1>1, SameSetup DEF Whole, Loose
<1> QED BY <1>1, <1>2 DEF Once, Kept, Queued, Answered
--------------------------------------------------------------------------------
(* A picture is asked for as its kind of frames need.                      *)

LEMMA HandlePictures ==
    ASSUME FitInv, ~InternalPics, NEW e, NEW o, Serves(e, o)
    PROVE  Pictures' /\ Restarting'
<1>1. Common /\ Once /\ Pictures /\ Restarting
  BY DEF FitInv
<1>2. Fitting(cam, e, cam')
  BY HandleFits
<1>3. App'.evt = App.evt /\ App'.api = App.api /\ setup' = setup /\ EarlyFrames' = EarlyFrames
  BY SameSetup, CallersAre DEF Serves, App
<1>4. e \in Whole => Queued(e) /\ App.evt = e
  BY <1>1, ServedAre, WholeAre DEF Once, Kept
<1>5. ASSUME EarlyFrames, App.api = "take_picture" PROVE e \in Picturing
  <2>1. ~DualCamera
    BY <1>1, <1>5, QCameraStateMachineAssumption DEF Common, DualCamera, EarlyFrames, Retro
  <2>2. App.evt \in {"PREPARE_SNAPSHOT", "PRE_TAKE_PICTURE", "TAKE_PICTURE"}
    BY <1>1, <1>5, <2>1, CallersAre DEF Common, Callings, App, Awaited
  <2>3. Loose \subseteq Picturing
    BY DEF Loose, Picturing
  <2> QED BY <1>1, <1>4, <2>2, <2>3, ServedAre DEF Picturing
<1>6. Pictures'
  <2>1. cam'.retro = cam.retro
    BY <1>2 DEF Fitting
  <2>2. EarlyFrames /\ App.api = "take_picture"
        => (isRecording(cam') <=> isRecording(cam)) /\ cam'.longshot = cam.longshot
    BY <1>2, <1>5 DEF Fitting
  <2>3. isRecording(cam)' <=> isRecording(cam')
    BY DEF isRecording
  <2> QED BY <1>1, <1>3, <2>1, <2>2, <2>3 DEF Pictures
<1>7. Restarting'
  <2>1. App.evt = "SET_PARAMS_STOP" => e \notin {"SET_PARAMS", "SET_PARAMS_RESTART"}
    BY <1>4, WholeAre
  <2>2. e \notin {"SET_PARAMS", "SET_PARAMS_RESTART"} => cam'.needRestart = cam.needRestart
    BY <1>2 DEF Fitting
  <2> QED BY <1>1, <1>3, <2>1, <2>2 DEF Restarting
<1> QED BY <1>6, <1>7

LEMMA TurnPictures ==
    ASSUME Common, Pictures, NEW api, NEW e, NEW ok, NEW f, Turns(api, e, ok, f)
    PROVE  Pictures' /\ Restarting'
<1>1. setup' = setup /\ App'.api \in {"none", api} /\ App'.evt = f
  BY DEF Turns, App
<1>2. cam'.longshot = cam.longshot /\ cam'.st = cam.st /\ cam'.needRestart = cam.needRestart
      /\ cam'.needRestart \in BOOLEAN
  BY SortsAre DEF Turns, Differs, Typed, Fields, Steered
<1>3. isRecording(cam)' <=> isRecording(cam)
  BY <1>2 DEF isRecording
<1>4. Pictures'
  <2>1. api = "take_retro" => cam'.retro
    BY DEF Turns, Pictures
  <2>2. EarlyFrames /\ api = "take_picture" => cam.longshot \/ isRecording(cam)
    BY DEF Turns, Pictures
  <2> QED BY <1>1, <1>2, <1>3, <2>1, <2>2, SameSetup DEF Pictures
<1>5. Restarting'
  <2>1. /\ f = Following(api, e, ok, cam') /\ api \in AppCalls \cup {"internal"}
        /\ e \in Awaited(api) \cup {"none"} /\ e \notin {"taken", "clear"}
    BY DEF Turns
  <2>2. f = "SET_PARAMS_STOP" => cam'.needRestart
    <3>1. PICK k : k = cam'
      OBVIOUS
    <3>2. k.needRestart \in BOOLEAN
      BY <1>2, <3>1
    <3>3. Following(api, e, ok, k) = "SET_PARAMS_STOP" => k.needRestart
      BY <2>1, <3>2, FollowingOf
    <3> QED BY <2>1, <3>1, <3>3
  <2> QED BY <1>1, <2>2 DEF Restarting
<1> QED BY <1>4, <1>5

LEMMA AsidePictures ==
    ASSUME Common, Pictures, Restarting, NEW x, NEW y, Aside(x, y)
    PROVE  Pictures' /\ Restarting'
<1>1. setup' = setup /\ App' = App
  BY DEF Aside, App
<1>2. cam'.longshot = cam.longshot /\ cam'.st = cam.st /\ cam'.needRestart = cam.needRestart
      /\ cam'.retro = cam.retro
  BY DEF Aside, Differs, Fields, Touched
<1>3. isRecording(cam)' <=> isRecording(cam)
  BY <1>2 DEF isRecording
<1> QED BY <1>1, <1>2, <1>3, SameSetup DEF Pictures, Restarting

LEMMA DozesPictures ==
    ASSUME Common, Pictures, Restarting, NEW c \in Callers, Dozes(c)
    PROVE  Pictures' /\ Restarting'
<1>1. /\ UNCHANGED <<setup, cam>> /\ App'.evt = App.evt /\ App'.api = App.api
  BY DozesCommon, CallersAre DEF Dozes, App
<1> QED BY <1>1, SameSetup DEF Pictures, Restarting, isRecording

\* Frames that are owed were owed before, or a picture asks for them now.
LEMMA OwingAre ==
    ASSUME FitInv, NEW e, NEW o, Serves(e, o)
    PROVE  /\ Come' => Come
           /\ Coming' => Coming \/ e = "TAKE_PICTURE"
<1>1. "READY_FOR_SNAPSHOT" \in EventKinds \ {"SNAPSHOT_DONE"}
  BY EventsAre
<1>2. Come' => Come
  BY <1>1 DEF Serves, Taken, NoMore, Come
<1>3. Fitting(cam, e, cam')
  BY HandleFits
<1>4. Coming' => Coming \/ e = "TAKE_PICTURE"
  BY <1>3 DEF Serves, Fitting, Coming
<1> QED BY <1>2, <1>4

LEMMA HandleFrames ==
    ASSUME FitInv, ~InternalPics, ~cam'.dead, NEW e, NEW o, Serves(e, o)
    PROVE  Frames'
<1>1. ~cam.dead /\ e # "DAEMON_DIED" /\ cam'.retro = cam.retro
  BY HandleFits DEF Fitting
<1>2. Common /\ Once /\ Frames
  BY <1>1 DEF FitInv
<1>3. (Come' => Come) /\ (Coming' => Coming \/ e = "TAKE_PICTURE")
  BY OwingAre
<1>4. /\ App'.evt = App.evt /\ (Queued("TAKE_PICTURE")' => Queued("TAKE_PICTURE"))
      /\ OneOf(At(evt_queue', "READY_FOR_SNAPSHOT"))
  <2>1. App'.evt = App.evt
    BY CallersAre DEF Serves, App
  <2>2. Queued("TAKE_PICTURE")' => Queued("TAKE_PICTURE")
    BY DEF Serves, Taken, Fewer, NoMore, Queued
  <2>3. NoMore(evt_queue, evt_queue', "READY_FOR_SNAPSHOT")
    BY EventsAre DEF Serves, Taken
  <2> QED BY <1>2, <2>1, <2>2, <2>3 DEF Frames, NoMore
<1>5. CASE e = "TAKE_PICTURE"
  <2>1. Kept(e) /\ Queued(e) /\ e \notin EventKinds
    BY <1>1, <1>2, <1>5, ServedAre, WholeAre, EventsAre DEF Once, Reports
  <2>2. ~Come /\ ~Coming /\ App.evt = e /\ ~Answered(e) /\ ~Queued(e)'
    BY <1>2, <1>5, <2>1 DEF Frames, Owing, Kept, Serves, Taken, Queued
  <2>3. Coming' => ~Answered(e)'
    <3> SUFFICES ASSUME Coming' PROVE ~Answered(e)'
      OBVIOUS
    <3>1. o \in Outcomes(cam, "TAKE_PICTURE") /\ o.cam = cam' /\ Typed(cam)
      BY <1>2, <1>5 DEF Serves, Common, Fits
    <3>2. o.cam.st = PPT /\ o.cam.retro
      BY <3>1 DEF Coming
    <3>3. o.cam = cam \/ o.replies = <<>>
      BY <3>1, <3>2, PictureAnswers
    <3>4. o.cam # cam
      BY <2>2, <3>1 DEF Coming, Serves
    <3>5. results' = results
      BY <1>1, <3>3, <3>4 DEF Serves, Signals, Replied
    <3> QED BY <2>2, <3>5 DEF Answered
  <2> QED BY <1>3, <1>4, <1>5, <2>2, <2>3 DEF Frames, Owing
<1>6. CASE e = "READY_FOR_SNAPSHOT"
  <2>1. At(evt_queue, e) # {} /\ At(evt_queue', e) = {}
    <3>1. e \notin Orders
      BY <1>6 DEF Orders
    <3> QED BY <1>2, <1>6, <3>1 DEF Serves, Taken, Frames
  <2>2. ~Come' /\ ~Coming'
    BY <1>2, <1>3, <1>6, <2>1 DEF Come, Frames
  <2> QED BY <1>4, <2>2 DEF Frames, Owing
<1>7. CASE e \notin {"TAKE_PICTURE", "READY_FOR_SNAPSHOT"}
  <2>1. Asks(e) # "TAKE_PICTURE"
    BY <1>7 DEF Asks
  <2>2. Answered("TAKE_PICTURE")' <=> Answered("TAKE_PICTURE")
    BY <1>1, <2>1, SignalsAre DEF Answered
  <2> QED BY <1>2, <1>3, <1>4, <1>7, <2>2 DEF Frames, Owing
<1> QED BY <1>5, <1>6, <1>7

LEMMA TurnFrames ==
    ASSUME Common, Once, ~InternalPics, ~cam.dead, Frames,
           NEW api, NEW e, NEW ok, NEW f, Turns(api, e, ok, f)
    PROVE  Frames' /\ ~Owing /\ ~Owing'
<1>1. ~Owing
  <2>1. e # "none" => Answered(e)
    BY DEF Turns, Answered
  <2> QED BY <2>1 DEF Turns, Frames
<1>2. cam'.st = cam.st /\ cam'.shots = cam.shots /\ reported' = reported /\ evt_queue' = evt_queue
  BY DEF Turns, Differs, Fields, Steered
<1>3. cam'.retro /\ ~cam.retro => cam.st # PPT
  <2> SUFFICES ASSUME cam'.retro, ~cam.retro PROVE cam.st # PPT
    OBVIOUS
  <2>1. e = "none" /\ api = "take_retro" /\ ~cam.longshot /\ Retro /\ ZSL
    BY DEF Turns
  <2> QED BY <2>1 DEF Common, Fits, EarlyFrames
<1>4. ~Owing'
  BY <1>1, <1>2, <1>3 DEF Owing, Coming, Come
<1>5. Frames'
  BY <1>2, <1>4 DEF Frames, Owing
<1> QED BY <1>1, <1>4, <1>5

LEMMA AsideFrames ==
    ASSUME Common, Frames, ~cam'.dead, NEW x, NEW y, Aside(x, y)
    PROVE  Frames' /\ (Owing' => Owing)
<1>1. /\ x # "TAKE_PICTURE" /\ cam'.st = cam.st /\ cam'.retro = cam.retro /\ App' = App
      /\ cam.st = PPT => cam'.shots = cam.shots
      /\ results' = results
  BY DEF Aside, Differs, Fields, Touched, App, PPT
<1>2. /\ Queued("TAKE_PICTURE")' => Queued("TAKE_PICTURE")
      /\ Answered("TAKE_PICTURE")' <=> Answered("TAKE_PICTURE")
  <2>1. NoMore(api_queue, api_queue', "TAKE_PICTURE")
    BY <1>1, AsideCommon
  <2> QED BY <1>1, <2>1 DEF NoMore, Queued, Answered
<1>3. CASE y = "READY_FOR_SNAPSHOT"
  <2>1. Coming /\ ~Coming'
    BY <1>1, <1>3 DEF Aside, Coming
  <2>2. At(evt_queue, y) = {}
    BY <1>3, <2>1 DEF Frames, Come
  <2>3. OneOf(At(evt_queue', y))
    BY <1>3, <2>2, AsideCommon, EventsAre
  <2> QED BY <1>1, <1>2, <1>3, <2>1, <2>3 DEF Frames, Owing
<1>4. CASE y # "READY_FOR_SNAPSHOT"
  <2>1. NoMore(evt_queue, evt_queue', "READY_FOR_SNAPSHOT")
    BY <1>4, AsideCommon
  <2>2. Coming' => Coming
    BY <1>1, <1>4 DEF Aside, Coming
  <2> QED BY <1>1, <1>2, <2>1, <2>2 DEF Frames, Owing, Come, NoMore
<1> QED BY <1>3, <1>4

LEMMA DozesFrames ==
    ASSUME Common, Frames, NEW c \in Callers, Dozes(c)
    PROVE  Frames' /\ (Owing' => Owing)
<1>1. /\ UNCHANGED <<cam, api_queue, evt_queue, results, reported>> /\ App'.evt = App.evt
  BY DozesCommon, CallersAre DEF Dozes, App
<1> QED BY <1>1 DEF Frames, Owing, Come, Coming, Queued, Answered
--------------------------------------------------------------------------------
(* A preview stopped for new parameters stays so until it is started for   *)
(* them.                                                                   *)

\* What is under way between the halves of set_parameters is so by its call.
LEMMA StopsOf ==
    ASSUME Once, Stops
    PROVE  /\ Ok("SET_PARAMS_STOP") => Answered("SET_PARAMS_STOP") /\ App.evt = "SET_PARAMS_STOP"
           /\ Queued("SET_PARAMS_RESTART") => App.evt = "SET_PARAMS_RESTART"
           /\ App.evt \in {"SET_PARAMS_STOP", "SET_PARAMS_COMMIT", "SET_PARAMS_RESTART"}
<1>1. Kept("SET_PARAMS_STOP") /\ Kept("SET_PARAMS_RESTART")
  BY WholeAre DEF Once
<1>2. Ok("SET_PARAMS_STOP") => Answered("SET_PARAMS_STOP")
  BY DEF Ok, Answered
<1> QED BY <1>1, <1>2 DEF Kept, Stops

LEMMA HandleStops ==
    ASSUME FitInv, ~InternalPics, NEW e, NEW o, Serves(e, o), Stops', e # "SET_PARAMS_STOP"
    PROVE  /\ Stops
           /\ e \notin {"SET_PARAMS", "SET_PARAMS_RESTART"}
<1>1. Common /\ Once
  BY DEF FitInv
<1>2. App'.evt = App.evt
  BY CallersAre DEF Serves, App
<1>3. At(results', "SET_PARAMS_STOP") = At(results, "SET_PARAMS_STOP")
  <2>1. Asks(e) # "SET_PARAMS_STOP"
    BY DEF Asks
  <2> QED BY <2>1, SignalsAre
<1>4. Ok("SET_PARAMS_STOP")' => Ok("SET_PARAMS_STOP")
  <2>1. ASSUME NEW i \in At(results', "SET_PARAMS_STOP") PROVE results'[i] = results[i]
    <3>1. i \in DOMAIN results
      BY <1>3 DEF At
    <3> QED BY <3>1, SignalsAre
  <2> QED BY <1>3, <2>1 DEF Ok
<1>5. Queued("SET_PARAMS_RESTART")' => Queued("SET_PARAMS_RESTART") /\ e # "SET_PARAMS_RESTART"
  <2>1. Queued("SET_PARAMS_RESTART")' => Queued("SET_PARAMS_RESTART")
    BY DEF Serves, Taken, Fewer, NoMore, Queued
  <2>2. Kept("SET_PARAMS_RESTART") /\ "SET_PARAMS_RESTART" \notin EventKinds
    BY <1>1, WholeAre, EventsAre DEF Once
  <2>3. e = "SET_PARAMS_RESTART" => ~Queued("SET_PARAMS_RESTART")'
    BY <2>2 DEF Serves, Taken, Kept, Queued
  <2> QED BY <2>1, <2>3
<1>6. App.evt \in {"SET_PARAMS_STOP", "SET_PARAMS_COMMIT", "SET_PARAMS_RESTART"}
  <2>1. /\ Ok("SET_PARAMS_STOP") => App.evt = "SET_PARAMS_STOP"
        /\ Queued("SET_PARAMS_RESTART") => App.evt = "SET_PARAMS_RESTART"
    <3>1. Kept("SET_PARAMS_STOP") /\ Kept("SET_PARAMS_RESTART")
      BY <1>1, WholeAre DEF Once
    <3> QED BY <3>1 DEF Kept, Ok, Answered
  <2> QED BY <1>2, <1>4, <1>5, <2>1 DEF Stops
<1>7. e \in {"SET_PARAMS", "SET_PARAMS_RESTART"} => App.evt = e
  BY <1>1, ServedAre, WholeAre DEF Once, Kept, Reports
<1>8. e # "SET_PARAMS"
  BY <1>6, <1>7
<1>9. e # "SET_PARAMS_RESTART"
  <2> SUFFICES ASSUME e = "SET_PARAMS_RESTART" PROVE FALSE
    OBVIOUS
  <2>1. App.evt = "SET_PARAMS_RESTART" /\ Kept("SET_PARAMS_STOP")
    BY <1>1, <1>7, WholeAre DEF Once
  <2>2. ~Ok("SET_PARAMS_STOP")
    BY <2>1 DEF Kept, Ok, Answered
  <2> QED BY <1>2, <1>4, <1>5, <2>1, <2>2 DEF Stops
<1>10. cam'.needRestart = cam.needRestart
  BY <1>8, <1>9, HandleFits DEF Fitting
<1>11. Stops
  BY <1>2, <1>4, <1>5, <1>10 DEF Stops
<1> QED BY <1>8, <1>9, <1>11

LEMMA HandleNoneStarted ==
    ASSUME FitInv, Orderly, NEW e, NEW o, Serves(e, o)
    PROVE  NoneStarted'
<1>0. ~InternalPics /\ Common /\ Once /\ NoneStarted
  BY DEF FitInv, Orderly
<1>1. Readies(cam, e, cam')
  BY HandleFits DEF Fitting
<1> SUFFICES ASSUME Stops' PROVE Unprepared(cam')
  BY DEF NoneStarted, Unprepared
<1>2. CASE e = "SET_PARAMS_STOP"
  BY <1>1, <1>2 DEF Readies
<1>3. CASE e # "SET_PARAMS_STOP"
  <2>1. Stops /\ e \notin {"SET_PARAMS", "SET_PARAMS_RESTART"}
    BY <1>0, <1>3, HandleStops
  <2>2. Unprepared(cam)
    BY <1>0, <2>1 DEF NoneStarted
  <2>3. CASE e \in Loose \cup {"SET_PARAMS_COMMIT", "CANCEL_PICTURE"}
    <3>1. \/ e \in {"SET_PARAMS_COMMIT", "CANCEL_PICTURE", "PREPARE_SNAPSHOT"} \cup Reports
          \/ e = "TAKE_PICTURE" /\ cam.dead
      BY <2>3 DEF Loose
    <3> QED BY <1>1, <2>2, <3>1 DEF Readies
  <2>4. CASE e \notin Loose \cup {"SET_PARAMS_COMMIT", "CANCEL_PICTURE"}
    <3>1. e \in Whole /\ e \notin Reports
      BY <1>0, <2>4, ServedAre, WholeAre
    <3>2. Kept(e) /\ Queued(e)
      BY <1>0, <3>1, ServedAre DEF Once
    <3>3. App.evt = e
      BY <3>2 DEF Kept
    <3> QED BY <1>0, <1>3, <2>1, <2>4, <3>3, StopsOf
  <2> QED BY <2>3, <2>4
<1> QED BY <1>2, <1>3

LEMMA TurnNoneStarted ==
    ASSUME Common, Once, NoneStarted, NEW api, NEW e, NEW ok, NEW f, Turns(api, e, ok, f)
    PROVE  NoneStarted'
<1>1. /\ cam'.st = cam.st /\ cam'.preview = cam.preview /\ cam'.video = cam.video
      /\ cam'.needRestart = cam.needRestart /\ cam.needRestart \in BOOLEAN
  BY SortsAre DEF Common, Fits, Typed, Turns, Differs, Fields, Steered
<1>2. /\ f = Following(api, e, ok, cam') /\ api \in AppCalls \cup {"internal"}
      /\ e \in Awaited(api) \cup {"none"} /\ e \notin {"taken", "clear"} /\ App.evt = e /\ App'.evt = f
  BY DEF Turns, App
<1>3. PICK k : k = cam'
  OBVIOUS
<1>4. /\ f = "SET_PARAMS_COMMIT" /\ k.needRestart => e = "SET_PARAMS_STOP" /\ ok
      /\ f = "SET_PARAMS_RESTART" => e = "SET_PARAMS_COMMIT" /\ ok /\ k.needRestart
  <2>1. k.needRestart \in BOOLEAN /\ f = Following(api, e, ok, k)
    BY <1>1, <1>2, <1>3
  <2> QED BY <1>2, <2>1, FollowingOf
<1>5. Stops' => Stops
  <2>1. CASE Ok("SET_PARAMS_STOP")'
    <3>1. At(results', "SET_PARAMS_STOP") = {}
      BY WholeAre DEF Turns
    <3> QED BY <2>1, <3>1 DEF Ok
  <2>2. CASE f = "SET_PARAMS_COMMIT" /\ cam'.needRestart
    <3>1. e = "SET_PARAMS_STOP" /\ ok
      BY <1>3, <1>4, <2>2
    <3>2. Ok("SET_PARAMS_STOP")
      BY <3>1 DEF Turns, Ok
    <3> QED BY <3>2 DEF Stops
  <2>3. CASE Queued("SET_PARAMS_RESTART")'
    <3>1. f = "SET_PARAMS_RESTART"
      BY <2>3, WholeAre DEF Turns, Queued, NoMore
    <3> QED BY <1>1, <1>2, <1>3, <1>4, <3>1 DEF Stops
  <2> QED BY <1>2, <2>1, <2>2, <2>3 DEF Stops
<1> QED BY <1>1, <1>5 DEF NoneStarted, Unprepared

LEMMA AsideNoneStarted ==
    ASSUME Common, Once, NoneStarted, NEW x, NEW y, Aside(x, y)
    PROVE  NoneStarted'
<1>1. /\ cam'.st = cam.st /\ cam'.preview = cam.preview /\ cam'.video = cam.video
      /\ cam'.needRestart = cam.needRestart /\ results' = results /\ App' = App
  BY DEF Aside, Differs, Fields, Touched, App
<1>2. NoMore(api_queue, api_queue', "SET_PARAMS_RESTART")
  <2>1. x # "SET_PARAMS_RESTART"
    BY DEF Aside
  <2> QED BY <2>1, AsideCommon
<1>3. Stops' => Stops
  BY <1>1, <1>2 DEF Stops, Ok, Queued, NoMore
<1> QED BY <1>1, <1>3 DEF NoneStarted, Unprepared

LEMMA DozesNoneStarted ==
    ASSUME Common, NoneStarted, NEW c \in Callers, Dozes(c)
    PROVE  NoneStarted'
<1>1. /\ UNCHANGED <<cam, api_queue, results>> /\ App'.evt = App.evt
  BY DozesCommon, CallersAre DEF Dozes, App
<1> QED BY <1>1 DEF NoneStarted, Stops, Ok, Queued, Unprepared

(* A preview that does not run is about to be started again.               *)

\* With a healthy camera and no pictures of the backend's own every request is
\* under way once, for the call that waits for it.
LEMMA HealthyKept ==
    ASSUME FitInv, Healthy, ~InternalPics
    PROVE  /\ ~cam.dead /\ Alone /\ Tracked
           /\ \A x \in Orders \ Reports : Kept(x)
<1>1. ~cam.dead /\ Alone /\ Tracked
  BY DEF FitInv, IInv, Alone, Healthy, Common, Fits
<1>2. Kept("PREPARE_SNAPSHOT")
  BY <1>1 DEF Tracked, OnceEach, Kinds, Kept, Queued, Answered, App
<1>3. Once
  BY DEF FitInv
<1>4. Orders \ Reports \subseteq Whole \cup {"PREPARE_SNAPSHOT"}
  BY <1>1 DEF Whole, Loose
<1> QED BY <1>1, <1>2, <1>3, <1>4 DEF Once

\* What is under way where the preview does not run.
LEMMA UnderOf ==
    ASSUME Once, NEW x \in Openers, Under(x)
    PROVE  /\ App.evt \in {x, "SET_PARAMS_COMMIT", Closes(x)}
           /\ App.evt = x => Answered(x) /\ Ok(x)
           /\ App.evt = "SET_PARAMS_COMMIT" => x = "SET_PARAMS_STOP"
<1>1. /\ Closes("SET_PARAMS_STOP") = "SET_PARAMS_RESTART"
      /\ Closes("RESTART_STOP_PREVIEW") = "RESTART_START_PREVIEW"
      /\ Closes("LONGSHOT_ON") = "SEND_COMMAND_RESTART"
  BY DEF Closes
<1>2. x \in Whole /\ Closes(x) \in Whole /\ x # Closes(x)
      /\ x # "SET_PARAMS_COMMIT" /\ Closes(x) # "SET_PARAMS_COMMIT"
  BY <1>1, WholeAre DEF Openers
<1>3. Kept(x) /\ Kept(Closes(x))
  BY <1>2 DEF Once
<1>4. Ok(x) => Answered(x)
  BY DEF Ok, Answered
<1>5. CASE x = "SET_PARAMS_STOP"
  <2>1. Stops
    BY <1>5 DEF Under
  <2> QED BY <1>1, <1>2, <1>3, <1>4, <1>5, <2>1 DEF Stops, Kept
<1>6. CASE x # "SET_PARAMS_STOP"
  <2>1. Ok(x) \/ Queued(Closes(x))
    BY <1>6 DEF Under
  <2> QED BY <1>2, <1>3, <1>4, <2>1 DEF Kept
<1> QED BY <1>5, <1>6

\* Results that were accepted stay so.
LEMMA StaysOk ==
    ASSUME NEW e, NEW o, Serves(e, o), NEW x, Ok(x)
    PROVE  Ok(x)'
<1>1. PICK i \in At(results, x) : results[i].ok
  BY DEF Ok
<1>2. i \in At(results', x) /\ results'[i] = results[i]
  BY SignalsAre DEF At
<1> QED BY <1>1, <1>2 DEF Ok

LEMMA HandleOpens ==
    ASSUME FitInv, Orderly, Healthy, NEW e, NEW o, Serves(e, o), Runs(cam)
    PROVE  Runs(cam') \/ (e \in Openers /\ Gap(cam', e) /\ Under(e)')
<1>0. ~InternalPics /\ Common /\ Once /\ ~cam.dead /\ \A x \in Orders \ Reports : Kept(x)
  BY HealthyKept DEF FitInv, Orderly
<1>1. Streams(cam, e, cam')
  BY HandleFits DEF Fitting
<1> SUFFICES ASSUME ~Runs(cam') PROVE e \in Openers /\ Gap(cam', e) /\ Under(e)'
  OBVIOUS
<1>2. Gap(cam', e)
  BY <1>1 DEF Streams
<1>3. e \in Openers
  BY <1>2 DEF Gap, Openers
<1>4. o \in Outcomes(cam, e) /\ cam' = o.cam /\ Due(cam, e) /\ Fits(cam)
  BY <1>0, DueIs DEF Serves, Common
<1>5. o.replies = Answer(e, TRUE)
  BY <1>2, <1>3, <1>4, OpensAnswer
<1>6. e \in Orders \ Reports /\ e # "DAEMON_DIED" /\ Asks(e) = e /\ Queued(e)
  BY <1>0, <1>3, ServedAre, WholeAre DEF Openers, Reports
<1>7. Ok(e)'
  BY <1>5, <1>6 DEF Serves, Signals, Replied, Ok
<1>8. CASE e = "SET_PARAMS_STOP"
  <2>1. App.evt = e /\ Kept("SET_PARAMS_COMMIT")
    BY <1>0, <1>6, WholeAre DEF Kept
  <2>2. At(results, "SET_PARAMS_COMMIT") = {}
    BY <1>8, <2>1 DEF Kept, Answered
  <2>3. At(results', "SET_PARAMS_COMMIT") = {}
    BY <1>6, <1>8, <2>2, SignalsAre
  <2> QED BY <1>2, <1>3, <1>7, <1>8, <2>3 DEF Under, Stops
<1>9. CASE e # "SET_PARAMS_STOP"
  BY <1>2, <1>3, <1>7, <1>9 DEF Under
<1> QED BY <1>8, <1>9

\* What was under way stays so when it is committed or something is reported.
LEMMA StaysUnder ==
    ASSUME FitInv, Orderly, Healthy, NEW e, NEW o, Serves(e, o), NEW x \in Openers, Gap(cam, x), Under(x),
           e \in {"SET_PARAMS_COMMIT"} \cup Reports
    PROVE  Under(x)'
<1>0. ~InternalPics /\ Common /\ Once /\ ~cam.dead
  BY HealthyKept DEF FitInv, Orderly
<1>1. /\ Ok(x) => Ok(x)'
      /\ App'.evt = App.evt
  BY StaysOk, CallersAre DEF Serves, App
<1>2. cam'.needRestart = cam.needRestart
  BY HandleFits DEF Fitting, Reports
<1>3. Closes(x) # e
  BY DEF Closes, Openers, Reports
<1>4. Queued(Closes(x)) => Queued(Closes(x))'
  BY <1>3 DEF Serves, Taken, Queued, Closes
<1>5. CASE x # "SET_PARAMS_STOP"
  BY <1>1, <1>4, <1>5 DEF Under
<1>6. CASE x = "SET_PARAMS_STOP"
  <2>1. Closes(x) = "SET_PARAMS_RESTART"
    BY <1>6 DEF Closes
  <2>2. Stops /\ \A i \in At(results, "SET_PARAMS_COMMIT") : results[i].ok
    BY <1>6 DEF Under
  <2>3. Stops'
    BY <1>1, <1>2, <1>4, <1>6, <2>1, <2>2 DEF Stops
  <2>4. ASSUME NEW i \in At(results, "SET_PARAMS_COMMIT") PROVE results'[i].ok
    <3>1. i \in DOMAIN results
      BY DEF At
    <3> QED BY <2>2, <3>1, SignalsAre
  <2>5. ASSUME NEW i \in At(results', "SET_PARAMS_COMMIT") PROVE results'[i].ok
    <3>1. CASE e = "SET_PARAMS_COMMIT"
      <4>1. o.replies = Answer(e, TRUE)
        <5>1. Gap(cam, "SET_PARAMS_STOP") /\ Fits(cam) /\ o \in Outcomes(cam, "SET_PARAMS_COMMIT")
          BY <1>0, <1>6, <3>1 DEF Common, Serves
        <5> QED BY <3>1, <5>1, CommitsAnswer
      <4>2. Asks(e) = e /\ e # "DAEMON_DIED"
        BY <3>1 DEF Asks
      <4>3. \A j \in At(results', e) \ At(results, e) : results'[j].ok
        BY <4>1, <4>2 DEF Serves, Signals, Replied
      <4> QED BY <2>4, <3>1, <4>3
    <3>2. CASE e # "SET_PARAMS_COMMIT"
      <4>1. Asks(e) # "SET_PARAMS_COMMIT"
        BY <3>2 DEF Asks
      <4>2. At(results', "SET_PARAMS_COMMIT") = At(results, "SET_PARAMS_COMMIT")
        BY <4>1, SignalsAre
      <4> QED BY <2>4, <4>2
    <3> QED BY <3>1, <3>2
  <2> QED BY <1>6, <2>3, <2>5 DEF Under
<1> QED BY <1>5, <1>6

LEMMA HandleLapses ==
    ASSUME FitInv, Orderly, Healthy, NEW e, NEW o, Serves(e, o)
    PROVE  Lapses'
<1>0. ~InternalPics /\ Common /\ Once /\ Lapses /\ \A x \in Orders \ Reports : Kept(x)
  BY HealthyKept DEF FitInv, Orderly
<1>1. Streams(cam, e, cam')
  BY HandleFits DEF Fitting
<1>2. /\ Runs(cam)' <=> Runs(cam')
      /\ \A x : Gap(cam, x)' <=> Gap(cam', x)
  <2>1. DualCamera' = DualCamera
    BY SameSetup DEF Serves
  <2> QED BY <2>1 DEF Runs, Gap, isPreviewRunning
<1>3. CASE Runs(cam)
  BY <1>2, <1>3, HandleOpens DEF Lapses
<1>4. CASE ~Runs(cam)
  <2>1. PICK x \in Openers : Gap(cam, x) /\ Under(x)
    BY <1>0, <1>4 DEF Lapses
  <2>2. CASE e = Closes(x)
    BY <1>1, <1>2, <2>1, <2>2 DEF Streams, Lapses
  <2>3. CASE e \in {"SET_PARAMS_COMMIT"} \cup Reports
    <3>1. Gap(cam', x)
      BY <1>1, <2>1, <2>3 DEF Streams
    <3>2. Under(x)'
      BY <2>1, <2>3, StaysUnder
    <3> QED BY <1>2, <3>1, <3>2 DEF Lapses
  <2>4. CASE e \notin {Closes(x), "SET_PARAMS_COMMIT"} \cup Reports
    <3>1. e \in Orders \ Reports /\ Queued(e)
      BY <1>0, <2>4, ServedAre
    <3>2. App.evt = e /\ ~Answered(e)
      BY <1>0, <3>1 DEF Kept
    <3> QED BY <1>0, <2>1, <2>4, <3>2, UnderOf
  <2> QED BY <2>2, <2>3, <2>4
<1> QED BY <1>3, <1>4

LEMMA TurnLapses ==
    ASSUME Common, Once, Restarting, Lapses, NEW api, NEW e, NEW ok, NEW f, Turns(api, e, ok, f)
    PROVE  Lapses'
<1>1. /\ cam'.st = cam.st /\ cam'.preview = cam.preview /\ cam'.again = cam.again
      /\ cam'.later = cam.later /\ cam'.needRestart = cam.needRestart /\ cam.needRestart \in BOOLEAN
  BY SortsAre DEF Common, Fits, Typed, Turns, Differs, Fields, Steered
<1>2. DualCamera' = DualCamera
  BY SameSetup DEF Turns
<1>3. /\ Runs(cam)' <=> Runs(cam)
      /\ \A x : Gap(cam, x)' <=> Gap(cam, x)
  BY <1>1, <1>2 DEF Runs, Gap, isPreviewRunning
<1>4. /\ f = Following(api, e, ok, cam') /\ api \in AppCalls \cup {"internal"}
      /\ e \in Awaited(api) \cup {"none"} /\ e \notin {"taken", "clear"} /\ App.evt = e /\ App'.evt = f
      /\ f # "none" => Queued(f)'
  BY DEF Turns, App, Queued
<1>5. PICK k : k = cam'
  OBVIOUS
<1>6. /\ e = "SET_PARAMS_STOP" /\ ok => f = "SET_PARAMS_COMMIT"
      /\ e = "SET_PARAMS_COMMIT" /\ ok /\ k.needRestart => f = "SET_PARAMS_RESTART"
      /\ e = "RESTART_STOP_PREVIEW" /\ ok => f = "RESTART_START_PREVIEW"
      /\ e = "LONGSHOT_ON" /\ ok /\ DualCamera => f = "SEND_COMMAND_RESTART"
  <2>1. k.needRestart \in BOOLEAN /\ f = Following(api, e, ok, k)
    BY <1>1, <1>4, <1>5
  <2> QED BY <1>4, <2>1, FollowingOf
<1>7. CASE Runs(cam)
  BY <1>3, <1>7 DEF Lapses
<1>8. CASE ~Runs(cam)
  <2>1. PICK x \in Openers : Gap(cam, x) /\ Under(x)
    BY <1>8 DEF Lapses
  <2>2. ~Queued(Closes(x)) /\ At(results', "SET_PARAMS_COMMIT") = {}
    BY WholeAre DEF Turns, Openers, Closes
  <2>3. Ok(x) => e = x /\ ok
    <3> SUFFICES ASSUME Ok(x) PROVE e = x /\ ok
      OBVIOUS
    <3>1. Kept(x)
      BY WholeAre DEF Once, Openers
    <3>2. e = x /\ OneOf(At(results, x))
      BY <1>4, <3>1 DEF Kept, Ok, Answered
    <3>3. PICK i \in At(results, x) : results[i].ok
      BY DEF Ok
    <3>4. PICK j \in At(results, x) : ok = results[j].ok
      BY <3>2, WholeAre DEF Turns, Openers
    <3>5. i = j
      BY <3>2, <3>3, <3>4 DEF OneOf
    <3> QED BY <3>2, <3>3, <3>4, <3>5
  <2>4. CASE x = "SET_PARAMS_STOP"
    <3>1. Stops /\ \A i \in At(results, "SET_PARAMS_COMMIT") : results[i].ok
      BY <2>1, <2>4 DEF Under
    <3>2. ~Queued("SET_PARAMS_RESTART")
      BY <2>2, <2>4 DEF Closes
    <3>3. Stops'
      <4>1. CASE Ok("SET_PARAMS_STOP")
        <5>1. f = "SET_PARAMS_COMMIT" /\ cam.needRestart
          BY <1>4, <1>6, <2>3, <2>4, <4>1 DEF Restarting
        <5> QED BY <1>1, <1>4, <5>1 DEF Stops
      <4>2. CASE e = "SET_PARAMS_COMMIT" /\ cam.needRestart
        <5>1. ok
          BY <3>1, <4>2 DEF Turns
        <5>2. f = "SET_PARAMS_RESTART"
          BY <1>1, <1>5, <1>6, <4>2, <5>1
        <5> QED BY <1>4, <5>2 DEF Stops
      <4> QED BY <1>4, <3>1, <3>2, <4>1, <4>2 DEF Stops
    <3>4. Under(x)'
      BY <2>2, <2>4, <3>3 DEF Under
    <3> QED BY <1>3, <2>1, <3>4 DEF Lapses
  <2>5. CASE x # "SET_PARAMS_STOP"
    <3>1. e = x /\ ok
      BY <2>1, <2>2, <2>3, <2>5 DEF Under
    <3>2. f = Closes(x)
      BY <1>6, <2>1, <2>5, <3>1 DEF Openers, Closes, Gap
    <3>3. Queued(Closes(x))'
      <4>1. Closes(x) # "none"
        BY DEF Openers, Closes
      <4>2. At(api_queue', Closes(x)) # {}
        BY <1>4, <3>2, <4>1 DEF Queued
      <4> QED BY <4>2 DEF Queued, Closes
    <3>4. Under(x)'
      BY <2>5, <3>3 DEF Under
    <3> QED BY <1>3, <2>1, <3>4 DEF Lapses
  <2> QED BY <2>4, <2>5
<1> QED BY <1>7, <1>8

LEMMA AsideLapses ==
    ASSUME Common, Lapses, NEW x, NEW y, Aside(x, y)
    PROVE  Lapses'
<1>1. /\ cam'.st = cam.st /\ cam'.preview = cam.preview /\ cam'.again = cam.again
      /\ cam'.later = cam.later /\ cam'.needRestart = cam.needRestart
      /\ results' = results /\ App' = App /\ DualCamera' = DualCamera
  BY SameSetup DEF Aside, Differs, Fields, Touched, App
<1>2. /\ Runs(cam)' <=> Runs(cam)
      /\ \A z : Gap(cam, z)' <=> Gap(cam, z)
  BY <1>1 DEF Runs, Gap, isPreviewRunning
<1>3. \A z : Queued(z) => Queued(z)'
  BY AsideCommon DEF Queued
<1>4. Stops => Stops'
  BY <1>1, <1>3 DEF Stops, Ok
<1>5. ASSUME NEW z \in Openers, Under(z) PROVE Under(z)'
  <2>1. CASE z = "SET_PARAMS_STOP"
    BY <1>1, <1>4, <1>5, <2>1 DEF Under
  <2>2. CASE z # "SET_PARAMS_STOP"
    BY <1>1, <1>3, <1>5, <2>2 DEF Under, Ok, Closes
  <2> QED BY <2>1, <2>2
<1> QED BY <1>2, <1>5 DEF Lapses

LEMMA DozesLapses ==
    ASSUME Common, Lapses, NEW c \in Callers, Dozes(c)
    PROVE  Lapses'
<1>1. /\ UNCHANGED <<setup, cam, api_queue, results>> /\ App'.evt = App.evt
  BY DozesCommon, CallersAre DEF Dozes, App
<1>2. DualCamera' = DualCamera
  BY <1>1, SameSetup
<1>3. /\ Runs(cam)' <=> Runs(cam)
      /\ \A z : Gap(cam, z)' <=> Gap(cam, z)
  BY <1>1, <1>2 DEF Runs, Gap, isPreviewRunning
<1>4. ASSUME NEW z \in Openers PROVE Under(z)' <=> Under(z)
  BY <1>1 DEF Under, Ok, Queued, Stops, Closes
<1> QED BY <1>3, <1>4 DEF Lapses

(* Who waits for a result has had its request taken.                       *)

\* A request by its kind is the application's.
LEMMA TakenSeen ==
    ASSUME FitInv, Healthy, ~InternalPics, NEW e, NEW o, Serves(e, o), e \notin Reports
    PROVE  App.evt = e /\ call'["app"].seen
<1>1. Addressed /\ Common /\ Kept(e)
  BY HealthyKept, ServedAre DEF FitInv
<1>2. Queued(e) /\ e \notin EventKinds
  BY <1>1, ServedAre
<1>3. PICK i \in DOMAIN api_queue : NextRequest = api_queue[i]
  BY <1>2 DEF Serves, Taken
<1>4. api_queue[i].evt = e /\ e # "STOP_CAPTURE_CHANNEL"
  BY <1>3 DEF Serves, Reports
<1>5. NextRequest.by = "app"
  BY <1>1, <1>3, <1>4 DEF Addressed
<1> QED BY <1>1, <1>2, <1>5, CallersAre DEF Kept, Serves

LEMMA HandleAddressed ==
    ASSUME FitInv, Healthy, ~InternalPics, NEW e, NEW o, Serves(e, o)
    PROVE  Addressed'
<1>0. /\ Common /\ Addressed /\ ~cam.dead /\ Tracked /\ Frames
      /\ App'.evt = App.evt /\ (App.seen => App'.seen)
  BY HealthyKept, CallersAre DEF FitInv, Serves, App
<1>1. e # "DAEMON_DIED"
  BY <1>0, HandleFits
<1>2. Reports' = Reports
  BY DEF Reports
<1>3. \A i \in DOMAIN api_queue' :
          api_queue'[i].evt # "STOP_CAPTURE_CHANNEL" => api_queue'[i].by = "app"
  BY <1>0 DEF Serves, Taken, Fewer, Addressed
<1>4. ASSUME NEW i \in DOMAIN results', results'[i].evt \notin Reports
      PROVE  "app" \in results'[i].to
  <2>1. CASE i \in DOMAIN results
    BY <1>0, <1>4, <2>1, SignalsAre DEF Addressed
  <2>2. CASE i \notin DOMAIN results
    <3>1. /\ results'[i].evt = Asks(e)
          /\ results'[i].to = {c \in Callers : call'[c].seen /\ call'[c].evt = Asks(e)}
      BY <1>1, <2>2 DEF Serves, Signals, Replied, Grown
    <3>2. CASE e \notin Reports
      <4>1. App.evt = e /\ call'["app"].seen /\ Asks(e) = e
        BY <1>0, <3>2, TakenSeen, ServedAre
      <4> QED BY <1>0, <3>1, <4>1, CallersAre DEF App
    <3>3. CASE e = "PREP_SNAPSHOT_DONE"
      <4>1. Asks(e) = "PREPARE_SNAPSHOT" /\ e \notin Orders
        BY <3>3 DEF Asks, Orders
      <4>2. Preparing
        BY <3>3, <4>1 DEF Serves, Taken, Preparing
      <4>3. App.evt = "PREPARE_SNAPSHOT" /\ App.seen
        BY <1>0, <4>2 DEF Addressed, Tracked, PreparedOnce, App
      <4> QED BY <1>0, <3>1, <4>1, <4>3, CallersAre DEF App
    <3>4. CASE e = "READY_FOR_SNAPSHOT"
      <4>1. Asks(e) = "TAKE_PICTURE" /\ e \notin Orders
        BY <3>4 DEF Asks, Orders
      <4>2. Owing
        BY <3>4, <4>1 DEF Serves, Taken, Owing, Come
      <4>3. App.evt = "TAKE_PICTURE" /\ App.seen
        BY <1>0, <4>2 DEF Addressed, Frames
      <4> QED BY <1>0, <3>1, <4>1, <4>3, CallersAre DEF App
    <3>5. CASE e \in Reports \ {"PREP_SNAPSHOT_DONE", "READY_FOR_SNAPSHOT"}
      BY <1>4, <3>1, <3>5 DEF Asks
    <3> QED BY <3>2, <3>3, <3>4, <3>5
  <2> QED BY <2>1, <2>2
<1>5. Preparing' => Preparing \/ e = "PREPARE_SNAPSHOT"
  <2>1. NoMore(evt_queue, evt_queue', "PREP_SNAPSHOT_DONE")
    BY EventsAre DEF Serves, Taken
  <2> QED BY <1>1, <2>1 DEF Serves, Preparing, NoMore
<1>6. Owing' => Owing \/ e = "TAKE_PICTURE"
  BY OwingAre DEF Owing
<1>7. e \in {"PREPARE_SNAPSHOT", "TAKE_PICTURE"} => App'.seen
  BY TakenSeen DEF Reports, App
<1> QED BY <1>0, <1>2, <1>3, <1>4, <1>5, <1>6, <1>7 DEF Addressed

LEMMA TurnAddressed ==
    ASSUME FitInv, Healthy, ~InternalPics, NEW api, NEW e, NEW ok, NEW f, Turns(api, e, ok, f)
    PROVE  Addressed'
<1>0. Common /\ Once /\ Addressed /\ ~cam.dead /\ Tracked /\ Frames
  BY HealthyKept DEF FitInv
<1>1. Reports' = Reports
  BY DEF Reports
<1>2. \A i \in DOMAIN api_queue' :
          api_queue'[i].evt # "STOP_CAPTURE_CHANNEL" => api_queue'[i].by = "app"
  BY <1>0 DEF Turns, Addressed
<1>3. \A i \in DOMAIN results' : results'[i].evt \notin Reports => "app" \in results'[i].to
  BY <1>0 DEF Turns, Addressed, Fewer
<1>4. ~Preparing
  <2>1. e # "none" => Answered(e)
    BY DEF Turns, Answered
  <2> QED BY <1>0, <2>1 DEF Turns, Tracked, PreparedOnce, Answered, App
<1>5. ~Preparing'
  <2>1. cam'.prepping = cam.prepping /\ evt_queue' = evt_queue
    BY DEF Turns, Differs, Fields, Steered
  <2> QED BY <1>4, <2>1 DEF Preparing
<1>6. ~Owing'
  BY <1>0, TurnFrames
<1> QED BY <1>1, <1>2, <1>3, <1>5, <1>6 DEF Addressed

LEMMA AsideAddressed ==
    ASSUME Common, Addressed, Frames, Healthy, NEW x, NEW y, Aside(x, y)
    PROVE  Addressed'
<1>1. /\ x \in {"none", "STOP_CAPTURE_CHANNEL"} /\ Reports' = Reports /\ results' = results
      /\ App' = App
  BY DEF Aside, Reports, App
<1>2. ~cam'.dead
  <2>1. Fits(cam')
    BY DEF Aside
  <2> QED BY <2>1 DEF Fits, Healthy
<1>3. \A i \in DOMAIN api_queue' :
          api_queue'[i].evt # "STOP_CAPTURE_CHANNEL" => api_queue'[i].by = "app"
  <2>1. \A j \in DOMAIN api_queue' : \/ api_queue'[j].evt = x
                                     \/ j \in DOMAIN api_queue /\ api_queue'[j] = api_queue[j]
    BY AsideCommon
  <2>2. x = "none" => api_queue' = api_queue
    BY DEF Aside
  <2> QED BY <1>1, <2>1, <2>2 DEF Addressed
<1>4. Owing' => Owing
  BY <1>2, AsideFrames
<1>5. Preparing' => Preparing
  <2>1. cam'.prepping => cam.prepping
    BY DEF Aside
  <2>2. y = "PREP_SNAPSHOT_DONE" => cam.prepping
    BY DEF Aside
  <2>3. y # "PREP_SNAPSHOT_DONE" => NoMore(evt_queue, evt_queue', "PREP_SNAPSHOT_DONE")
    BY AsideCommon
  <2> QED BY <2>1, <2>2, <2>3 DEF Preparing, NoMore
<1> QED BY <1>1, <1>3, <1>4, <1>5 DEF Addressed

LEMMA DozesAddressed ==
    ASSUME Common, Addressed, NEW c \in Callers, Dozes(c)
    PROVE  Addressed'
<1>1. /\ UNCHANGED <<cam, api_queue, evt_queue, results, reported>> /\ App'.seen = App.seen
  BY DozesCommon, CallersAre DEF Dozes, App
<1> QED BY <1>1 DEF Addressed, Reports, Preparing, Owing, Come, Coming
--------------------------------------------------------------------------------
(* The invariant is kept.                                                  *)

LEMMA HandleInv ==
    ASSUME FitInv, Handle
    PROVE  FitInv' \/ ~IInv'
<1>1. PICK e, o : Serves(e, o)
  BY HandleIs DEF FitInv
<1>2. setup' = setup /\ Common'
  BY <1>1, HandleCommon DEF Serves
<1>3. ~InternalPics => Once' /\ Pictures' /\ Restarting'
  BY <1>1, HandleOnce, HandlePictures
<1>4. ~InternalPics /\ ~cam'.dead => Frames'
  BY <1>1, HandleFrames
<1>5. Orderly => NoneStarted'
  BY <1>1, HandleNoneStarted
<1>6. Orderly /\ Healthy => Lapses'
  BY <1>1, HandleLapses
<1>7. ~InternalPics /\ Healthy => Addressed'
  BY <1>1, HandleAddressed
<1> QED BY <1>2, <1>3, <1>4, <1>5, <1>6, <1>7, SameSetup DEF FitInv

LEMMA TurnInv ==
    ASSUME FitInv, ~InternalPics, Common', NEW api, NEW e, NEW ok, NEW f, Turns(api, e, ok, f)
    PROVE  FitInv' \/ ~IInv'
<1>0. Common /\ Once /\ Pictures /\ Restarting
  BY DEF FitInv
<1>1. setup' = setup /\ cam'.dead = cam.dead
  BY DEF Turns, Differs, Fields, Steered
<1>2. Once' /\ Pictures' /\ Restarting'
  BY <1>0, TurnOnce, TurnPictures
<1>3. ~cam.dead => Frames'
  BY <1>0, TurnFrames DEF FitInv
<1>4. Orderly => NoneStarted'
  BY <1>0, TurnNoneStarted DEF FitInv
<1>5. Orderly /\ Healthy => Lapses'
  BY <1>0, TurnLapses DEF FitInv
<1>6. Healthy => Addressed'
  BY TurnAddressed
<1> QED BY <1>1, <1>2, <1>3, <1>4, <1>5, <1>6, SameSetup DEF FitInv

LEMMA AsideInv ==
    ASSUME FitInv, NEW x, NEW y, Aside(x, y)
    PROVE  FitInv' \/ ~IInv'
<1>0. Common /\ setup' = setup /\ (~cam'.dead => ~cam.dead) /\ (Healthy => ~cam.dead)
  BY HealthyIs DEF FitInv, Aside, Common, Fits, Healthy
<1>1. Common'
  BY <1>0, AsideCommon
<1>2. ~InternalPics => Once' /\ Pictures' /\ Restarting'
  BY <1>0, AsideOnce, AsidePictures DEF FitInv
<1>3. ~InternalPics /\ ~cam'.dead => Frames'
  BY <1>0, AsideFrames DEF FitInv
<1>4. Orderly => NoneStarted'
  BY <1>0, AsideNoneStarted DEF FitInv, Orderly
<1>5. Orderly /\ Healthy => Lapses'
  BY <1>0, AsideLapses DEF FitInv
<1>6. ~InternalPics /\ Healthy => Addressed'
  BY <1>0, AsideAddressed DEF FitInv
<1> QED BY <1>0, <1>1, <1>2, <1>3, <1>4, <1>5, <1>6, SameSetup DEF FitInv

LEMMA DozesInv ==
    ASSUME FitInv, NEW c \in Callers, Dozes(c)
    PROVE  FitInv' \/ ~IInv'
<1>0. Common /\ setup' = setup /\ cam' = cam
  BY DEF FitInv, Dozes
<1>1. Common'
  BY <1>0, DozesCommon
<1>2. ~InternalPics => Once' /\ Pictures' /\ Restarting'
  BY <1>0, DozesOnce, DozesPictures DEF FitInv
<1>3. ~InternalPics /\ ~cam'.dead => Frames'
  BY <1>0, DozesFrames DEF FitInv
<1>4. Orderly => NoneStarted'
  BY <1>0, DozesNoneStarted DEF FitInv
<1>5. Orderly /\ Healthy => Lapses'
  BY <1>0, DozesLapses DEF FitInv
<1>6. ~InternalPics /\ Healthy => Addressed'
  BY <1>0, DozesAddressed DEF FitInv
<1> QED BY <1>0, <1>1, <1>2, <1>3, <1>4, <1>5, <1>6, SameSetup DEF FitInv

\* With pictures of the backend's own only what they leave is kept.
LEMMA CommonInv ==
    ASSUME Common', setup' = setup, InternalPics
    PROVE  FitInv' \/ ~IInv'
BY SameSetup DEF FitInv, Orderly

LEMMA CallInv ==
    ASSUME FitInv, NEW api \in Apis, Call(api)
    PROVE  FitInv' \/ ~IInv'
<1>0. Common /\ setup \in Setups /\ Answers(results) /\ asked \in BOOLEAN
  BY DEF FitInv, Common
<1>1. PICK made : Goes("app", made, "none", TRUE) /\ UNCHANGED <<results, asked>>
  BY <1>0, CallIs
<1>2. Common' /\ setup' = setup
  BY <1>0, <1>1, GoesCommon, CallersAre DEF Goes
<1>3. CASE InternalPics
  BY <1>2, <1>3, CommonInv
<1>4. CASE ~InternalPics
  <2>1. PICK x, f : Turns(x, "none", TRUE, f)
    BY <1>0, <1>4, CallTurns DEF FitInv
  <2> QED BY <1>2, <1>4, <2>1, TurnInv
<1> QED BY <1>3, <1>4

LEMMA WakeInv ==
    ASSUME FitInv, NEW c \in Callers, Wake(c)
    PROVE  FitInv' \/ ~IInv'
<1>0. Common
  BY DEF FitInv
<1>1. CASE Dozes(c)
  BY <1>1, DozesInv
<1>2. ASSUME NEW i, Hears(c, i) PROVE FitInv' \/ ~IInv'
  <2>1. Common' /\ setup' = setup
    BY <1>0, <1>2, GoesCommon DEF Hears, Goes
  <2>2. CASE InternalPics
    BY <2>1, <2>2, CommonInv
  <2>3. CASE ~InternalPics
    <3>1. c = "app"
      BY <1>0, <1>2, <2>3, CallersAre DEF Hears, Common, Callings
    <3>2. PICK f : Turns(App.api, App.evt, results[i].ok, f)
      BY <1>0, <1>2, <2>3, <3>1, HearsTurns DEF FitInv
    <3> QED BY <2>1, <2>3, <3>2, TurnInv
  <2> QED BY <2>2, <2>3
<1> QED BY <1>0, <1>1, <1>2, WakeIs

LEMMA InternalInv ==
    ASSUME FitInv, InternalPicture \/ InternalDone
    PROVE  FitInv' \/ ~IInv'
<1>1. Common' /\ InternalPics
  BY InternalCommon DEF FitInv
<1>2. setup' = setup
  BY DEF InternalPicture, InternalDone
<1> QED BY <1>1, <1>2, CommonInv

LEMMA NextFits ==
    ASSUME FitInv, [Next]_vars
    PROVE  FitInv'
<1>0. Common /\ IInv
  BY DEF FitInv
<1>1. IInv'
  BY <1>0, NextTracked, SetupStays DEF IInv
<1>2. CASE Handle
  BY <1>1, <1>2, HandleInv
<1>3. ASSUME NEW api \in Apis, Call(api) PROVE FitInv'
  BY <1>1, <1>3, CallInv
<1>4. ASSUME NEW c \in Callers, Wake(c) PROVE FitInv'
  BY <1>1, <1>4, WakeInv
<1>5. CASE InternalPicture \/ InternalDone
  BY <1>1, <1>5, InternalInv
<1>6. CASE LiveSnapshot \/ LiveCancel
  BY <1>0, <1>1, <1>6, LiveAside, AsideInv
<1>7. CASE SnapshotDone \/ StopCapture \/ PrepSnapshotDone \/ ReadyForSnapshot \/ DaemonDies
  BY <1>0, <1>1, <1>7, ReportsAside, AsideInv
<1>8. CASE UNCHANGED vars
  <2>1. /\ UNCHANGED <<setup, cam, api_queue, evt_queue, results, call, notifier, reported, asked>>
    BY <1>8 DEF vars
  <2>2. /\ DualCamera' = DualCamera
        /\ Orderly' = Orderly /\ Healthy' = Healthy /\ InternalPics' = InternalPics
    BY <2>1, SameSetup
  <2>3. Common'
    <3>1. \A api : Awaited(api)' = Awaited(api)
      BY <2>2 DEF Awaited
    <3>2. Callings'
      BY <1>0, <2>1, <3>1, SameSetup DEF Common, Callings, App
    <3>3. Queues'
      BY <1>0, <2>1, SameSetup DEF Common, Queues, Queued
    <3>4. Fits(cam')
      BY <1>0, <2>1 DEF Common
    <3> QED BY <1>0, <2>1, <3>2, <3>3, <3>4, SameSetup DEF Common
  <2>4. App' = App /\ Whole' = Whole /\ (Stops' <=> Stops)
    BY <2>1, <2>2 DEF App, Whole, Loose, Stops, Ok, Queued
  <2>5. /\ ~InternalPics => Once' /\ Pictures' /\ Restarting'
        /\ ~InternalPics /\ ~cam.dead => Frames'
    BY <2>1, <2>4, SameSetup DEF FitInv, Once, Kept, Queued, Answered, Pictures, isRecording, Restarting,
                                 Frames, Owing, Come, Coming
  <2>6. (Orderly => NoneStarted') /\ (~InternalPics /\ Healthy => Addressed')
    BY <2>1, <2>4 DEF FitInv, NoneStarted, Unprepared, Addressed, Reports, Preparing, Owing, Come, Coming
  <2>7. Orderly /\ Healthy => Lapses'
    BY <2>1, <2>2, <2>4 DEF FitInv, Lapses, Runs, isPreviewRunning, Gap, Under, Ok, Queued, Closes
  <2> QED BY <1>1, <2>1, <2>2, <2>3, <2>5, <2>6, <2>7 DEF FitInv
<1> QED BY <1>2, <1>3, <1>4, <1>5, <1>6, <1>7, <1>8 DEF Next

LEMMA InitFits ==
    ASSUME Init
    PROVE  FitInv
<1>1. /\ api_queue = <<>> /\ evt_queue = <<>> /\ results = <<>> /\ asked = FALSE /\ notifier = FALSE
      /\ setup \in Setups /\ call = [c \in Callers |-> Idle]
      /\ reported = [done |-> 0, ready |-> 0, prepared |-> 0, stop |-> 0]
  BY DEF Init
<1>2. /\ DOMAIN cam = Fields /\ cam.st = "STOPPED"
      /\ cam.preview = "none" /\ cam.video = "none" /\ cam.snapshot = "none" /\ cam.capture = "none"
      /\ cam.shot = 0 /\ cam.shots = 0 /\ cam.live = "none"
      /\ \A f \in {"hint", "longshot", "retro", "window", "needRestart", "again", "later", "prep",
                   "prepping", "dead", "restart", "hintSet", "delay", "held", "on"} : cam[f] = FALSE
  BY DEF Init, Fields
<1>3. Typed(cam)
  <2>1. "STOPPED" \in States /\ "none" \in Channel
    BY DEF States, Channel
  <2>2. \A f \in {"hint", "longshot", "retro", "window", "needRestart", "again", "later", "prep",
                   "prepping", "dead", "restart", "hintSet", "delay", "held", "on"} :
            cam[f] \in Sorts[f]
    BY <1>2, SortsAre
  <2>3. \A f \in {"st", "preview", "video", "snapshot", "capture", "shot", "shots", "live"} :
            cam[f] \in Sorts[f]
    BY <1>2, <2>1, SortsAre
  <2>4. \A f \in Fields : cam[f] \in Sorts[f]
    BY <2>2, <2>3 DEF Fields
  <2> QED BY <1>2, <2>4 DEF Typed
<1>4. Fits(cam)
  BY <1>2, <1>3 DEF Fits, InOrder, isRecording, PPT
<1>5. /\ \A x : At(<<>>, x) = {}
      /\ Idle \in Waits /\ Idle.api = "none" /\ Idle.evt = "none" /\ "none" \in Awaited("none")
  BY DEF At, Idle, Waits, Awaited
<1>6. Callings
  BY <1>1, <1>5, CallersAre DEF Callings, App
<1>7. Queues /\ Answers(results)
  <2>1. \A Q : <<>> \in Queue(Q)
    BY DEF Queue
  <2>2. Answers(<<>>)
    BY DEF Answers
  <2> QED BY <1>1, <1>5, <2>1, <2>2 DEF Queues, Queued
<1>8. reported \in [{"done", "ready", "prepared", "stop"} -> Nat]
  BY <1>1
<1>9. Common
  BY <1>1, <1>4, <1>6, <1>7, <1>8 DEF Common
<1>10. App.api = "none" /\ App.evt = "none"
  BY <1>1, <1>5, CallersAre DEF App
<1>11. Once /\ Pictures /\ Restarting /\ Frames /\ NoneStarted
  BY <1>1, <1>2, <1>5, <1>10 DEF Once, Kept, Queued, Answered, OneOf, Pictures, Restarting, Frames,
                                Owing, Come, Coming, PPT, NoneStarted, Stops, Ok
<1>12. Lapses /\ Addressed
  BY <1>1, <1>2, <1>5 DEF Lapses, Runs, isPreviewRunning, Addressed, Preparing, Owing, Come, Coming, PPT
<1>13. IInv
  BY InitTracked DEF IInv
<1> QED BY <1>9, <1>11, <1>12, <1>13 DEF FitInv

\* What the channels are is what the state says, in every reachable state of every
\* camera: the video channel runs in the recording states and no other; when the
\* application is in no call, a healthy camera in a previewing state has a preview
\* that runs; and nothing streams when the state machine is stopped.
THEOREM QCameraChannelsFitState == Spec => []ChannelsFitState
<1>1. Init => FitInv
  BY InitFits
<1>2. FitInv /\ [Next]_vars => FitInv'
  BY NextFits
<1>3. FitInv => ChannelsFitState
  BY StatesFit
<1> QED BY <1>1, <1>2, <1>3, PTL DEF Spec

\* A call of the application that takes a result off the list takes one that was
\* signalled for its own request.
LEMMA OwnTaken ==
    ASSUME FitInv, [Next]_vars, Healthy, ~InternalPics, NEW c \in Callers,
           call'[c] # call[c], Len(results') < Len(results)
    PROVE  LET fits == {i \in DOMAIN results : results[i].evt = call[c].evt}
           IN  c \in results[CHOOSE i \in fits : \A j \in fits : i <= j].to
<1>0. Common /\ Addressed /\ Len(results) \in Nat
  BY DEF FitInv, Common, Answers
<1>1. PICK d \in Callers : Wake(d)
  <2>1. CASE Handle
    <3>1. PICK e, o : Serves(e, o)
      BY <1>0, <2>1, HandleIs
    <3>2. Len(results') \in Nat /\ Len(results') >= Len(results)
      BY <3>1, SignalsAre
    <3> QED BY <1>0, <3>2
  <2>2. CASE ~Handle /\ ~(\E d \in Callers : Wake(d))
    <3>1. results' = results
      BY <2>2 DEF Next, vars, Call, InternalPicture, InternalDone, LiveSnapshot, LiveCancel,
                  SnapshotDone, StopCapture, PrepSnapshotDone, ReadyForSnapshot, DaemonDies
    <3> QED BY <1>0, <3>1
  <2> QED BY <2>1, <2>2
<1>2. PICK i : Hears(d, i)
  <2>1. ~Dozes(d)
    BY <1>0 DEF Dozes
  <2> QED BY <1>0, <1>1, <2>1, WakeIs
<1>3. d = "app"
  BY <1>0, <1>2, CallersAre DEF Hears, Common, Callings
<1>4. c = "app"
  <2>1. Goes("app", App.api, App.evt, results[i].ok)
    BY <1>2, <1>3 DEF Hears, App
  <2>2. PICK f : GoesOn("app", App.api, f)
    BY <1>0, <2>1, GoesAre, CallersAre
  <2>3. call'["int"] = call["int"]
    BY <2>2, CallersAre DEF GoesOn
  <2> QED BY <2>3, CallersAre
<1>5. /\ i \in At(results, App.evt)
      /\ i = CHOOSE j \in At(results, App.evt) : \A l \in At(results, App.evt) : j <= l
  BY <1>2, <1>3 DEF Hears, App
<1>6. results[i].evt = App.evt /\ i \in DOMAIN results
  BY <1>5 DEF At
<1>7. App.evt \notin Reports
  BY <1>0, CallingsAre, CallersAre DEF Common, App
<1>8. "app" \in results[i].to
  BY <1>0, <1>6, <1>7 DEF Addressed
<1>9. {j \in DOMAIN results : results[j].evt = call[c].evt} = At(results, App.evt)
  BY <1>4 DEF At, App
<1> QED BY <1>4, <1>5, <1>8, <1>9

\* The result a call returns was signalled for the request of that call: with a
\* healthy camera and no pictures of the backend's own a caller that wakes up
\* never takes what was signalled when it waited for something else.
THEOREM QCameraOwnAnswer == Spec => OwnAnswer
<1>1. Init => FitInv
  BY InitFits
<1>2. FitInv /\ [Next]_vars => FitInv'
  BY NextFits
<1> DEFINE Own ==
        Healthy /\ ~InternalPics =>
            \A c \in Callers :
                LET fits == {i \in DOMAIN results : results[i].evt = call[c].evt}
                IN  call'[c] # call[c] /\ Len(results') < Len(results)
                      => c \in results[CHOOSE i \in fits : \A j \in fits : i <= j].to
<1>3. FitInv /\ [Next]_vars => [Own]_vars
  BY OwnTaken
<1> QED BY <1>1, <1>2, <1>3, PTL DEF Spec, OwnAnswer
================================================================================
