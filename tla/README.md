# Verification of the MSM8996 device tree: TLA+ models, checks and proofs

This directory models the stateful parts of the Xiaomi MSM8996 device tree (the GNSS stack under
`gps/`, the camera HAL and its vendor interface under `camera/QCamera2/`): TLA+ modules translated
from the source, TLC configurations that check them on small instances, and theorems that the TLA+
proof system (TLAPS) checks for every value of the constants. `PROJECT.json` maps every definition
to the lines it stands for and lists runs, mutants, hazards, findings and theorems.

Run a check with `tlc -config MCAgps.cfg MCAgps` (one configuration per component, the run's module
is in `PROJECT.json`), a proof with `tlapm AgpsProofs.tla`.

The repository has no tests and a README of three lines; what the code promises is in its comments
and headers, quoted below where a property takes it from there.

## 1. Inventory

### 1.1 The location stack

    framework -- HIDL services -- LocationAPIClientBase -- LocationAPI
                                                             |  sendMsg
           adapters (GNSS, geofence, batching): one message thread for all of them
                                                             |  requests          ^ responses
                             LocApiBase: a message thread per engine connection   | as messages
                                                             |
                                                   modem engine (external)

Every component runs its handlers in a message task: a queue and one thread. Within a task nothing
is concurrent, so a handler is a step; what is hard is the *order* between tasks, what a handler
assumes of the past, threads that do not use the queue (NI timeouts, the timer's poll thread,
binder threads) and the modem's restart.

| part | state | operations | what makes it correct |
|---|---|---|---|
| message task (`MsgTask`, `LocThread`, `msg_q`) | queue, closed flag, two objects with lives of their own | post, serve, `destroy()` | in order, one at a time, each object deleted once, nothing after `destroy()` |
| timer service (`LocTimer`, `LocHeap`) | heap of delegates, timerfd, queue | start, stop, delete, expire | nothing used after it is deleted, every timer ends, the timerfd never sleeps past the top |
| AGPS manager (`Agps`) | up to two state machines, lists of subscribers | `requestATL`, `releaseATL`, three reports of the framework | a data connection exactly while it is used, every waiting handle is answered |
| NI requests (`GnssAdapter`) | two sessions, a thread per request | request, the user's answer, timeout | one outcome per request, and its own |
| tracking (`GnssAdapter`) | two maps of sessions, pending messages | start, update, stop, client removal, engine down and up | one engine session that serves all, one response per command |
| geofences (`GeofenceAdapter`) | two maps between ids and the engine's numbers | add, remove, pause, resume, modify, restart | the engine has what clients were told |
| batching (`BatchingAdapter`) | sessions by time, trips and what they have travelled, the trip the engine runs, messages kept for an engine that is down | start, update, stop, batched locations, client removal, completed trip, engine up | the engine runs what clients were told; a trip ends when its distance is done, whoever shares its batch |
| client base (`LocationAPIClientBase`) | user's sessions and the `LocationAPI` sessions behind them, a queue of requests that wait | start, update, stop of batching and tracking sessions, batched locations | every call gets one callback, its own |
| `LocationAPI` | which adapters a client waits for | commands, destroy | the object goes when the last adapter is through, and nobody calls it after |
| not modelled: system status, sockets, HIDL, control API | see `PROJECT.json` | | |

### 1.2 The camera

    application -- HAL1 public calls -- QCameraStateMachine (thread) -- channels and streams
                        ^ results                ^ events                    |
                        |                        |                           v
          callback notifier, post-processor, live snapshot thread     mm-camera-interface:
          internal picture thread                                     channel command thread,
                                                                      superbuf queue -- kernel

    framework -- HAL3 requests (binder thread, flush thread) -- HAL3 channels -- streams
                        ^ metadata thread                          ^ a thread per stream
                        ^ results of pictures -- post-processor: encoder and reprocess channel

| part | state | operations | what makes it correct |
|---|---|---|---|
| HAL1 state machine (`QCameraStateMachine`, `QCamera2HWI`) | one of eight states, four channels, result list | some fifty requests, blocking public calls, reports of other threads | state and channels agree, every call returns, with its own result |
| superbuf queue (`mm_camera_channel.c`) | list of nodes, counters, flash and bracketing flags | a frame, a request, a flush, generic commands | no frame lost, mixed or sent from before its flash; the loops end |
| HAL3 requests (`QCamera3HWI.cpp`) | pending requests, pending buffers, pending reprocess results, in-flight count, six states | capture request, metadata, buffer and picture results, flush, configure, close, engine death | each buffer is returned once and each request ends, in order, with its own picture |
| HAL3 channels (`QCamera3Channel.cpp`, `QCamera3Stream.cpp`, `QCamera3Mem.cpp`, `QCamera3PostProc.cpp`) | buffers by index and frame, free indices, out-of-sequence buffers, the post-processor's queues | request, buffer done, timeout, batch, encode, reprocess, flush | a buffer is in one place; a picture meets its own settings and metadata |
| not modelled: streams and buffers of HAL1, channel control, threads, HAL1 post-processor, JPEG sessions, pairing of images in the muxer | see `PROJECT.json` | | |

The remaining parts of the tree (light, touch, doze, pocket mode, boot helpers, configuration) are
listed in `PROJECT.json`, each with the reason it is left out or what is planned.

### 1.3 Hard behaviours

`PROJECT.json` lists forty hazards, each at its line. The kinds that recur: fields read outside the
lock that guards them (NI sessions, timer expiry); answers that belong to a request whose subject
has changed since (tracking updates, geofence numbers, framework reports); the modem's restart in
the middle of anything; commands of several items with one response; responses and results matched
by kind or by order only (HAL1, client base); objects that two threads delete together; loops whose end depends on a counter.

## 2. Modules

| module | models | composed with |
|---|---|---|
| `Agps`, `AgpsProofs` | `gps/gnss/Agps.{cpp,h}` and the callers in `GnssAdapter.cpp` | |
| `NiSession`, `NiSessionProofs` | `GnssAdapter.cpp` 2840-2930, 3740-3892 | |
| `LocTimer`, `LocTimerProofs` | `gps/utils/LocTimer.cpp` | the heap by its contract |
| `LocHeap` | `gps/utils/LocHeap.{cpp,h}` | implements `Heap` |
| `Heap` | the collection `LocHeap.h` describes | abstract specification |
| `MsgTask`, `MsgTaskProofs` | `MsgTask.cpp`, `LocThread.cpp`, `msg_q.c`, `linked_list.c` | implements `Mailbox` |
| `Mailbox` | what a message task promises | abstract specification |
| `GnssTracking`, `GnssTrackingProofs` | tracking and restart in `GnssAdapter.cpp`, `LocApiBase`, `LocAdapterBase` | adapter and LocApi threads |
| `GeofenceAdapter`, `GeofenceAdapterProofs` | `gps/geofence/GeofenceAdapter.cpp` | adapter and LocApi threads |
| `BatchingAdapter` | `gps/batching/BatchingAdapter.cpp` | operators on the record of the adapter |
| `LocationAPIClientBase` | batching and tracking sessions in `gps/location/LocationAPIClientBase.{h,cpp}` | operators on the record of the client |
| `LocationBatching` | `gps/location/LocationAPI.cpp`, `LocApiBase`'s thread, the engine | the two above, the tracking adapter as a source of answers |
| `QCameraStateMachine`, `QCameraInvariant`, `QCameraStateMachineProofs` | `QCameraStateMachine.cpp` and the operations of `QCamera2HWI.cpp` it calls | state machine, callers, four other threads |
| `SuperBufQueue`, `SuperBufQueueProofs` | the superbuf part of `mm_camera_channel.c` | |
| `QCamera3HWI` | requests in `HAL3/QCamera3HWI.cpp`: capture, results, flush, configure, close | channels and pictures below; implements `CaptureContract` |
| `QCamera3Channel` | a stream's channel: `HAL3/QCamera3Channel.cpp`, `QCamera3Stream.cpp`, `QCamera3Mem.cpp` | operators on the record of one channel |
| `QCamera3PicChannel` | the picture channel and `HAL3/QCamera3PostProc.cpp` | operators on the record of the channel |
| `CaptureContract` | what a capture device promises of requests, shutters, results and buffers | abstract specification |

How they are written: a handler that runs to its end in one thread is one action. Where a handler
leaves a lock, or two threads share fields without one (`NiSession`, `LocTimer`, `MsgTask`), an
action is what one thread does between two points where another can get in. State has the source's
names; `told`, `asked`, `given`, `outcome`, `fate` and the like record what the outside world was
told and are the ghosts the properties speak of. Data is reduced to what properties tell apart:
tracking options to interval, power mode and whether they have a distance; a fence to one of two
options and paused; a frame to its index; parameters to whether they need a restart.

*Setups.* Components whose environment can be of several kinds take a constant `Setups`, a set of
records, and a variable `setup` chosen at the start and never changed. A property that holds in
some environments only says so in its premise (`~ModemMayRestart => ...`), and one run checks them
all. The MC modules say what each setup is for.

Each mapped definition that a mutant replaces has its mutant next to it (`Without` and
`WithoutErase`): the mutated form is what a plausible mistake in that code would be, and TLC must
find the property violated by it.

## 3. Runs

The type invariant of a module is the first conjunct of another invariant of its run, or (`Agps`,
`NiSession`, `MsgTask`) a theorem, which needs no run. Some properties are a conjunction of two or three named ones, given here
after the `=`; each part is defined and commented by itself.

| run | states | properties, and what they show |
|---|---|---|
| `agps` | 46 k | `ConnectionHasUser`: a data connection is held exactly while an active handle uses it. `OutsideAgrees` = `ModemViewAgrees`: whatever the modem waits on is subscribed somewhere, and without restarts what it was told is what the state says; `AskedTypeIsCurrent`: with emergency SUPL on the shared connection, the type that names it when it is given back is the one it was asked for with. `EveryWaitEnds` (liveness). |
| `agps_bad_apn` | | violates `BadApnReported`: finding 1. |
| `ni_session` | 303 k | `HeldHasItsThread`: although `rawRequest` is tested outside the lock, a session holds exactly the data of the request whose thread waits on it. `OutcomeIsFinal`: data is sent or freed at most once. `AnswerIsOwn`: prompt users get their own answer across. `EveryRequestEnds` (liveness). |
| `timer_service` | 166 k | `TimersAreServed` = `NothingDangles`: no message, heap entry, client or expiry names a deleted delegate, and exactly one removal is posted; `ArmedForTop`: when both threads rest, the timerfd wakes the poll thread in time. `EveryTimerEnds` (liveness). |
| `timer_heap` | 27 k | `TreeIsHeap`: the code's own `checkNodes` passes after every sequence of operations. `IsAHeap`: refinement of `Heap`, removals among ties included. |
| `msg_task` | 5 k | `DelegateLives`: the reference count deletes the shared delegate exactly when both sides are through. `DestroyedMeansQuiet`: nothing runs after `destroy()` of a joinable task. `IsMailbox`: refinement of `Mailbox`. `EverythingIsDeleted` (liveness). |
| `gnss_tracking` | 305 k | `EngineServesSessions`: when everything has settled the engine runs fast enough for every session by time, and every session by distance; a stopped session does not come back and the engine does not run for nobody. `AnsweredOnce`, and `EveryCommandIsAnswered` (liveness). |
| `geofence` | 293 k | `IdsHaveFences`: an id with a number has the fence of that number, for clients that stay whatever the engine does, and for clients that leave as long as none does while the engine restarts and the engine gives no number twice between two restarts. `EngineAgrees`: when nothing is under way the adapter has the engine's fences, whatever restarts and refusals met. `PromiseKept`: the engine has what the responses said. `EveryCommandAnswered` (liveness). |
| `batching` | 248 k | `EngineRunsSessions`: when everything has settled, the engine runs exactly the sessions by time that the client was told it has, with their options, after restarts and refusals too; and, for a client that makes one call at a time, it runs a trip exactly while the adapter's map has one, reporting no more slowly than any of them asks for. `TripsEndInTime`: two trips share one batch of the engine, which each joins at another distance; none is over before its distance is done, none goes on after. `AnswerIsOwn`: a callback comes for the call whose response it brings, unless a call was made on a session that was being removed (4.2), and none after the destroy callback. `EveryCallIsAnswered` (liveness). |
| `qcsm` | 123 k | `ChannelsFitState` = `RunningIsRunning`, `StoppedIsStopped`: state and channels agree, under the premises 4.2 explains (`Orderly`: no long shot without ZSL, no early restart, no pictures of the backend's own; `Healthy`: no failing operation). `EnableNotLost`: a message that was enabled is on or held back. `OwnAnswer`: a call returns the result signalled for its own request. `EveryCallReturns` (liveness). |
| `superbuf` | 450 k | `QueueInOrder`: counter, order and bound on incomplete superbufs; trims end and free nothing twice. `SentTogether`, `FramesConserved`: superbufs are whole, of one index, and each frame is in one place. `NoFrameBeforeFlash`: no picture from before its flash. |
| `hal3` | 33 k | `BuffersAccounted`: no request is answered twice, no buffer comes back twice or good after it was announced as lost, and the map of pending buffers is what the framework is owed, nothing once the device is gone. `CountIsLive`: the number that decides whether the next call blocks is the number of live requests pending. `NoLostWakeup`: a blocked call has been signalled whenever there is room for it. `JpegIsOwn`: image, metadata and settings of a picture belong to one request. `IsContract`: refinement of `CaptureContract`: live requests are answered in order, once, and each stream's buffers come back once, in the order they were given. `EveryRequestEnds` (liveness): every request is answered and gets its buffers back, and a blocked call returns. |

### Bounds, and why they are enough

- `agps`: three handles, so that one may leave, one stay and one join at each state; both state
  machines; one usable APN, since the manager only tells NULL from not NULL. Reports are unbounded
  and come in any state. Besides the manager as built, the setup `Contract` drives the state
  machine class with subscribers that wait for the close, the case RELEASING was written for.
- `ni_session`: two requests and two answers to each: enough for a request and its successor in the
  same session and for both sessions at once. More requests are the theorems' part: `AnswerIsOwn`
  held here in a form that its proof showed to be false with four requests (4.2), and is now stated
  as it holds for any number.
- `timer_service`: two clients, three delegates, a clock of three instants: one client restarts its
  timer while the other's is due at the same or at another instant.
- `timer_heap`: seven items, the full tree of three levels, ranks tied in pairs.
- `msg_task`: six messages; the queue only tells empty from not empty and its head from the rest.
- `gnss_tracking`: one client (sessions are keyed by client and id; a second client only adds
  names), up to three sessions, two intervals of which one is below the engine's minimum, one
  or two updates, one stop and one restart. The setups: by time only; both kinds, with updates from one to the
  other; refused requests and a client that goes; restarts at any moment.
- `geofence`: three commands on two fences over two engine numbers; each setup adds one difficulty:
  leaving clients, two clients, two restarts and refusals, commands of two items, fences paused when
  the engine restarts, (with a fourth command) numbers given again, and two clients that leave before,
  after and while the engine restarts.
- `batching`: two ids and four calls, so that a session may start, meet another, stop and start
  again; two trips of distance 2 and 3, the shorter one the slower, over a way of four, with distances
  of four bits, where a difference taken the wrong way round wraps. Twelve setups: sessions by time with a
  refusal, with calls in any order, over an engine that comes up late and restarts twice, with an
  update; with tracking sessions besides; destroyed in the middle; trips alone, refused, restarted,
  next to a session by time, and raced. A client is *patient* (calls when nothing is under way),
  *waits* for its last callback, is *orderly* (waits per session) or *free*: what the code does to
  less patient clients than a setup has is in 4.2.
- `qcsm`: four to seven public calls and one or two pictures in each of eight cameras; calls are
  drawn from all modelled ones in any order.
- `superbuf`: two or three streams, four or five frame indices, two commands of the HAL, a water
  mark of two or one; enough for the queue to be trimmed, to overflow with incomplete
  superbufs and to drain, in each kind of channel.
- `hal3`: three frames and five buffers per stream, so that one request may end, one run and one be
  asked for while one is blocked at the in-flight limit; fourteen setups, each a stream
  configuration with one or two difficulties: metadata only, preview, batches of video, pictures,
  reprocessing with an input buffer, missed metadata, dropped frames, lost and early buffers, flush,
  death of the engine, a new configuration. Kept apart, because the code mixes them up (4.2):
  missed metadata and pictures or drops; reprocessing and live pictures or a flush; buffers kept
  back and a flush; lost and early buffers.

Deadlock is checked in `agps` and `timer_heap`, where an action is always possible; in the others
the bounds, or the end of the object's life, let the system stop.

### Fairness

- `Agps`: the framework answers each request it owes an answer (weak fairness on `Answer(n)`): the
  connectivity service calls back with success or failure. Nothing is assumed of the modem.
- `NiSession`: each request's thread runs, and its timed wait ends (`pthread_cond_timedwait`).
- `LocTimer`: both service threads run and time passes.
- `MsgTask`: the served thread runs, handlers return, and a begun `destroy()` goes on.
- `GnssTracking`, `GeofenceAdapter`: both message threads serve their queues. Clients, refusals and
  restarts are never forced.
- `LocationBatching`: the adapters' thread and that of `LocApiBase` serve their queues, the tracking
  adapter answers its commands (shown by `gnss_tracking`), and an engine that was never up comes up.
  Clients, refusals, restarts and travel are never forced.
- `QCameraStateMachine`: the state machine thread, woken callers and the helper threads run; the
  backend reports the end of a snapshot's preparation and the frames it was asked for. That a
  picture completes is not assumed: no call waits for it.
- `QCamera3HWI`: the request, flush, metadata and stream threads run, and so does the picture path;
  the backend answers each frame it was asked for and returns cancelled buffers in the order of its
  queue. That a caller asks again, flushes or closes is never assumed.
- `LocHeap`, `SuperBufQueue`, `Mailbox`, `Heap`: safety only.

## 4. What the code does otherwise

### 4.1 Finding, with its run

1. **An unusable APN is never reported** (`gps/gnss/GnssAdapter.cpp:4383`). `dataConnOpenCommand`
   turns it into `reportAtlClosed`, which PENDING ignores (`Agps.cpp:234`): the waiting handles are
   told nothing. The comment at :4380 says "In case of failure reporting the same".

### 4.2 Deviations met while modelling

The models do what the code does here too; the properties exclude these cases by name in their
premises, so that they say what holds elsewhere.

- AGPS: `handleModemSSR` has no caller, so a restarted modem meets its old handles in the lists
  (`Agps.cpp:664`, against `Agps.h:196`).
- NI: an answer matched before and applied after a timeout goes to the next request of the session
  (:2906); the thread's tail clears the id of a request admitted meanwhile (:3798); a late answer
  overrides the IGNORE of an accepted emergency (:2913), and an emergency's order to give way that
  finds the request through leaves its IGNORE in the empty session: the next request is freed and
  its user's answer goes to the one after; a thread that cannot be created leaves the
  session occupied for good (:3877).
- Timer: an expiry pops the first timer without looking at the clock, so after a stop the next one
  may expire early (`LocTimer.cpp:370`); `expire` calls through `mClient` without the shared lock
  (:530).
- Message task: `destroy()` before the thread first runs leaks task and messages (`LocThread.cpp:181`);
  a fast thread deletes the task while `destroy()` still writes to it (`MsgTask.cpp:69`).
- Tracking: a start that asks for no more than a session already in the map is answered with success
  at once, while that one's own start may still fail and be erased (:2443, against `LocationAPI.h:69`:
  success "if session was successfully started"); a restart before the answer to the stop of a session by distance starts it again and the
  answer then forgets it (:2773); sessions of a removed client stay (:2034); the multiplexed power
  mode is compared but not stored (:2490); CALLBACK_MISSING is never sent (:2410); a held-back start
  cannot be stopped (:2784); an update answered late leaves one session in both maps (:2662).
- Geofences: a refused modification reports success (:592); a refused resume is not answered (:508);
  a paused fence is active after two restarts (:172); fences whose restoration is unanswered are
  lost by another restart (:149); an unknown last item frees what earlier items still use (:371);
  a fence being added when its client leaves stays in the engine (:56), one being removed stays in
  the map (:60); numbers looked up before a removal or a restart may stand for other fences when
  used (:351, :353, :65). So the removals of a client that leaves while the engine restarts may hit
  another client's fence, and so may the answer to a removal that was under way when its client left,
  once the engine has given the number again (:61). `IdsHaveFences` leaves out these two cases and
  nothing else: with clients that leave it wants a leaving apart from a restart (the ghost `apart`) and
  an engine that gives no number twice between two restarts. `EngineAgrees` is stated for clients that stay.
- Batching, sessions by time (`BatchingAdapter.cpp`): a refused stop restores the default options of
  the command instead of the session's (:512), and a restart runs it with those or not at all; an update
  from batch to batch gives two responses, the stop's and the start's, and hands on default options; a
  restart that crosses a stop saves a session again that the engine does not run; messages kept for
  the engine are posted behind newer ones (:177); a stop or update of an unknown id gets no response.
- Batching, trips: a trip stopped without a restart of the batch stays in `mBatchingSessions`, and the
  event mask stays on; a refused stop forgets a trip that the engine runs on; a second trip is never
  entered there, cannot be stopped and survives its client; a failed query of the distance drops the new
  trip and reports success. A completed trip is compared after it was erased (:679) and stays in the
  map, so that a later stop dereferences `end()`, as do two stops before the first's answer (the model
  ends such behaviours). A trip that joins while the last one's stop or end is under way is answered
  with success and never run; a start overtaken by a re-measure leaves a slower interval than asked. The
  stop of a trip whose rest, not its whole distance, is what the engine measures does not mark it as
  dropped (:896), the batch then ends with no trip completed, nothing starts the others again (:693) and
  they never end; the marks are never taken back. A joining or stopping trip, and a restart of the
  engine (:222), forget what other trips have travelled.
- Client base and `LocationAPI`: one queue of requests for all sessions, so that responses of batching
  and of tracking cross (`LocationAPIClientBase.cpp:949`); starting tracking again drops the queue and
  with it a stop's callback; a session started before the callback of its stop is told it exists; a
  trip that ends while its stop is under way leaves the stop in the queue; responses to the stops of a
  removed client (call 0) are taken for open requests. `StopBatchingRequest` and `StopTrackingRequest`
  call the user before they remove the session (`LocationAPIClientBase.h:456`, :423), and the removal,
  like that of completed trips (`LocationAPIClientBase.cpp:868`), takes no `mMutex`. A call on the same
  id that comes in between, from the callback itself or from another thread, still finds the session,
  pushes its request and returns success; its response, if the adapter gives one, finds no session,
  its callback never comes, and the next response of any session takes its request. If the removal
  falls into the call, between `hasId` and `getExtById`, the latter puts the id back in without a
  session: it can then neither be started (it exists) nor stopped (session 0); if it falls into an
  update, the session that was stopped is put back. The model has all of these (`Within`); `AnswerIsOwn`
  and `EveryCallIsAnswered` are stated for clients that make no such call (`app.hasty`), which may still
  call on other ids meanwhile. The destructor waits for no adapter, and an
  object destroyed without a callback is never deleted; the HIDL service returns the -1 of a start or
  stop that failed as true (`android/2.0/GnssBatching.cpp:95`, :114).
- HAL1: a long shot without ZSL takes the state of a picture over a preview that is gone (:1467), and
  LONGSHOT_OFF forgets a capture channel (:2105); STOP_PREVIEW or CANCEL_PICTURE during a picture
  forgets a preview restarted early (:2289), and the end of a burst says previewing without one; a
  disabled message comes on again (:3187); SNAPSHOT_DONE of a cancelled picture ends the next one
  (:3651); the live snapshot's cancel uses a channel that may be gone and stops the post-processor
  of a later picture (`QCamera2HWI.cpp:5612`, :5614); internal and application pictures may take each
  other's results (:6663); SEND_COMMAND_RESTART goes unanswered outside PREVIEWING
  (`QCameraMuxer.cpp:1552`); a failed commit leaves the state without its preview (:1084); so does
  a flash picture of the backend's own between the halves of set_parameters, whose commit its
  PREPARE_SNAPSHOT refuses (`QCameraStateMachine.cpp:1751`), and such a picture may start the preview
  that was stopped for the second half; PREPARE_SNAPSHOT drops an enable (:1746).
- Superbuf queue: with a burst pending, metadata without a range of good frames ends the LED wait
  (:2665), and a flush on focus overwrites the awaited frame (:276), so frames from before the flash
  are sent; a flush returns all superbufs, not those up to the frame (:277); a skip of one skips
  nothing (:2865).
- HAL3, in `HAL3/QCamera3HWI.cpp` where no file is named. A flush while an older request is being
  reprocessed pairs the map's entries with the first of the list, sends ERROR_REQUEST after that
  request's result and erases `end()`, against the comment at :10882. A failing `setBundleInfo` or
  sync in a flush leaves `mFlush` set. A drop reported with metadata marks buffers of older frames
  too, which are then returned OK. `mPendingBatchMap` gets an entry for every set of parameters that
  is never removed, and an unknown key aborts; the batch in hand (`mToBeQueuedVidBufs`) survives
  flush and configure, against :4057. A failure after the request was listed leaves it pending but
  uncounted, so that a later decrement wraps; a timeout of the blocked request returns -ENODEV for a
  request that was accepted, and the engine's death does not wake it; two threads may report
  ERROR_DEVICE. A restart of the sensor mode (`dynamicUpdateMetaStreamInfo`) leaks
  `mPendingLiveRequest`, notifies without the mutex, and overwrites ERROR by STARTED (:4418).
- HAL3 post-processor and channels: metadata and pictures are matched by the order of the queues, so a
  missed metadata shifts every later picture by one, and an input buffer sent while a live picture is
  outstanding swaps their settings and buffers (`QCamera3PostProc.cpp`); when encoding cannot start or
  its settings are missing the output buffer is not returned before a flush; `processData` returns out
  of memory with its lock held; the picture channel's flush takes success for failure
  (`QCamera3Channel.cpp:3331`); buffers kept for their turn are not cleared by stop or flush, and one
  that comes when its turn has passed stays; TIMEOUT carries only the index of a buffer.

## 5. Proofs

Each theorem holds for every value of the module's constants that its assumption admits; the runs
check the same property on the instances above. The only assumptions are the modules' own
(`AgpsAssumption`, `NiAssumption`, ...), which say of what type the constants are, and which TLC
evaluates on every run.

| theorem | says |
|---|---|
| `AgpsTypeOK`, `AgpsConnectionHasUser`, `AgpsOutsideAgrees` | for any handles and setups: types; a connection exactly while an active handle uses it; what the modem waits on is subscribed, and named by the type it was asked for with |
| `NiTypeOK`, `NiHeldHasItsThread`, `NiOutcomeIsFinal`, `NiAnswerIsOwn` | for any number of requests and answers: a session's data belongs to one thread, is sent or freed once, and prompt users get their own answer across |
| `TimerTimersAreServed` | for any clients, delegates and instants: no delegate is used after it is deleted, or deleted twice, and when both threads rest the timerfd is armed for the soonest timer |
| `MsgTaskTypeOK`, `MsgTaskDelegateLives`, `MsgTaskDestroyedMeansQuiet`, `MsgTaskIsMailbox` | for any number of messages: the delegate is deleted exactly when both sides are through, nothing runs after `destroy()` of a joinable task, and the task implements `Mailbox` |
| `GnssAnsweredOnce` | for any clients, options, refusals and restarts: no command of a session is answered twice |
| `GeofenceIdsHaveFences` | for any clients, commands and refusals: an id that has a number of the engine has the fence of that number. For clients that stay: however often the engine restarts and whichever numbers it gives again. When clients leave: for any number of leavings and restarts, of which no leaving meets a restart, over an engine that gives no number twice between two restarts |
| `GeofenceEngineAgrees` | for any clients that stay, over any engine: when nothing is under way the adapter's map is the engine's, but for the pause of a fence that was paused before a restart |
| `SuperBufSentTogether`, `SuperBufFramesConserved` | for any streams, marks, losses, metadata and commands: what is sent is whole and of one index, and after each command every frame is in one place |
| `SuperBufQueueInOrder` | for the same: the complete superbufs are at the head and `match_cnt` counts them, a bounded number waits behind, no loop runs on, no frame goes back twice, no freed link is read |
| `SuperBufNoFrameBeforeFlash` | for the same, where single pictures are asked for and no mode or focus interferes: nothing is sent from before the flash |
| `QCameraChannelsFitState` | for any cameras, calls, failing operations and orders of events: the video channel runs in the recording states only; where calls are `Orderly` nothing streams in STOPPED, and between calls a healthy camera's previewing state has a preview that runs |
| `QCameraOwnAnswer` | for any healthy camera without pictures of the backend's own: a caller takes a result that was signalled for it |
| `QCameraEnableNotLost` | for any cameras, calls, failing operations and orders of events: a preview frame message the application enabled stays on or held back until it disables it |

The argument is the same in all modules: an inductive invariant, one lemma per action that goes
through it conjunct by conjunct, and temporal logic at the end. TLC checked each invariant before
it was proved.

- **AGPS.** `IInv == TypeOK /\ ConnectionHasUser`. The two are inductive only together: that a
  release gives the connection back needs the subscriber counts, and that the counts move with the
  state needs the types. `OutsideAgrees` is carried next to it, with two more facts: while
  the modem does not restart a handle is in one list at most (`InOneList`), and without a PDN of its
  own for emergency SUPL each state machine has one type for good (`TypesAreOwn`).
- **NI.** Ids not yet given out appear nowhere (`Fresh`), and a request that has left its session did
  so through its own thread (`LeftMeansThrough`). With `HeldHasItsThread` they make the step in which
  a thread takes the data unique, from which `OutcomeIsFinal`, an action property, follows. For
  `AnswerIsOwn` a request has no answer before its thread takes it (`NothingTaken`), a session that
  holds a request has its id or none (`IdIsOwn`), and while users are prompt an answer is on its way
  to its own request: through the handler, in the session, with the thread (`AnswersOnTheirWay`).
- **Timer service.** For `NothingDangles`: client and delegate refer to each other (`HeldByClient`),
  what refers to a delegate refers to one that is allocated (`References`), a delegate is held and no
  removal of it is posted, or exactly one is (`RemovedOnce`), and that one comes behind its push
  (`PushedFirst`). For `ArmedForTop`: the
  remembered top is one of the soonest (`TopIsSoonest`), and an expiry is on its way from the timerfd
  to its end unless the timerfd is set for the top (`ArmedOrExpiring`). The heap is the contract that
  `timer_heap` shows `LocHeap` to implement.
- **Message task.** The reference count is the number of sides still to let go (`SharesCounted`); a
  cleared runnable means a closed queue (`StoppedIsClosed`); at most one message is handled
  (`OneHandler`); a joined thread is gone (`JoinedIsGone`). For the refinement each step maps to a
  step of `Mailbox` or a stutter (`StepIsMailbox`); the mailbox's queue is `msgList`, what it has in
  hand is `current`.
- **Tracking.** Whatever may still answer a command of a session waits in one of three queues: requests
  to the engine (`api`), responses on their way back (`Answers`), messages kept until the engine is up
  (`mPendingMsgs`). For a session of a client that has not left, the answers given and those three
  counts together are at most the commands given (`CInv`): every handler puts into the queues, or gives
  to the client, at most what it took from one. `TInv` has the types of the maps and queues.
- **Geofences.** `TInv` has the types of the maps, jobs and both queues. `HInv` follows a number from
  the engine to the maps: an engine that is down comes up once (`UpOnce`), one that runs does not
  give out again what it has given (`GivenIsUsed`), so that between two restarts no number is given
  twice (`GivenOnce`), and the number of a fence whose client has left is nobody's (`LeftToNobody`);
  then an id's number still has its fence (`HasFence`). This is the argument for clients that leave; the
  last two need that none left while the engine restarted (`apart`, a premise inside the invariant: a
  behaviour may have any number of both). For clients that stay, over an engine that gives numbers
  again, `HasFence` is a part of `EInv` below: a fence saved under a number given again could only take
  another id's place if that number were still in the map, and a number that is given is in none of
  the views before the message that brings it.
- **Geofences, adapter and engine.** The map lags behind the engine by the messages that wait. `EInv`
  therefore carries a sequence of *views*, the map after each of these messages as `After` applies
  them; the last view agrees with the engine (`ViewsAgree`). A request the engine carries out appends
  the message that does the same to the last view; the adapter's thread makes the first view its map.
  This holds also for requests by numbers that meanwhile stand for other fences, on both sides
  alike. It needs that a removal finds the id of its fence in the second map, so that no two fences
  may have one id: each id is in one place, in a command, a turn, a request, a message or the map
  (`EachOnce`). Between the engine's failure and its return the views say nothing (`DownIsEmpty`), and
  the message that tells of the return empties the last view. `NothingPaused` has where the
  exception of paused fences cannot arise.
- **Superbuf queue.** A command passes the record of the channel through some twenty operators; each
  is shown to keep it `Sound` (nodes well formed, no frame in two of them, none both queued and
  returned) and to keep the frames it deals with, those queued and those returned, up to the one it
  brings in (`Keeps`). Then they compose by transitivity, and the dispatch splits the queue in what is
  sent and what stays (`Settled`). A node that waits with metadata of a later frame holds nothing
  else, which is why taking another index does not mix frames (`Joined`). That a new frame is not in
  the queue already follows from the order of a stream's frames (`Inv`). Three lemmas on sequences, of
  an interval cut out, a node put in and a node changed, carry all of it.
- **Superbuf queue, in order.** That the complete nodes come first is not inductive: a node that is
  completed behind one that still waits takes its place only because the code throws away the older
  ones before it, so all that wait before it must be older. `Ordered` says why. Of each stream a node
  has no frame newer than the stream's last (`Read`). A node that waits lacks a frame and has its index
  from one it holds (`Partial`), and of two that wait the first has the smaller index, unless the
  second is `Doomed`: a stream it lacks has passed it, so it can never be completed (`Before`). The
  exception is needed where a node that waits with metadata of a later frame takes the smaller index
  of the first frame that joins it and stays where it is. A node that is completed lacks nothing, so
  all that wait before it are older and `Match` drops them; a new node goes before the first newer
  one, and one stream's frames come in order. `MakeRoom` removes at most one node per frame, so no
  freed link is read.
- **Superbuf queue, flash.** `FloorInv` says that no node of the queue is of a frame before the floor
  and that none before it is expected (`From`). Metadata that announces the flash empties the queue
  and moves what is expected with the floor; metadata with a first good frame may lower both. A frame
  enters the queue if it is expected, or if a node of it is there. Without bursts and generic commands
  the other ways to move what is expected stay closed (`Single`). One case needs more, a bundle of the
  metadata stream only: its frame is complete at once, so the one that announces the flash must not be
  taken; it is not because what is expected never falls behind the frames read (`Alone`).
- **HAL1 state machine.** Two halves. The handlers: every operation of the hardware interface, with
  every outcome, leaves the message shown if it was (`Keeps`) and enters no preparation, and every
  handler but three does only that and gives at most one answer, to its own request (`HandlersAre`);
  the three are enabling, disabling and preparing a snapshot (`EnableIs`, `DisableIs`, `PrepareIs`).
  The protocol: these three requests are under way once, in the queue or among the results, and for
  the call the application is in (`OnceEach`); a preparation is with the backend or among the events,
  once, while that call waits for it (`PreparedOnce`). So when ENABLE_MSG_TYPE is handled no snapshot
  is being prepared and it is not refused, and when the application takes the answer the message is
  shown (`Shown`). `EnableNotLost` alone is not inductive, as it does not say why the one state that
  refuses the request is not met. The invariant assumes what the property does: no flash picture of
  the backend's own, whose thread prepares a snapshot besides the application's, and no dying daemon.
- **HAL1 state machine, channels and results.** That the channels fit the state is not inductive for
  three reasons, and `FitInv` (in `QCameraInvariant`) has a part for each. The
  camera's fields go together in ways the property does not mention (a picture with frames from
  before the call comes only when these were asked for, a live snapshot is under way in one state):
  `Fits` says in which, and the lemmas show handler by handler, outcome by outcome, that a request
  that may come (`Due`) keeps it. Some requests are legal only at their place in a call: set_parameters,
  the muxer's restart and its long shot stop the preview with one request and start it with another,
  and the state says previewing in between. So the requests of a call are under way once, in the queue
  or among the results, for the call that waits (`Once`, but for those which the backend's reports
  answer, whose frames are owed once: `Frames`); between the halves of set_parameters the preview is
  down (`NoneStarted`); and where the preview of a state does not run, its starting request is on its
  way (`Lapses`), which is why the application in no call means that it runs. Last, `Addressed`: who
  waits has had its request taken while it was asleep, so that every result is signalled to it; with
  `Once` the first result of its kind is its own. Each part is claimed under the premise under which
  it is true (TLC refuted the stronger ones), and every step is first abstracted into one of four
  forms, a request served, a call that goes on, a report of another thread, a wait, so that each part
  is proved for four forms instead of some eighty handlers.

Only model-checked, and why:

- every liveness property: fairness and ENABLED are beyond the prover;
- `LocHeap` and its refinement of `Heap`: trees are recursive, and induction over data is out of reach;
- `EngineServesSessions`, `PromiseKept`: what the engine runs after everything has
  settled is compared with minima (CHOOSE) over maps whose entries are under way in three queues; the
  invariant must say of every order of those queues what they will have done;
- the properties of `QCamera3HWI`, whose handlers fold over sequences of buffers (an induction each);
  those of `LocationBatching`, which fold over the sessions of a client.

## 6. Not modelled, and why

- In `Agps`: the data race of the bad-APN path, which runs in the binder thread; its outcomes are
  memory errors.
- In `LocTimer`: the C wrapper, and the alarm container, the same class over another clock.
- In `GnssTracking`: configuration, aiding data, SV types and reports; the fallback from power mode
  M4 to M2.
- In `GeofenceAdapter`: breach and status reports and the event mask, which change no map; commands
  with NULL ids, options or infos, which would never be answered (`GeofenceAdapter.cpp:242`, :578) but
  which no client under `src/` gives, and allocations that fail.
- In `LocationBatching`: a second client, updates of callbacks, a destroy without callback, geofences
  (their queue in the client base is matched in the same way, and `locAPIRemoveAllGeofences` hands
  sessions over as ids), the control API, the reports of batched locations.
- In `QCameraStateMachine`: the second camera of a dual one (the muxer's calls are modelled for
  the main camera, a failing recording hint excepted), manual capture of three stages and more, TNR and raw pictures, low power mode, a NULL preview window, the destructor, and requests
  that only pass through (autofocus, faces, dump, reading parameters). A public call is served
  before queued events, as in the code; a handler is atomic.
- In `SuperBufQueue`: configured capture batches, instant capture, frame sync of two cameras, roll
  over of the 32-bit frame counter.
- In `QCamera3HWI` and its channels: urgent partial results (they carry no buffer), failures to start
  a channel, YUV reprocessing, lost buffers of the snapshot stream, the error status of a buffer, the
  containers of batched buffers, the restart of the sensor mode, static and per-frame parameters.
- Hazards known besides those of `PROJECT.json`, without a property: the bad-APN path in the binder thread (`GnssAdapter.cpp:4383`) and the
  cancelled live snapshot's channel (`QCamera2HWI.cpp:5612`) are races whose outcomes are memory
  errors; the late SNAPSHOT_DONE (`QCameraStateMachine.cpp:74`) and the refused modification
  (`GeofenceAdapter.cpp:592`) are what the code does, and deviations above; frame sync
  (`mm_camera_channel.c:458`) is not modelled.
- External, modelled from how the code uses them: the modem engine, the framework's connectivity
  service, the camera backend, timerfd and epoll.

## 7. Plan

Done, in this order: `Agps`, `NiSession`, `LocTimer` with `LocHeap`/`Heap`, `MsgTask`/`Mailbox`,
`GnssTracking`, `QCameraStateMachine`, `SuperBufQueue`, `GeofenceAdapter`, `QCamera3HWI` with
`QCamera3Channel`, `QCamera3PicChannel` and `CaptureContract`, `LocationBatching` with
`BatchingAdapter` and `LocationAPIClientBase`.

Next modules:

1. Camera streams (`mm_camera_stream.c`): buffers between kernel, HAL and unmapping, and the
   channel's own state machine above them, composed with `SuperBufQueue`'s bufdone.
2. `QCameraCmdThread`/`QCameraQueue` and the post-processor's jobs (input, reprocess, JPEG, save).
3. Frame sync of two cameras; the muxer's pairing of JPEG images.
4. System status subscriptions, ODCPI, LocIpc, performance locks, doze and pocket mode.

Next theorems: `PromiseKept` of the geofence adapter on top of `EInv`'s views; `CountIsLive` of HAL3.
