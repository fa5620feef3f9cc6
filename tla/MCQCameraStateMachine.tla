----------------------- MODULE MCQCameraStateMachine -----------------------
(* Cameras and applications for QCameraStateMachine, each with a part of the *)
(* public calls and the bounds that fit.                                     *)
EXTENDS QCameraStateMachine

EarlyCalls   == {"SET_PREVIEW_WINDOW", "START_PREVIEW", "STOP_PREVIEW"}
PreviewCalls == EarlyCalls \cup {"PREPARE_PREVIEW", "RELEASE", "set_parameters"}
MessageCalls == {"ENABLE_MSG_TYPE", "DISABLE_MSG_TYPE", "PREVIEW_ENABLED"}
PictureCalls == {"take_picture", "CANCEL_PICTURE"}
RecordCalls  == {"start_recording", "STOP_RECORDING"}
LongCalls    == {"LONGSHOT_ON", "LONGSHOT_OFF"}

ShortCalls == PreviewCalls \cup MessageCalls \cup PictureCalls \cup RecordCalls
AllCalls   == ShortCalls \cup LongCalls

Plain == [Apis |-> AllCalls, ZSL |-> FALSE, Retro |-> FALSE, Flash |-> FALSE,
          RestartEarly |-> FALSE, DualCamera |-> FALSE, InternalPics |-> FALSE,
          HwMayFail |-> FALSE, DaemonMayDie |-> FALSE, MaxCalls |-> 5, MaxShots |-> 2]

\* Pictures from the running preview.
Zsl == [Plain EXCEPT !.ZSL = TRUE, !.MaxCalls = 7]
\* Pictures from a capture channel, prepared with the flash.
Capture == [Plain EXCEPT !.Apis = ShortCalls, !.Flash = TRUE, !.MaxCalls = 7]
\* The preview restarts before the picture is complete.
Early == [Capture EXCEPT !.RestartEarly = TRUE, !.MaxCalls = 5]
\* Whatever may fail does.
Faults == [Plain EXCEPT !.Flash = TRUE, !.HwMayFail = TRUE, !.DaemonMayDie = TRUE, !.MaxCalls = 4]
\* The backend takes pictures too.
Internal == [Capture EXCEPT !.InternalPics = TRUE, !.HwMayFail = TRUE, !.MaxCalls = 4]
\* Pictures with frames from before the call.
Before == [Plain EXCEPT !.Apis = EarlyCalls \cup RecordCalls \cup {"set_parameters", "take_picture"},
                        !.ZSL = TRUE, !.Retro = TRUE, !.Flash = TRUE, !.MaxCalls = 6, !.MaxShots = 1]
\* One of two cameras.
Dual == [Zsl EXCEPT !.DualCamera = TRUE, !.MaxCalls = 4]
DualCapture == [Capture EXCEPT !.DualCamera = TRUE, !.MaxCalls = 6]

MCSetups == {Zsl, Capture, Early, Faults, Internal, Before, Dual, DualCapture}
=============================================================================
