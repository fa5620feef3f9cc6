--------------------------- MODULE MCSuperBufQueue -----------------------------
(* Channels and clients for SuperBufQueue.                                  *)
EXTENDS SuperBufQueue

CONSTANTS meta, prev, snap

OnePicture == {<<1, 0>>, <<0, 0>>}
Retroactive == {<<2, 0>>, <<2, 1>>, <<1, 2>>, <<0, 0>>}

\* A ZSL channel with lost and diverted frames and bursts of two pictures.
Burst == [Streams |-> {meta, prev, snap}, Metadata |-> meta, MaxFrame |-> 4,
          water_mark |-> 2, look_back |-> 2, post_frame_skip |-> 1,
          max_unmatched_frames |-> 1, LowPriority |-> FALSE, Continuous |-> FALSE,
          Preps |-> {"NO"}, Goods |-> {}, FrameSkip |-> 1, Diverts |-> {0, 1, -2},
          Requests |-> Retroactive, Flushes |-> {}, Generics |-> {}, MaxCommands |-> 2]

\* One picture at a time, with flash.
Flash == [Burst EXCEPT !.Streams = {meta, snap}, !.MaxFrame = 5, !.Diverts = {},
                       !.Preps = {"NO", "NEED_FUTURE_FRAME", "DO_NOT_NEED_FUTURE_FRAME"},
                       !.Goods = {0, 1}, !.Requests = OnePicture]

\* The channel of a live snapshot: low priority, every superbuf is sent.
Low == [Burst EXCEPT !.water_mark = 1, !.look_back = 0,
                     !.max_unmatched_frames = 2, !.LowPriority = TRUE, !.Continuous = TRUE,
                     !.Diverts = {}, !.Requests = {}, !.Flushes = {0, 2}]

\* Every other command, at any time.
Modes == [Flash EXCEPT !.MaxFrame = 3, !.water_mark = 1, !.look_back = 0,
                       !.Preps = {"NO", "NEED_FUTURE_FRAME"}, !.Flushes = {0, 2},
                       !.Generics = {"AE", "FLASH", "ZOOM", "MANUAL", "NOTIFY"}]

MCSetups == {Burst, Flash, Low, Modes}
================================================================================
