----------------------------- MODULE SuperBufQueue -----------------------------
(***************************************************************************)
(* The superbuf queue of an active channel of the camera interface         *)
(* (mm-camera-interface/src/mm_camera_channel.c): frames of the bundled    *)
(* streams are put together by frame index, and complete superbufs are     *)
(* kept for, or sent to, the HAL.                                          *)
(*                                                                         *)
(* One command thread does all the work, so a command is one action: it    *)
(* runs mm_channel_process_stream_buf to its end.  The order in which the  *)
(* poll threads and the HAL put commands into the thread's queue is        *)
(* arbitrary, but the frames of a stream come in increasing order.  A      *)
(* frame stands for its buffer.  Captures of configured batches            *)
(* (isConfigCapture), instant capture (user_expected_frame_id) and the     *)
(* frame sync of two cameras are left out.                                 *)
(***************************************************************************)
EXTENDS Integers, SequencesExt

CONSTANT Setups   \* the channels and clients to consider

ASSUME SuperBufAssumption ==
    \A s \in Setups :
        /\ IsFiniteSet(s.Streams) /\ s.Metadata \in s.Streams
        /\ {s.MaxFrame, s.water_mark, s.look_back, s.post_frame_skip,
            s.max_unmatched_frames, s.FrameSkip, s.MaxCommands} \subseteq Nat
        /\ {s.LowPriority, s.Continuous} \subseteq BOOLEAN
        /\ s.Preps \subseteq {"NO", "DO_NOT_NEED_FUTURE_FRAME", "NEED_FUTURE_FRAME"}
        /\ s.Goods \subseteq Nat /\ s.Diverts \subseteq Int \ {-1} /\ s.Flushes \subseteq Nat
        /\ s.Requests \subseteq Nat \X Nat
        /\ s.Generics \subseteq {"AE", "FLASH", "ZOOM", "MANUAL", "NOTIFY"}

VARIABLES
    setup,      \* one of Setups, for good
    ch,         \* the channel, its queue, and what the last command gave away
    last,       \* per stream the index of the last frame read
    floor,      \* the first frame that may be used for a picture with flash
    latest,     \* index of the last superbuf sent
    commands

vars == <<setup, ch, last, floor, latest, commands>>

Streams              == setup.Streams         \* bundled_streams
Metadata             == setup.Metadata        \* the one of type CAM_STREAM_TYPE_METADATA
MaxFrame             == setup.MaxFrame        \* bound: the last frame index of a stream
water_mark           == setup.water_mark      \* the attributes of the bundle
look_back            == setup.look_back
post_frame_skip      == setup.post_frame_skip
max_unmatched_frames == setup.max_unmatched_frames
LowPriority          == setup.LowPriority     \* MM_CAMERA_SUPER_BUF_PRIORITY_LOW
Continuous           == setup.Continuous      \* MM_CAMERA_SUPER_BUF_NOTIFY_CONTINUOUS
Preps                == setup.Preps           \* states of CAM_INTF_META_PREP_SNAPSHOT_DONE
Goods                == setup.Goods           \* how far ahead good frames may start
FrameSkip            == setup.FrameSkip       \* frame_skip_count of a good frame range
Diverts              == setup.Diverts         \* how far a diverted frame may be
Requests             == setup.Requests        \* num_buf_requested, num_retro_buf_requested
Flushes              == setup.Flushes         \* the frame indices of FLUSH_QUEUE
Generics             == setup.Generics        \* the generic commands sent
MaxCommands          == setup.MaxCommands     \* bound: commands of the HAL

FutureFrameWait == 100    \* MM_CAMERA_MAX_FUTURE_FRAME_WAIT

NONE == 0   \* a frame index that stands for no frame

ABSENT == -1    \* metadata that does not say

\* What a metadata buffer says, with distances from its own frame.
Contents == [prep : Preps, good : Goods \cup {ABSENT}, divert : Diverts \cup {ABSENT},
             crop1x : IF "ZOOM" \in Generics THEN BOOLEAN ELSE {FALSE}]

Init ==
    /\ setup \in Setups
    /\ ch = [queue |-> <<>>, match_cnt |-> 0, expected_frame_id |-> 0,
             expected_frame_id_without_led |-> 0, led_off_start_frame_id |-> 0,
             frame_skip_count |-> 0, once |-> FALSE, good_frame_id |-> 0,
             continuous |-> Continuous, pending_cnt |-> 0, pending_retro_cnt |-> 0,
             bWaitForPrepSnapshotDone |-> FALSE, needLEDFlash |-> FALSE,
             startZSlSnapshotCalled |-> FALSE, manualZSLSnapshot |-> FALSE,
             stopZslSnapshot |-> FALSE, burstSnapNum |-> 0,
             bracketingState |-> "OFF", isFlashBracketingEnabled |-> FALSE,
             isZoom1xFrameRequested |-> FALSE, diverted_frame_id |-> 0,
             returned |-> {}, sent |-> <<>>, faults |-> {}]
    /\ last = [s \in Streams |-> 0]
    /\ floor = 0
    /\ latest = 0
    /\ commands = 0
--------------------------------------------------------------------------------
(* The list of superbufs.                                                  *)

FramesOf(node) == {<<s, node.frames[s]>> : s \in {t \in Streams : node.frames[t] # NONE}}
Whole(node) == \A s \in Streams : node.frames[s] # NONE
Held(queue) == UNION {FramesOf(queue[i]) : i \in DOMAIN queue}

MatchedAt(queue) == {i \in DOMAIN queue : queue[i].matched}
UnmatchedAt(queue) == DOMAIN queue \ MatchedAt(queue)

\* Without the nodes at the positions of an interval.
Without(queue, gone) ==
    IF gone = {} THEN queue
    ELSE SubSeq(queue, 1, Min(gone) - 1) \o SubSeq(queue, Max(gone) + 1, Len(queue))

\* mm_channel_qbuf of each frame: a buffer given back twice is a fault.
Return(c, frames) ==
    [c EXCEPT !.returned = @ \cup frames,
              !.faults = @ \cup IF frames \cap c.returned # {} THEN {"twice"} ELSE {}]

\* Mutant: the nodes are freed, their buffers forgotten.
DiscardForgets(c, gone) == [c EXCEPT !.queue = Without(@, gone)]

\* The nodes of the set go back to the kernel; match_cnt stays as it is.
Discard(c, gone) ==
    [Return(c, UNION {FramesOf(c.queue[i]) : i \in gone})
        EXCEPT !.queue = Without(@, gone)]

\* How many superbufs mm_channel_superbuf_dequeue finds one after the other.
MatchedAhead(c) ==
    CHOOSE n \in 0..Len(c.queue) :
        /\ 1..n \subseteq MatchedAt(c.queue)
        /\ n + 1 \notin MatchedAt(c.queue)

TakeMatched(c, n) == [Discard(c, 1..n) EXCEPT !.match_cnt = @ - n]

mm_channel_superbuf_flush_matched(c) == TakeMatched(c, MatchedAhead(c))

\* Mutant: match_cnt survives the flush.
FlushKeepsCount(c) == Discard(c, DOMAIN c.queue)

mm_channel_superbuf_flush(c) ==
    [Discard(c, DOMAIN c.queue) EXCEPT !.match_cnt = @ - Cardinality(MatchedAt(c.queue))]

\* bufdone_overflow and skip: while match_cnt is above the mark the first
\* superbuf is returned; if that is not matched the loop never ends.
Trim(c, mark) ==
    LET excess == c.match_cnt - mark IN
    IF c.continuous \/ excess <= 0 THEN c
    ELSE IF excess > MatchedAhead(c) THEN [c EXCEPT !.faults = @ \cup {"spin"}]
    ELSE TakeMatched(c, excess)

mm_channel_superbuf_bufdone_overflow(c) == Trim(c, water_mark)
mm_channel_superbuf_skip(c) == Trim(c, look_back)
--------------------------------------------------------------------------------
(* mm_channel_handle_metadata, for metadata m of frame f.                  *)

NoteDivert(c, f, m) ==
    IF m.divert = ABSENT THEN c
    ELSE [c EXCEPT !.diverted_frame_id = IF m.divert >= 0 THEN f + m.divert ELSE 0]

Zoom1x(c, f, m) ==
    IF m.crop1x
    THEN [c EXCEPT !.isZoom1xFrameRequested = FALSE, !.expected_frame_id = f + 1]
    ELSE mm_channel_superbuf_flush_matched(
            [c EXCEPT !.expected_frame_id = @ + FutureFrameWait])

\* Mutant: the superbufs from before the preflash stay in the queue.
PrepWithoutFlush(c, m) ==
    IF m.prep = "NO" THEN c
    ELSE [c EXCEPT !.bWaitForPrepSnapshotDone = FALSE,
                   !.needLEDFlash = m.prep = "NEED_FUTURE_FRAME",
                   !.expected_frame_id = IF m.prep = "NEED_FUTURE_FRAME"
                                         THEN @ + FutureFrameWait ELSE @]

PrepSnapshotDone(c, m) ==
    CASE m.prep = "NO" -> c
      [] m.prep = "NEED_FUTURE_FRAME" ->
            mm_channel_superbuf_flush(
                [c EXCEPT !.bWaitForPrepSnapshotDone = FALSE, !.needLEDFlash = TRUE,
                          !.expected_frame_id = @ + FutureFrameWait])
      [] OTHER -> [c EXCEPT !.bWaitForPrepSnapshotDone = FALSE, !.needLEDFlash = FALSE]

\* The range of good frames is [min, max], max one frame after min.
GoodFrameRange(c, f, m) ==
    LET min == f + m.good
        max == min + 1
        ranged == [c EXCEPT !.expected_frame_id = min, !.good_frame_id = min]
        lit == IF c.needLEDFlash /\ c.burstSnapNum > 1
               THEN [ranged EXCEPT !.led_off_start_frame_id = max, !.once = FALSE,
                                   !.frame_skip_count = FrameSkip]
               ELSE ranged
    IN IF c.isFlashBracketingEnabled
       THEN [lit EXCEPT !.expected_frame_id_without_led = max]
       ELSE [lit EXCEPT !.bracketingState = "ACTIVE"]

WaitGoodFrame(c, m) ==
    IF c.bracketingState = "WAIT_GOOD_FRAME_IDX" /\ m.prep = "NO"
    THEN [mm_channel_superbuf_flush_matched(c) EXCEPT !.expected_frame_id = @ + FutureFrameWait]
    ELSE c

LedBurst(c, f) ==
    IF /\ c.burstSnapNum > 1 /\ c.needLEDFlash /\ ~c.isFlashBracketingEnabled
       /\ c.bracketingState = "OFF"
       /\ f >= c.led_off_start_frame_id /\ ~c.once
    THEN [c EXCEPT !.expected_frame_id = c.led_off_start_frame_id + c.frame_skip_count,
                   !.once = TRUE, !.stopZslSnapshot = TRUE, !.needLEDFlash = FALSE]
    ELSE c

mm_channel_handle_metadata(c, f, m) ==
    LET noted == NoteDivert(c, f, m)
        prepared == PrepSnapshotDone(noted, m)
    IN IF c.isZoom1xFrameRequested THEN Zoom1x(noted, f, m)
       ELSE LedBurst(IF m.good # ABSENT THEN GoodFrameRange(prepared, f, m)
                                      ELSE WaitGoodFrame(prepared, m), f)
--------------------------------------------------------------------------------
(* mm_channel_superbuf_comp_and_enqueue, for frame f of stream s.          *)

mm_channel_validate_super_buf(c, f) ==
    \E i \in DOMAIN c.queue : c.queue[i].expected_frame /\ c.queue[i].frame_idx = f

\* Mutant: a frame joins an older superbuf that lacks one of its stream.
FitsOlder(node, s, f) == node.frame_idx <= f /\ node.frames[s] = NONE

\* Whether the frame goes into this unmatched node.
Fits(node, s, f) ==
    \/ node.frame_idx = f
    \/ /\ LowPriority /\ node.frames[s] = NONE
       /\ IF s = Metadata THEN node.frame_idx < f ELSE node.unmatched_meta_idx > f

\* The frame completed the superbuf at pos: what is expected next, and the
\* nodes from the first older unmatched one up to pos are returned.
Match(c, f, pos, older) ==
    LET without == c.expected_frame_id_without_led
        next == IF c.isFlashBracketingEnabled
                THEN [c EXCEPT !.expected_frame_id = without,
                               !.isFlashBracketingEnabled = f < without]
                ELSE [c EXCEPT !.expected_frame_id = f + post_frame_skip]
        matched == [next EXCEPT !.queue[pos].matched = TRUE,
                                !.queue[pos].expected_frame = FALSE,
                                !.match_cnt = @ + 1]
    IN IF older = {} THEN matched ELSE Discard(matched, Min(older)..(pos - 1))

Fill(c, s, f, pos, older) ==
    LET node == c.queue[pos]
        reset == IF node.unmatched_meta_idx > 0
                 THEN [node EXCEPT !.unmatched_meta_idx = 0, !.frame_idx = f] ELSE node
        filled == [reset EXCEPT !.frames[s] = f]
        diverted == c.diverted_frame_id = f
    IN IF node.frames[s] # NONE THEN Return([c EXCEPT !.queue[pos] = reset], {<<s, f>>})
       ELSE IF Whole(filled) THEN Match([c EXCEPT !.queue[pos] = filled], f, pos, older)
       ELSE [c EXCEPT !.queue[pos] = [filled EXCEPT !.expected_frame = @ \/ diverted],
                      !.diverted_frame_id = IF diverted THEN 0 ELSE @]

\* Too many unmatched nodes: the first one from the first older one on goes
\* that is neither an expected frame nor the node to insert before; if there
\* is none, the first older one.  The loop reads the link of the node it has
\* just freed, so it can remove one node and not two.
MakeRoom(c, older, newer) ==
    LET excess == Cardinality(UnmatchedAt(c.queue)) - max_unmatched_frames
        free == {i \in Min(older)..Len(c.queue) :
                    ~c.queue[i].expected_frame /\ (newer # {} => i # Min(newer))}
    IN IF excess <= 0 THEN c
       ELSE [Discard(c, {Min(IF free # {} THEN free ELSE older)})
                EXCEPT !.faults = @ \cup IF free # {} /\ excess > 1 THEN {"freed"} ELSE {}]

NewNode(c, s, f) ==
    LET alone == Streams = {s} IN
    [frame_idx |-> f,
     frames |-> [t \in Streams |-> IF t = s THEN f ELSE NONE],
     matched |-> alone,
     expected_frame |-> f \in {c.diverted_frame_id, c.good_frame_id} /\ ~alone,
     unmatched_meta_idx |-> IF LowPriority /\ s = Metadata THEN f ELSE 0]

\* Before the first newer unmatched superbuf, or at the end.
InsertNew(c, s, f) ==
    LET newer == {i \in UnmatchedAt(c.queue) : c.queue[i].frame_idx > f}
        inserted == [c EXCEPT
            !.queue = InsertAt(@, IF newer # {} THEN Min(newer) ELSE Len(@) + 1,
                               NewNode(c, s, f)),
            !.diverted_frame_id = IF f \in {@, c.good_frame_id} THEN 0 ELSE @]
    IN IF Streams # {s} THEN inserted
       ELSE [inserted EXCEPT !.match_cnt = @ + 1, !.expected_frame_id = f + post_frame_skip]

Place(c, s, f) ==
    LET fits == {i \in UnmatchedAt(c.queue) : Fits(c.queue[i], s, f)}
        pos == Min(fits)
        seen == {i \in UnmatchedAt(c.queue) : fits # {} => i < pos}
        older == {i \in seen : c.queue[i].frame_idx < f}
        newer == {i \in seen : c.queue[i].frame_idx > f}
    IN IF fits # {} THEN Fill(c, s, f, pos, older)
       ELSE IF older = {}
       THEN IF Cardinality(seen) > max_unmatched_frames THEN Return(c, {<<s, f>>})
            ELSE InsertNew(c, s, f)
       ELSE InsertNew(MakeRoom(c, older, newer), s, f)

mm_channel_superbuf_comp_and_enqueue(c, s, f, m) ==
    LET informed == IF s = Metadata THEN mm_channel_handle_metadata(c, f, m) ELSE c
    IN IF f < informed.expected_frame_id /\ ~mm_channel_validate_super_buf(informed, f)
       THEN Return(informed, {<<s, f>>})
       ELSE Place(informed, s, f)
--------------------------------------------------------------------------------
(* The end of every command but a flush.                                   *)

StopZsl(c) ==
    [c EXCEPT !.startZSlSnapshotCalled = FALSE, !.needLEDFlash = FALSE, !.burstSnapNum = 0,
              !.stopZslSnapshot = FALSE, !.bracketingState = "OFF"]

StartOrStopZsl(c) ==
    IF /\ c.pending_cnt > 0 /\ (c.needLEDFlash \/ c.bracketingState # "OFF")
       /\ ~c.manualZSLSnapshot /\ ~c.startZSlSnapshotCalled
    THEN [c EXCEPT !.startZSlSnapshotCalled = TRUE, !.burstSnapNum = c.pending_cnt,
                   !.bWaitForPrepSnapshotDone = FALSE]
    ELSE IF /\ c.pending_cnt = 0 \/ c.stopZslSnapshot
            /\ ~c.manualZSLSnapshot /\ c.startZSlSnapshotCalled
    THEN [StopZsl(c) EXCEPT !.bWaitForPrepSnapshotDone = FALSE]
    ELSE c

\* Number of superbufs the dispatch loop sends.
ToSend(c) ==
    IF c.bWaitForPrepSnapshotDone THEN 0
    ELSE Min({MatchedAhead(c)}
                \cup (IF c.continuous THEN {} ELSE {c.pending_cnt})
                \cup (IF c.continuous \/ c.pending_retro_cnt = 0 THEN {}
                      ELSE {c.pending_retro_cnt}))

Dispatch(c) ==
    LET n == ToSend(c)
        taken == [c EXCEPT !.queue = SubSeq(@, n + 1, Len(@)), !.match_cnt = @ - n,
                           !.sent = SubSeq(c.queue, 1, n)]
        counted == IF c.continuous THEN taken
                   ELSE [taken EXCEPT
                            !.pending_cnt = @ - n,
                            !.pending_retro_cnt = IF @ > 0 THEN @ - n ELSE 0,
                            !.bWaitForPrepSnapshotDone =
                                c.pending_retro_cnt > 0 /\ n = c.pending_retro_cnt]
        stop == /\ ~c.continuous /\ (counted.pending_cnt = 0 \/ c.stopZslSnapshot)
                /\ ~c.manualZSLSnapshot /\ c.startZSlSnapshotCalled
    IN IF n = 0 THEN c ELSE IF stop THEN StopZsl(counted) ELSE counted

Finish(c) == Dispatch(mm_channel_superbuf_bufdone_overflow(StartOrStopZsl(c)))

\* What a command starts from: nothing returned or sent yet.
Fresh == [ch EXCEPT !.returned = {}, !.sent = <<>>]
--------------------------------------------------------------------------------
(* The commands.                                                           *)

\* What the flash promises: after metadata that needs a future frame none
\* before the new expected frame, from a range of good frames on its first.
NewFloor(f, m, expected) ==
    LET waiting == IF m.prep = "NEED_FUTURE_FRAME" THEN expected ELSE floor
    IN IF m.good # ABSENT THEN Min({waiting, f + m.good}) ELSE waiting

SentFrames(c) == [i \in DOMAIN c.sent |-> c.sent[i].frame_idx]
Latest(c) == Max({latest} \cup ToSet(SentFrames(c)))

\* A poll thread read the next frame of its stream, or lost one and read the
\* one after it: MM_CAMERA_CMD_TYPE_DATA_CB.
Data(s) ==
    \E f \in (last[s] + 1)..Min({last[s] + 2, MaxFrame}) :
    \E m \in IF s = Metadata THEN Contents ELSE {[good |-> ABSENT, prep |-> "NO"]} :
        LET queued == mm_channel_superbuf_comp_and_enqueue(Fresh, s, f, m) IN
        /\ ch' = Finish(queued)
        /\ last' = [last EXCEPT ![s] = f]
        /\ floor' = NewFloor(f, m, queued.expected_frame_id)
        /\ latest' = Latest(ch')
        /\ UNCHANGED <<setup, commands>>

Command(c) ==
    /\ commands < MaxCommands
    /\ commands' = commands + 1
    /\ ch' = c
    /\ latest' = Latest(c)
    /\ floor' = IF c.pending_retro_cnt > 0 THEN 0 ELSE floor
    /\ UNCHANGED <<setup, last>>

\* MM_CAMERA_CMD_TYPE_REQ_DATA_CB; without buffers it is a cancel.
RequestSuperBuf ==
    \E r \in Requests :
        LET retro == IF r[1] = 0 \/ r[2] > r[1] THEN r[1] ELSE r[2] IN
        Command(Finish(mm_channel_superbuf_skip(
            [Fresh EXCEPT !.pending_cnt = r[1], !.pending_retro_cnt = retro,
                          !.bWaitForPrepSnapshotDone = FALSE,
                          !.needLEDFlash = @ /\ retro = 0,
                          !.stopZslSnapshot = FALSE])))

\* MM_CAMERA_CMD_TYPE_FLUSH_QUEUE, after which the loop is left at once.
FlushUntil(f) == Command(mm_channel_superbuf_flush([Fresh EXCEPT !.expected_frame_id = f]))

FlushQueue == \E f \in Flushes : f <= Max(Range(last)) /\ FlushUntil(f)

AeBracketing ==
    /\ "AE" \in Generics
    /\ \E state \in {"WAIT_GOOD_FRAME_IDX", "OFF"} :
        Command(Finish([mm_channel_superbuf_flush(Fresh) EXCEPT !.bracketingState = state]))

FlashBracketing ==
    /\ "FLASH" \in Generics
    /\ \E start \in BOOLEAN :
        Command(Finish([mm_channel_superbuf_flush(Fresh)
                        EXCEPT !.isFlashBracketingEnabled = start]))

ZoomToOne ==
    /\ "ZOOM" \in Generics
    /\ \E start \in BOOLEAN :
        Command(Finish([mm_channel_superbuf_flush(Fresh)
                        EXCEPT !.isZoom1xFrameRequested = start]))

\* MM_CAMERA_CMD_TYPE_START_ZSL and STOP_ZSL.
ManualZsl ==
    /\ "MANUAL" \in Generics
    /\ \E start \in BOOLEAN : Command(Finish([Fresh EXCEPT !.manualZSLSnapshot = start]))

\* MM_CAMERA_CMD_TYPE_CONFIG_NOTIFY.
ConfigNotify ==
    /\ "NOTIFY" \in Generics
    /\ \E continuous \in BOOLEAN : Command(Finish([Fresh EXCEPT !.continuous = continuous]))

Next ==
    \/ \E s \in Streams : Data(s)
    \/ RequestSuperBuf
    \/ FlushQueue
    \/ AeBracketing
    \/ FlashBracketing
    \/ ZoomToOne
    \/ ManualZsl
    \/ ConfigNotify

Spec == Init /\ [][Next]_vars
--------------------------------------------------------------------------------
(* Properties.                                                             *)

Node == [frame_idx : Nat, frames : [Streams -> 0..MaxFrame], matched : BOOLEAN,
         expected_frame : BOOLEAN, unmatched_meta_idx : Nat]

\* Types of the channel's variables; the counters of the code are unsigned.
TypeOK ==
    /\ setup \in Setups
    /\ \A i \in DOMAIN ch.queue : ch.queue[i] \in Node
    /\ \A i \in DOMAIN ch.sent : ch.sent[i] \in Node
    /\ {ch.match_cnt, ch.expected_frame_id, ch.expected_frame_id_without_led,
        ch.led_off_start_frame_id, ch.frame_skip_count, ch.good_frame_id, ch.pending_cnt,
        ch.pending_retro_cnt, ch.burstSnapNum, ch.diverted_frame_id} \subseteq Nat
    /\ {ch.once, ch.continuous, ch.bWaitForPrepSnapshotDone, ch.needLEDFlash,
        ch.startZSlSnapshotCalled, ch.manualZSLSnapshot, ch.stopZslSnapshot,
        ch.isFlashBracketingEnabled, ch.isZoom1xFrameRequested} \subseteq BOOLEAN
    /\ ch.bracketingState \in {"OFF", "WAIT_GOOD_FRAME_IDX", "ACTIVE"}
    /\ last \in [Streams -> 0..MaxFrame]

\* The queue is what the dispatch and the trims take it for: match_cnt is the
\* number of complete superbufs in it, none of them waits behind an incomplete
\* one where neither would find it, and besides the superbuf of the newest frame
\* at most max_unmatched_frames are incomplete, so that the queue never keeps
\* all the buffers of a stream.  And the loops over it end and free nothing
\* twice: a trim finds as many complete superbufs at the head as match_cnt says
\* are too many, no frame is returned twice by one command, and never are two
\* nodes removed over a link read from the first one after it was freed.
QueueInOrder ==
    /\ TypeOK
    /\ ch.faults = {}
    /\ ch.match_cnt = Cardinality(MatchedAt(ch.queue))
    /\ ch.match_cnt = MatchedAhead(ch)
    /\ Cardinality(UnmatchedAt(ch.queue)) <= max_unmatched_frames + 1

\* Every frame is in one place: what was in the queue and the new frame is
\* afterwards in the queue, in a superbuf sent, or back in the kernel.
FramesConserved ==
    [][LET new == {<<s, last'[s]>> : s \in {t \in Streams : last'[t] # last[t]}}
           before == Held(ch.queue) \cup new
       IN /\ Held(ch'.queue) \cup Held(ch'.sent) \cup ch'.returned = before
          /\ Held(ch'.queue) \cap ch'.returned = {}
          /\ Held(ch'.sent) \cap (ch'.returned \cup Held(ch'.queue)) = {}]_vars

\* What the HAL gets has a frame of every stream, all of one index; in a
\* channel of low priority only the metadata may be of another frame.
SentTogether ==
    \A i \in DOMAIN ch.sent :
        LET node == ch.sent[i] IN
        /\ Whole(node)
        /\ \A s \in Streams :
            (LowPriority /\ s = Metadata) \/ node.frames[s] = node.frame_idx

\* "Set expected frame id to a future frame idx, large enough to wait for
\* good_frame_idx_range": after the preflash asked for the main flash, no
\* superbuf is sent whose frame comes before the range of good frames, unless
\* the HAL asked for retroactive ones.  (A burst, a flush on focus or a generic
\* command moves the expected frame back.)
NoFrameBeforeFlash ==
    [][(\A r \in Requests : r[1] <= 1) /\ Flushes = {} /\ Generics = {} =>
        \A i \in DOMAIN ch'.sent : ch'.sent[i].frame_idx >= floor']_vars
================================================================================
