---------------------------- MODULE CaptureContract ----------------------------
(***************************************************************************)
(* What the camera3 device promises the framework about the capture        *)
(* requests it accepts, as far as HAL3/QCamera3HWI.cpp keeps it: a request  *)
(* is answered once, live requests are answered in the order they were     *)
(* accepted, a request that reprocesses an input buffer is answered        *)
(* whenever it is done, and the buffers of a stream that were given to the *)
(* device come back once each, in the order they were given.               *)
(***************************************************************************)
EXTENDS Naturals

CONSTANTS Frames, Streams

VARIABLES
    outcome,    \* of every frame: not yet accepted, pending, or its answer
    owed        \* the <<frame, stream>> whose buffer the device has

Pending == {"live", "reprocess"}
Answers == {"result", "failed", "error"}

Init == /\ outcome = [f \in Frames |-> "absent"]
        /\ owed = {}

\* Requests are accepted in the order of their frame numbers.
Accept(f, kind, buffers) ==
    /\ \A g \in Frames: (outcome[g] = "absent") <=> g >= f
    /\ outcome' = [outcome EXCEPT ![f] = kind]
    /\ owed' = owed \cup ({f} \X buffers)

\* Some requests are answered, some buffers come back, in their order.
Answer ==
    /\ owed' \subseteq owed
    /\ outcome' \in [Frames -> {"absent"} \cup Pending \cup Answers]
    /\ \A f \in Frames: \/ outcome'[f] = outcome[f]
                        \/ outcome[f] \in Pending /\ outcome'[f] \in Answers
    /\ \A f, g \in Frames:
           f < g /\ outcome'[f] = "live" /\ outcome[g] = "live" => outcome'[g] = "live"
    /\ \A s \in Streams: \A f, g \in Frames:
           f < g /\ <<f, s>> \in owed' /\ <<g, s>> \in owed => <<g, s>> \in owed'

Next == \/ \E f \in Frames, kind \in Pending, buffers \in SUBSET Streams: Accept(f, kind, buffers)
        \/ Answer

Spec == Init /\ [][Next]_<<outcome, owed>>
================================================================================
