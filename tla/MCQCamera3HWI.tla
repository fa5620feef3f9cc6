----------------------------- MODULE MCQCamera3HWI -----------------------------
(***************************************************************************)
(* Small instances of QCamera3HWI: behaviours of one kind of hazard each,  *)
(* and the pairs that meet in practice.  Apart: missed metadata and        *)
(* pictures or drops, reprocessing and live pictures or a flush, buffers   *)
(* kept back for their order and a flush.                                  *)
(***************************************************************************)
EXTENDS QCamera3HWI

Live(streams) == [input |-> FALSE, streams |-> streams]
Reprocess == [input |-> TRUE, streams |-> {"blob"}]
Preview == Live({"preview"})
Picture == Live({"preview", "blob"})
Recording == Live({"preview", "video"})

Plain == [kinds |-> {Preview}, frames |-> 3, batch |-> 0, min |-> 2, max |-> 3,
          flushes |-> 0, failures |-> 0, deaths |-> 0, configs |-> 1, pulls |-> 0,
          missed |-> 0, lost |-> 0, early |-> 0, overdue |-> FALSE, drops |-> FALSE,
          slow |-> FALSE, reprocess |-> TRUE, gives |-> FALSE]

MCStreams == {"preview", "video", "blob"}
MCStreamInfo == <<"preview", "video", "blob">>

MCSetups ==
    {[Plain EXCEPT !.kinds = {Recording}, !.flushes = 2, !.drops = TRUE, !.frames = 2],
     [Plain EXCEPT !.flushes = 2, !.failures = 1, !.configs = 2],
     [Plain EXCEPT !.kinds = {Recording}, !.missed = 2, !.flushes = 1],
     [Plain EXCEPT !.kinds = {Preview, Picture}, !.flushes = 1, !.frames = 2],
     [Plain EXCEPT !.kinds = {Picture}, !.flushes = 1, !.gives = TRUE, !.frames = 1],
     [Plain EXCEPT !.kinds = {Live({"blob"})}, !.min = 3],
     [Plain EXCEPT !.kinds = {Preview, Reprocess}],
     [Plain EXCEPT !.kinds = {Reprocess}, !.reprocess = FALSE],
     [Plain EXCEPT !.kinds = {Recording}, !.batch = 2, !.min = 3, !.flushes = 1],
     [Plain EXCEPT !.kinds = {Preview}, !.deaths = 1, !.flushes = 1, !.frames = 2],
     [Plain EXCEPT !.kinds = {Picture}, !.deaths = 1, !.frames = 1],
     [Plain EXCEPT !.kinds = {Preview, Recording}, !.early = 1],
     [Plain EXCEPT !.overdue = TRUE, !.lost = 1, !.min = 3],
     [Plain EXCEPT !.slow = TRUE, !.min = 1, !.max = 2, !.pulls = 2, !.flushes = 1]}
================================================================================
