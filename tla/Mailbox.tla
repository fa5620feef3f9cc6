-------------------------------- MODULE Mailbox --------------------------------
(***************************************************************************)
(* What a message task promises the adapters that post to it: accepted     *)
(* messages are handled one at a time, in the order they were accepted,    *)
(* each at most once; after the task is closed nothing is accepted, and    *)
(* what was not handled is dropped together.                               *)
(***************************************************************************)
EXTENDS Naturals, Sequences

CONSTANT Msgs

VARIABLES pending, handling, closed

AInit == pending = <<>> /\ handling = {} /\ closed = FALSE

Accept(m) ==
    /\ ~closed
    /\ pending' = Append(pending, m)
    /\ UNCHANGED <<handling, closed>>

\* A handler may already be committed when the task is closed.
Handle ==
    /\ pending # <<>>
    /\ handling = {}
    /\ handling' = {Head(pending)}
    /\ pending'  = Tail(pending)
    /\ UNCHANGED closed

Handled ==
    /\ handling # {}
    /\ handling' = {}
    /\ UNCHANGED <<pending, closed>>

Close ==
    /\ closed' = TRUE
    /\ UNCHANGED <<pending, handling>>

Drop ==
    /\ closed
    /\ handling = {}
    /\ pending' = <<>>
    /\ UNCHANGED <<handling, closed>>

ANext == (\E m \in Msgs : Accept(m)) \/ Handle \/ Handled \/ Close \/ Drop

ASpec == AInit /\ [][ANext]_<<pending, handling, closed>>
=============================================================================
