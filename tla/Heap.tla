--------------------------------- MODULE Heap ---------------------------------
(***************************************************************************)
(* What LocHeap promises (the comments of gps/utils/LocHeap.h): a          *)
(* collection of rankable objects of which peek and pop give one that no   *)
(* other outranks, and from which any object can be removed.               *)
(***************************************************************************)
EXTENDS Naturals

CONSTANTS
    Items,   \* the rankable objects
    Rank(_)  \* of an item; the greater outranks the smaller

VARIABLES
    items,  \* what the collection holds
    last    \* the last operation: its name, its argument, its result, where
            \* no argument or result is {}

\* The items of S that no item of S outranks.
Highest(S) == {x \in S : \A y \in S : Rank(y) <= Rank(x)}

AInit == items = {} /\ last = <<"none", {}, {}>>

APush(x) ==
    /\ x \in Items \ items
    /\ items' = items \cup {x}
    /\ last'  = <<"push", {x}, {}>>

APop ==
    \/ items = {} /\ last' = <<"pop", {}, {}>> /\ UNCHANGED items
    \/ \E x \in Highest(items) : last' = <<"pop", {}, {x}>> /\ items' = items \ {x}

ARemove(x) ==
    /\ x \in Items
    /\ items' = items \ {x}
    /\ last'  = <<"remove", {x}, {x} \cap items>>

ANext == (\E x \in Items : APush(x) \/ ARemove(x)) \/ APop

ASpec == AInit /\ [][ANext]_<<items, last>>
=============================================================================
