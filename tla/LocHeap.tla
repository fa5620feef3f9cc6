-------------------------------- MODULE LocHeap --------------------------------
(***************************************************************************)
(* The tree behind LocHeap (gps/utils/LocHeap.cpp): sorted from parent to  *)
(* child only, filled into the smaller subtree, emptied by moving data up  *)
(* along one path to a leaf.  A tree is a record or NULL; the functions    *)
(* that change a tree in place return the tree they leave.                 *)
(***************************************************************************)
EXTENDS Naturals

CONSTANTS
    Items,   \* the rankable objects, positive numbers
    Rank(_)  \* of an item; the greater outranks the smaller

ASSUME HeapAssumption == Items \subseteq Nat \ {0}

VARIABLES
    mTree,
    last   \* the last operation: name, argument, result

NULL == [data |-> 0, size |-> 0]

Leaf(x) == [data |-> x, size |-> 1, left |-> NULL, right |-> NULL]

OutRanks(x, y) == Rank(x) > Rank(y)

\* LocHeapNode::push: the data that ranks lower goes on down, to the left
\* unless the right subtree is missing or smaller.
RECURSIVE PushNode(_, _)
PushNode(t, x) ==
    LET up   == IF OutRanks(x, t.data) THEN x ELSE t.data
        down == IF up = x THEN t.data ELSE x
        goes == [t EXCEPT !.data = up, !.size = @ + 1]
    IN
    IF t.left = NULL THEN [goes EXCEPT !.left = Leaf(down)]
    ELSE IF t.right = NULL THEN [goes EXCEPT !.right = Leaf(down)]
    ELSE IF t.left.size <= t.right.size
         THEN [goes EXCEPT !.left  = PushNode(t.left, down)]
         ELSE [goes EXCEPT !.right = PushNode(t.right, down)]

\* The mutant fills the hole from the left if there is a left.
ReplacementLeft(t) == IF t.left = NULL THEN "right" ELSE "left"

\* The child whose data moves up when t loses its own.
Replacement(t) ==
    IF t.left = NULL THEN "right"
    ELSE IF t.right = NULL \/ OutRanks(t.left.data, t.right.data)
         THEN "left" ELSE "right"

\* LocHeapNode::pop.
RECURSIVE PopNode(_)
PopNode(t) ==
    IF t.left = NULL /\ t.right = NULL THEN NULL
    ELSE LET side == Replacement(t)
         IN  [t EXCEPT !.size = @ - 1,
                       !.data = t[side].data,
                       ![side] = PopNode(t[side])]

RECURSIVE Contents(_)
Contents(t) ==
    IF t = NULL THEN {}
    ELSE {t.data} \cup Contents(t.left) \cup Contents(t.right)

\* The mutant does not look below data of the rank it looks for.
PrunedStrictly(t, x) == ~OutRanks(t.data, x)

\* A subtree is left out of the search when its data is outranked by x.
Pruned(t, x) == OutRanks(x, t.data)

NotFound(t) == t

\* LocHeapNode::remove: linear search by address; the sizes along the path to
\* the node that was found shrink.
RECURSIVE RemoveNode(_, _)
RemoveNode(t, x) ==
    IF t = NULL THEN NULL
    ELSE IF t.data = x THEN PopNode(t)
    ELSE IF Pruned(t, x) THEN t
    ELSE LET left  == RemoveNode(t.left, x)
             right == RemoveNode(t.right, x)
         IN  IF left # t.left
             THEN [t EXCEPT !.left = left, !.size = @ - 1]
             ELSE IF right # t.right
                  THEN [t EXCEPT !.right = right, !.size = @ - 1]
                  ELSE NotFound(t)

----------------------------------------------------------------------------
Init == mTree = NULL /\ last = <<"none", {}, {}>>

Push(x) ==
    /\ x \notin Contents(mTree)
    /\ mTree' = IF mTree = NULL THEN Leaf(x) ELSE PushNode(mTree, x)
    /\ last'  = <<"push", {x}, {}>>

Pop ==
    /\ mTree' = IF mTree = NULL THEN NULL ELSE PopNode(mTree)
    /\ last'  = <<"pop", {}, IF mTree = NULL THEN {} ELSE {mTree.data} >>

Remove(x) ==
    /\ mTree' = RemoveNode(mTree, x)
    /\ last'  = <<"remove", {x}, IF mTree' = mTree THEN {} ELSE {x} >>

Next == (\E x \in Items : Push(x) \/ Remove(x)) \/ Pop

vars == <<mTree, last>>
Spec == Init /\ [][Next]_vars

----------------------------------------------------------------------------
RECURSIVE IsTree(_)
IsTree(t) ==
    t = NULL \/ /\ t.data \in Items
                /\ t.size \in Nat
                /\ IsTree(t.left)
                /\ IsTree(t.right)

TypeOK ==
    /\ IsTree(mTree)
    /\ last \in {"none", "push", "pop", "remove"} \X (SUBSET Items) \X (SUBSET Items)

\* LocHeapNode::checkNodes, the code's own test: sizes add up and no node
\* outranks its parent.
RECURSIVE CheckNodes(_)
CheckNodes(t) ==
    \/ t = NULL
    \/ /\ \A child \in {t.left, t.right} :
             child # NULL =>
                 ~OutRanks(child.data, t.data) /\ CheckNodes(child)
       /\ t.size = t.left.size + t.right.size + 1

\* The tree stays well-formed under every sequence of operations: removals in
\* the middle of the tree keep the order and the sizes push relies on.
TreeIsHeap == TypeOK /\ CheckNodes(mTree)

Abstract == INSTANCE Heap WITH items <- Contents(mTree)

\* The tree is the collection that LocHeap.h describes: pop gives a highest
\* item, and remove finds every item that is there, ties included.
IsAHeap == Abstract!ASpec
=============================================================================
