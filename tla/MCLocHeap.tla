------------------------------ MODULE MCLocHeap ------------------------------
EXTENDS LocHeap

MCItems == 1..7
\* Pairs of items rank equally.
MCRank(x) == x \div 2
=============================================================================
