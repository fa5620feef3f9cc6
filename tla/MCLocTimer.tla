----------------------------- MODULE MCLocTimer ------------------------------
EXTENDS LocTimer

CONSTANTS c1, c2
TwoClients == {c1, c2}
=============================================================================
