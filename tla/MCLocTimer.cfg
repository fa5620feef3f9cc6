SPECIFICATION FairSpec
CONSTANTS
    c1 = c1
    c2 = c2
    Clients <- TwoClients
    MaxStarts = 3
    Delays = {1, 2}
    MaxTime = 2
CHECK_DEADLOCK FALSE
INVARIANTS TimersAreServed
PROPERTY EveryTimerEnds
