SPECIFICATION FairSpec
CONSTANTS
    h1 = h1
    h2 = h2
    h3 = h3
    Handles <- MCHandles
    Apns = {"apn"}
    NoApn = "NOAPN"
    Setups <- MCSetups
INVARIANTS ConnectionHasUser OutsideAgrees
PROPERTIES EveryWaitEnds
