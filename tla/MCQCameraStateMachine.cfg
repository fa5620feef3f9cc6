SPECIFICATION FairSpec
CONSTANT Setups <- MCSetups
INVARIANTS
    ChannelsFitState
    EnableNotLost
PROPERTIES
    OwnAnswer
    EveryCallReturns
CHECK_DEADLOCK FALSE
