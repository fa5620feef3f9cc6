SPECIFICATION FairSpec
CONSTANTS
    HwIds = {1, 2}
    Setups <- MCSetups
CHECK_DEADLOCK FALSE
INVARIANTS IdsHaveFences EngineAgrees PromiseKept
PROPERTIES EveryCommandAnswered
