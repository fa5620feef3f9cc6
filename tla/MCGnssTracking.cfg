SPECIFICATION FairSpec
CONSTANTS
    Clients = {c1}
    Trackers = {c1}
    Setups <- MCSetups
CHECK_DEADLOCK FALSE
INVARIANTS EngineServesSessions AnsweredOnce
PROPERTIES EveryCommandIsAnswered
