SPECIFICATION Spec
CONSTANTS
    Width = 4
    Setups <- MCSetups
CHECK_DEADLOCK FALSE
INVARIANTS EngineRunsSessions TripsEndInTime AnswerIsOwn
PROPERTY EveryCallIsAnswered
