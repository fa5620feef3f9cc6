SPECIFICATION FairSpec
CONSTANTS
    MaxRequests = 2
    MaxAnswers = 2
    Kinds <- AllKinds
CHECK_DEADLOCK FALSE
INVARIANTS HeldHasItsThread AnswerIsOwn
PROPERTIES OutcomeIsFinal EveryRequestEnds
