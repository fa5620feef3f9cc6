SPECIFICATION FairSpec
CONSTANT MaxMsgs = 6
CHECK_DEADLOCK FALSE
INVARIANTS DelegateLives DestroyedMeansQuiet
PROPERTIES IsMailbox EverythingIsDeleted
