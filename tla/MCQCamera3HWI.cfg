SPECIFICATION Spec
CONSTANTS
    Streams <- MCStreams
    StreamInfo <- MCStreamInfo
    MaxFrames = 3
    NumBufs = 5
    Setups <- MCSetups
INVARIANTS
    BuffersAccounted
    CountIsLive
    NoLostWakeup
    JpegIsOwn
PROPERTIES
    IsContract
    EveryRequestEnds
CHECK_DEADLOCK FALSE
