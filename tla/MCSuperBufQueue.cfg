SPECIFICATION Spec
CONSTANTS
    meta = meta
    prev = prev
    snap = snap
    Setups <- MCSetups
INVARIANTS
    QueueInOrder
    SentTogether
PROPERTIES
    FramesConserved
    NoFrameBeforeFlash
CHECK_DEADLOCK FALSE
