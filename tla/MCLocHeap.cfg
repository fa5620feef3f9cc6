SPECIFICATION Spec
CONSTANTS
    Items <- MCItems
    Rank <- MCRank
INVARIANTS TreeIsHeap
PROPERTY IsAHeap
