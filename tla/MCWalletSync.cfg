SPECIFICATION FairSpec
CONSTANTS
    Workers = {w1, w2}
    Consoles = {c1}
    MaxHead = 3
    Confirmations = 1
    SyncChunk = 2
    ClassifyChunk = 1
    Crowded <- MCCrowded
    ResetTo = {1}
    MaxUpsets = 3
    Free = Free
    Dead = Dead
INVARIANTS
    RowsAreFinal
    WorkersHoldTheLock
PROPERTIES
    SyncIsACrawl
    ClassifyingIsACrawl
    SyncCatchesUp
