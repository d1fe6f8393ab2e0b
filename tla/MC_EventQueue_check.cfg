\* Publication and processing under fair loops, with and without an
\* iteration cap: safety and progress.
CONSTANTS
    A = A
    B = B
    l1 = l1
    l2 = l2
    NoOne = NoOne
    Labels <- MCLabels
    Coalescing <- MCCoalescing
    Listeners <- MCListeners
    IterChoices <- MCIterChoices
    MaxPublish = 4
    MaxConfig = 6
SPECIFICATION FairSpec
INVARIANTS
    TypeOK
    NoLostWakeup
    DeliveredInOrder
    NoUpdateLost
PROPERTIES
    PendingDrains
    
CHECK_DEADLOCK FALSE
