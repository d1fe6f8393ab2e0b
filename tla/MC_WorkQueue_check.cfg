\* The pool under fair scheduling with well-behaved work and update
\* functions: its safety and its progress.
CONSTANTS
    NWorkers = 2
    m = m
    l = l
    a = a
    b = b
    c = c
    NoOne = NoOne
    Clients <- MCClients
    Main = m
    Items <- MCItemsTwo
    Owner <- MCOwner
    Prios <- MCPrios
    WorkResults <- MCRepliesOnly
    UpdateResults <- MCRepliesOnly
    MaxUpdates = 2
    CallsAfterShutdown = FALSE
SPECIFICATION FairSpec
INVARIANTS
    TypeOK
    ItemsAccounted
    RepliesNotStranded
    UpdateArgOwnedOnce
PROPERTIES
    AllQueuedAnswered
    UpdatesReachWorkers
    ShutdownCompletes
CHECK_DEADLOCK FALSE
