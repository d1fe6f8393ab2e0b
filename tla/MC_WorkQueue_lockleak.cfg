\* Another event loop calls the pool while threadpool_shutdown joins the
\* workers: shutdown must still complete.
CONSTANTS
    NWorkers = 2
    m = m
    l = l
    a = a
    b = b
    c = c
    NoOne = NoOne
    Clients <- MCClients
    Main = m
    Items <- MCItemsTwo
    Owner <- MCOwner
    Prios <- MCPrios
    WorkResults <- MCRepliesOnly
    UpdateResults <- MCRepliesOnly
    MaxUpdates = 2
    CallsAfterShutdown = TRUE
SPECIFICATION FairSpec
PROPERTIES
    ShutdownCompletes
CHECK_DEADLOCK FALSE
