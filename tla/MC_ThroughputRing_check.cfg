\* Two workers logging into their rings while the main thread writes the
\* log and destroys the logging, with the wall clock in step.
CONSTANTS
    NThreads = 2
    Bytes <- MCBytes
    Width = 3
    TimestepMs = 500
    HeadroomMs = 1000
    TickMs = 250
    MaxMs = 1000
    MaxLogs = 2
    WallBehind = FALSE
    Main = Main
    NoOne = NoOne
SPECIFICATION FairSpec
INVARIANTS
    TypeOK
PROPERTIES
    SnapshotQuiescent
    LogCoversAllBytes
    WriterFinishes
    RingsRefineCounters
CHECK_DEADLOCK FALSE
