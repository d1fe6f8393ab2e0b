\* The connection's safety and, under fair scheduling, its progress.
CONSTANTS
    PeerVersions <- MCPeerVersionsModern
    PeerCells <- MCPeerCellsHandshake
    MaxOutCells = 1
    Rate = 1
    Burst = 1
    EmptyOutbufWantWrite = FALSE
    MaxStalls = 2
SPECIFICATION FairSpec
INVARIANT TypeOK
INVARIANT NoAssertionFails
INVARIANT CellsFramedIntact
INVARIANT ClosedReleasesAll
PROPERTY HandshakeCompletes
PROPERTY CellsReachUpstream
CHECK_DEADLOCK FALSE
PROPERTY ConnRefinesLifecycle
