CONSTANTS
    PeerVersions <- MCPeerVersionsModern
    PeerCells <- MCPeerCellsHandshake
    MaxOutCells = 1
    Rate = 1
    Burst = 1
    EmptyOutbufWantWrite = FALSE
    MaxStalls = 2
SPECIFICATION Spec
INVARIANT NoCellAfterClosed
CHECK_DEADLOCK FALSE
