\* A peer that only speaks link protocol 3.
CONSTANTS
    PeerVersions <- MCPeerVersionsV3
    PeerCells <- MCPeerCellsHandshake
    MaxOutCells = 1
    Rate = 1
    Burst = 1
    EmptyOutbufWantWrite = FALSE
    MaxStalls = 2
SPECIFICATION Spec
INVARIANT CellsFramedIntact
CHECK_DEADLOCK FALSE
