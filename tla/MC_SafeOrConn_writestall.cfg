CONSTANTS
    PeerVersions <- MCPeerVersionsModern
    PeerCells <- MCPeerCellsHandshake
    MaxOutCells = 1
    Rate = 1
    Burst = 1
    EmptyOutbufWantWrite = FALSE
    MaxStalls = 2
SPECIFICATION FairSpec
PROPERTY OutbufDrains
CHECK_DEADLOCK FALSE
