\* TLS may ask for a write on a read while nothing is queued to send.
CONSTANTS
    PeerVersions <- MCPeerVersionsModern
    PeerCells <- MCPeerCellsHandshake
    MaxOutCells = 1
    Rate = 1
    Burst = 1
    EmptyOutbufWantWrite = TRUE
    MaxStalls = 2
SPECIFICATION Spec
INVARIANT NoAssertionFails
CHECK_DEADLOCK FALSE
