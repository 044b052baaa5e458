\* The code's log() and Reset over an 8-byte map.
CONSTANTS
    MapLen = 8
    PCs <- MCPCs
    MaxHits = 4
    PcBits = 20
SPECIFICATION Spec
INVARIANTS
    TypeOK
    WritesInBounds
