\* The fill of a 256-byte map against the i mod 256 pattern of spec 4.1.
CONSTANTS
    MapLen = 256
    PCs <- MCPCs
    MaxHits = 1
    PcBits = 20
SPECIFICATION Spec
INVARIANT
    FillPattern
