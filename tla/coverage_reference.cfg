\* The code's map against the AFL edge-count encoder of spec section 4.7.
CONSTANTS
    MapLen = 8
    PCs <- MCPCs
    MaxHits = 4
    PcBits = 20
SPECIFICATION Spec
INVARIANT
    CoverageMatchesReference
