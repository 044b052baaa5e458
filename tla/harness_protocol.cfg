\* The coordinator under the spec's error policy (every Err aborts), a
\* guest that honours its contract and a user who may break the simulation.
CONSTANTS
    GP = GP
    Exceptions <- MCExceptions
    InputLens = {0, 9}
    BufSizes = {16}
    MaxRuns = 2
    ErrorsAbort = TRUE
    FaultsBeforeStart = FALSE
    UserBreaks = TRUE
    FuzzerCrashes = TRUE
SPECIFICATION Spec
INVARIANTS
    TypeOK
    SnapshotTakenOnce
    ProtocolOrder
PROPERTIES
    InjectAtSnapshot
    ImplementsProtocol
