\* A configured fault before the start magic, against the protocol order.
CONSTANTS
    GP = GP
    Exceptions <- MCExceptions
    InputLens = {9}
    BufSizes = {16}
    MaxRuns = 2
    ErrorsAbort = TRUE
    FaultsBeforeStart = TRUE
    UserBreaks = TRUE
    FuzzerCrashes = FALSE
SPECIFICATION Spec
INVARIANT
    ProtocolOrder
