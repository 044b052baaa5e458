\* Errors logged and survived (spec §7 propagation policy), against the
\* at-most-one-snapshot rule.
CONSTANTS
    GP = GP
    Exceptions <- MCExceptions
    InputLens = {9}
    BufSizes = {16}
    MaxRuns = 2
    ErrorsAbort = FALSE
    FaultsBeforeStart = FALSE
    UserBreaks = TRUE
    FuzzerCrashes = FALSE
SPECIFICATION Spec
INVARIANT
    SnapshotTakenOnce
