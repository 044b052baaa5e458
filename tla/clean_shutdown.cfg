\* Spec S5: after Stop the harness sends nothing more.
CONSTANTS
    GP = GP
    Exceptions <- MCExceptions
    InputLens = {9}
    BufSizes = {16}
    MaxRuns = 2
    ErrorsAbort = TRUE
    FaultsBeforeStart = FALSE
    UserBreaks = TRUE
    FuzzerCrashes = FALSE
SPECIFICATION Spec
INVARIANT
    NoSendAfterStop
