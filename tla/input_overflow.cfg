\* An input longer than the capacity the guest advertised in rdi.
CONSTANTS
    GP = GP
    Exceptions <- MCExceptions
    InputLens = {0, 9, 24}
    BufSizes = {16}
    MaxRuns = 2
    ErrorsAbort = TRUE
    FaultsBeforeStart = FALSE
    UserBreaks = TRUE
    FuzzerCrashes = FALSE
SPECIFICATION Spec
INVARIANT
    InputFitsBuffer
