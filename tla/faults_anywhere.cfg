\* The guest may raise a configured fault before its start magic and the
\* fuzzer may die at any point, under the fair scheduling of Fairness
\* (no user break: a break leaves the simulation stopped until the user
\* continues it).  The snapshot and the injection point must stay right,
\* every Run must get its verdict, every Ready must come, and a dead fuzzer must be noticed.
CONSTANTS
    GP = GP
    Exceptions <- MCExceptions
    InputLens = {0, 9}
    BufSizes = {16}
    MaxRuns = 2
    ErrorsAbort = TRUE
    FaultsBeforeStart = TRUE
    UserBreaks = FALSE
    FuzzerCrashes = TRUE
SPECIFICATION FairSpec
INVARIANTS
    SnapshotTakenOnce
PROPERTIES
    InjectAtSnapshot
    VerdictDelivered
    ReadyDelivered
    PeerGoneDetected
