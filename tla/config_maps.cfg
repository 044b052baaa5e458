\* The builders, from_str and coverage() interleaved, up to three maps.
CONSTANTS
    Triple = Triple
    GP = GP
    Shm1 = Shm1
    Shm2 = Shm2
    Fault <- MCFault
    Handles <- MCHandles
    MaxMaps = 3
    Durations = {1500}
SPECIFICATION Spec
INVARIANTS
    TraceModeRoundTrip
    CoverageInOrder
