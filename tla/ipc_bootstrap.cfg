\* A 64-byte map (the fill loop interleaves with the fuzzer), a fuzzer that
\* may send Initialize, a Run or a Reset first and may die at any point, and three
\* calls of init_local.  After the bootstrap nothing more happens in this
\* module, so the system really stops.
CONSTANTS
    MapLen = 64
    FirstMsgs = {"Initialize", "Run", "Reset"}
    MaxCalls = 3
SPECIFICATION Spec
CHECK_DEADLOCK FALSE
INVARIANTS
    TypeOK
PROPERTIES
    BootstrapEnds
