\* Inputs of 0 to 9 bytes (empty, one partial chunk, a full chunk and a
\* chunk more) in a 32-byte address space: buffers at 0, at an unaligned 3,
\* and near the top (21 and 28), of 4 and 9 bytes (some running past the
\* top), so that some inputs end exactly at the top and longer ones wrap
\* or panic.
CONSTANTS
    Bytes = {1, 2}
    MaxLen = 9
    Bases = {0, 3, 21, 28}
    Sizes = {4, 9}
    AddrBits = 5
    Canary = 7
SPECIFICATION Spec
CHECK_DEADLOCK FALSE
INVARIANTS
    TypeOK
    InputWrittenExactly
