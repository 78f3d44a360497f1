\* Two operations and four segments, every failure, but no closing after one that left a
\* later checkpoint open.
CONSTANTS
    MaxOps = 2
    MaxSegment = 3
    CloseLeftOpen = FALSE
    None = None
SPECIFICATION Spec
INVARIANTS TypeOK MemoryIsRecoverable
PROPERTY Implements
CHECK_DEADLOCK FALSE
