\* The storage may be closed with a later checkpoint left open.
CONSTANTS
    MaxOps = 1
    MaxSegment = 2
    CloseLeftOpen = TRUE
    None = None
SPECIFICATION Spec
INVARIANT OneConsistent
CHECK_DEADLOCK FALSE
