\* Resizing while the handler of a push throws.
CONSTANTS
    Producers = {p1, p2}
    Consumers = {c1}
    Controllers = {k1}
    Capacities = {1, 2}
    InitCapacity = 1
    MaxAllowed = 2
    PopCounts = {1}
    HandlerThrows = TRUE
    NoOwner = NoOwner
SPECIFICATION Spec
PROPERTY FinalizedWhenDrained
SYMMETRY Alike
CHECK_DEADLOCK FALSE
