\* Resizing and both kinds of closing.
CONSTANTS
    Producers = {p1, p2}
    Consumers = {c1, c2}
    Controllers = {k1}
    Capacities = {1, 2}
    InitCapacity = 1
    MaxAllowed = 2
    PopCounts = {1, 2}
    HandlerThrows = FALSE
    NoOwner = NoOwner
SPECIFICATION Spec
INVARIANTS TypeOK SlotsConserved NoUnderflow NoOverflow
PROPERTIES FinalizedWhenDrained ImplementsClosable
SYMMETRY Alike
CHECK_DEADLOCK FALSE
