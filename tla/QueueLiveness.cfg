\* Pushes whose handler throws, both kinds of closing, a fixed capacity.
CONSTANTS
    Producers = {p1}
    Consumers = {c1, c2}
    Controllers = {k1}
    Capacities = {1}
    InitCapacity = 1
    MaxAllowed = 2
    PopCounts = {2}
    HandlerThrows = TRUE
    NoOwner = NoOwner
SPECIFICATION FairSpec
INVARIANTS SlotsConserved VerifyClosed
PROPERTIES FinalizationCompletes CloseLetsOut NobodyStranded
CHECK_DEADLOCK FALSE
