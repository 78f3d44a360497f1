\* Any number of producers, one consumer: the ring is safe.
CONSTANTS
    Producers = {p1, p2, p3}
    Consumers = {c1}
    Capacity = 3
    Size = 4
    PopCounts = {1, 2}
    MaxPushes = 9
SPECIFICATION Spec
INVARIANTS TypeOK ReadsClaimedItem ConstructsInRawSlot PositionsWithinLap
CHECK_DEADLOCK FALSE
