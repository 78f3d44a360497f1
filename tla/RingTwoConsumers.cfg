\* Two consumers: a slot is used again while it is still being read.
CONSTANTS
    Producers = {p1}
    Consumers = {c1, c2}
    Capacity = 2
    Size = 2
    PopCounts = {1}
    MaxPushes = 4
SPECIFICATION Spec
INVARIANT ReadsClaimedItem
CHECK_DEADLOCK FALSE
