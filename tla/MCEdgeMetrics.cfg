SPECIFICATION FairSpec
CONSTANTS
    MaxBatch = 2
    MaxQueue = 3
    Slots = {s1, s2}
    MaxEvents = 4
    MaxFaults = 2
CHECK_DEADLOCK FALSE
INVARIANTS TypeOK Accounted QueueBounded
PROPERTIES Delivered
