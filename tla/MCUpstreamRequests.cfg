SPECIFICATION FairSpec
CONSTANTS
    Requests = {r1, r2, r3}
    Origins = {"a", "b"}
    MaxEntries = 1
    MaxAgents = 3
CHECK_DEADLOCK FALSE
INVARIANTS TypeOK PoolSound
PROPERTIES OnlyTimeoutsDestroy EveryRequestEnds
