SPECIFICATION FairSpec
CONSTANTS
    Limit = 3
    MaxSends = 6
    MaxReplies = 3
CHECK_DEADLOCK FALSE
INVARIANTS TypeOK
PROPERTIES ImplementsChannel PeersReleased
