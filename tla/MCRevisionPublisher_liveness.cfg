SPECIFICATION FairSpec
CONSTANTS
    Inputs = {i1, i2}
    Extras = {x1, x2}
    Workers = {w1}
    Publishers = {}
    Operators = {}
    Readers = {r1}
    Tries = 3
    Keep = 2
    Undispatched = TRUE
    MaxEdits = 3
    MaxCommands = 0
    MaxFaults = 2
CHECK_DEADLOCK FALSE
PROPERTIES QueuedEditsPublish ResolverConverges
