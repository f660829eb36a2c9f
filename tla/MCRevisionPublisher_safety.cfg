SPECIFICATION Spec
CONSTANTS
    Inputs = {i1, i2}
    Extras = {x1}
    Workers = {w1}
    Publishers = {c1}
    Operators = {o1}
    Readers = {}
    Tries = 2
    Keep = 2
    Undispatched = TRUE
    MaxEdits = 2
    MaxCommands = 3
    MaxFaults = 1
CHECK_DEADLOCK FALSE
INVARIANTS TypeOK 
PROPERTIES NumbersNeverReused
