SPECIFICATION FairCircuit
CONSTANTS
    Slots = {r1, r2, r3, r4}
    Threshold = 3
    MaxFailures = 7
    GeoSkip = TRUE
INVARIANTS CircuitTypeOK HalfOpenHasProbe
PROPERTIES OpensAfterThreshold Recovers
