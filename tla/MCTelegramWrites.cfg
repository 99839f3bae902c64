SPECIFICATION Spec
CONSTANTS
    w1 = w1
    w2 = w2
    Workers = {w1, w2}
    None = None
    MaxFaults = 2
INVARIANTS TypeOK JournaledIsTracked OneFileIsKept
PROPERTIES WinnerHoldsLease
CHECK_DEADLOCK FALSE
