SPECIFICATION Spec
CONSTANTS
    ja = ja
    i1 = i1
    i2 = i2
    Recovery = Recovery
    Jobs = {ja}
    Items = {i1, i2}
    JobOf <- MCJobOf
    Legacy = {i2}
    MaxAttempts = 2
    Batch = 2
    MaxClaims = 2
    MaxFaults = 1
    MaxCrashes = 1
    MaxCommands = 1
INVARIANTS TypeOK CancelledNeverRuns
PROPERTIES  SuccessIsFinal
CHECK_DEADLOCK FALSE
