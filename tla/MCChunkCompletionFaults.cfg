\* One attempt with up to two errors or crashes, under fairness.
SPECIFICATION FairSpec
CONSTANTS
    u1 = u1
    Uploads = {u1}
    Scans = {s1}
    UploadOf <- MCUploadOf
    Duplicate = dup
    None = None
    Requests = {r1}
    MaxFaults = 2
INVARIANTS
    NoUntrackedSideEffect
    CommittedFileIntact
PROPERTIES
    CompletionEnds
CHECK_DEADLOCK FALSE
