\* One attempt and one maintenance run, no faults.
SPECIFICATION Spec
CONSTANTS
    u1 = u1
    Uploads = {u1}
    Scans = {s1}
    UploadOf <- MCUploadOf
    Duplicate = dup
    None = None
    Requests = {r1}
    MaxFaults = 0
INVARIANTS
    CommittedOutputKept
CHECK_DEADLOCK FALSE
