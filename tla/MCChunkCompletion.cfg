\* Two attempts race each other, the sweep and the client; no faults.
SPECIFICATION Spec
CONSTANTS
    u1 = u1
    Uploads = {u1}
    Scans = {s1}
    UploadOf <- MCUploadOf
    Duplicate = dup
    None = None
    Requests = {r1, r2}
    MaxFaults = 0
SYMMETRY MCSymmetry
INVARIANTS TypeOK RetryableHasChunks SideEffectsAreSafe
PROPERTIES FencedByToken OutcomeIsFinal
CHECK_DEADLOCK FALSE
