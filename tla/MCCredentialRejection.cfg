\* Two devices; the page changes the password and the second factor.
SPECIFICATION Spec
CONSTANTS
    Devices = {d1, d2}
    Requests = {r1, r2}
    MaxRequests = 5
    MaxEvents = 1
PROPERTIES CredentialRejectionKeepsSession
CHECK_DEADLOCK FALSE
