SPECIFICATION Spec
CONSTANTS
    MaxId = 3
    Media <- MCMedia
    Ads <- MCAds
    Limit = 2
    MaxJobs = 2
    MaxEvents = 2
INVARIANTS TypeOK CursorIsCovered ReleasedIsQueued
PROPERTY CursorGrows
CHECK_DEADLOCK FALSE
