SPECIFICATION MirrorSpec
CONSTANTS
    MaxPasses = 2
    MaxVersions = 3
    MaxMail = 2
    MaxGrants = 2
    MaxTaps = 1
    MaxRows = 2
    MaxFailures = 1
    MaxEvents = 3
    MaxDay = 1
    PastDays = 0
    FutureDays = 0
INVARIANTS MirrorHonest CursorCovers
PROPERTIES NeverBack StaysOff CaughtUp
CHECK_DEADLOCK FALSE
