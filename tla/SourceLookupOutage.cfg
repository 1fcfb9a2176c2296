CONSTANTS
    Songs = {s1}
    Window = 1
    MaxAttempts = 3
    Admission = 2
    MaxTrips = 0
SPECIFICATION LookupSpec
CHECK_DEADLOCK FALSE
INVARIANT
    OutageKeepsTracks
