CONSTANTS
    Pages = {p1, p2}
    Controllers = {p1}
    YouTubePages = {p1}
    NTracks = 2
    Broken = {2}
    AdvanceRetries = 1
    MaxEndFaults = 1
    Songs = {s1, s2}
    Window = 1
    MaxAttempts = 2
    Admission = 1
    MaxTrips = 2
    MaxEvents = 4
    Capacity = 3
    FlushSize = 2
    InsertChunk = 2
SPECIFICATION BackgroundSpec
CHECK_DEADLOCK FALSE
INVARIANTS
    BackgroundTypeOK
    LeavesOnlyHeard
    PendingCountsLookups
    SkipsOnlyMissed
    EventsAccounted
PROPERTIES
    NeverStuck
    LookupsEnd
