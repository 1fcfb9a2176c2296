CONSTANTS
    Others = {m1}
    Platforms = {spotify, youtube}
    NoPlatform = NoPlatform
    MaxLines = 2
    RingCap = 1
    ChatCap = 2
    MaxFeedFaults = 2
    Rooms = {r1, r2}
    NoRoom = NoRoom
    Services = {spotify, youtube}
    NoService = NoService
    MaxJoins = 2
    MaxSets = 2
    MaxSessionFaults = 3
    Tracks = {t1, t2}
    NoTrack = NoTrack
    MaxWindows = 2
    MaxToggles = 2
    MaxPanelFaults = 2
SPECIFICATION WebSpec
CHECK_DEADLOCK FALSE
INVARIANTS
    NoLineTwice
    ChatCatchesUp
    DeletionReaches
    RosterConverges
    OneConnection
    RejoinsOwnRoom
    PlatformArrives
    UndoReachesTimers
    PressedIsCounted
PROPERTIES
    JoinEnds
