SPECIFICATION Spec
CONSTANTS
    TrackIds = {t1, t2, t3, t4}
    Voters = {v1, v2}
    NoTrack = NoTrack
    MaxQueueSize = 3
    MaxHistory = 2
    MaxVotersPerTrack = 1
    RadioRefillCount = 2
    SyncEnabled = TRUE
    MaxVersion = 12
SYMMETRY Symmetry
\* The version bound stops every mutation.
CHECK_DEADLOCK FALSE
INVARIANTS
    TypeOK
    QueueShape
    NoTrackTwice
    VotesFollowQueue
    ClockFollowsTrack
PROPERTIES
    NoVoteCarriesOver
    EveryChangeIsVersioned
    PlayingHasClock
    HistoryIsPlayOrder
