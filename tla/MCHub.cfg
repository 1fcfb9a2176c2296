CONSTANTS
    Threads = {g1, g2, g3, g4}
    Rooms = {r1, r2}
    Evicting = FALSE
    PublicRooms = FALSE
    Listeners = {v1, v2}
    Voting = {h1, h2}
    Rechecks = {k1, k2}
    MaxTracks = 2
    Reconcilers = {c1, c2}
    Loops = {l1, l2, l3}
    NoLoop = NoLoop
SYMMETRY Symmetry
SPECIFICATION HubSpec
INVARIANTS
    HubTypeOK
    NoCycleForms
    StandingVotesPass
    VoteSkipsItsTrack
    OneTicker
