CONSTANTS
    Workers = {w1, w2}
    Clients = {c1}
    NoState = NoState
    NoClient = NoClient
    MaxVersion = 3
    MaxFaults = 2
SPECIFICATION FairSpec
INVARIANTS
    VersionNamesState
    StoreCatchesUp
    PagesConverge
PROPERTIES
    ImplementsRoomView
    PageHeals
