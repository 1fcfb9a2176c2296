CONSTANTS
    Workers = {w1, w2}
    Clients = {c1}
    NoState = NoState
    NoClient = NoClient
    MaxVersion = 2
    MaxFaults = 2
SPECIFICATION Spec
INVARIANTS
    RejoinAdopts
