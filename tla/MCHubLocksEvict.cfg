CONSTANTS
    Threads = {g1, g2, g3}
    Rooms = {r1}
    Evicting = TRUE
    PublicRooms = FALSE
SYMMETRY Symmetry
SPECIFICATION Spec
INVARIANT
    NoCycleForms
