------------------------------ MODULE MCHubLocks ------------------------------
EXTENDS HubLocks

Symmetry == Permutations(Threads) \cup Permutations(Rooms)
=============================================================================
