------------------------------ MODULE MCRoomSync ------------------------------
(* TLC instance of RoomSync: calls and pages are interchangeable. *)
EXTENDS RoomSync

Symmetry == Permutations(Workers) \cup Permutations(Clients)

===============================================================================
