----------------------------- MODULE MCRoomQueue -----------------------------
(* Instances of RoomQueue for TLC.  Ids and voters are interchangeable. *)
EXTENDS RoomQueue

Symmetry == Permutations(TrackIds) \cup Permutations(Voters)
=============================================================================
