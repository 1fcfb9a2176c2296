---------------------------- MODULE MCHostGrace -----------------------------
(* TLC instance of HostGrace: the users and tabs of MCHostRole. *)
EXTENDS MCHostRole, HostGrace

===============================================================================
