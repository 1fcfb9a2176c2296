--------------------------------- MODULE MCHub ---------------------------------
(***************************************************************************)
(* The goroutines of the hub, checked side by side: those that nest locks, *)
(* those that vote on a skip and those that keep the video ticker share no *)
(* variable, so a behaviour is one of a single part.                       *)
(***************************************************************************)
EXTENDS HubLocks, SkipVote, VideoHeartbeat

VARIABLE part   \* the part that moves

hubVars == <<vars, voteVars, beatVars, part>>

HubInit ==
    /\ Init /\ VoteInit /\ BeatInit
    /\ part \in {"locks", "vote", "beat"}
    /\ part # "vote" => track = Silence

HubNext ==
    /\ \/ part = "locks" /\ Next /\ UNCHANGED <<voteVars, beatVars>>
       \/ part = "vote" /\ VoteNext /\ UNCHANGED <<vars, beatVars>>
       \/ part = "beat" /\ BeatNext /\ UNCHANGED <<vars, voteVars>>
    /\ UNCHANGED part

HubSpec == HubInit /\ [][HubNext]_hubVars

HubTypeOK == TypeOK /\ VoteTypeOK /\ BeatTypeOK

Symmetry == Permutations(Listeners) \cup Permutations(Voting) \cup Permutations(Rechecks)
===============================================================================
