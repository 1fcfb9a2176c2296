------------------------------ MODULE MCBackground ------------------------------
(***************************************************************************)
(* What happens in a room without anybody's doing, checked side by side:   *)
(* the pages' calls at the end of a track, the source lookups and the      *)
(* event writer share no variable, so a behaviour is one of a single part. *)
(***************************************************************************)
EXTENDS TrackEnd, SourceLookup, EventWriter

VARIABLE part   \* the part that moves

backgroundVars == <<endVars, lookupVars, writerVars, part>>

BackgroundInit ==
    /\ EndInit /\ LookupInit /\ WriterInit
    /\ part \in {"end", "lookup", "writer"}
    /\ part # "end" <=> playing = Nothing
    /\ part # "lookup" => matchers = {}

\* Quotas and restarts are combined with one track, the skip of one track with the
\* lookups of the next: with two, nothing trips.
BackgroundNext ==
    /\ \/ part = "end" /\ EndNext /\ UNCHANGED <<lookupVars, writerVars>>
       \/ part = "lookup" /\ LookupNext /\ UNCHANGED <<endVars, writerVars>>
       \/ part = "writer" /\ WriterNext /\ UNCHANGED <<endVars, lookupVars>>
    /\ added' = Songs => trips' = 0
    /\ UNCHANGED part

BackgroundSpec ==
    BackgroundInit /\ [][BackgroundNext]_backgroundVars /\ EndFairness /\ LookupFairness

BackgroundTypeOK == EndTypeOK /\ LookupTypeOK /\ WriterTypeOK
===============================================================================
