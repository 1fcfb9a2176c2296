-------------------------------- MODULE SkipVote --------------------------------
(***************************************************************************)
(* The vote to skip the playing track.  A step of the vote looks at who is *)
(* present under memberMu, counts under the room lock, and moves the room  *)
(* on in a mutation of its own; members come and go, the track changes and *)
(* other steps run between the three.  Each departure arms a re-check of   *)
(* the vote.  A track is its place in the order of play, a listener an     *)
(* identity that may have several tabs.                                    *)
(***************************************************************************)
EXTENDS Naturals, FiniteSets

CONSTANTS
    Listeners,
    Voting,     \* handlers that may run now_playing.vote_skip at the same time
    Rechecks,   \* re-checks that may be armed or running at the same time
    MaxTracks

ASSUME SkipVoteAssumption ==
    /\ IsFiniteSet(Listeners)
    /\ Voting \cap Rechecks = {}
    /\ MaxTracks \in Nat

VARIABLES
    track,      \* NowPlayingID; MaxTracks + 1 is nothing
    standing,   \* SkipVotes
    present,    \* the identities in roomMembers
    step,       \* step[c]: a skipVoteStep under way, or a re-check still to run
    older,      \* older[k]: steps that had looked before the departure k is for, and not counted since
    restored,   \* the standing votes were loaded from the store and not counted since
    agreed,     \* tracks that enough of the listeners wanted to skip, at some count
    votedOff    \* tracks a vote has skipped

voteVars == <<track, standing, present, step, older, restored, agreed, votedOff>>

Counters == Voting \cup Rechecks
VoteTracks == 1 .. MaxTracks
Silence == MaxTracks + 1
AnyTrackPlaying == 0

\* by is empty in a re-check; of is the track a step is about, seen what it saw present.
Steps == [pc : {"idle", "armed", "count", "skip"}, by : SUBSET Listeners,
          of : 0 .. Silence, seen : SUBSET Listeners]
Idle == [pc |-> "idle", by |-> {}, of |-> AnyTrackPlaying, seen |-> {}]

VoteTypeOK ==
    /\ track \in 1 .. Silence
    /\ {standing, present} \subseteq SUBSET Listeners
    /\ step \in [Counters -> Steps]
    /\ older \in [Rechecks -> SUBSET Counters]
    /\ restored \in BOOLEAN
    /\ {agreed, votedOff} \subseteq SUBSET VoteTracks

-----------------------------------------------------------------------------
(* The threshold *)

\* Half of the listeners, rounded up, and two of them unless one is alone.
SkipVotesNeeded(n) ==
    LET half == (n + 1) \div 2 IN IF n >= 2 /\ half < 2 THEN 2 ELSE half

Reached(votes, seen) ==
    votes # {} /\ Cardinality(votes) >= SkipVotesNeeded(Cardinality(seen))

\* What the threshold means, for the property below.
EnoughOf(votes, seen) ==
    /\ votes # {} /\ votes \subseteq seen
    /\ 2 * Cardinality(votes) >= Cardinality(seen)
    /\ Cardinality(seen) = 1 \/ Cardinality(votes) >= 2

PruneSkipVotes(votes, seen) == votes \cap seen

-----------------------------------------------------------------------------
(* Members and tracks *)

JoinRoom(v) ==
    /\ present' = present \cup {v}
    /\ UNCHANGED <<track, standing, step, older, restored, agreed, votedOff>>

NoReevaluation == Idle
ReevaluateSkipVotes == [Idle EXCEPT !.pc = "armed"]

\* Leave and leaveRoom.  The listener may have another tab open.
LeaveRoom(v, k) ==
    /\ v \in present /\ step[k].pc = "idle"
    /\ present' \in {present, present \ {v}}
    /\ step' = [step EXCEPT ![k] = ReevaluateSkipVotes]
    /\ older' = [older EXCEPT ![k] = {c \in Counters : step[c].pc = "count"}]
    /\ UNCHANGED <<track, standing, restored, agreed, votedOff>>

\* setNowPlayingID
ToNextTrack ==
    /\ track # Silence
    /\ track' = track + 1 /\ standing' = {} /\ restored' = FALSE

TrackChanges ==
    /\ ToNextTrack
    /\ UNCHANGED <<present, step, older, agreed, votedOff>>

\* The process ends: the votes are in the row, the rest is gone.
RestartVote ==
    /\ present' = {}
    /\ step' = [c \in Counters |-> Idle] /\ older' = [k \in Rechecks |-> {}]
    /\ restored' = (standing # {})
    /\ UNCHANGED <<track, standing, agreed, votedOff>>

\* The empty room is evicted; steps and timers of its members may still run.
EvictVotes ==
    /\ present = {} /\ standing # {} /\ restored' = TRUE
    /\ UNCHANGED <<track, standing, present, step, older, agreed, votedOff>>

-----------------------------------------------------------------------------
(* A step of the vote *)

\* A member's call, about the track its page shows, up to presentVoterKeys; between
\* the check of its membership and the look it may have left.
VoteSkip(c) ==
    /\ step[c].pc = "idle"
    /\ \E v \in Listeners, t \in VoteTracks :
         /\ t <= track
         /\ step' = [step EXCEPT ![c] = [pc |-> "count", by |-> {v}, of |-> t, seen |-> present]]
    /\ UNCHANGED <<track, standing, present, older, restored, agreed, votedOff>>

\* The five seconds after a departure are over, and with them every step that had
\* looked before it: looking and counting are milliseconds apart.  A vote seen
\* standing may be withdrawn before the look, and an evicted room is left alone.
GraceOver(k) ==
    /\ step[k].pc = "armed" /\ older[k] = {}
    /\ \/ (standing = {} \/ restored) /\ step' = [step EXCEPT ![k] = Idle]
       \/ step' = [step EXCEPT ![k] = [Idle EXCEPT !.pc = "count", !.seen = present]]
    /\ UNCHANGED <<track, standing, present, older, restored, agreed, votedOff>>

\* The mutation: set or retract the vote (a toggle does either), prune whoever was
\* not seen, compare with the threshold.
CountVotes(c) ==
    /\ step[c].of \in {AnyTrackPlaying, track} /\ track # Silence
    /\ \E votes \in {standing \cup step[c].by, standing \ step[c].by} :
         standing' = PruneSkipVotes(votes, step[c].seen)
    /\ restored' = FALSE
    /\ step' = [step EXCEPT ![c] = IF Reached(standing', step[c].seen)
                                  THEN [Idle EXCEPT !.pc = "skip", !.of = track] ELSE Idle]
    /\ agreed' = agreed \cup {t \in {track} : EnoughOf(standing', step[c].seen)}

\* "a música já mudou", or nothing plays any more.
CountsNothing(c) ==
    /\ ~(step[c].of \in {AnyTrackPlaying, track} /\ track # Silence)
    /\ step' = [step EXCEPT ![c] = Idle]
    /\ UNCHANGED <<standing, restored, agreed>>

Count(c) ==
    /\ step[c].pc = "count"
    /\ CountVotes(c) \/ CountsNothing(c)
    /\ older' = [k \in Rechecks |-> older[k] \ {c}]
    /\ UNCHANGED <<track, present, votedOff>>

SomethingPlays(c) == track # Silence
StillVotedOn(c) == track = step[c].of

\* advanceAfterReport, in a mutation of its own: AdvanceAfter checks the track again.
VoteAdvances(c) ==
    /\ step[c].pc = "skip"
    /\ step' = [step EXCEPT ![c] = Idle]
    /\ \/ StillVotedOn(c) /\ ToNextTrack /\ votedOff' = votedOff \cup {track}
       \/ ~StillVotedOn(c) /\ UNCHANGED <<track, standing, restored, votedOff>>
    /\ UNCHANGED <<present, older, agreed>>

-----------------------------------------------------------------------------
VoteInit ==
    /\ track \in {1, Silence} /\ standing = {} /\ present = {}
    /\ step = [c \in Counters |-> Idle] /\ older = [k \in Rechecks |-> {}]
    /\ restored = FALSE /\ agreed = {} /\ votedOff = {}

VoteNext ==
    \/ TrackChanges \/ RestartVote \/ EvictVotes
    \/ \E v \in Listeners : JoinRoom(v) \/ \E k \in Rechecks : LeaveRoom(v, k)
    \/ \E c \in Voting : VoteSkip(c)
    \/ \E k \in Rechecks : GraceOver(k)
    \/ \E c \in Counters : Count(c) \/ VoteAdvances(c)

VoteSpec == VoteInit /\ [][VoteNext]_voteVars

-----------------------------------------------------------------------------
(* Properties *)

\* No re-check is owed and no vote on the playing track has passed.
VoteAtRest ==
    /\ \A k \in Rechecks : step[k].pc \notin {"armed", "count"}
    /\ \A c \in Counters : step[c].pc = "skip" => step[c].of # track

\* "Only votes from currently present voters count, and the threshold is re-evaluated
\* when a listener leaves, so a departure can complete the vote": however looks,
\* counts, arrivals, departures and track changes interleave, at rest whoever stands
\* for a skip is in the room, and they are too few for the listeners there; unless
\* the votes came back with a stored row and nobody has voted or left since.
StandingVotesPass ==
    VoteAtRest /\ ~restored /\ standing # {} =>
        /\ standing \subseteq present
        /\ Cardinality(standing) < SkipVotesNeeded(Cardinality(present))

\* The vote skips only the track that was voted on: two steps that reach the threshold
\* together, or a host's skip between the count and the advance, never cost the room a
\* second track; and one voter cannot skip for a group.
VoteSkipsItsTrack == votedOff \subseteq agreed

===============================================================================
