------------------------------ MODULE RoomQueue ------------------------------
(***************************************************************************)
(* The state machine of one room's queue: queue.RoomState and every        *)
(* mutation of it the hub runs under the room lock (internal/queue,        *)
(* internal/hub).  One action is one closure handed to hub.mutate,         *)
(* together with the server clock step mutateRoom appends to it.  Tracks   *)
(* are their server-minted ids; titles, sources and attribution are left   *)
(* out.  Who may call what is the subject of HostRole, how a mutation      *)
(* reaches the store and the clients that of RoomSync.                     *)
(***************************************************************************)
EXTENDS SequencesExt

CONSTANTS
    TrackIds,           \* ids uuid.New() can mint (finite only for TLC)
    Voters,             \* voter keys: "user:<id>" or "client:<id>"
    NoTrack,            \* the empty NowPlayingID
    MaxQueueSize,       \* queue.MaxQueueSize
    MaxHistory,         \* queue.MaxHistory
    MaxVotersPerTrack,  \* queue.MaxVotersPerTrack
    RadioRefillCount,   \* radioRefillCount: tracks one refill may append
    SyncEnabled,        \* FEATURE_SYNC: the server owns the playback clock
    MaxVersion          \* bound on the version counter

ASSUME RoomQueueAssumption ==
    /\ NoTrack \notin TrackIds
    /\ {MaxQueueSize, MaxHistory, MaxVotersPerTrack, RadioRefillCount, MaxVersion}
         \subseteq Nat
    /\ SyncEnabled \in BOOLEAN

VARIABLES
    resident,    \* the room is in Hub.rooms (FALSE: only a stored row so far)
    issued,      \* every track id minted so far
    queue,       \* Queue: the playing track, then the upcoming ones
    nowPlaying,  \* NowPlayingID
    history,     \* History, newest first
    votes,       \* Votes
    skipVotes,   \* SkipVotes
    transport,   \* Transport
    radio,       \* RadioEnabled
    refill,      \* the radio refill of this room (roleState.lastRefill)
    version      \* Version

vars == <<resident, issued, queue, nowPlaying, history, votes, skipVotes,
          transport, radio, refill, version>>

\* What clients are shown of the room.
published == <<queue, nowPlaying, history, votes, skipVotes, radio,
               transport.state, transport.anchor>>

(***************************************************************************)
(* A transport is its play state, the track its position was taken on and  *)
(* whether that position has run past the track's known duration plus the  *)
(* stale-end margin (StaleEndMarginMs).                                    *)
(***************************************************************************)
Clock(state, track, late) == [state |-> state, anchor |-> track, overrun |-> late]
NoClock == Clock("none", NoTrack, FALSE)
Transports == [state : {"none", "playing", "paused", "unset"},
               anchor : TrackIds \cup {NoTrack}, overrun : BOOLEAN]

WithinCap(V) == IsFiniteSet(V) /\ Cardinality(V) <= MaxVotersPerTrack

\* The types of the variables, and the caps the code declares: MaxQueueSize,
\* MaxHistory, MaxVotersPerTrack.  An id in the room was minted by it.
TypeOK ==
    /\ resident \in BOOLEAN
    /\ issued \in SUBSET TrackIds
    /\ queue \in Seq(issued) /\ Len(queue) <= MaxQueueSize
    /\ nowPlaying \in issued \cup {NoTrack}
    /\ history \in Seq(issued) /\ Len(history) <= MaxHistory
    /\ votes \in [TrackIds -> SUBSET Voters]
    /\ \A t \in TrackIds : WithinCap(votes[t])
    /\ skipVotes \in SUBSET Voters
    /\ transport \in Transports
    /\ radio \in BOOLEAN
    /\ refill \in {"ready", "fetching", "cooling"}
    /\ version \in Nat

-----------------------------------------------------------------------------
(* Operators on the queue *)

Position(s, id) == CHOOSE i \in DOMAIN s : s[i] = id
Without(s, id) == RemoveAt(s, Position(s, id))
NextUpcoming(s) == IF s = <<>> THEN NoTrack ELSE Head(s)
Uncapped(h) == h
Capped(h) == IF Len(h) > MaxHistory THEN SubSeq(h, 1, MaxHistory) ELSE h
VotesWithout(S) == [t \in TrackIds |-> IF t \in S THEN {} ELSE votes[t]]

\* Sequences of at most n new, distinct ids.
FreshIds(n) == {s \in BoundedSeq(TrackIds \ issued, n) : IsInjective(s)}

\* What Queue, History and Votes become when the playing track is retired.
RemainingQueue ==
    IF nowPlaying \in Range(queue) THEN Without(queue, nowPlaying) ELSE queue
RetireToBack ==
    /\ history' = IF nowPlaying \in Range(queue)
                    THEN Capped(Append(history, nowPlaying)) ELSE history
    /\ votes' = VotesWithout({nowPlaying} \cap Range(queue))
RetireNowPlaying ==
    /\ history' = IF nowPlaying \in Range(queue)
                    THEN Capped(<<nowPlaying>> \o history) ELSE history
    /\ votes' = VotesWithout({nowPlaying} \cap Range(queue))

ClockOfOldTrack(np) == transport

\* setNowPlayingID: moving the pointer re-anchors an existing transport at 0.
ReAnchored(np) ==
    IF np = nowPlaying \/ transport.state = "none" THEN transport
    ELSE Clock(transport.state, np, FALSE)

CommitWithoutClock(np, tr, bumps) ==
    /\ resident
    /\ nowPlaying' = np
    /\ transport' = tr
    /\ version' = version + bumps
    /\ version' <= MaxVersion
    /\ UNCHANGED resident

(***************************************************************************)
(* The end of every mutation: now playing np with transport tr after       *)
(* `bumps` version bumps; with sync on, ensureTransportLocked gives a      *)
(* playing room without a transport a clock starting now.                  *)
(***************************************************************************)
Commit(np, tr, bumps) ==
    LET start == SyncEnabled /\ np # NoTrack /\ tr.state = "none"
    IN  /\ resident
        /\ nowPlaying' = np
        /\ transport' = IF start THEN Clock("playing", np, FALSE) ELSE tr
        /\ version' = version + bumps + (IF start THEN 1 ELSE 0)
        /\ version' <= MaxVersion
        /\ UNCHANGED resident

SwitchKeepingSkips(np, bumps) ==
    /\ skipVotes' = skipVotes
    /\ Commit(np, ReAnchored(np), bumps)

SwitchTo(np, bumps) ==
    /\ skipVotes' = IF np = nowPlaying THEN skipVotes ELSE {}
    /\ Commit(np, ReAnchored(np), bumps)

Stay(bumps) == Commit(nowPlaying, transport, bumps)

\* radioSeedAfterEmptied and refillAllowed: an advance that emptied a radio
\* room with something to seed from starts one refill per cool-down.
StartRefillIfDry(np, seeds) ==
    refill' = IF /\ nowPlaying # NoTrack /\ np = NoTrack
                 /\ radio /\ seeds # <<>> /\ refill = "ready"
              THEN "fetching" ELSE refill

-----------------------------------------------------------------------------
(* Adding tracks *)

\* RoomState.Add for each of the new ids, in order.
AddTracks(new) ==
    /\ issued' = issued \cup Range(new)
    /\ queue' = IF nowPlaying = NoTrack THEN <<Head(new)>> \o queue \o Tail(new)
                ELSE queue \o new
    /\ SwitchTo(IF nowPlaying = NoTrack THEN Head(new) ELSE nowPlaying, Len(new))
    /\ UNCHANGED <<history, votes, radio>>

\* queue.add
QueueAdd ==
    /\ Len(queue) < MaxQueueSize
    /\ \E id \in TrackIds \ issued : AddTracks(<<id>>)
    /\ UNCHANGED refill

\* history.readd: a copy of a played track under a new id.
HistoryReAdd ==
    /\ Len(queue) < MaxQueueSize
    /\ \E h \in Range(history), id \in TrackIds \ issued : AddTracks(<<id>>)
    /\ UNCHANGED refill

\* playlist.import: as many of the tracks as the queue has room for.
PlaylistImport ==
    /\ Len(queue) < MaxQueueSize
    /\ \E new \in FreshIds(MaxQueueSize - Len(queue)) :
         new # <<>> /\ AddTracks(new)
    /\ UNCHANGED refill

\* refillRadio when the fetch returns: a no-op unless the room still waits.
RadioRefill ==
    /\ refill = "fetching"
    /\ refill' = "cooling"
    /\ \/ /\ nowPlaying = NoTrack /\ radio
          /\ \E new \in FreshIds(MaxQueueSize - Len(queue)) :
               new # <<>> /\ Len(new) <= RadioRefillCount /\ AddTracks(new)
       \/ /\ Stay(0)
          /\ UNCHANGED <<issued, queue, history, votes, skipVotes, radio>>

\* The 30 s between two refills of a room have passed.
RefillGapEnds ==
    /\ refill = "cooling"
    /\ refill' = "ready"
    /\ UNCHANGED <<resident, issued, queue, nowPlaying, history, votes,
                   skipVotes, transport, radio, version>>

-----------------------------------------------------------------------------
(* Moving playback *)

\* AdvanceAfter: the playing track is history, the next one plays.
Advance(bumps) ==
    /\ nowPlaying \in Range(queue)
    /\ queue' = RemainingQueue
    /\ RetireNowPlaying
    /\ SwitchTo(NextUpcoming(queue'), bumps)
    /\ StartRefillIfDry(nowPlaying', history')
    /\ UNCHANGED <<issued, radio>>

\* now_playing.advance, and the advance of a passed skip vote.  A stale afterId
\* matches no playing track and is a no-op.
NowPlayingAdvance(afterId) == nowPlaying = afterId /\ Advance(1)

\* now_playing.skip_unplayable and autoSkipSourceless: the track never played,
\* so History does not record it (SkipUnplayed).
SkipUnplayable(trackId) ==
    /\ nowPlaying = trackId /\ trackId \in Range(queue)
    /\ queue' = RemainingQueue
    /\ votes' = VotesWithout({trackId})
    /\ SwitchTo(NextUpcoming(queue'), 1)
    /\ StartRefillIfDry(nowPlaying', history)
    /\ UNCHANGED <<issued, history, radio>>

JumpKeepingCopy(id) ==
    IF id = nowPlaying THEN UNCHANGED <<queue, history, votes>>
    ELSE queue' = <<id>> \o RemainingQueue /\ RetireNowPlaying

\* now_playing.set: jump to an upcoming track, or restate the playing one.
Jump(id) ==
    IF id = nowPlaying THEN UNCHANGED <<queue, history, votes>>
    ELSE /\ queue' = <<id>> \o Without(RemainingQueue, id)
         /\ RetireNowPlaying

NowPlayingSet(id) ==
    /\ id \in Range(queue)
    /\ Jump(id)
    /\ SwitchTo(id, 1)
    /\ UNCHANGED <<issued, radio, refill>>

\* queue.remove of the playing track: retired like an advance, without a refill.
RemovePlaying ==
    /\ nowPlaying \in Range(queue)
    /\ queue' = RemainingQueue
    /\ RetireNowPlaying
    /\ SwitchTo(NextUpcoming(queue'), 1)
    /\ UNCHANGED <<issued, radio, refill>>

RemoveKeepingVotes(id) ==
    /\ id \in Range(queue) \ {nowPlaying}
    /\ queue' = Without(queue, id)
    /\ Stay(1)
    /\ UNCHANGED <<issued, history, votes, skipVotes, radio, refill>>

\* queue.remove of an upcoming track.
RemoveUpcoming(id) ==
    /\ id \in Range(queue) \ {nowPlaying}
    /\ queue' = Without(queue, id)
    /\ votes' = VotesWithout({id})
    /\ Stay(1)
    /\ UNCHANGED <<issued, history, skipVotes, radio, refill>>

\* queue.clear
QueueClear ==
    LET kept == IF nowPlaying \in Range(queue) THEN <<nowPlaying>> ELSE <<>>
    IN  /\ Len(queue) > Len(kept)
        /\ queue' = kept
        /\ votes' = VotesWithout(Range(queue) \ {nowPlaying})
        /\ Stay(1)
        /\ UNCHANGED <<issued, history, skipVotes, radio, refill>>

TargetAnywhere(toIndex) == IF toIndex > Len(queue) THEN Len(queue) ELSE toIndex

\* The index queue.reorder really moves to (1-based): the playing head is fixed.
Target(toIndex) ==
    IF toIndex > Len(queue) THEN Len(queue)
    ELSE IF nowPlaying # NoTrack /\ Head(queue) = nowPlaying /\ toIndex < 2
         THEN 2 ELSE toIndex

\* queue.reorder
QueueReorder(id, toIndex) ==
    LET to == Target(toIndex)
    IN  /\ id \in Range(queue)
        /\ ~(id = nowPlaying /\ Head(queue) = nowPlaying)
        /\ Position(queue, id) # to
        /\ queue' = InsertAt(Without(queue, id), to, id)
        /\ Stay(1)
        /\ UNCHANGED <<issued, history, votes, skipVotes, radio, refill>>

-----------------------------------------------------------------------------
(* Votes *)

\* queue.vote: ToggleVote
QueueVote(id, voter) ==
    /\ id \in Range(queue)
    /\ \/ voter \in votes[id] /\ votes' = [votes EXCEPT ![id] = @ \ {voter}]
       \/ /\ voter \notin votes[id]
          /\ Cardinality(votes[id]) < MaxVotersPerTrack
          /\ votes' = [votes EXCEPT ![id] = @ \cup {voter}]
    /\ Stay(1)
    /\ UNCHANGED <<issued, queue, history, skipVotes, radio, refill>>

\* PruneGuestVotes: the votes of a guest whose connection dropped.
PruneGuestVotes(voter) ==
    /\ \E t \in TrackIds : voter \in votes[t]
    /\ votes' = [t \in TrackIds |-> votes[t] \ {voter}]
    /\ Stay(1)
    /\ UNCHANGED <<issued, queue, history, skipVotes, radio, refill>>

\* now_playing.vote_skip toggling voter's vote, and dropping the votes of those
\* not present; ballot is SkipVotes between the two.  Setting a vote to the value
\* it has is PruneSkipVotes.
VoteSkip(voter, present) ==
    LET ballot == IF voter \in skipVotes THEN skipVotes \ {voter}
                  ELSE skipVotes \cup {voter}
    IN  /\ nowPlaying # NoTrack
        /\ skipVotes' = ballot \cap present
        /\ Stay(IF ballot \subseteq present THEN 1 ELSE 2)
        /\ UNCHANGED <<issued, queue, history, votes, radio, refill>>

PruneUnversioned(present) ==
    /\ nowPlaying # NoTrack
    /\ ~(skipVotes \subseteq present)
    /\ skipVotes' = skipVotes \cap present
    /\ Stay(0)
    /\ UNCHANGED <<issued, queue, history, votes, radio, refill>>

\* reevaluateSkipVotesNow after a departure.
PruneSkipVotes(present) ==
    /\ nowPlaying # NoTrack
    /\ ~(skipVotes \subseteq present)
    /\ skipVotes' = skipVotes \cap present
    /\ Stay(1)
    /\ UNCHANGED <<issued, queue, history, votes, radio, refill>>

Rekeyed(S, old, new) == IF old \in S THEN (S \ {old}) \cup {new} ELSE S

\* room.rebind: RewriteVoter and RewriteSkipVoter under one bump.
Rebind(old, new) ==
    /\ old # new
    /\ votes' = [t \in TrackIds |-> Rekeyed(votes[t], old, new)]
    /\ skipVotes' = Rekeyed(skipVotes, old, new)
    /\ Stay(1)
    /\ UNCHANGED <<issued, queue, history, radio, refill>>

-----------------------------------------------------------------------------
(* Transport, radio, join, load *)

\* A client-supplied position may lie anywhere, past the end of a track included.
Reachable(track, late) == late => track # NoTrack

\* transport.play of the current track, from a position or resuming.
TransportPlay(late) ==
    /\ SyncEnabled
    /\ Reachable(nowPlaying, late)
    /\ Commit(nowPlaying, Clock("playing", nowPlaying, late), 1)
    /\ UNCHANGED <<issued, queue, history, votes, skipVotes, radio, refill>>

\* transport.play naming a track: now_playing.set, then the clock.
TransportPlayTrack(id, late) ==
    /\ SyncEnabled
    /\ id \in Range(queue)
    /\ Jump(id)
    /\ skipVotes' = IF id = nowPlaying THEN skipVotes ELSE {}
    /\ Commit(id, Clock("playing", id, late), 2)
    /\ UNCHANGED <<issued, radio, refill>>

TransportPause(late) ==
    /\ SyncEnabled
    /\ Reachable(nowPlaying, late)
    /\ Commit(nowPlaying, Clock("paused", nowPlaying, late), 1)
    /\ UNCHANGED <<issued, queue, history, votes, skipVotes, radio, refill>>

\* Seeking a room without a transport leaves its play state empty ("unset").
TransportSeek(late) ==
    /\ SyncEnabled
    /\ Reachable(nowPlaying, late)
    /\ LET state == IF transport.state = "none" THEN "unset" ELSE transport.state
       IN  Commit(nowPlaying, Clock(state, nowPlaying, late), 1)
    /\ UNCHANGED <<issued, queue, history, votes, skipVotes, radio, refill>>

\* Time passes: a playing transport runs past the end of its track.
ClockRuns ==
    /\ transport.state = "playing" /\ nowPlaying # NoTrack
    /\ transport' = [transport EXCEPT !.overrun = TRUE]
    /\ UNCHANGED <<resident, issued, queue, nowPlaying, history, votes,
                   skipVotes, radio, refill, version>>

\* room.join: a bump if the joiner claims the host role, AdvanceIfEnded, then
\* the clock.
RoomJoin(claims) ==
    IF /\ transport.state = "playing" /\ transport.overrun
       /\ nowPlaying \in Range(queue)
    THEN Advance(1 + claims)
    ELSE /\ Stay(claims)
         /\ UNCHANGED <<issued, queue, history, votes, skipVotes, radio, refill>>

\* radio.set
RadioSet(on) ==
    /\ radio' = on
    /\ Stay(1)
    /\ UNCHANGED <<issued, queue, history, votes, skipVotes, refill>>

\* Mutations that only bump the version as far as the queue goes: a source
\* landing on a track, room.set_public, role changes, the video heartbeat.
OtherMutation ==
    /\ Stay(1)
    /\ UNCHANGED <<issued, queue, history, votes, skipVotes, radio, refill>>

\* How many leading tracks of a stored row had already been played.
PlayedCount ==
    IF nowPlaying = NoTrack THEN Len(queue) ELSE Position(queue, nowPlaying) - 1

\* getOrLoadRoom of a stored row, MigrateLegacy included.
Load ==
    /\ ~resident
    /\ resident' = TRUE
    /\ queue' = SubSeq(queue, PlayedCount + 1, Len(queue))
    /\ LET played == SubSeq(queue, 1, PlayedCount)
       IN  /\ history' = IF played = <<>> THEN history
                         ELSE Capped(Reverse(played) \o history)
           /\ votes' = VotesWithout(Range(played))
           /\ version' = IF played = <<>> THEN version ELSE version + 1
    /\ UNCHANGED <<issued, nowPlaying, skipVotes, transport, radio, refill>>

-----------------------------------------------------------------------------
(***************************************************************************)
(* A room starts as the row of a new room (empty, version 0) or as one     *)
(* persisted before History existed: played tracks still sit in Queue      *)
(* ahead of the playing one, possibly with votes, possibly with no clock.  *)
(***************************************************************************)
Init ==
    /\ resident = FALSE
    /\ queue \in {q \in BoundedSeq(TrackIds, MaxQueueSize) : IsInjective(q)}
    /\ nowPlaying \in Range(queue) \cup {NoTrack}
    /\ issued = Range(queue)
    /\ history = <<>>
    /\ \E S \in {V \in SUBSET Voters : WithinCap(V)} :
         votes = [t \in TrackIds |-> IF t \in Range(queue) THEN S ELSE {}]
    /\ skipVotes = {}
    /\ transport \in {NoClock}
         \cup {Clock("playing", t, FALSE) : t \in {nowPlaying} \ {NoTrack}}
    /\ radio \in BOOLEAN
    /\ refill = "ready"
    /\ version = Len(queue)

Next ==
    \/ Load
    \/ QueueAdd \/ HistoryReAdd \/ PlaylistImport \/ RadioRefill
    \/ RefillGapEnds \/ RemovePlaying \/ QueueClear
    \/ ClockRuns \/ OtherMutation
    \/ \E claims \in {0, 1} : RoomJoin(claims)
    \/ \E on \in BOOLEAN : RadioSet(on)
    \/ \E late \in BOOLEAN :
         TransportPlay(late) \/ TransportPause(late) \/ TransportSeek(late)
    \/ \E id \in TrackIds :
         \/ NowPlayingAdvance(id) \/ SkipUnplayable(id) \/ NowPlayingSet(id)
         \/ RemoveUpcoming(id)
         \/ \E late \in BOOLEAN : TransportPlayTrack(id, late)
         \/ \E to \in 1 .. MaxQueueSize : QueueReorder(id, to)
         \/ \E voter \in Voters : QueueVote(id, voter)
    \/ \E voter \in Voters :
         \/ PruneGuestVotes(voter)
         \/ \E present \in SUBSET Voters : VoteSkip(voter, present)
         \/ \E new \in Voters : Rebind(voter, new)
    \/ \E present \in SUBSET Voters : PruneSkipVotes(present)

Spec == Init /\ [][Next]_vars

-----------------------------------------------------------------------------
(* Properties *)

\* "Queue holds only the playing track (head) plus upcoming ones" (history.go):
\* a loaded room plays its head, and a room that plays nothing has no queue.
\* Every operation relies on it: Move pins the head, Add starts only an idle room.
QueueShape ==
    resident => IF nowPlaying = NoTrack THEN queue = <<>>
                ELSE queue # <<>> /\ Head(queue) = nowPlaying

\* An id names one track: it is in Queue or in History, and once.  Every lookup
\* of the code (Remove, Move, AdvanceAfter, Track) takes the first match.
NoTrackTwice ==
    /\ IsInjective(queue) /\ IsInjective(history)
    /\ Range(queue) \cap Range(history) = {}

\* "pruned when a track leaves the queue" (RoomState.Votes): only tracks still in
\* the queue have votes, so a count never outlives its track.
VotesFollowQueue == \A t \in TrackIds : votes[t] # {} => t \in Range(queue)

\* The transport's position was taken on the track that plays, never on an
\* earlier one (setNowPlayingID), so AdvanceIfEnded judges the right track.
ClockFollowsTrack ==
    /\ transport.state # "none" => transport.anchor = nowPlaying
    /\ transport.overrun => transport.state # "none" /\ nowPlaying # NoTrack

\* A row not loaded yet has no history and plays a track it holds.
StoredRow ==
    ~resident => history = <<>> /\ nowPlaying \in Range(queue) \cup {NoTrack}

\* What every step preserves: the invariants above need each other.
IInv == /\ TypeOK /\ QueueShape /\ NoTrackTwice /\ VotesFollowQueue
        /\ ClockFollowsTrack /\ StoredRow

\* "votes belong to the track they were cast on" (setNowPlayingID): when the
\* playing track changes no skip vote is left for the next one.
NoVoteCarriesOver == [][nowPlaying' # nowPlaying => skipVotes' = {}]_vars

\* "every state change bumps Version" (mutate): clients drop a state that is not
\* strictly newer, so whatever they are shown may only change with a bump.
EveryChangeIsVersioned ==
    [][/\ version' >= version
       /\ published' # published => version' > version]_vars

\* "with sync on, any room that has a now-playing track also has a transport"
\* (ensureTransportLocked): true after every mutation that changes the room.
PlayingHasClock ==
    [][SyncEnabled /\ resident /\ version' # version
         => (nowPlaying' # NoTrack => transport'.state # "none")]_vars

\* A loaded room's History only ever gains the track that stops playing, at its
\* front, and a track that stops playing leaves the queue for good.
HistoryIsPlayOrder ==
    [][/\ resident /\ history' # history
            => nowPlaying' # nowPlaying /\ history' = Capped(<<nowPlaying>> \o history)
       /\ nowPlaying' # nowPlaying => nowPlaying \notin Range(queue')]_vars

\* protocol.md, Host grace: "The skip never triggers a radio refill".  The skip
\* of an unplayable track is the one change of track History does not record.
SkipNeverRefills ==
    [][/\ nowPlaying # NoTrack /\ nowPlaying' # nowPlaying /\ history' = history
       => (refill' = "fetching" => refill = "fetching")]_vars

=============================================================================
