------------------------------ MODULE VideoHeartbeat ------------------------------
(***************************************************************************)
(* The ticker that republishes a room while a video plays in it.  Whoever  *)
(* has changed the room, or joined it, reconciles: reads under the room    *)
(* lock whether the room wants beats, and starts or stops the ticker later *)
(* under hbMu.  A loop ends itself by the same two steps, and eviction and *)
(* shutdown stop it from outside.  One room.                               *)
(***************************************************************************)
EXTENDS Naturals

CONSTANTS
    Reconcilers,  \* calls of mutateNoSkip or Join that may be under way together
    Loops,        \* goroutines that may run heartbeatLoop together
    NoLoop

ASSUME HeartbeatAssumption == NoLoop \notin Loops

VARIABLES
    resident,    \* the room is in h.rooms
    videoPlays,  \* shouldHeartbeat of its state
    inhabited,   \* hasMembersLocked
    ticker,      \* heartbeats[roomID], as the loop its channel belongs to
    loop,        \* loop[l]: what the goroutine is doing
    stopped,     \* loops whose channel is closed
    caller,      \* caller[c]: how far its reconcileHeartbeat is
    mislaid      \* the room was left without the ticker it wanted by then

beatVars == <<resident, videoPlays, inhabited, ticker, loop, stopped, caller, mislaid>>

BeatTypeOK ==
    /\ {resident, videoPlays, inhabited, mislaid} \subseteq BOOLEAN
    /\ ticker \in Loops \cup {NoLoop}
    /\ loop \in [Loops -> {"free", "waits", "counts", "beats", "ends"}]
    /\ stopped \subseteq Loops
    /\ caller \in [Reconcilers -> {"idle", "looks", "start", "stop"}]

\* What a ticker is for, at this moment.
WantsBeats == resident /\ videoPlays /\ inhabited

-----------------------------------------------------------------------------
(* The room *)

\* A mutation, which loads the room if need be and starts, pauses or ends a video.
Mutation(c) ==
    /\ caller[c] = "idle"
    /\ resident' = TRUE /\ videoPlays' \in BOOLEAN
    /\ caller' = [caller EXCEPT ![c] = "looks"]
    /\ UNCHANGED <<inhabited, ticker, loop, stopped, mislaid>>

\* A closure that refuses reconciles nothing, even if the room was loaded for it.
RefusedMutation ==
    /\ ~resident
    /\ resident' = TRUE /\ videoPlays' \in BOOLEAN /\ mislaid' = TRUE
    /\ UNCHANGED <<inhabited, ticker, loop, stopped, caller>>

\* Join: membership first, reconciled at its end.
Arrival(c) ==
    /\ caller[c] = "idle"
    /\ inhabited' = TRUE
    /\ caller' = [caller EXCEPT ![c] = "looks"]
    /\ UNCHANGED <<resident, videoPlays, ticker, loop, stopped, mislaid>>

LastLeaves ==
    /\ inhabited /\ inhabited' = FALSE
    /\ UNCHANGED <<resident, videoPlays, ticker, loop, stopped, caller, mislaid>>

\* stopHeartbeat
StopHeartbeat ==
    /\ stopped' = stopped \cup ({ticker} \ {NoLoop})
    /\ ticker' = NoLoop

\* evictIdleRooms
EvictIdle ==
    /\ resident /\ ~inhabited
    /\ resident' = FALSE
    /\ StopHeartbeat
    /\ UNCHANGED <<videoPlays, inhabited, loop, caller, mislaid>>

\* Shutdown; a call that is still under way may start another ticker.
StopHeartbeats ==
    /\ StopHeartbeat /\ mislaid' = TRUE
    /\ UNCHANGED <<resident, videoPlays, inhabited, loop, caller>>

-----------------------------------------------------------------------------
(* reconcileHeartbeat *)

\* roomWantsHeartbeat, whoever is in the room.
ReadsRoom(c) ==
    /\ caller[c] = "looks"
    /\ caller' = [caller EXCEPT ![c] = IF resident /\ videoPlays THEN "start" ELSE "stop"]
    /\ UNCHANGED <<resident, videoPlays, inhabited, ticker, loop, stopped, mislaid>>

Starts(l) ==
    /\ loop[l] = "free"
    /\ ticker' = l /\ loop' = [loop EXCEPT ![l] = "waits"]
    /\ mislaid' = FALSE

StartsTicker(c) ==
    /\ caller[c] = "start"
    /\ \/ ticker # NoLoop /\ UNCHANGED <<ticker, loop, mislaid>>
       \/ ticker = NoLoop /\ \E l \in Loops : Starts(l)
    /\ caller' = [caller EXCEPT ![c] = "idle"]
    /\ UNCHANGED <<resident, videoPlays, inhabited, stopped>>

StopsTicker(c) ==
    /\ caller[c] = "stop"
    /\ StopHeartbeat
    /\ mislaid' = (mislaid \/ (ticker # NoLoop /\ WantsBeats))
    /\ caller' = [caller EXCEPT ![c] = "idle"]
    /\ UNCHANGED <<resident, videoPlays, inhabited, loop>>

-----------------------------------------------------------------------------
(* heartbeatLoop *)

\* The goroutine returns, and with it its channel goes.
Returns(l) ==
    /\ loop' = [loop EXCEPT ![l] = "free"] /\ stopped' = stopped \ {l}

LoopStops(l) ==
    /\ loop[l] = "waits" /\ l \in stopped
    /\ Returns(l)
    /\ UNCHANGED <<resident, videoPlays, inhabited, ticker, caller, mislaid>>

\* heartbeatTick; the select may choose the tick although stop is closed.
Tick(l) ==
    /\ loop[l] = "waits"
    /\ loop' = [loop EXCEPT ![l] = IF resident /\ videoPlays THEN "counts" ELSE "ends"]
    /\ UNCHANGED <<resident, videoPlays, inhabited, ticker, stopped, caller, mislaid>>

\* The members are read under another lock.
CountsMembers(l) ==
    /\ loop[l] = "counts"
    /\ loop' = [loop EXCEPT ![l] = IF inhabited THEN "beats" ELSE "ends"]
    /\ UNCHANGED <<resident, videoPlays, inhabited, ticker, stopped, caller, mislaid>>

\* The room, perhaps evicted by now, is published with a higher version unless it has
\* been paused (RoomQueue's OtherMutation); no reconciliation follows.
Beats(l) ==
    /\ loop[l] = "beats"
    /\ loop' = [loop EXCEPT ![l] = "waits"]
    /\ UNCHANGED <<resident, videoPlays, inhabited, ticker, stopped, caller, mislaid>>

Registered(l) == ticker # NoLoop
RegisteredItself(l) == ticker = l

\* endHeartbeat: "a newer ticker for the same room must not be removed by a stale loop".
EndHeartbeat(l) ==
    /\ loop[l] = "ends"
    /\ \/ RegisteredItself(l) /\ ticker' = NoLoop /\ mislaid' = (mislaid \/ WantsBeats)
       \/ ~RegisteredItself(l) /\ UNCHANGED <<ticker, mislaid>>
    /\ Returns(l)
    /\ UNCHANGED <<resident, videoPlays, inhabited, caller>>

-----------------------------------------------------------------------------
BeatInit ==
    /\ resident = FALSE /\ videoPlays = FALSE /\ inhabited = FALSE
    /\ ticker = NoLoop /\ loop = [l \in Loops |-> "free"] /\ stopped = {}
    /\ caller = [c \in Reconcilers |-> "idle"] /\ mislaid = FALSE

BeatNext ==
    \/ RefusedMutation \/ LastLeaves \/ EvictIdle \/ StopHeartbeats
    \/ \E c \in Reconcilers :
         Mutation(c) \/ Arrival(c) \/ ReadsRoom(c) \/ StartsTicker(c) \/ StopsTicker(c)
    \/ \E l \in Loops :
         LoopStops(l) \/ Tick(l) \/ CountsMembers(l) \/ Beats(l) \/ EndHeartbeat(l)

BeatSpec == BeatInit /\ [][BeatNext]_beatVars

-----------------------------------------------------------------------------
(* Properties *)

\* "One ticker goroutine per room, started and stopped by reconcileHeartbeat": a loop
\* nobody has told to stop is the registered one, so that it can be told, and the
\* registered one is running on an open channel, so that it is told only once; and when
\* no call is under way a room that plays a video to somebody has one, unless a stop or
\* an end decided earlier took it when the room wanted it again.
OneTicker ==
    /\ \A l \in Loops \ stopped : loop[l] # "free" => l = ticker
    /\ ticker # NoLoop => ticker \notin stopped /\ loop[ticker] # "free"
    /\ WantsBeats /\ ~mislaid /\ (\A c \in Reconcilers : caller[c] = "idle") => ticker # NoLoop

===============================================================================
