# Cojam in TLA+

Specifications of the cojam server (`apps/server`, Go) and of the parts of the
web client (`apps/web`, TypeScript) that share a protocol with it: its session,
its feed, its queue panel and its players' reports. All are checked with TLC and,
where marked, proved with TLAPS.

Cojam is a listening room: members share a queue of tracks, one plays, a host
controls it. A room is one in-memory state guarded by one mutex; every change is
a closure handed to `Hub.mutate`, which then saves the new state to Postgres and
publishes it whole to the pages in the room. State that is about people
(who is in which room, since when, who is expected back) lives beside the room
under locks of its own. A page keeps one connection, one store and a handful of module variables, and
many asynchronous calls that outlive the moment they were made for. Most of what
can go wrong lies between those parts.

## 1. The system

| part | code (`apps/server/internal/...`) | state | operations | hard part |
|---|---|---|---|---|
| room queue | `queue/`, RPC closures in `hub/hub.go`, `hub/skipvote.go` | Queue, NowPlayingID, History, Votes, SkipVotes, Transport, RadioEnabled, Version | add, re-add, import, remove, clear, reorder, set, advance, skip, vote, play/pause/seek, refill, load | long sequences; late refills; stored rows of an older shape |
| synchronisation | `mutateRoom`, `getOrLoadRoom`, `publish`, `evictIdleRooms` in `hub/hub.go`; `store/postgres.go`; `realtime.ts` | `Hub.rooms`, table `rooms`, the state of each page | load, commit, save, publish, reply, rejoin, evict | save, publication and reply leave the lock and overtake each other; crash between commit and save |
| host role | `Join`/`Leave`/`room.join`/`PromoteOnDisconnect` in `hub/hub.go`, `hub/roles.go`, `hub/moderation.go`, `cmd/server/main.go` | HostUserID, OwnerUserID, members, join times, grace timers | join, disconnect, grace, handoff, transfer, claim, kick, shutdown, restart | timers against returns; membership, timers and room under three locks |
| lock order | all of `hub/` | `h.mu`, `memberMu`, `room.mu` | the nestings of the three | circular waiting |
| vote to skip | `hub/skipvote.go` | SkipVotes, who is present | vote, prune, re-check 5 s after a departure | presence read before the mutation, advance after it |
| enrichment, YouTube window, auto skip | `hub/hub.go`, `hub/roles.go`, `hub/ytwindow.go`, `match/` | EnrichPending, EnrichUncertain, EnrichChecked, YTLookup, YTAttempts, YTQuota per track; admission bound; quota breaker and its timer | claim, launch, drop, settle, retry, reset, skip | claims that are never settled, settled twice or after the quota ran out; counters two services share |
| video heartbeat | `hub/heartbeat.go` | a ticker per room | reconcile, tick, stop | decision read under one lock, acted on under another |
| guest upgrade | `hub/rebind.go`, `rebind/`, `connauth/` | burnt proofs | rebind, claim | commit before burn |
| rate limits | `hub/ratelimit.go` | buckets | allow, sweep | numeric edges |
| event writer | `events/` | buffer, closed flag, wake channel | emit, flush, close | close against emit and a loop that still inserts |
| chat, reactions, characters, platforms | `hub/chat.go`, `hub/moderation.go`, `hub/platform.go`, ... | bounded rings and maps | send, list, delete, set | published outside the lock, never recovered by the transport |
| public rooms, name filter, statistics | `hub/public.go`, ... | caches | list | its locks |
| reports, retention, erasure; identity and tokens; catalogue services; database; observability | `report/`, `erase/`, `supauth/`, `spotify*/`, `playlist/`, `lyrics/`, `listenbrainz/`, `httpx/`, `db/`, `obs/` | in Postgres or elsewhere | SQL, HTTP, cryptography | outside a state model |
| web session | `joinRoom`, `updatePlatform`, `resyncRoom` in `realtime.ts` | centrifuge, activeRoom, desiredPlatform, sentPlatform, platformReady | join, reconnect, rejoin, retry, resync, choose a service | three awaits in `joinRoom`, nothing cancels an older call |
| web feed | the handlers of `realtime.ts` | chat, connections, platformOverrides | publications, questions after a (re)connect | answers overtaken by publications; absence |
| queue panel | `QueuePanel.tsx` | timersRef, removingIds, myVotes | remove, undo, vote | a window of four seconds over a room that moves; toggles |
| playback | `YouTubePlayer.tsx`, `SpotifyPlayer.tsx`, `client.tsx`, `useDriftCorrection.ts`, `useSkipUnplayable.ts`, `backgroundPlayback.ts` | what each player does, retries | report an end, skip, past-end check | every page reports, late loads, failed calls |
| rest of the web client | `apps/web/app`, `apps/web/lib` | rendering, stage, forms, clock estimate | drawing, parsing, seeking | real time |

The parts interact as follows. An RPC is authorised against the membership
(`memberMu`) and the host (`room.mu`), then runs its closure under `room.mu`;
closures of `room.join`, the handoff, the transfer and the rebind look back at the
membership from inside. The commit is followed, without the lock, by save,
publication and reply. A disconnect runs `PromoteOnDisconnect`,
`PruneGuestVotes`, `Leave` and `RemoveClientUserID` in that order. Timers
(grace, skip re-check, quota reset), background goroutines (refill, enrichment,
heartbeat, evictor) enter through the same `mutate`. Chat lines, presence and
platforms bypass it: they are changed under locks of their own and published
without a version. A page hears of all three kinds over one subscription, and asks for
what it missed (`room.join`, `chat.history`, presence, `member.platforms`) when
it connects. Nobody tells the server that a track has ended but the pages.

What would make each part correct is stated with its module below; the hazards
the properties aim at are listed line by line in `PROJECT.json`, those no property
covers yet with the reason or the module planned for them.

## 2. The modules

### RoomQueue (`MCRoomQueue`, `RoomQueueProofs`)

One action per mutation closure, together with the clock step
`ensureTransportLocked` that `mutateRoom` appends (`Commit`). A track is its
server-minted id; ids are never reused (`issued`). A transport is its play
state, the track its position was taken on (`anchor`, which the code leaves
implicit) and whether the position has run past the end (`overrun`); time is the
action `ClockRuns`. The refill of a radio room is a small state machine
(`ready`, `fetching`, `cooling`) because its answer comes any time later. A room
starts as a stored row, including rows from before `History` existed, whose
played tracks precede the playing one; `Load` is `getOrLoadRoom` with
`MigrateLegacy`. A stored row whose NowPlayingID names no track of the queue is not
among the initial states: `MigrateLegacy` leaves it as it is (`history.go:118-120`), but
no operation writes one, of today's code or of the code before `History`, and
`QueueShape` does not hold of it.

Who may call what is left to `HostRole`, so here everybody may. An advance by a
passed skip vote is `NowPlayingAdvance`, which may happen whenever the vote might
have passed. Sources and attribution of tracks are left out; what only touches
them and the version is `OtherMutation`. What makes a vote pass is `SkipVote`'s.

Invariants: `TypeOK` (with the caps), `QueueShape` (the head plays),
`NoTrackTwice`, `VotesFollowQueue`, `ClockFollowsTrack`. Action properties:
`NoVoteCarriesOver`, `EveryChangeIsVersioned`, `PlayingHasClock`,
`HistoryIsPlayOrder`.

### RoomSync and RoomView (`MCRoomSync`, `RoomSyncProofs`)

`RoomView` is what the server promises a page: one sequence of versions along
which a page only moves forward and which it is never ahead of, until a state
is forgotten that was never stored. `RoomSync` is how it is done: workers run
`mutate` in its steps (find or load the room, create and save it if new, insert
it unless somebody else has, commit, save, publish, reply), the row takes only
strictly newer states, the page only strictly newer publications and replies.
A state is reduced to its version and the commit that made it, so that two states
with the same version can be told apart.

How a page enters a room is kept apart from its connection, since the code treats the
two `room.join`s differently. The first one is sent by `joinRoom`, which throws when it is
not answered; `activeRoom` stays null and nobody sends it again (`page` is `failed`),
though the client lives on, reconnects and delivers publications. Once it is answered
(`entered`), the handler of `connected` sends one on every new connection, and an
unanswered one leaves the page on what it shows. The server may close a connection for
good (`closed`: a kick, a refused session); the member may reload the page or try again
(`Reopen`).

Faults are drops, timeouts of `room.join`, reopened pages, failed loads,
saves and publications, evictions and crashes, `MaxFaults` together. The page
subscribes before it sends `room.join` (`realtime.ts`); the subscription and the
ordering of messages on a connection are the library's (centrifuge,
centrifuge-js), taken as external. A commit is one version; the commits of
several bumps in `RoomQueue` differ only in the size of the step. An eviction needs
no member and no running call, because the idle limit (30 min) is far above the
longest call (store timeouts of 5 s). The extra save of `MigrateLegacy` when a
row is loaded is not repeated here.

Invariants: `VersionNamesState`, `StoreCatchesUp`, `PagesConverge`, and `TypeOK`,
which is proved and not run. Temporal: `ImplementsRoomView` (refinement), `PageHeals` (liveness).

### HostRole (`MCHostRole`, `HostRoleProofs`) and HostGrace (`MCHostGrace`)

Connections run their calls (subscription, `room.join`), their disconnect hooks in their
three steps, and grace timers, all concurrently; the hooks may run while a `room.join` of
the same connection is under way. A mutation that looks at the membership holds
`room.mu` from its look to its write (`closure`), and `memberMu` is free in between:
`room.join` looks for the host and writes (`JoinLooks`, `JoinCommits`), a handoff looks
for the host, then for the successor, and writes (`HandoffLooks`, `HandoffFinds`,
`HandoffWrites`), a transfer looks and writes (`TransferLooks`, `TransferWrites`). What is
read before the mutation is a step of its own too: the successor (`Expire`),
`requireHost` and the target's membership (`TransferAllowed`, `KickAllowed`). `Kick`
drops a membership whatever its connection is doing, a `room.join` included. A timer is
an entry; its callback checks that it is still the pending one. The boot window is the
mode `boot`. Room auth and the grace are on, as `cmd/server` sets them.

`HostGrace` adds the wall clock, reduced to whether the current host has been away for
less or more than the grace period, for the one property that speaks of it.

Abstractions: `Leave` and `RemoveClientUserID` are one step, and so are `leaveRoom`
and `Disconnect` of a kick; the join time of a user without a connection is
dropped because the next join overwrites it; admins and the re-keying of a
rebind are absent; the stored host survives a restart (a lost save is the
subject of `RoomSync`). A connection subscribes ahead of its `room.join` only if it is
one of `Subscribers`, and only such a one calls `queue.add` before it has joined. Drops,
kicks, transfers, shutdowns and restarts are bounded by `MaxDisruptions`.

The role may pass to somebody who is not in the room in two ways that the code leaves
open, and the properties except these and no other: the person leaves between the
mutation's look and its write (`vanished`), or is kicked or cut off after `Join` and
before the mutation of the same `room.join`, which does not look at its own caller
(`JoinsAsNobody`).

Action properties: `PresentHostKeepsRole`, `RolePassesToMember`, `JoinSettlesHost`,
`OwnerRegainsRole`. The invariant `TypeOK` is proved and not run.

### HubLocks (`MCHub`, `MCHubLocks`, `HubProofs`)

Goroutines that take locks along the paths the code takes them, one operator per
path, and Go's `RWMutex`, whose waiting writer keeps new readers out (external).
A goroutine may stop at any lock of a path, release it and go on along another
path with the same beginning, which covers closures that look at the membership
several times. The constants `Evicting` and `PublicRooms` are the two features that add
paths. Invariants: `TypeOK` (with the exclusion of writers) and `NoCycleForms`.

### SkipVote (`MCHub`, `HubProofs`)

A step of the vote has three parts, and anything may run between them: it looks who is
present (`VoteSkip`, or `GraceOver` for a re-check), counts in a mutation of the room
(`Count`), and, if the threshold is reached, moves the room on in another
(`VoteAdvances`). `LeaveRoom` arms the re-check of a departure. A listener is an identity
with one or more tabs, a track its place in the order of play, since a track that is gone
does not come back under its id. A member's call may set, withdraw or toggle the vote.

Three things are kept for the properties only. `agreed` and `votedOff` are what enough
listeners wanted and what a vote skipped. `older` is the one assumption about time: a
re-check fires five seconds after its departure, and by then every step that had looked
before the departure has counted, which is two lock acquisitions later. `restored` marks
votes that came back with a stored row: nobody re-counts them until somebody votes or
leaves. Invariants: `StandingVotesPass`, which says what a departure must complete, and
`VoteSkipsItsTrack`.

### VideoHeartbeat (`MCHub`, `HubProofs`)

The ticker of one room. `reconcileHeartbeat` reads the room under its lock (`ReadsRoom`)
and acts under `hbMu` (`StartsTicker`, `StopsTicker`); a loop does the same by itself
(`Tick`, `CountsMembers`, then `Beats` or `EndHeartbeat`). Eviction and shutdown stop the
ticker from outside. A loop stands for its goroutine and its channel. `mislaid` remembers
that a room was left without the ticker it wanted: a stop or an end decided earlier took
it, the server was shutting down, or a refused mutation loaded the room and reconciled
nothing. Invariant: `OneTicker`.

### PageFeed (`MCWeb`, `PageFeedProofs`)

The unversioned part of a page: chat lines, the roster, and the overlay of
services (characters run through the same code again). The server's copies (`ring`,
`place`, `chosen`) change first and their publications are a set, `pending`, taken
out in any order. A question is in `asks` until the server reads its copy, then an
answer, applied at any later time: presence replaces the roster, the platform seed
goes under the overlay, the first history replaces the list, later ones are merged
line by line. Publications never reach a page that is off. Faults are drops, failed
questions, failed publications and a restart of the server, which has stored
nothing of this. A line is its number. Connections of others come once; the page's
own entry, and the collapsing of connections into people (a pure function of the
roster), are left out.

Since nothing is recovered, the feed converges only up to what the code cannot
know, and the model keeps the exceptions as history variables, each exactly as
wide as needed: `skipped` (lines that came behind a first history on its way, that
were never published to the page, or that the page's own cap pushed out), `early` (deletions that overtook a copy of the
line or were missed), `outdated`, `jumped`. Invariants: `NoLineTwice`, `ChatCatchesUp`,
`DeletionReaches`, `RosterConverges`.

### PageSession (`MCWeb`, `WebProofs`)

`joinRoom` in its steps (resets; token; new client; 'connected' or a timeout;
`room.join`; rebind settled), any number of calls of it side by side, as
navigation and the retry button start them, and the module variables they share. Call
`j` creates client `j`. A client drops, reconnects by itself, or is closed for good
by a terminal code, of which only the refusal of the session (103) fails a join that is
connecting at once; `resyncRoom` wakes it. The chosen service has its debounce
timer, its claim (`sentPlatform`) and the calls on their way. Whether a rebind succeeds
is not the session's concern; it always settles. `RejoinsOwnRoom` is about joins that
follow one another: of overlapping ones the code does not keep it, since the reply of an
older join still sets `activeRoom`, and the timeout of an older one closes the client of
the newer (`realtime.ts:659-663`, `682`); `overlapped` records that two have met and
excepts the page from then on. Invariants: `OneConnection`,
`RejoinsOwnRoom`, `PlatformArrives`; liveness: `JoinEnds`.

### QueuePanel (`MCWeb`, `WebProofs`)

The panel of one page: every removal is a numbered window with a timer, `timersRef`
and `removingIds` are what Undo and the now-playing guard work on, and `queue.vote`
calls are in the order of the connection. The room (queue, playing track, counted
votes) moves by itself and the page is told at any later time. Drops lose calls, and
a guest's votes with them; a reload ends timers and reads the stored votes. The panel
leaves the screen while another one is shown and comes back with fresh refs and rows
(`Remount`; closing and opening are one step, as between them there is nobody to click and
the subscription to the store is gone). Nothing clears its timers, which run on without
handle or row (`orphans`): Undo and the start of the track do not reach them, only the
guard of the callback itself is left, and `UndoReachesTimers` speaks of the others.
Invariants: `UndoReachesTimers`, `PressedIsCounted`.

### TrackEnd (`MCBackground`, `BackgroundProofs`)

How a room gets from one track to the next: players of several pages load, start,
end and fail; ends are reported by the position poll or Spotify's state (naming the
track of the store) and by YouTube's ENDED event (naming the last load);
`advanceWithRetry`, the past-end check of the drift loop and the skip of an
unplayable video each with their own repetition; and the server, which moves on
only if the track that is named still plays. The transport plays throughout, sync is on
and browsers let players start. Two things are left out: an ENDED or an error of the old
video that arrives when the next one is already loaded, and `learnDuration`
(`useDriftCorrection.ts:82-94`) noting the store's track as played while the old video
still plays.
Invariant: `LeavesOnlyHeard`; liveness: `NeverStuck`.

### SourceLookup (`MCBackground`, `BackgroundProofs`)

The enrichment fields of a track and the lookups under way, counted per track,
kind and stage. `Mutate` is the end of `mutateRoom`, with the claims of
`markYouTubeWindowLocked`; every action that is a mutation in the code goes through it; `Requeue` is that of any
call that takes tracks out or changes their order.
`autoSkipSourceless` is its own step because it takes the lock again: `Check` is one
round up to the release, `SkipUnplayed` the advance that follows. The breaker of the
quota opens on a refusal and closes at the reset, with `armQuotaTimer` and
`onQuotaReset` between. The playing track is the head (an invariant of `RoomQueue`).
Lookups find, miss, fail or are refused; a matcher that panics, which `SafeGo`
recovers without a settlement (`hub.go:687-692`), so that EnrichPending stays up, is left
out. An eviction during a lookup is left out: it
needs 30 idle minutes, a lookup takes ten seconds. Invariants:
`PendingCountsLookups`, `SkipsOnlyMissed`; liveness: `LookupsEnd`.

### EventWriter (`MCBackground`, `BackgroundProofs`)

The buffer, the loop and `Close`, interleaved wherever the lock is released. An
insert succeeds or fails (error, panic and timeout alike). Invariant:
`EventsAccounted`.

`MCHub`, `MCWeb` and `MCBackground` put components side by side that share no variable: a
variable `part`, chosen at the start, says which of them moves. Interleaving them
would multiply the states and show nothing more of either, as no action of one reads
or writes a variable of another. Theorems say so: `HubIsItsParts`, `PageIsItsParts`,
`BackgroundIsItsParts`. `SkipVote` has members and tracks of its own, reduced to what a
vote sees of `HostRole`'s and `RoomQueue`'s.

## 3. The runs

| run | instance | what it shows |
|---|---|---|
| `queue` | 4 ids, 2 voters, queue 3, history 2, 1 vote per track, 2 tracks per refill, version 12 | all nine properties of `RoomQueue`; 43 thousand states |
| `queue_skip_refill` | 3 ids, version 6 | finding: a skip starts a refill |
| `sync` | 2 workers, 1 page, version 3, 2 faults | `RoomSync`'s invariants, refinement and liveness; 498 thousand states |
| `sync_rejoin` | the same without fairness | finding: the rejoin does not adopt an older state |
| `host` | 3 users, 4 connections, two of them subscribe ahead, 2 timers, 2 disruptions | the four action properties of `HostRole`; 4.3 million states |
| `host_grace` | the same on the wall clock (`HostGrace`) | finding: no grace for a lone host |
| `host_kick` | the same users; the owner has handed over the role, 1 disruption | finding: no handoff when the host is kicked |
| `hub` | locks: 4 goroutines, 2 rooms, both features off; vote: 2 listeners, 2 calls, 2 re-checks, 2 tracks; ticker: 2 calls, 3 loops | no circle forms, the vote completes what it should and skips nothing else, one ticker is in hand; 599 thousand states |
| `locks_evictor` | 3 goroutines, 1 room, evictor on | finding: a circle forms |
| `web` | feed: 1 other connection, 2 services, 2 lines, ring 1, 2 lines shown, 2 faults; session: 2 rooms, 2 joins, 2 services, 3 faults; panel: 2 tracks, 2 windows, 2 votes, 2 faults | the feed converges, one client lives, services arrive, joins end, Undo reaches the panel's timers, buttons tell the truth; 1.2 million states |
| `background` | ends: 2 pages (a controller with YouTube and a listener), 2 tracks, the second broken, 1 retry, 1 fault; lookups: 2 tracks, window 1, 2 attempts, 1 admitted, 2 trips; writer: 4 events, capacity 3, chunks of 2 | the room is never moved on without a reason nor stuck, lookups are counted and end, events are accounted for |
| `lookup_outage` | 1 track, 3 attempts, no quota trips | finding: a failed Spotify lookup does not block the skip |

Why these bounds are enough for the interesting cases: four ids let a queue be
full, a track be in history and one more arrive, so that every cap is met and
exceeded by one; one vote per track with two voters meets the vote cap. Two
workers are the least in which saves, publications and loaders overtake each
other, and the third version is the least in which a stale one meets two newer;
two faults allow a drop during a crash or a failed save before an eviction.
Ana's two tabs, with Bia and Caio, are the least in which a host is present in
another tab, absent with one candidate, or absent with a candidate who leaves;
two timers let a replaced one still fire; two disruptions are a drop or a kick and what
it meets (a transfer, a restart, another drop), and `Subscribers` are Ana's tabs, as the
others would only repeat the paths of a connection enrolled before its `room.join`. A circle through three kinds of lock
needs three goroutines, and one more can be a waiting writer. Two listeners are the least
for whom a departure lowers the threshold, two calls and two re-checks let two steps reach
it together and a departure fall between a look and its count, and the second track is
the one a second advance would cost. Two calls can decide in the wrong order, and of
three loops one can be stopped, one ending and one new. Ids, voters,
users, tabs, goroutines and rooms are interchangeable where the cfg says
`SYMMETRY`; the run with liveness uses none.

A ring of one line loses a line with the second, and a shown list of two is cut by a
notice and two lines. Two joins are the least that overlap; a third would be a
retry on top, which the theorems cover for any number. Three faults let a drop, a
failed rejoin and a refusal meet. Two windows on one track are the duplicate timer
the panel guards against, and on two tracks a reply that takes the wrong handle. One
controller and one listener give accepted and rejected reports, a broken last track
the skip; one fault is the lost reply a retry answers. Two tracks, a window of
one and one admitted lookup make the second track wait for the window, a launch
meet the bound, and a claim outlive its track; quota trips and restarts (`MaxTrips`) are
combined with one track only, since they act on tracks one by one.

Deadlock is checked in `sync` and `hub`. `RoomQueue` stops at `MaxVersion`,
`HostRole` when the server has stopped, and the parts of `web` and `background`
when their bounds are used up, so their configurations switch it off.

Each property has a mutant in `PROJECT.json`: a definition, changed as a
plausible bug would change it, that makes TLC report exactly that property. The
mutated forms stand in the modules just before the definitions they replace.

**Fairness** (`RoomSync!Fairness`): a call under way takes its next step (store
calls have a 5 s timeout and end in the error branch); a page whose connection
is down, and not closed for good, connects again (centrifuge-js retries); a message on a
connection that stays up arrives; a `room.join` that is sent can be served again and again
and is served (strong, since both workers may be busy at any time, though not for
ever). A page sends one on its first connection, and after a reconnect only if its first
was answered; nothing is promised to a page whose `joinRoom` has failed or whose connection
is closed, and `PageHeals` excepts it.
Nothing is assumed about mutations or faults; these may stop or not.
`SessionFairness`: the token request, `room.join` and the rebind are answered (the
calls have centrifuge's timeout of 12 s; the fetch of the token, `auth.ts:149`, has none, so
that it is answered is an assumption), and the ten second timer of a join runs whatever the client
does; that a client ever connects is not assumed. `EndFairness`: calls are answered
or tried again after their delay, clocks run, publications reach pages, which load and
skip by themselves, and the drift loop runs every 1.5 s; that a player plays to its end, or
that anybody presses a button, is not assumed. `LookupFairness`: goroutines run and
lookups end within 10 s, `autoSkipSourceless` runs at the end of its mutation, and a room
with something to play sees a mutation now and then (a rejoin, a vote); quotas may
never reset.

## 4. What is proved

`RoomQueueProofs` proves, for all sets of tracks and voters, all caps and any
version bound, that every reachable state of `RoomQueue` satisfies `TypeOK`,
`QueueShape`, `NoTrackTwice`, `VotesFollowQueue` and `ClockFollowsTrack`, and
that every step satisfies `NoVoteCarriesOver`. None of the invariants is
inductive alone: reordering keeps the head only because the playing track is the
head; removing one occurrence of an id removes the id only because it is there
once; `Add` starts a track in an idle room only because that room's queue is
empty. The inductive invariant `IInv` is their conjunction with `StoredRow`
(what a row not yet loaded looks like). The proof has lemmas on sequences without
duplicates (removing, inserting, cutting, reversing), on `Commit` and
`SwitchTo`, and one lemma per operation; `Invariance` puts them together. The
only assumption is `RoomQueueAssumption`.

The same module proves the other three action properties, `EveryChangeIsVersioned`,
`PlayingHasClock` and `HistoryIsPlayOrder`, from that invariant. Each operation ends
in `Commit`, so the first two need only what `Commit` does to version and transport;
the third needs `NoTrackTwice`, since the track that stops playing leaves the queue
only because it is there once.

`RoomSyncProofs` proves for any number of workers and pages, any versions and any
faults that `RoomSync` satisfies `TypeOK`, `VersionNamesState`, `StoreCatchesUp` and
`PagesConverge` and implements `RoomView` (`RoomSyncImplementsView`). None of the
properties is inductive: they speak of a quiet room or of copies whose origin
they do not know. `SyncInv` names the newest state, `Top`: the room or, without
one, what a loader will make of the row. It says that nothing is newer than `Top`
and nothing else has its version (pages only until a state is lost); that a room
not in the row is about to be saved by some call or marked `unsaved`; and that every
page that has joined shows the room, has it on the way, is about to be sent it by
some call, or the room is marked `unsent`. A page whose reply is still to come counts
as joined when the reply is older than the room, which is why a `room.join` that
overlaps a mutation cannot miss it: the page subscribed first. For the refinement
`Blank` says that until a loss no page knows a room that is neither in memory nor in
the row. Besides the bounds the proofs assume that `NoState` is no state.

`HostRoleProofs` proves for any users, connections, timers and disruptions all that
the run `host` checks: `TypeOK` (`RoleTypes`), `PresentHostKeepsRole`
(`PresentHostIsSafe`), `RolePassesToMember` (`HostIsMember`), `JoinSettlesHost`
(`JoinLeavesHost`) and `OwnerRegainsRole` (`OwnerIsRestored`). The four action
properties hold of single steps only because of what earlier steps left behind, and
that is `IInv`: `Ranked` (exactly the users in the room have a join time, so that a
successor is found whenever there is somebody), `SuccessorChosen` (a handoff about to be
committed has one) and `Locked`, what a mutation that holds `room.mu` knows from its looks:
whom it saw in the room is there or has left since (`vanished`), the host of a handoff has
not changed, and whom it saw absent is nobody whose `room.join` has returned, because a
return needs the lock. The rest is the code's second look at membership and host.

`HubProofs` has the three components of `MCHub`.

- `HubLocks`: for any goroutines and rooms locks exclude (`LocksExclude`), and without
  evictor and room list no circle of waiting forms (`NoDeadlock`). The argument is the
  lock order the code then has, `h.mu`, then one `room.mu`, then `memberMu`: the inductive
  invariant says a goroutine waits only for a lock that ranks above all it holds. In a
  circle take a member whose wanted lock ranks highest; what keeps it waiting is a writer
  that waits for the same lock, and that one's holder would have to want something higher
  still.
- `SkipVote`: `StandingVotesPass` (`DeparturesCount`) and `VoteSkipsItsTrack`
  (`VotesSkipWhatWasAgreed`) for any finite set of listeners, any calls, re-checks and
  tracks. The first speaks of a room at rest; `VoteInv` says of every moment that a step
  about to count has seen nobody who has left, or a re-check that is armed waits for it
  (`LooksAnswered`), so that the last to count saw no more than are there. Then the
  threshold has to grow with the room (`ThresholdGrows`), which a formula with halves and a
  minimum of two need not do. `PassedIsAgreed` says that an advance under way is for a track
  that enough agreed on (`ReachedIsEnough`); that it skips only this one is `AdvanceAfter`'s
  comparison.
- `VideoHeartbeat`: `OneTicker` (`TickerInHand`) for any calls and loops. `BeatInv` adds that
  a channel is closed only while its goroutine is there (`StoppedRun`), or a fresh loop
  would be taken for a stopped one, and that a room without the ticker it wants has a call
  on its way that will start one (`StarterComes`).
- `HubIsItsParts`: `MCHub`'s specification implements those of its three parts; `HubTypes`
  is its first use.

`BackgroundProofs` has the three components of `MCBackground`.

- `EventWriter`: `EventsAccounted` (`NoEventLost`) for any events, buffer and chunk
  sizes. A count alone would not be inductive: `WriterInv` adds that buffer, the two
  flushers' chunks, written and dropped have no event in common and hold none twice,
  and where each flusher's chunk is empty.
- `SourceLookup`: `LookupTypeOK`, `PendingCountsLookups` (`PendingIsExact`) and
  `SkipsOnlyMissed` (`SkipsAreDeserved`) for any tracks, window, attempts, admission
  bound and quota trips. The lookups of a track are at most `MaxAttempts` of each
  kind at any stage (`Counts`), which the type invariant needs. That a skip is deserved
  rests on what the fields of a queued track say of its lookups (`Tells`): a checked
  track has a source, a clean miss or a lookup under way, and one the quota refused is
  uncertain; and on the claims of a mutation covering the playing track until the check
  that follows it (`HeadClaimed`). A track found to be sourceless stays so until it is
  skipped (`Final`), although the lock is free in between.
- `TrackEnd`: `LeavesOnlyHeard` (`RoomLeavesOnlyHeard`) for any pages, tracks, retries
  and faults. A call may reach the server long after the end it reports, so
  `ReasonsHeard` says that every call under way, every broken player and every expired
  clock carries its reason already; the server's comparison does the rest, since it
  moves by one track and only off the one named.
- `BackgroundIsItsParts`: `MCBackground`'s specification implements those of its three parts,
  so what is proved of each holds of them together; `BackgroundTypes` is its first use.

`PageFeedProofs` proves for any lines, connections, services, caps and faults
what a feed without version numbers converges to.

- `LinesStayUnique`: types, caps and `NoLineTwice`. `FeedTypes` adds that the ring has
  each line once and marks exactly the deleted ones, and that an answer holds each line once.
- `ChatSettles`, `DeletionsSettle`: `ChatCatchesUp` and `DeletionReaches`. Neither is
  inductive, as both speak of a calm page. `PageKnows` says of every moment that a
  line the server keeps is shown, excepted, published later, or part of a history asked for
  or answered; `SeedKnows` that a first history, which replaces the list, brings
  all that is not excepted; `DeletionsKnown` that a deleted line of which any copy is left,
  on the page, in a publication or in an answer, has its deletion still to come or
  is excepted.
- `RosterSettles`: `RosterConverges`. `RosterKnown` and `PlatformsKnown` say the same of
  members and services: right already, excepted, or the right publication or answer is
  on its way. `OneQuestion` is why an answer cannot be overtaken by an older one: the
  page asks for services only after the presence answer, one question at a time.

The assumption `RingCap <= ChatCap` is the code's 50 and 100. With a page that keeps
fewer lines than the server, a history would not fit and the page never catch up.

`WebProofs` has the other two components of the page, and the page.

- `PageSession`: `OneConnection` (`OneClientLives`) and `RejoinsOwnRoom`
  (`ReconnectRejoinsOwnRoom`) for any rooms and any number of joins: `JoinsInTurn` says that
  as long as joins follow one another one at most runs, that while it runs no room is
  active, and that an active room is the newest client's. `PlatformArrives`
  (`WishArrives`) needs `PlatformInv`: while the connection is up, the chosen
  service is claimed, or a timer, a rejoin or a join yet to settle will claim it
  (`WishIsClaimed`), and what is claimed has been told or is the last of the calls under
  way (`ClaimIsSent`).
- `QueuePanel`: `UndoReachesTimers` (`TimersStayInReach`) is not inductive, as the reply
  of one window cleans up by track; `WindowsReached` extends the reach to windows whose
  `queue.remove` is under way, so that a reply can only take away its own handle.
  `PressedIsCounted` (`ButtonsTellVotes`) speaks of a page without calls; `VotesFit`
  says what a call under way knows: before it is counted the button and the server
  agree, after it the reply's verdict and the server.
- `PageIsItsParts`: `MCWeb`'s specification implements those of its three parts, so what is
  proved of each holds of the page; `PageTypes` is its first use.

`SequenceFacts` has the lemmas on sequences that several of these cite: what removing,
inserting, cutting, reversing, joining and filtering keep. The assumptions are the named
assumptions of the modules (bounds are natural numbers, "no room" is not a room, and
the like); every one is evaluated by a run.

Every invariant and every action property a passing run checks is thus a theorem, and so
are the types of `RoomSync`, `HostRole` and the page, which no run repeats.
Model-checked only are the liveness properties, `PageHeals`, `JoinEnds`, `NeverStuck`
and `LookupsEnd`: liveness under fairness, and anything about `ENABLED`, is out of the
proof system's reach and stays with TLC. The one recursive function, the filter `Kept`
of `PageFeed`, is reasoned about by its least counterexample (`KeptExists`,
`KeptEquation`), since the library's induction theorems take operators the provers
cannot instantiate; the one fold over a set, `Admitted` of `SourceLookup`, is only
compared with the admission bound, and no proof depends on its value.

## 5. Where code and text disagree

Each has a run of its own that fails (details and lines in `PROJECT.json`):

1. `locks_evictor`: the comment on `evictIdleRooms` claims a lock order without
   cycles. `room.join` holds `room.mu` and wants `memberMu`, the evictor holds
   `memberMu` and wants `h.mu`, `GetHostUserID` holds `h.mu` and wants
   `room.mu`. `listPublicRooms` closes a circle of the same kind.
2. `queue_skip_refill`: `protocol.md` says a skip never triggers a refill.
3. `sync_rejoin`: a comment in `realtime.ts` says the rejoin adopts the
   authoritative state; the version guard keeps a page on a state the server lost.
4. `host_grace`: `protocol.md` promises a disconnected host 60 s; a host who was alone
   gets none.
5. `host_kick`: a comment in `moderation.go` promises the host handoff after a
   kick; the membership is gone by then, and the room of the run keeps an absent host
   under the eyes of its owner.
6. `lookup_outage`: a comment in `roles.go` says a failed lookup blocks the automatic
   skip. The flag is shared by both services: when YouTube has missed and Spotify
   fails, the settlement frees YouTube's claim, the re-claim clears the flag, and
   the second miss skips the track.

Seen while modelling, without a run:

- `setState` compares versions only and `joinRoom` does not clear `store.state`
  (`realtime.ts:211`, `422-487`): after navigation inside the app the previous room's
  state stays until the new room's version is higher.
- A kicked page that is shown again calls `resyncRoom`, which connects it anew
  (`realtime.ts:791-794`) while `kicked` stays set.
- A first `room.join` that a drop swallows is never sent again on that client
  (`realtime.ts:447`, `502`, `667-676`), though it reconnects and shows publications: the
  page has the error of `joinRoom` and its person has to try again. `PageHeals` excepts it.
- A member kicked or cut off between `Join` and the mutation of its `room.join` can still
  become host (`hub.go:1843-1870` does not look at its caller), and a successor who leaves
  between a handoff's look and its write becomes an absent one, against "a departed user
  is never persisted as host" (`hub.go:1048`). The next joiner repairs it.
- The removal timer of a queue panel that is closed runs on (`QueuePanel.tsx:118`, `139-160`
  have no cleanup; `PalcoView.tsx:710-714`, `client.tsx:629` unmount it). Opened again, the
  panel shows the row as usual; neither Undo nor the start of the track stops the timer, and
  a second removal of the same row arms the duplicate that "bypasses Undo" of which the
  comment at `QueuePanel.tsx:183` speaks. Only the callback's guard against removing the
  playing track is left.
- A failed `now_playing.skip_unplayable` is not repeated by that page
  (`useSkipUnplayable.ts:28`); `NeverStuck` excepts it.
- A page whose player is behind its store names the newer track when the older one
  ends (`client.tsx:350`); `LeavesOnlyHeard` excepts it (`misnamed`).
- Two vote calls for one track in quick succession read the same button
  (`QueuePanel.tsx:167`); `PressedIsCounted` excepts it (`muddled`).
- A step of the vote that looked before somebody joined and voted removes that vote when
  it counts (`skipvote.go:122`, `144`): the listener has to vote again. `StandingVotesPass`
  holds all the same, as the vote no longer stands.
- Votes that come back with a stored row wait for the next vote or departure
  (`skipvote.go:82-84`), though they may be enough for those who return;
  `StandingVotesPass` excepts them (`restored`).
- A playing video is left without its ticker when a stop decided before it played is
  carried out afterwards (`heartbeat.go:92-94`, `163-168`), or when a refused mutation loads
  the room (`hub.go:1511`); the next mutation or arrival starts one. `OneTicker` excepts it
  (`mislaid`). Beats repair lost publications, so no state is lost.
- The first history replaces the list, so a line published while it was on its
  way goes (`realtime.ts:701`), and a deletion that overtakes an older copy is
  undone, though `realtime.ts:277-278` and `protocol.md:193-196` say a history race cannot
  resurrect a line; `ChatCatchesUp` and `DeletionReaches` except them.

## 6. Plan

Done: `RoomQueue`, `RoomView`, `RoomSync`, `HostRole`, `HubLocks`, `SkipVote`,
`VideoHeartbeat`, `PageFeed`, `PageSession`, `QueuePanel`, `TrackEnd`, `SourceLookup`, `EventWriter`, and the proofs
above. Next, in this order:

1. `HostRole` with admins and the re-keying of a rebind.
2. `RoomSync` with `DeleteIdleRooms`.
3. `RateLimiter` and `Rebind`: one mutex each, so of least value to a model.

## 7. Not modelled

- Matching, playlists, lyrics and the other catalogue services (text and HTTP),
  tokens and identity (cryptography), reports, retention and erasure (single SQL
  transactions), configuration, metrics and logging: no state of the program that
  another part could see half-way.
- Rendering, the stage, forms and input parsing of the web client, by far most of
  its lines: functions from a state to a picture or a string, for unit tests.
- Clock estimate and drift correction: numerical control over real time and
  players whose behaviour is not in the repository.
- Characters and reactions: the first repeat the platforms' code, the second
  keep nothing.
- Drag and drop, search and import in the queue panel: single calls whose effects
  are `RoomQueue`'s.
