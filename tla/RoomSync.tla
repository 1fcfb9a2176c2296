------------------------------- MODULE RoomSync -------------------------------
(***************************************************************************)
(* How one room's state travels: from Hub.mutate in memory, through the    *)
(* version-guarded row in Postgres, to the pages in the room.  A mutation  *)
(* commits under the room lock, then saves and publishes without it, so    *)
(* saves and publications of concurrent calls overtake each other; the     *)
(* store and the pages both keep only what is strictly newer.  The room    *)
(* itself is reduced to its version and the commit that made it (RoomQueue *)
(* models what a commit does).                                             *)
(***************************************************************************)
EXTENDS SequencesExt

CONSTANTS
    Workers,     \* goroutines running hub.mutate (RPCs, timers, lookups)
    Clients,     \* pages of members
    NoState,     \* no room in memory, no row in the store, an empty page
    NoClient,    \* a call nobody's page waits for
    MaxVersion,  \* bound on versions
    MaxFaults    \* bound on drops, crashes, evictions and failed calls together

ASSUME RoomSyncAssumption ==
    /\ {MaxVersion, MaxFaults} \subseteq Nat
    /\ NoClient \notin Clients
    /\ NoState \notin [version : Nat, commit : Nat]

VARIABLES
    room,      \* Hub.rooms[roomID]: the resident state or NoState
    row,       \* the row of table rooms, or NoState
    calls,     \* calls[w]: the call w runs
    commits,   \* commits so far (names each commit, also across restarts)
    link,      \* link[c]: connection of c's page, and how its room.join has ended
    page,      \* page[c]: how joinRoom has: activeRoom is set once a page has "entered"
    inbox,     \* inbox[c]: states on their way to c's page
    shown,     \* shown[c]: the state c's page shows
    unsaved,   \* the save of the newest state failed
    unsent,    \* the publication of the newest state failed
    lost,      \* memory was dropped while it was ahead of the row
    faults

vars == <<room, row, calls, commits, link, page, inbox, shown, unsaved, unsent, lost, faults>>

State(v, c) == [version |-> v, commit |-> c]
Fresh == State(0, 0)
States == [version : 0 .. MaxVersion, commit : Nat]
MaybeState == States \cup {NoState}

Call(pc, state, caller) == [pc |-> pc, state |-> state, caller |-> caller]
Idle == Call("idle", NoState, NoClient)

TypeOK ==
    /\ room \in MaybeState /\ row \in MaybeState
    /\ calls \in [Workers ->
         [pc : {"idle", "mutate", "create", "insert", "save", "publish", "reply"},
          state : MaybeState, caller : Clients \cup {NoClient}]]
    /\ commits \in Nat
    /\ link \in [Clients -> {"off", "connected", "joining", "joined", "refused", "closed"}]
    /\ page \in [Clients -> {"entering", "entered", "failed"}]
    /\ inbox \in [Clients -> Seq(States)]
    /\ shown \in [Clients -> MaybeState]
    /\ {unsaved, unsent, lost} \subseteq BOOLEAN
    /\ faults \in 0 .. MaxFaults

\* s is strictly newer than t, which may be missing: the one comparison both
\* the upsert and the page make.
Newer(s, t) == t = NoState \/ s.version > t.version
Fault == faults < MaxFaults /\ faults' = faults + 1

-----------------------------------------------------------------------------
(* Calls of the server *)

Become(w, call) == calls' = [calls EXCEPT ![w] = call]

\* Any mutation but room.join.
StartMutation(w) ==
    /\ calls[w].pc = "idle"
    /\ Become(w, Call("mutate", NoState, NoClient))
    /\ UNCHANGED <<room, row, commits, link, page, inbox, shown, unsaved, unsent, lost, faults>>

SendsFirstOnly(c) == page[c] = "entering"

\* A page that has connected sends room.join: joinRoom the first one, the handler of
\* 'connected' the later ones, once the first was answered.
SendsJoin(c) == page[c] # "failed"

StartJoin(w, c) ==
    /\ calls[w].pc = "idle"
    /\ link[c] = "connected" /\ SendsJoin(c)
    /\ link' = [link EXCEPT ![c] = "joining"]
    /\ Become(w, Call("mutate", NoState, c))
    /\ UNCHANGED <<room, row, commits, page, inbox, shown, unsaved, unsent, lost, faults>>

\* getOrLoadRoom misses memory and reads the row; without a row the room is new.
Load(w) ==
    /\ calls[w].pc = "mutate" /\ room = NoState
    /\ Become(w, IF row = NoState THEN Call("create", Fresh, calls[w].caller)
                 ELSE Call("insert", row, calls[w].caller))
    /\ UNCHANGED <<room, row, commits, link, page, inbox, shown, unsaved, unsent, lost, faults>>

\* Without an answer to its first room.join a page is left with the error of
\* joinRoom; without one to a later room.join it stays as it is.
Unanswered(C) ==
    page' = [c \in Clients |-> IF c \in C /\ page[c] = "entering" THEN "failed" ELSE page[c]]

\* A failed load fails the call.
LoadFails(w) ==
    /\ calls[w].pc = "mutate" /\ room = NoState
    /\ Fault
    /\ Become(w, Idle)
    /\ link' = [c \in Clients |-> IF c = calls[w].caller THEN "refused" ELSE link[c]]
    /\ Unanswered({calls[w].caller})
    /\ UNCHANGED <<room, row, commits, inbox, shown, unsaved, unsent, lost>>

UpsertAlways(state) == row' = state

\* Postgres.Save: a stale state affects no row.
Upsert(state) == row' = IF Newer(state, row) THEN state ELSE row

SaveFresh(w) ==
    /\ calls[w].pc = "create"
    /\ Become(w, [calls[w] EXCEPT !.pc = "insert"])
    /\ \/ Upsert(calls[w].state) /\ UNCHANGED faults
       \/ Fault /\ UNCHANGED row
    /\ UNCHANGED <<room, commits, link, page, inbox, shown, unsaved, unsent, lost>>

InsertOver(state) == state

\* The double-checked insert: the loser of a race of loaders takes the winner's room.
InsertOnce(state) == IF room = NoState THEN state ELSE room

Insert(w) ==
    /\ calls[w].pc = "insert"
    /\ room' = InsertOnce(calls[w].state)
    /\ Become(w, Call("mutate", NoState, calls[w].caller))
    /\ IF room = NoState THEN unsaved' = (row = NoState) /\ unsent' = FALSE
       ELSE UNCHANGED <<unsaved, unsent>>
    /\ UNCHANGED <<row, commits, link, page, inbox, shown, lost, faults>>

Unversioned(state) == State(state.version, commits + 1)
Bumped(state) == State(state.version + 1, commits + 1)

\* The closure changes the room under its lock and takes the snapshot.
Commit(w) ==
    /\ calls[w].pc = "mutate" /\ room # NoState
    /\ room.version < MaxVersion
    /\ room' = Bumped(room)
    /\ commits' = commits + 1
    /\ Become(w, Call("save", room', calls[w].caller))
    /\ unsaved' = FALSE /\ unsent' = FALSE
    /\ UNCHANGED <<row, link, page, inbox, shown, lost, faults>>

\* The closure changes nothing: no save, no publication, the caller gets the state.
NoChange(w) ==
    /\ calls[w].pc = "mutate" /\ room # NoState
    /\ Become(w, Call("reply", room, calls[w].caller))
    /\ UNCHANGED <<room, row, commits, link, page, inbox, shown, unsaved, unsent, lost, faults>>

Save(w) ==
    /\ calls[w].pc = "save"
    /\ Upsert(calls[w].state)
    /\ Become(w, [calls[w] EXCEPT !.pc = "publish"])
    /\ UNCHANGED <<room, commits, link, page, inbox, shown, unsaved, unsent, lost, faults>>

\* A failed save is logged and the call goes on.
SaveFails(w) ==
    /\ calls[w].pc = "save"
    /\ Fault
    /\ unsaved' = (unsaved \/ calls[w].state = room)
    /\ Become(w, [calls[w] EXCEPT !.pc = "publish"])
    /\ UNCHANGED <<room, row, commits, link, page, inbox, shown, unsent, lost>>

\* Every connected page is subscribed: it subscribes before it sends room.join.
Subscribed(c) == link[c] \notin {"off", "closed"}

Publish(w) ==
    /\ calls[w].pc = "publish"
    /\ inbox' = [c \in Clients |-> IF Subscribed(c) THEN Append(inbox[c], calls[w].state)
                                   ELSE inbox[c]]
    /\ Become(w, [calls[w] EXCEPT !.pc = "reply"])
    /\ UNCHANGED <<room, row, commits, link, page, shown, unsaved, unsent, lost, faults>>

PublishFails(w) ==
    /\ calls[w].pc = "publish"
    /\ Fault
    /\ unsent' = (unsent \/ calls[w].state = room)
    /\ Become(w, [calls[w] EXCEPT !.pc = "reply"])
    /\ UNCHANGED <<room, row, commits, link, page, inbox, shown, unsaved, lost>>

\* The RPC returns its snapshot; a page reads only the reply of its room.join.
Reply(w) ==
    /\ calls[w].pc = "reply"
    /\ Become(w, Idle)
    /\ IF calls[w].caller = NoClient THEN UNCHANGED <<link, page, inbox>>
       ELSE /\ link' = [link EXCEPT ![calls[w].caller] = "joined"]
            /\ page' = [page EXCEPT ![calls[w].caller] = "entered"]
            /\ inbox' = [inbox EXCEPT ![calls[w].caller] = Append(@, calls[w].state)]
    /\ UNCHANGED <<room, row, commits, shown, unsaved, unsent, lost, faults>>

-----------------------------------------------------------------------------
(* Pages *)

\* The page connects and subscribes, also one whose joinRoom has failed.
Connect(c) ==
    /\ link[c] = "off"
    /\ link' = [link EXCEPT ![c] = "connected"]
    /\ UNCHANGED <<room, row, calls, commits, page, inbox, shown, unsaved, unsent, lost, faults>>

Latest(old, state) == state
Guarded(old, state) == IF Newer(state, old) THEN state ELSE old

\* setState: the version guard of realtime.ts.
Deliver(c) ==
    /\ inbox[c] # <<>>
    /\ shown' = [shown EXCEPT ![c] = Guarded(@, Head(inbox[c]))]
    /\ inbox' = [inbox EXCEPT ![c] = Tail(@)]
    /\ UNCHANGED <<room, row, calls, commits, link, page, unsaved, unsent, lost, faults>>

\* Nobody waits for c's calls any more.
Abandon(c) ==
    calls' = [w \in Workers |-> IF calls[w].caller = c THEN [calls[w] EXCEPT !.caller = NoClient]
                                ELSE calls[w]]

\* A lost connection loses what was on its way, a room.join and its reply included.
\* The client reconnects, unless the server closed the connection for good.
Drop(c) ==
    /\ Subscribed(c)
    /\ Fault
    /\ \E after \in {"off", "closed"} : link' = [link EXCEPT ![c] = after]
    /\ inbox' = [inbox EXCEPT ![c] = <<>>]
    /\ Abandon(c)
    /\ Unanswered({c})
    /\ UNCHANGED <<room, row, commits, shown, unsaved, unsent, lost>>

\* The page gives up a room.join, or the connection it wanted one for.
TimesOut(c) ==
    /\ \/ link[c] \in {"connected", "joining"} /\ SendsJoin(c)
          /\ link' = [link EXCEPT ![c] = "refused"]
       \/ link[c] = "off" /\ page[c] = "entering"
          /\ link' = [link EXCEPT ![c] = "closed"]
    /\ Fault
    /\ Abandon(c)
    /\ Unanswered({c})
    /\ UNCHANGED <<room, row, commits, inbox, shown, unsaved, unsent, lost>>

\* The member reloads the page, which forgets what it showed, or tries to join again
\* from the one that failed or was closed.
Reopen(c) ==
    /\ Fault
    /\ link' = [link EXCEPT ![c] = "off"]
    /\ page' = [page EXCEPT ![c] = "entering"]
    /\ inbox' = [inbox EXCEPT ![c] = <<>>]
    /\ Abandon(c)
    /\ \/ shown' = [shown EXCEPT ![c] = NoState]
       \/ (page[c] = "failed" \/ link[c] = "closed") /\ UNCHANGED shown
    /\ UNCHANGED <<room, row, commits, unsaved, unsent, lost>>

-----------------------------------------------------------------------------
(* Losing the memory *)

Forget ==
    /\ Fault
    /\ room # NoState
    /\ room' = NoState
    /\ lost' = (lost \/ row # room)
    /\ unsaved' = FALSE /\ unsent' = FALSE
    /\ UNCHANGED <<row, commits, shown>>

\* evictIdleRooms: no member, and idle for far longer than a call can last.
Evict ==
    /\ \A c \in Clients : ~Subscribed(c)
    /\ \A w \in Workers : calls[w] = Idle
    /\ Forget
    /\ UNCHANGED <<calls, link, page, inbox>>

\* The process ends, gracefully or not: memory and every call in flight are gone.
Crash ==
    /\ Forget
    /\ calls' = [w \in Workers |-> Idle]
    /\ link' = [c \in Clients |-> IF Subscribed(c) THEN "off" ELSE link[c]]
    /\ Unanswered({c \in Clients : Subscribed(c)})
    /\ inbox' = [c \in Clients |-> <<>>]

-----------------------------------------------------------------------------
Init ==
    /\ room = NoState
    /\ row \in {NoState, Fresh}
    /\ calls = [w \in Workers |-> Idle]
    /\ commits = 0
    /\ link = [c \in Clients |-> "off"]
    /\ page = [c \in Clients |-> "entering"]
    /\ inbox = [c \in Clients |-> <<>>]
    /\ shown = [c \in Clients |-> NoState]
    /\ unsaved = FALSE /\ unsent = FALSE /\ lost = FALSE
    /\ faults = 0

\* What a call under way does next.
Step(w) ==
    \/ Load(w) \/ LoadFails(w) \/ SaveFresh(w) \/ Insert(w) \/ Commit(w) \/ NoChange(w)
    \/ Save(w) \/ SaveFails(w) \/ Publish(w) \/ PublishFails(w) \/ Reply(w)

Next ==
    \/ \E w \in Workers :
         StartMutation(w) \/ Step(w) \/ \E c \in Clients : StartJoin(w, c)
    \/ \E c \in Clients :
         Connect(c) \/ Deliver(c) \/ Drop(c) \/ TimesOut(c) \/ Reopen(c)
    \/ Evict \/ Crash

Spec == Init /\ [][Next]_vars

(***************************************************************************)
(* A goroutine that runs mutate runs on (store calls time out after 5 s);  *)
(* centrifuge delivers to a connection that stays up, reconnects one that  *)
(* does not and serves the room.join it has received: the first one of a   *)
(* page, and after a reconnect that of a page that has entered.  Nothing   *)
(* is promised to a page whose joinRoom failed or whose connection the     *)
(* server closed: its member has to act.                                   *)
(***************************************************************************)
Fairness ==
    /\ \A w \in Workers : WF_vars(Step(w))
    /\ \A c \in Clients : /\ WF_vars(Connect(c)) /\ WF_vars(Deliver(c))
                          /\ SF_vars(\E w \in Workers : StartJoin(w, c))

FairSpec == Spec /\ Fairness

-----------------------------------------------------------------------------
(* Properties *)

Everywhere ==
    ({room, row} \cup {shown[c] : c \in Clients} \cup {calls[w].state : w \in Workers}
      \cup (UNION {Range(inbox[c]) : c \in Clients})) \ {NoState}

Quiet == room # NoState /\ \A w \in Workers : calls[w] = Idle

\* The version guards of the store and of the pages compare versions only: they
\* are right because a version names one state, wherever copies of it are.
\* Until an unsaved state is forgotten, no two states share a version.
VersionNamesState ==
    ~lost => \A s, t \in Everywhere : s.version = t.version => s = t

\* "the row always converges to the highest version, so no data is lost"
\* (Postgres.Save): whichever order the saves of concurrent calls land in, once
\* they are done the row is the room, unless the save of that very state failed.
StoreCatchesUp == Quiet => row = room \/ unsaved

\* Once no call runs and nothing is on its way, a page that has joined shows the
\* room, however publications, replies, drops and rejoins were ordered, unless
\* the publication of that very state failed.
PagesConverge ==
    Quiet /\ ~lost => \A c \in Clients :
        link[c] = "joined" /\ inbox[c] = <<>> => shown[c] = room \/ unsent

Version(state) == IF state = NoState THEN -1 ELSE state.version

View == INSTANCE RoomView WITH
    current <- IF room = NoState THEN Version(row) ELSE Version(room),
    view <- [c \in Clients |-> Version(shown[c])],
    broken <- lost

\* Memory, store, eviction and reload together behave as one sequence of states
\* that every page only moves forward along and never gets ahead of.
ImplementsRoomView == View!Spec

\* A page keeps coming to show the room, in the end for good, whatever was lost on
\* the way, unless the newest publication failed, its last room.join was refused or
\* timed out, its connection was closed for good, or its first room.join was never
\* answered: that one nobody sends again.
PageHeals ==
    \A c \in Clients :
        \/ []<>(link[c] = "joined" /\ shown[c] = room)
        \/ <>[](lost \/ unsent \/ link[c] \in {"refused", "closed"} \/ page[c] = "failed")

\* realtime.ts on the reconnect: "re-join to adopt the authoritative state,
\* healing anything missed while disconnected".  The page adopts only a newer one.
RejoinAdopts ==
    Quiet => \A c \in Clients :
        link[c] = "joined" /\ inbox[c] = <<>> => shown[c] = room \/ unsent

=============================================================================
