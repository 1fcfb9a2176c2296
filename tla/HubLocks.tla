------------------------------- MODULE HubLocks -------------------------------
(***************************************************************************)
(* The order in which the hub's goroutines nest its three kinds of lock:   *)
(* h.mu (the room map), memberMu (who is in which room) and the mutex of   *)
(* each room.  RPC handlers, disconnects, grace timers, the metrics scrape *)
(* and the idle-room evictor each follow one of a few lock paths; what     *)
(* they do inside is left out.  The hub's other locks (clientUserIDMu,     *)
(* graceMu, hbMu, the limiters) are leaves: no other lock is taken under   *)
(* one, so they cannot close a cycle.                                      *)
(***************************************************************************)
EXTENDS SequencesExt

CONSTANTS
    Threads,        \* goroutines
    Rooms,          \* resident rooms
    Evicting,       \* ROOM_IDLE_TTL_MINUTES > 0 (the default): the evictor runs
    PublicRooms     \* FEATURE_PUBLIC_ROOMS: rooms can be listed

ASSUME HubLocksAssumption ==
    /\ Rooms \cap {"hub", "member"} = {}
    /\ Evicting \in BOOLEAN /\ PublicRooms \in BOOLEAN

VARIABLES
    held,   \* the requests a goroutine has been granted, outermost first
    wants   \* the request it is blocked on or about to be granted

vars == <<held, wants>>

Locks == {"hub", "member"} \cup Rooms
Requests == [mode : {"read", "write"}, lock : Locks]
Nothing == [mode |-> "none"]

Read(l) == [mode |-> "read", lock |-> l]
Write(l) == [mode |-> "write", lock |-> l]

-----------------------------------------------------------------------------
(* Lock paths *)

\* Join as it would be if it announced the arrival before it let go of memberMu.
EnrolmentAnnouncing == <<Write("member"), Read("hub")>>

\* Join, Leave, leaveRoom, recordJoinTime: the announcement follows the unlock.
Enrolment == <<Write("member")>>

\* selectSuccessor, presentVoterKeys, IsMember, IsUserIDInRoom outside a closure.
MemberLookup == <<Read("member")>>

\* getOrLoadRoom: the lookup and, after the load without a lock, the insertion.
RoomLookup == <<Write("hub")>>

\* The rooms gauge, and the lookups of announcements and heartbeats.
ResidentLookup == <<Read("hub")>>

\* room.mu with a closure that asks who is present (room.join's claim,
\* commitHostHandoff, transferHost), and every mutation that asks nothing.
RoleMutation(r) == <<Write(r), Read("member")>>

\* The closure of room.rebind moves the join time of the old identity.
RebindMutation(r) == <<Write(r), Write("member")>>

\* GetHostUserID reads the room under h.mu, on every disconnect.
HostLookup(r) == <<Read("hub"), Write(r)>>

\* evictIdleRooms
Eviction == <<Write("member"), Write("hub")>>

\* listPublicRooms visits the rooms one after the other.
Listing(r) == <<Read("member"), Read("hub"), Write(r)>>

Paths ==
    {Enrolment, MemberLookup, RoomLookup, ResidentLookup}
      \cup (UNION {{RoleMutation(r), RebindMutation(r), HostLookup(r)} : r \in Rooms})
      \cup {p \in {Eviction} : Evicting}
      \cup {p \in {Listing(r) : r \in Rooms} : PublicRooms}

-----------------------------------------------------------------------------
(* sync.Mutex and sync.RWMutex *)

Holds(t, l, modes) == \E m \in modes : [mode |-> m, lock |-> l] \in Range(held[t])

WantsTo(t, mode, l) == wants[t] = [mode |-> mode, lock |-> l]

\* A lock without reader/writer exclusion.
BlocksWritersOnly(u, t) ==
    \E l \in Locks :
        WantsTo(t, "write", l) /\ Holds(u, l, {"write"})

\* u keeps t waiting.  A reader also waits for a writer that waits for the lock:
\* an RWMutex lets no new reader in once Lock has been called.
Blocks(u, t) ==
    \E l \in Locks :
        \/ WantsTo(t, "write", l) /\ Holds(u, l, {"read", "write"})
        \/ WantsTo(t, "read", l) /\ (Holds(u, l, {"write"}) \/ WantsTo(u, "write", l))

Waiting(t) == wants[t] # Nothing

Init ==
    /\ held = [t \in Threads |-> <<>>]
    /\ wants = [t \in Threads |-> Nothing]

\* A goroutine goes one lock further on some path.
Request(t) ==
    /\ ~Waiting(t)
    /\ \E p \in Paths :
          /\ IsStrictPrefix(held[t], p)
          /\ wants' = [wants EXCEPT ![t] = p[Len(held[t]) + 1]]
    /\ UNCHANGED held

Acquire(t) ==
    /\ Waiting(t)
    /\ \A u \in Threads : ~Blocks(u, t)
    /\ held' = [held EXCEPT ![t] = Append(@, wants[t])]
    /\ wants' = [wants EXCEPT ![t] = Nothing]

\* Unlock, innermost first (the explicit unlocks and the deferred ones alike).
Release(t) ==
    /\ ~Waiting(t) /\ held[t] # <<>>
    /\ held' = [held EXCEPT ![t] = Front(@)]
    /\ UNCHANGED wants

Next == \E t \in Threads : Request(t) \/ Acquire(t) \/ Release(t)

Spec == Init /\ [][Next]_vars

-----------------------------------------------------------------------------
(* Properties *)

\* The lock tables: goroutines hold and want requests of the hub's locks, and a
\* lock somebody writes under (Lock of room.mu, h.mu, memberMu) is held by
\* nobody else.
TypeOK ==
    /\ held \in [Threads -> Seq(Requests)]
    /\ wants \in [Threads -> Requests \cup {Nothing}]
    /\ \A t, u \in Threads, l \in Locks :
          Holds(t, l, {"write"}) /\ Holds(u, l, {"read", "write"}) => t = u

\* No goroutines wait for each other in a circle: what hub.go's comment on
\* evictIdleRooms says of the lock order, whatever the handlers, disconnects and
\* timers do at the same time.  A circle never opens again: every RPC on the
\* rooms involved hangs from then on.
NoCycleForms ==
    ~ \E S \in SUBSET Threads :
        /\ S # {}
        /\ \A t \in S : \E u \in S : Blocks(u, t)
=============================================================================
