------------------------------- MODULE HostRole -------------------------------
(***************************************************************************)
(* Who holds the host role of one room: the first authenticated joiner,    *)
(* its successor when it stays away longer than the grace period, whoever  *)
(* it is handed to, the owner who claims it back (internal/hub: Join,      *)
(* Leave, room.join, PromoteOnDisconnect, roles.go).  Connections run      *)
(* their handlers concurrently with each other, with their own disconnect  *)
(* and with grace timers.  The membership (memberMu), the pending timer    *)
(* (graceMu) and the room (room.mu) are each consistent, nothing spans two *)
(* of them: a mutation holds room.mu from its look at the membership to    *)
(* its write, but who is in the room may change meanwhile.  Room auth and  *)
(* the host grace are on, as in cmd/server, so every connection has an     *)
(* identity.                                                               *)
(***************************************************************************)
EXTENDS SequencesExt

CONSTANTS
    Conns,      \* connections; one that comes back stands for a new client id
    Users,      \* identities
    UserOf,     \* the identity a connection presents
    NoUser,     \* the empty user id
    Timers,     \* identities of graceEntry values (a free one is reused)
    Subscribers,    \* connections that subscribe ahead of their room.join (a bound)
    MaxDisruptions  \* bound on drops, kicks, transfers, shutdowns and restarts

ASSUME HostRoleAssumption ==
    /\ UserOf \in [Conns -> Users]
    /\ NoUser \notin Users
    /\ IsFiniteSet(Timers) /\ IsFiniteSet(Conns)
    /\ Subscribers \subseteq Conns
    /\ MaxDisruptions \in Nat

VARIABLES
    host, owner,    \* HostUserID, OwnerUserID
    pristine,       \* Version = 0
    closure,        \* the mutation that holds room.mu and has looked at the membership
    members,        \* roomMembers: connections enrolled in the room
    seniority,      \* memberJoinTimes: users, the longest present first
    vanished,       \* users who left the room while that mutation was under way
    conn,           \* how far each connection's calls have come
    hooks,          \* how far its OnDisconnect handlers have come
    kicked,         \* connections room.kick closes, until they have left
    grace,          \* roleState.graces[room]: the pending promotion
    armed,          \* its timer has not fired
    fired,          \* the timer entries whose callbacks have not looked at it yet
    handoffs,       \* handoffs they have decided on and not committed
    kicks,          \* targets of room.kick calls that passed requireHost
    transfers,      \* targets of room.transfer_host calls that did
    mode,           \* "boot" (the window after a restart), "running", "stopping"
    disruptions     \* how many there have been

room == <<host, owner, pristine>>
presence == <<members, seniority>>
connection == <<conn, hooks, kicked>>
timing == <<grace, armed, fired, handoffs>>
calls == <<kicks, transfers>>
lock == <<closure, vanished>>

vars == <<room, presence, connection, timing, calls, lock, mode, disruptions>>

Entry(user, timer) == [user |-> user, timer |-> timer]
NoGrace == [user |-> NoUser]
Entries == [user : Users, timer : Timers]

\* Mutations of room.join, of a handoff (which looks twice) and of a transfer.
NoClosure == [op |-> "none"]
JoinClosures == [op : {"join"}, conn : Conns, present : BOOLEAN]
HandoffClosures == [op : {"handoff"}, from : Users, to : Users \cup {NoUser}, found : BOOLEAN]
TransferClosures == [op : {"transfer"}, to : Users]
Closures == JoinClosures \cup HandoffClosures \cup TransferClosures \cup {NoClosure}

TypeOK ==
    /\ host \in Users \cup {NoUser} /\ owner \in Users \cup {NoUser}
    /\ pristine \in BOOLEAN
    /\ closure \in Closures /\ vanished \subseteq Users
    /\ members \subseteq Conns
    /\ seniority \in Seq(Users) /\ IsInjective(seniority)
    /\ conn \in [Conns -> {"off", "enrolled", "joining", "in"}]
    /\ hooks \in [Conns -> {"none", "promote", "arm", "leave", "done"}]
    /\ kicked \subseteq Conns
    /\ grace \in Entries \cup {NoGrace}
    /\ armed \in BOOLEAN
    /\ fired \subseteq Entries
    /\ handoffs \subseteq [entry : Entries, to : Users \cup {NoUser}]
    /\ kicks \subseteq Conns /\ transfers \subseteq Users
    /\ mode \in {"boot", "running", "stopping"}
    /\ disruptions \in 0 .. MaxDisruptions

Disruption == disruptions < MaxDisruptions /\ disruptions' = disruptions + 1

-----------------------------------------------------------------------------
(* Membership *)

\* IsUserIDInRoom
InRoom(u) == \E c \in members : UserOf[c] = u

At(c, pc) == conn[c] = pc
Goto(c, pc) == conn' = [conn EXCEPT ![c] = pc]
Hooks(c, pc) == hooks' = [hooks EXCEPT ![c] = pc]
Open(c) == hooks[c] = "none"

\* A user whose room.join has returned on a connection that is still up.
Attending(u) == \E c \in members : UserOf[c] = u /\ conn[c] = "in" /\ hooks[c] = "none"

\* Authorize: who calls the room's methods must be a member.
Acts(c) == At(c, "in") /\ Open(c) /\ c \in members

Unstamped(u) ==
    IF u \in Range(seniority)
    THEN RemoveAt(seniority, CHOOSE i \in DOMAIN seniority : seniority[i] = u)
    ELSE seniority
Stamped(u) == Append(Unstamped(u), u)

\* selectSuccessor: the longest-present user of the connections in S.
LongestPresent(S) ==
    LET ranks == {i \in DOMAIN seniority : \E c \in S : UserOf[c] = seniority[i]}
    IN  IF ranks = {} THEN NoUser
        ELSE seniority[CHOOSE i \in ranks : \A j \in ranks : i <= j]

\* Join, on the subscription or before room.join.
Enrol(c) ==
    /\ members' = members \cup {c}
    /\ seniority' = Stamped(UserOf[c])

\* Connection c is no longer enrolled.  The stamp of a user without another one is
\* dropped here: its next Join would overwrite it anyway.
Disenrol(c) ==
    /\ members' = members \ {c}
    /\ IF \E d \in members \ {c} : UserOf[d] = UserOf[c]
       THEN UNCHANGED <<seniority, vanished>>
       ELSE /\ seniority' = Unstamped(UserOf[c])
            /\ vanished' = IF closure # NoClosure /\ c \in members
                           THEN vanished \cup {UserOf[c]} ELSE vanished

-----------------------------------------------------------------------------
(* The room lock and the role *)

RoomFree == closure = NoClosure
Lock(mutation) == RoomFree /\ closure' = mutation /\ UNCHANGED vanished
Unlock == closure' = NoClosure /\ vanished' = {}

SetHost(u) == host' = u /\ pristine' = FALSE /\ UNCHANGED owner

-----------------------------------------------------------------------------
(* The grace timer *)

FreeTimers ==
    Timers \ ({e.timer : e \in fired \cup ({grace} \ {NoGrace})}
                \cup {h.entry.timer : h \in handoffs})

\* scheduleHostGrace: a new entry replaces the pending one, whose callback may
\* already be on its way.
ScheduleGrace(u) ==
    /\ FreeTimers # {}
    /\ grace' = Entry(u, CHOOSE t \in FreeTimers : TRUE)
    /\ armed' = TRUE

\* cancelHostGrace
CancelGrace(u) ==
    IF grace.user = u THEN grace' = NoGrace /\ armed' = FALSE
    ELSE UNCHANGED <<grace, armed>>

\* The timer fires once the grace period has passed.
TimerFires ==
    /\ armed /\ grace # NoGrace
    /\ armed' = FALSE
    /\ fired' = fired \cup {grace}
    /\ UNCHANGED <<room, presence, connection, grace, handoffs, calls, lock, mode, disruptions>>

\* expireHostGrace: only the entry still pending may promote, and only with
\* somebody in the room.
Expire(e) ==
    /\ fired' = fired \ {e}
    /\ grace' = IF grace = e THEN NoGrace ELSE grace
    /\ handoffs' = IF grace = e /\ mode # "stopping" /\ members # {}
                   THEN handoffs \cup {[entry |-> e, to |-> LongestPresent(members)]}
                   ELSE handoffs
    /\ UNCHANGED <<room, presence, connection, armed, calls, lock, mode, disruptions>>

HandoffOf(h) == [op |-> "handoff", from |-> h.entry.user, to |-> h.to, found |-> FALSE]

HandoffUnlooked(h) ==
    /\ RoomFree
    /\ handoffs' = handoffs \ {h}
    /\ IF host = h.entry.user THEN Lock(HandoffOf(h)) ELSE UNCHANGED lock
    /\ UNCHANGED <<room, presence, connection, grace, armed, fired, calls, mode, disruptions>>

\* commitHostHandoff: nothing happens if the role has moved on or the host is back ...
HandoffLooks(h) ==
    /\ RoomFree
    /\ handoffs' = handoffs \ {h}
    /\ IF host = h.entry.user /\ ~InRoom(host) THEN Lock(HandoffOf(h)) ELSE UNCHANGED lock
    /\ UNCHANGED <<room, presence, connection, grace, armed, fired, calls, mode, disruptions>>

HandoffFindsAnyone ==
    /\ closure.op = "handoff" /\ ~closure.found
    /\ closure' = [closure EXCEPT !.found = TRUE] /\ UNCHANGED vanished
    /\ UNCHANGED <<room, presence, connection, timing, calls, mode, disruptions>>

\* ... or the successor has left ...
HandoffFinds ==
    /\ closure.op = "handoff" /\ ~closure.found
    /\ IF closure.to = NoUser \/ InRoom(closure.to)
       THEN closure' = [closure EXCEPT !.found = TRUE] /\ UNCHANGED vanished
       ELSE Unlock
    /\ UNCHANGED <<room, presence, connection, timing, calls, mode, disruptions>>

\* ... and the role is written after both looks.
HandoffWrites ==
    /\ closure.op = "handoff" /\ closure.found
    /\ SetHost(closure.to)
    /\ Unlock
    /\ UNCHANGED <<presence, connection, timing, calls, mode, disruptions>>

-----------------------------------------------------------------------------
(* Connections *)

\* A connection is opened and subscribes; being open only gives it an identity.
Subscribe(c) ==
    /\ c \in Subscribers
    /\ At(c, "off") /\ mode # "stopping"
    /\ Enrol(c)
    /\ Goto(c, "enrolled")
    /\ UNCHANGED <<room, hooks, kicked, timing, calls, lock, mode, disruptions>>

\* room.join up to its mutation: Join, recordJoinTime, cancelHostGrace.
JoinStarts(c) ==
    /\ (At(c, "enrolled") /\ Open(c)) \/ (At(c, "off") /\ mode # "stopping")
    /\ Enrol(c)
    /\ CancelGrace(UserOf[c])
    /\ Goto(c, "joining")
    /\ UNCHANGED <<room, hooks, kicked, fired, handoffs, calls, lock, mode, disruptions>>

\* queue.add needs membership only: a room somebody added to before the first
\* room.join is not new any more, and gets a host but no owner.
QueueAdd(c) ==
    /\ At(c, "enrolled") /\ Open(c) /\ c \in members
    /\ RoomFree /\ pristine
    /\ pristine' = FALSE
    /\ UNCHANGED <<host, owner, presence, connection, timing, calls, lock, mode,
                   disruptions>>

\* The mutation of room.join looks whether the host is in the room ...
JoinLooks(c) ==
    /\ At(c, "joining")
    /\ Lock([op |-> "join", conn |-> c, present |-> InRoom(host)])
    /\ UNCHANGED <<room, presence, connection, timing, calls, mode, disruptions>>

\* hostHeld: a join may not claim the role of an absent host while this holds;
\* during the boot window it opens a grace period for that host.
Held == mode \in {"boot", "stopping"} \/ grace.user = host
OpensNothing == FALSE
OpensGrace == mode = "boot" /\ grace.user # host

\* The owner branch of room.join, which precedes hostHeld.
OwnerWaits(u) == FALSE
OwnerReclaims(u) == owner # NoUser /\ owner = u

Claims(c) ==
    LET u == UserOf[c]
    IN  /\ host' = u
        /\ owner' = IF host = NoUser /\ owner = NoUser /\ pristine THEN u ELSE owner
        /\ pristine' = FALSE
        /\ UNCHANGED <<grace, armed>>

\* The call ends; of a connection closed meanwhile nothing is left.
Returns(c) ==
    IF hooks[c] = "done" THEN Goto(c, "off") /\ Hooks(c, "none")
    ELSE Goto(c, "in") /\ UNCHANGED hooks

\* ... and claims the role by what it saw, whether or not its own connection is
\* still a member.
JoinCommits(c) ==
    LET absent == host # NoUser /\ ~closure.present
    IN  /\ closure.op = "join" /\ closure.conn = c
        /\ IF host = NoUser \/ (absent /\ (OwnerReclaims(UserOf[c]) \/ ~Held))
           THEN Claims(c)
           ELSE /\ UNCHANGED room
                /\ IF absent /\ OpensGrace THEN ScheduleGrace(host)
                   ELSE UNCHANGED <<grace, armed>>
        /\ Unlock
        /\ Returns(c)
        /\ UNCHANGED <<presence, kicked, fired, handoffs, calls, mode, disruptions>>

\* The connection is closed, by the member, the network or a kick, possibly while
\* its room.join runs; its OnDisconnect handlers follow.
Drop(c) ==
    /\ conn[c] # "off" /\ Open(c)
    /\ Hooks(c, "promote")
    /\ IF c \in kicked THEN UNCHANGED disruptions ELSE Disruption
    /\ UNCHANGED <<room, presence, conn, kicked, timing, calls, lock, mode>>

\* PromoteOnDisconnect: the host has left others behind.
Promote(c) ==
    /\ hooks[c] = "promote" /\ RoomFree
    /\ Hooks(c, IF /\ c \in members /\ host = UserOf[c]
                   /\ mode # "stopping" /\ members \ {c} # {}
                THEN "arm" ELSE "leave")
    /\ UNCHANGED <<room, presence, conn, kicked, timing, calls, lock, mode,
                   disruptions>>

Arm(c) ==
    /\ hooks[c] = "arm"
    /\ ScheduleGrace(UserOf[c])
    /\ Hooks(c, "leave")
    /\ UNCHANGED <<room, presence, conn, kicked, fired, handoffs, calls, lock, mode,
                   disruptions>>

\* Leave and RemoveClientUserID.  A client id never comes back.
Leave(c) ==
    /\ hooks[c] = "leave"
    /\ Disenrol(c)
    /\ kicked' = kicked \ {c} /\ kicks' = kicks \ {c}
    /\ IF At(c, "joining") THEN Hooks(c, "done") /\ UNCHANGED conn
       ELSE Hooks(c, "none") /\ Goto(c, "off")
    /\ UNCHANGED <<room, closure, timing, transfers, mode, disruptions>>

-----------------------------------------------------------------------------
(* Deliberate changes *)

\* IsHostOrOwner
MayManage(u) == u # NoUser /\ u \in {host, owner}

\* room.transfer_host passes requireHost and finds the target in the room ...
TransferAllowed(c, target) ==
    /\ Acts(c) /\ RoomFree /\ MayManage(UserOf[c])
    /\ InRoom(target)
    /\ transfers' = transfers \cup {target}
    /\ Disruption
    /\ UNCHANGED <<room, presence, connection, timing, kicks, lock, mode>>

\* ... and its mutation looks again ...
TransferLooks(target) ==
    /\ target \in transfers /\ RoomFree
    /\ transfers' = transfers \ {target}
    /\ IF host # target /\ InRoom(target) THEN Lock([op |-> "transfer", to |-> target])
       ELSE UNCHANGED lock
    /\ UNCHANGED <<room, presence, connection, timing, kicks, mode, disruptions>>

\* ... before it writes.
TransferWrites ==
    /\ closure.op = "transfer"
    /\ SetHost(closure.to)
    /\ Unlock
    /\ UNCHANGED <<presence, connection, timing, calls, mode, disruptions>>

\* room.claim_host
ClaimHost(c) ==
    /\ Acts(c) /\ RoomFree
    /\ OwnerReclaims(UserOf[c]) /\ host # owner
    /\ SetHost(owner)
    /\ UNCHANGED <<presence, connection, timing, calls, lock, mode, disruptions>>

\* room.kick passes requireHost and spares the owner ...
KickAllowed(c, target) ==
    /\ Acts(c) /\ RoomFree /\ MayManage(UserOf[c])
    /\ target \in members /\ UserOf[target] # owner
    /\ kicks' = kicks \cup {target}
    /\ Disruption
    /\ UNCHANGED <<room, presence, connection, timing, transfers, lock, mode>>

\* ... then drops the target's membership, whatever the target is doing, and has
\* its connection closed, if it is still open.
Kick(target) ==
    /\ target \in kicks
    /\ kicks' = kicks \ {target}
    /\ IF target \in members
       THEN /\ Disenrol(target)
            /\ kicked' = IF Open(target) THEN kicked \cup {target} ELSE kicked
       ELSE UNCHANGED <<presence, vanished, kicked>>
    /\ UNCHANGED <<room, closure, conn, hooks, timing, transfers, mode, disruptions>>

-----------------------------------------------------------------------------
(* The server and the clock *)

\* The boot window is as long as the grace period and starts with the process.
BootWindowEnds ==
    /\ mode = "boot"
    /\ mode' = "running"
    /\ UNCHANGED <<room, presence, connection, timing, calls, lock, disruptions>>

BeginShutdown ==
    /\ mode # "stopping"
    /\ mode' = "stopping"
    /\ grace' = NoGrace /\ armed' = FALSE
    /\ Disruption
    /\ UNCHANGED <<room, presence, connection, fired, handoffs, calls, lock>>

\* Only the stored room survives.
Restart ==
    /\ mode' = "boot"
    /\ members' = {} /\ seniority' = <<>>
    /\ conn' = [c \in Conns |-> "off"] /\ hooks' = [c \in Conns |-> "none"]
    /\ kicked' = {} /\ kicks' = {} /\ transfers' = {}
    /\ Unlock
    /\ grace' = NoGrace /\ armed' = FALSE /\ fired' = {} /\ handoffs' = {}
    /\ Disruption
    /\ UNCHANGED room

-----------------------------------------------------------------------------
Init ==
    /\ host = NoUser /\ owner = NoUser
    /\ pristine = TRUE
    /\ closure = NoClosure /\ vanished = {}
    /\ members = {} /\ seniority = <<>>
    /\ conn = [c \in Conns |-> "off"] /\ hooks = [c \in Conns |-> "none"]
    /\ kicked = {} /\ kicks = {} /\ transfers = {}
    /\ grace = NoGrace /\ armed = FALSE /\ fired = {} /\ handoffs = {}
    /\ mode \in {"boot", "running"}
    /\ disruptions = 0

Next ==
    \/ \E c \in Conns :
         \/ Subscribe(c) \/ QueueAdd(c) \/ JoinStarts(c) \/ JoinLooks(c) \/ JoinCommits(c)
         \/ Drop(c) \/ Promote(c) \/ Arm(c) \/ Leave(c)
         \/ ClaimHost(c) \/ Kick(c)
         \/ \E target \in Conns : KickAllowed(c, target)
         \/ \E target \in Users : TransferAllowed(c, target)
    \/ TimerFires
    \/ \E e \in fired : Expire(e)
    \/ \E h \in handoffs : HandoffLooks(h)
    \/ HandoffFinds \/ HandoffWrites
    \/ \E target \in Users : TransferLooks(target)
    \/ TransferWrites
    \/ BootWindowEnds \/ BeginShutdown \/ Restart

Spec == Init /\ [][Next]_vars

-----------------------------------------------------------------------------
(* Properties *)

Deliberate == TransferWrites \/ \E c \in Conns : ClaimHost(c)

\* A host who is in the room, in whichever tab, loses the role only when somebody
\* transfers or claims it: no timer fired before the host returned, no departure
\* of another tab and no join that saw the room without the host takes it away.
PresentHostKeepsRole ==
    [][host' # host /\ Attending(host) => Deliberate]_vars

\* The join of a member kicked or cut off while it ran.
JoinsAsNobody(c) == JoinCommits(c) /\ c \notin members /\ host' = UserOf[c]

\* The role passes to somebody who is in the room, though successors are chosen and
\* transfers permitted some steps earlier.  A departure may slip in between the
\* mutation's own look and its write, or end the enrolment of a running room.join;
\* one that came before is always seen.
RolePassesToMember ==
    [][host' # host => \/ InRoom(host') \/ host' \in vanished
                       \/ \E c \in Conns : JoinsAsNobody(c)]_vars

HandoffPending(u) ==
    \/ grace.user = u
    \/ \E e \in fired : e.user = u
    \/ \E h \in handoffs : h.entry.user = u
    \/ closure.op = "handoff" /\ closure.from = u

\* "a later joiner claims it" (expireHostGrace): a room.join leaves the room with a
\* host who is in it, or with a promotion on its way, unless the server stops, the
\* host leaves during the mutation or the joiner itself is cut off.
JoinSettlesHost ==
    [][\A c \in Conns : JoinCommits(c) =>
         \/ InRoom(host)' \/ HandoffPending(host)' \/ mode = "stopping"
         \/ host' \in vanished \/ JoinsAsNobody(c)]_vars

\* "The owner takes host back when the host is absent (a restart, a dropped
\* connection)": grace and boot window hold the role against others only.
OwnerRegainsRole ==
    [][\A c \in Conns : JoinCommits(c) /\ UserOf[c] = owner =>
         host' = owner \/ InRoom(host') \/ host' \in vanished]_vars

\* moderation.go, roomKick: "Closing the connection runs the normal OnDisconnect
\* cleanup in main.go (host handoff, ...)": once it has run for a kicked host, a
\* promotion is on its way if others, the owner among them, are in the room.
KickHandsOver ==
    [][\A c \in kicked :
         (hooks[c] = "leave" /\ hooks'[c] # "leave" /\ host = UserOf[c] /\ Attending(owner)) =>
           (InRoom(host)' \/ HandoffPending(host) \/ mode = "stopping")]_vars

===============================================================================
