---------------------------- MODULE HostRoleProofs ----------------------------
(***************************************************************************)
(* Proofs about HostRole, for every set of connections, users and timers   *)
(* and every number of disruptions: its type invariant and what a step may *)
(* never do to the role.                                                   *)
(***************************************************************************)
EXTENDS HostRole, SequenceFacts

USE HostRoleAssumption

-----------------------------------------------------------------------------
(* The inductive invariant *)

\* The users with a stamp are the users in the room.
Ranked == Range(seniority) = {UserOf[c] : c \in members}

\* A handoff that is to be committed has a successor.
SuccessorChosen == \A h \in handoffs : h.to \in Users

Base == TypeOK /\ Ranked /\ SuccessorChosen

\* A user who is in the room, or was when the mutation under way began to look.
Counted(u) == InRoom(u) \/ u \in vanished

\* What a mutation has seen is still so when it writes, but for the departures
\* since: the role is where it was, an absent host has not come back, and who was
\* in the room has at most left it.
Locked ==
    /\ closure.op = "join" =>
         IF closure.present THEN Counted(host) ELSE ~Attending(host)
    /\ closure.op = "handoff" =>
         /\ host = closure.from /\ closure.to \in Users /\ ~Attending(host)
         /\ closure.found => Counted(closure.to)
    /\ closure.op = "transfer" => Counted(closure.to)

IInv == Base /\ Locked

-----------------------------------------------------------------------------
(* Seniority *)

\* Taking a user's stamp away leaves the others, each once.
LEMMA UnstampedFacts ==
    ASSUME TypeOK, NEW u \in Users
    PROVE  /\ Unstamped(u) \in Seq(Users) /\ IsInjective(Unstamped(u))
           /\ Range(Unstamped(u)) = Range(seniority) \ {u}
<1>1. seniority \in Seq(Users) /\ IsInjective(seniority)
  BY DEF TypeOK
<1>2. CASE u \in Range(seniority)
  <2> DEFINE p == CHOOSE i \in DOMAIN seniority : seniority[i] = u
  <2>1. p \in 1 .. Len(seniority) /\ seniority[p] = u
    BY <1>1, <1>2 DEF Range
  <2> HIDE DEF p
  <2>2. /\ RemoveAt(seniority, p) \in Seq(Users)
        /\ IsInjective(RemoveAt(seniority, p))
        /\ Range(RemoveAt(seniority, p)) = Range(seniority) \ {seniority[p]}
    BY <1>1, <2>1, RemoveOneFacts
  <2> QED BY <1>2, <2>1, <2>2 DEF Unstamped, p
<1>3. CASE u \notin Range(seniority)
  BY <1>1, <1>3 DEF Unstamped
<1> QED BY <1>2, <1>3

\* A new stamp puts the user last.
LEMMA StampedFacts ==
    ASSUME TypeOK, NEW u \in Users
    PROVE  /\ Stamped(u) \in Seq(Users) /\ IsInjective(Stamped(u))
           /\ Range(Stamped(u)) = Range(seniority) \cup {u}
<1> DEFINE s == Unstamped(u)
<1>1. s \in Seq(Users) /\ IsInjective(s) /\ Range(s) = Range(seniority) \ {u}
  BY UnstampedFacts
<1> HIDE DEF s
<1> QED BY <1>1, AppendFacts DEF Stamped, s

\* In a room with somebody in it a successor is found, and it is a user.
LEMMA LongestPresentFacts ==
    ASSUME Base, members # {}
    PROVE  LongestPresent(members) \in Users
<1> DEFINE ranks == {i \in DOMAIN seniority : \E c \in members : UserOf[c] = seniority[i]}
<1>1. seniority \in Seq(Users) /\ DOMAIN seniority = 1 .. Len(seniority)
  BY DEF Base, TypeOK
<1>2. ranks # {}
  <2>1. PICK c \in members : TRUE
    OBVIOUS
  <2>2. UserOf[c] \in Range(seniority)
    BY <2>1 DEF Base, Ranked
  <2>3. PICK i \in DOMAIN seniority : seniority[i] = UserOf[c]
    BY <2>2, <1>1 DEF Range
  <2> QED BY <2>3
<1>3. ranks \subseteq DOMAIN seniority /\ ranks \subseteq Nat
  BY <1>1
<1> HIDE DEF ranks
<1>4. \E i \in ranks : \A j \in ranks : i <= j
  BY <1>2, <1>3, LeastNatural
<1>5. (CHOOSE i \in ranks : \A j \in ranks : i <= j) \in DOMAIN seniority
  BY <1>3, <1>4
<1> QED BY <1>1, <1>2, <1>5 DEF LongestPresent, ranks

-----------------------------------------------------------------------------
(* The building blocks of the actions *)

\* Who enrols is a member, stamped, and everything else of the invariant stands.
LEMMA EnrolFacts ==
    ASSUME Base, NEW c \in Conns, Enrol(c)
    PROVE  /\ members' \subseteq Conns /\ members' = members \cup {c}
           /\ (seniority \in Seq(Users) /\ IsInjective(seniority))'
           /\ Ranked'
<1>1. TypeOK /\ UserOf[c] \in Users
  BY DEF Base
<1>2. /\ members' = members \cup {c} /\ seniority' = Stamped(UserOf[c])
      /\ members \subseteq Conns
  BY <1>1 DEF Enrol, TypeOK
<1>3. /\ seniority' \in Seq(Users) /\ IsInjective(seniority')
      /\ Range(seniority') = Range(seniority) \cup {UserOf[c]}
  BY <1>1, <1>2, StampedFacts
<1>4. Range(seniority') = {UserOf[d] : d \in members'}
  BY <1>2, <1>3 DEF Base, Ranked
<1> QED BY <1>2, <1>3, <1>4 DEF Ranked

\* Who is disenrolled takes the stamp along, unless another tab is still there.
LEMMA DisenrolFacts ==
    ASSUME Base, NEW c \in Conns, Disenrol(c)
    PROVE  /\ members' \subseteq Conns /\ members' = members \ {c}
           /\ (seniority \in Seq(Users) /\ IsInjective(seniority))'
           /\ Ranked'
           /\ vanished' \subseteq Users
<1>1. TypeOK /\ UserOf[c] \in Users
  BY DEF Base
<1>2. members' = members \ {c} /\ members \subseteq Conns
  BY <1>1 DEF Disenrol, TypeOK
<1>0. vanished' \subseteq Users
  BY <1>1 DEF Disenrol, TypeOK
<1>3. CASE \E d \in members \ {c} : UserOf[d] = UserOf[c]
  <2>1. seniority' = seniority
    BY <1>3 DEF Disenrol
  <2>2. {UserOf[d] : d \in members} = {UserOf[d] : d \in members'}
    BY <1>2, <1>3
  <2> QED BY <1>0, <1>1, <1>2, <2>1, <2>2 DEF Base, TypeOK, Ranked
<1>4. CASE ~\E d \in members \ {c} : UserOf[d] = UserOf[c]
  <2>1. seniority' = Unstamped(UserOf[c])
    BY <1>4 DEF Disenrol
  <2>2. /\ seniority' \in Seq(Users) /\ IsInjective(seniority')
        /\ Range(seniority') = Range(seniority) \ {UserOf[c]}
    BY <1>1, <2>1, UnstampedFacts
  <2>3. {UserOf[d] : d \in members'} = {UserOf[d] : d \in members} \ {UserOf[c]}
    BY <1>2, <1>4
  <2> QED BY <1>0, <1>2, <2>2, <2>3 DEF Base, Ranked
<1> QED BY <1>3, <1>4

\* A new grace entry names the user it is for and a timer.
LEMMA ScheduleFacts ==
    ASSUME NEW u \in Users, ScheduleGrace(u)
    PROVE  grace' \in Entries /\ grace'.user = u /\ armed' = TRUE
<1>1. (CHOOSE t \in FreeTimers : TRUE) \in Timers
  BY DEF ScheduleGrace, FreeTimers
<1> QED BY <1>1 DEF ScheduleGrace, Entry, Entries

\* Cancelling leaves the entry as it is or none.
LEMMA CancelFacts ==
    ASSUME TypeOK, NEW u, CancelGrace(u)
    PROVE  grace' \in Entries \cup {NoGrace} /\ armed' \in BOOLEAN
BY DEF TypeOK, CancelGrace

-----------------------------------------------------------------------------
(* Every step keeps the invariant *)

\* The invariant holds at the start.
LEMMA InitInv == Init => IInv
<1> SUFFICES ASSUME Init PROVE IInv
  OBVIOUS
<1>1. TypeOK
  <2>1. seniority \in Seq(Users) /\ IsInjective(seniority)
    BY EmptyFacts DEF Init
  <2>2. /\ grace \in Entries \cup {NoGrace} /\ armed \in BOOLEAN /\ pristine \in BOOLEAN
        /\ closure \in Closures
    BY DEF Init, Closures
  <2> QED BY <2>1, <2>2 DEF Init, TypeOK
<1>2. Ranked
  BY EmptyFacts DEF Init, Ranked
<1>3. Locked
  BY DEF Init, Locked, NoClosure
<1> QED BY <1>1, <1>2, <1>3 DEF IInv, Base, Init, SuccessorChosen

\* A subscription enrols its connection and stamps its user.
LEMMA SubscribeBase == ASSUME Base, NEW c \in Conns, Subscribe(c) PROVE Base'
<1>1. /\ members' \subseteq Conns /\ (seniority \in Seq(Users) /\ IsInjective(seniority))'
      /\ Ranked'
  BY EnrolFacts DEF Subscribe
<1>2. TypeOK'
  BY <1>1 DEF Base, TypeOK, Subscribe, Goto, room, timing, calls, lock
<1> QED BY <1>1, <1>2 DEF Base, SuccessorChosen, Subscribe, timing

\* A join that starts does so too, and calls off the promotion of its user's rival.
LEMMA JoinStartsBase == ASSUME Base, NEW c \in Conns, JoinStarts(c) PROVE Base'
<1>1. /\ members' \subseteq Conns /\ (seniority \in Seq(Users) /\ IsInjective(seniority))'
      /\ Ranked'
  BY EnrolFacts DEF JoinStarts
<1>2. grace' \in Entries \cup {NoGrace} /\ armed' \in BOOLEAN
  BY CancelFacts DEF Base, JoinStarts
<1>3. TypeOK'
  BY <1>1, <1>2 DEF Base, TypeOK, JoinStarts, Goto, room, calls, lock
<1> QED BY <1>1, <1>3 DEF Base, SuccessorChosen, JoinStarts

\* Adding to the queue makes a new room an old one, and no more.
LEMMA QueueAddBase == ASSUME Base, NEW c \in Conns, QueueAdd(c) PROVE Base'
<1>1. TypeOK'
  BY DEF Base, TypeOK, QueueAdd, presence, connection, timing, calls, lock
<1> QED BY <1>1 DEF Base, Ranked, SuccessorChosen, QueueAdd, presence, timing

\* The looks of the mutations change the lock only.
LEMMA JoinLooksBase == ASSUME Base, NEW c \in Conns, JoinLooks(c) PROVE Base'
<1>1. closure' \in Closures /\ vanished' = vanished
  BY DEF JoinLooks, Lock, InRoom, Closures, JoinClosures
<1>2. TypeOK'
  BY <1>1 DEF Base, TypeOK, JoinLooks, room, presence, connection, timing, calls
<1> QED BY <1>2 DEF Base, Ranked, SuccessorChosen, JoinLooks, presence, timing

\* A handoff that looks has a user and a successor.
LEMMA HandoffLooksBase == ASSUME Base, NEW h \in handoffs, HandoffLooks(h) PROVE Base'
<1>1. HandoffOf(h) \in Closures
  <2>1. h.entry \in Entries /\ h.to \in Users
    BY DEF Base, TypeOK, SuccessorChosen
  <2>2. h.entry.user \in Users
    BY <2>1 DEF Entries
  <2> QED BY <2>1, <2>2 DEF HandoffOf, Closures, HandoffClosures
<1>2. closure' \in Closures /\ vanished' = vanished
  BY <1>1 DEF Base, TypeOK, HandoffLooks, Lock, lock
<1>3. TypeOK'
  BY <1>2 DEF Base, TypeOK, HandoffLooks, room, presence, connection, calls
<1> QED BY <1>3 DEF Base, Ranked, SuccessorChosen, HandoffLooks, presence

\* Its second look notes what it found, or ends it.
LEMMA HandoffFindsBase == ASSUME Base, HandoffFinds PROVE Base'
<1>1. closure \in HandoffClosures
  BY DEF Base, TypeOK, HandoffFinds, Closures, JoinClosures, TransferClosures, NoClosure
<1>2. closure' \in Closures /\ vanished' \subseteq Users
  <2>1. [closure EXCEPT !.found = TRUE] \in HandoffClosures
    BY <1>1 DEF HandoffClosures
  <2> QED BY <2>1 DEF Base, TypeOK, HandoffFinds, Unlock, Closures
<1>3. TypeOK'
  BY <1>2 DEF Base, TypeOK, HandoffFinds, room, presence, connection, timing, calls
<1> QED BY <1>3 DEF Base, Ranked, SuccessorChosen, HandoffFinds, presence, timing

\* A transfer that looks notes its target.
LEMMA TransferLooksBase ==
    ASSUME Base, NEW target \in Users, TransferLooks(target)
    PROVE  Base'
<1>1. closure' \in Closures /\ vanished' = vanished
  BY DEF Base, TypeOK, TransferLooks, Lock, lock, Closures, TransferClosures
<1>2. TypeOK'
  BY <1>1 DEF Base, TypeOK, TransferLooks, room, presence, connection, timing
<1> QED BY <1>2 DEF Base, Ranked, SuccessorChosen, TransferLooks, presence, timing

\* The writes end the mutation and name a user.
LEMMA HandoffWritesBase == ASSUME IInv, HandoffWrites PROVE Base'
<1>1. closure.to \in Users
  BY DEF IInv, Locked, HandoffWrites
<1>2. TypeOK'
  BY <1>1 DEF IInv, Base, TypeOK, HandoffWrites, SetHost, Unlock, Closures, presence,
              connection, timing, calls
<1> QED BY <1>2 DEF IInv, Base, Ranked, SuccessorChosen, HandoffWrites, presence, timing

\* So does a transfer's.
LEMMA TransferWritesBase == ASSUME Base, TransferWrites PROVE Base'
<1>1. closure.to \in Users
  BY DEF Base, TypeOK, TransferWrites, Closures, JoinClosures, HandoffClosures,
         TransferClosures, NoClosure
<1>2. TypeOK'
  BY <1>1 DEF Base, TypeOK, TransferWrites, SetHost, Unlock, Closures, presence,
              connection, timing, calls
<1> QED BY <1>2 DEF Base, Ranked, SuccessorChosen, TransferWrites, presence, timing

\* What a join that commits leaves of the grace period and of the room.
LEMMA JoinCommitsFacts ==
    ASSUME Base, NEW c \in Conns, JoinCommits(c)
    PROVE  /\ host' \in Users \cup {NoUser} /\ owner' \in Users \cup {NoUser}
           /\ pristine' \in BOOLEAN
           /\ grace' \in Entries \cup {NoGrace} /\ armed' \in BOOLEAN
<1> DEFINE u == UserOf[c]
           absent == host # NoUser /\ ~closure.present
<1>1. TypeOK /\ u \in Users
  BY DEF Base
<1>2. CASE host = NoUser \/ (absent /\ (OwnerReclaims(u) \/ ~Held))
  <2>1. Claims(c)
    BY <1>2 DEF JoinCommits
  <2> QED BY <1>1, <2>1 DEF Claims, TypeOK
<1>3. CASE ~(host = NoUser \/ (absent /\ (OwnerReclaims(u) \/ ~Held)))
  <2>1. UNCHANGED room
    BY <1>3 DEF JoinCommits
  <2>2. CASE absent /\ OpensGrace
    <3>1. ScheduleGrace(host) /\ host \in Users
      BY <1>1, <1>3, <2>2 DEF JoinCommits, TypeOK
    <3>2. grace' \in Entries /\ armed' = TRUE
      BY <3>1, ScheduleFacts
    <3> QED BY <1>1, <2>1, <3>2 DEF TypeOK, room
  <2>3. CASE ~(absent /\ OpensGrace)
    <3>1. UNCHANGED <<grace, armed>>
      BY <1>3, <2>3 DEF JoinCommits
    <3> QED BY <1>1, <2>1, <3>1 DEF TypeOK, room
  <2> QED BY <2>2, <2>3
<1> QED BY <1>2, <1>3

\* A join that commits may take the role, or open the grace of a host who is absent.
LEMMA JoinCommitsBase == ASSUME Base, NEW c \in Conns, JoinCommits(c) PROVE Base'
<1>1. /\ host' \in Users \cup {NoUser} /\ owner' \in Users \cup {NoUser}
      /\ pristine' \in BOOLEAN
      /\ grace' \in Entries \cup {NoGrace} /\ armed' \in BOOLEAN
  BY JoinCommitsFacts
<1>2. /\ Returns(c) /\ closure' = NoClosure /\ vanished' = {}
      /\ UNCHANGED <<presence, kicked, fired, handoffs, calls, mode, disruptions>>
  BY DEF JoinCommits, Unlock
<1>3. /\ conn' \in [Conns -> {"off", "enrolled", "joining", "in"}]
      /\ hooks' \in [Conns -> {"none", "promote", "arm", "leave", "done"}]
  BY <1>2 DEF Base, TypeOK, Returns, Goto, Hooks
<1>4. TypeOK'
  BY <1>1, <1>2, <1>3 DEF Base, TypeOK, presence, calls, Closures
<1> QED BY <1>2, <1>4 DEF Base, Ranked, SuccessorChosen, presence

\* A connection that drops keeps its enrolment until its handlers have run.
LEMMA DropBase == ASSUME Base, NEW c \in Conns, Drop(c) PROVE Base'
<1>1. TypeOK'
  BY DEF Base, TypeOK, Drop, Hooks, Disruption, room, presence, timing, calls, lock
<1> QED BY <1>1 DEF Base, Ranked, SuccessorChosen, Drop, presence, timing

\* The first handler goes on to a timer if the connection was the host's.
LEMMA PromoteBase == ASSUME Base, NEW c \in Conns, Promote(c) PROVE Base'
<1>1. TypeOK'
  BY DEF Base, TypeOK, Promote, Hooks, room, presence, timing, calls, lock
<1> QED BY <1>1 DEF Base, Ranked, SuccessorChosen, Promote, presence, timing

\* A timer is armed for the host who is gone.
LEMMA ArmBase == ASSUME Base, NEW c \in Conns, Arm(c) PROVE Base'
<1>1. ScheduleGrace(UserOf[c]) /\ UserOf[c] \in Users
  BY DEF Arm
<1>2. grace' \in Entries /\ armed' = TRUE
  BY <1>1, ScheduleFacts
<1>3. TypeOK'
  BY <1>2 DEF Base, TypeOK, Arm, Hooks, room, presence, calls, lock
<1> QED BY <1>3 DEF Base, Ranked, SuccessorChosen, Arm, presence

\* A connection that leaves is no longer enrolled.
LEMMA LeaveBase == ASSUME Base, NEW c \in Conns, Leave(c) PROVE Base'
<1>1. /\ members' \subseteq Conns /\ (seniority \in Seq(Users) /\ IsInjective(seniority))'
      /\ Ranked' /\ vanished' \subseteq Users
  BY DisenrolFacts DEF Leave
<1>2. /\ conn' \in [Conns -> {"off", "enrolled", "joining", "in"}]
      /\ hooks' \in [Conns -> {"none", "promote", "arm", "leave", "done"}]
  BY DEF Base, TypeOK, Leave, Goto, Hooks
<1>3. TypeOK'
  BY <1>1, <1>2 DEF Base, TypeOK, Leave, room, timing
<1> QED BY <1>1, <1>3 DEF Base, SuccessorChosen, Leave, timing

\* The owner's claim names the owner.
LEMMA ClaimHostBase == ASSUME Base, NEW c \in Conns, ClaimHost(c) PROVE Base'
<1>1. TypeOK'
  BY DEF Base, TypeOK, ClaimHost, SetHost, presence, connection, timing, calls, lock
<1> QED BY <1>1 DEF Base, Ranked, SuccessorChosen, ClaimHost, presence, timing

\* Calls that pass their checks remember their targets.
LEMMA TransferAllowedBase ==
    ASSUME Base, NEW c \in Conns, NEW target \in Users, TransferAllowed(c, target)
    PROVE  Base'
<1>1. TypeOK'
  BY DEF Base, TypeOK, TransferAllowed, Disruption, room, presence, connection, timing, lock
<1> QED BY <1>1 DEF Base, Ranked, SuccessorChosen, TransferAllowed, presence, timing

\* A kick likewise.
LEMMA KickAllowedBase ==
    ASSUME Base, NEW c \in Conns, NEW target \in Conns, KickAllowed(c, target)
    PROVE  Base'
<1>1. TypeOK'
  BY DEF Base, TypeOK, KickAllowed, Disruption, room, presence, connection, timing, lock
<1> QED BY <1>1 DEF Base, Ranked, SuccessorChosen, KickAllowed, presence, timing

\* A kick takes its target out of the room.
LEMMA KickBase == ASSUME Base, NEW target \in Conns, Kick(target) PROVE Base'
<1>1. /\ members' \subseteq Conns /\ (seniority \in Seq(Users) /\ IsInjective(seniority))'
      /\ Ranked' /\ vanished' \subseteq Users /\ kicked' \subseteq Conns
  <2>1. CASE target \in members
    BY <2>1, DisenrolFacts DEF Base, TypeOK, Kick
  <2>2. CASE target \notin members
    BY <2>2 DEF Base, TypeOK, Ranked, Kick, presence
  <2> QED BY <2>1, <2>2
<1>2. TypeOK'
  BY <1>1 DEF Base, TypeOK, Kick, room, timing
<1> QED BY <1>1, <1>2 DEF Base, SuccessorChosen, Kick, timing

\* A timer that fires hands its entry to the callback.
LEMMA TimerFiresBase == ASSUME Base, TimerFires PROVE Base'
<1>1. TypeOK'
  BY DEF Base, TypeOK, TimerFires, room, presence, connection, calls, lock
<1> QED BY <1>1 DEF Base, Ranked, SuccessorChosen, TimerFires, presence

\* The callback chooses a successor if its entry is still the pending one.
LEMMA ExpireBase == ASSUME Base, NEW e \in fired, Expire(e) PROVE Base'
<1>1. /\ handoffs' \subseteq [entry : Entries, to : Users \cup {NoUser}]
      /\ SuccessorChosen'
  <2> DEFINE g == [entry |-> e, to |-> LongestPresent(members)]
  <2>1. members # {} => g \in [entry : Entries, to : Users] /\ g.to \in Users
    BY LongestPresentFacts DEF Base, TypeOK
  <2> HIDE DEF g
  <2>2. handoffs' \subseteq handoffs \cup (IF members # {} THEN {g} ELSE {})
    BY DEF Expire, g
  <2> QED BY <2>1, <2>2 DEF Base, TypeOK, SuccessorChosen
<1>2. TypeOK'
  BY <1>1 DEF Base, TypeOK, Expire, room, presence, connection, calls, lock
<1> QED BY <1>1, <1>2 DEF Base, Ranked, Expire, presence

\* The boot window and the shutdown.
LEMMA ServerBase == ASSUME Base, BootWindowEnds \/ BeginShutdown PROVE Base'
<1>1. TypeOK'
  <2>1. CASE BootWindowEnds
    BY <2>1 DEF Base, TypeOK, BootWindowEnds, room, presence, connection, timing, calls, lock
  <2>2. CASE BeginShutdown
    <3>1. grace' \in Entries \cup {NoGrace} /\ armed' \in BOOLEAN
      BY <2>2 DEF BeginShutdown
    <3> QED BY <2>2, <3>1 DEF Base, TypeOK, BeginShutdown, Disruption, room, presence,
                              connection, calls, lock
  <2> QED BY <2>1, <2>2
<1> QED BY <1>1 DEF Base, Ranked, SuccessorChosen, BootWindowEnds, BeginShutdown, presence,
                    timing

\* A restart forgets who is connected and what was timed.
LEMMA RestartBase == ASSUME Base, Restart PROVE Base'
<1>1. TypeOK'
  <2>1. (seniority \in Seq(Users) /\ IsInjective(seniority))'
    BY EmptyFacts DEF Restart
  <2>2. /\ grace' \in Entries \cup {NoGrace} /\ armed' \in BOOLEAN
        /\ closure' \in Closures /\ vanished' = {}
    BY DEF Restart, Unlock, Closures
  <2> QED BY <2>1, <2>2 DEF Base, TypeOK, Restart, Disruption, room
<1>2. Ranked'
  BY EmptyFacts DEF Restart, Ranked
<1> QED BY <1>1, <1>2 DEF Base, Restart, SuccessorChosen

\* Every step keeps the types, the stamps and the successors.
LEMMA NextBase == IInv /\ [Next]_vars => Base'
<1> SUFFICES ASSUME IInv, [Next]_vars PROVE Base'
  OBVIOUS
<1>1. Base
  BY DEF IInv
<1>2. ASSUME NEW c \in Conns,
             \/ Subscribe(c) \/ QueueAdd(c) \/ JoinStarts(c) \/ JoinLooks(c) \/ JoinCommits(c)
             \/ Drop(c) \/ Promote(c) \/ Arm(c) \/ Leave(c)
             \/ ClaimHost(c) \/ Kick(c)
             \/ \E target \in Conns : KickAllowed(c, target)
             \/ \E target \in Users : TransferAllowed(c, target)
      PROVE  Base'
  BY <1>1, <1>2, SubscribeBase, QueueAddBase, JoinStartsBase, JoinLooksBase,
     JoinCommitsBase, DropBase, PromoteBase, ArmBase, LeaveBase, ClaimHostBase, KickBase,
     KickAllowedBase, TransferAllowedBase
<1>3. CASE \/ TimerFires
           \/ \E e \in fired : Expire(e)
           \/ \E h \in handoffs : HandoffLooks(h)
           \/ HandoffFinds \/ HandoffWrites
           \/ \E target \in Users : TransferLooks(target)
           \/ TransferWrites
  BY <1>1, <1>3, TimerFiresBase, ExpireBase, HandoffLooksBase, HandoffFindsBase,
     HandoffWritesBase, TransferLooksBase, TransferWritesBase
<1>4. CASE UNCHANGED vars
  BY <1>1, <1>4 DEF vars, room, presence, connection, timing, calls, lock, Base, TypeOK,
                    Ranked, SuccessorChosen
<1> QED BY <1>1, <1>2, <1>3, <1>4, ServerBase, RestartBase DEF Next

-----------------------------------------------------------------------------
(* While a mutation is under way *)

\* A departure leaves everybody counted.
LEMMA DisenrolCounts ==
    ASSUME Base, NEW c \in Conns, Disenrol(c), closure # NoClosure, NEW u, Counted(u)
    PROVE  Counted(u)'
<1>1. members' = members \ {c} /\ vanished \subseteq vanished'
  BY DEF Disenrol
<1>2. CASE u \in vanished
  BY <1>1, <1>2 DEF Counted
<1>3. CASE InRoom(u)
  <2>1. PICK d \in members : UserOf[d] = u
    BY <1>3 DEF InRoom
  <2>2. CASE d # c
    BY <1>1, <2>1, <2>2 DEF Counted, InRoom
  <2>3. CASE d = c /\ \E e \in members \ {c} : UserOf[e] = UserOf[c]
    BY <1>1, <2>1, <2>3 DEF Counted, InRoom
  <2>4. CASE d = c /\ ~\E e \in members \ {c} : UserOf[e] = UserOf[c]
    BY <2>1, <2>4 DEF Disenrol, Counted
  <2> QED BY <2>2, <2>3, <2>4
<1> QED BY <1>2, <1>3 DEF Counted

\* Without anybody leaving, everybody stays counted.
LEMMA StayCounts ==
    ASSUME members \subseteq members', vanished' = vanished, NEW u, Counted(u)
    PROVE  Counted(u)'
BY DEF Counted, InRoom

\* What the steps of others do to the lock's holder.
Undisturbed ==
    /\ host' = host
    /\ \A u : Attending(u)' => Attending(u)
    /\ \A u : Counted(u) => Counted(u)'

\* The steps of a connection's handlers.
LEMMA HandlersAside ==
    ASSUME Base, closure' = closure, closure # NoClosure, NEW c \in Conns,
           \/ Subscribe(c) \/ JoinStarts(c) \/ Drop(c) \/ Arm(c) \/ Leave(c) \/ Kick(c)
    PROVE  Undisturbed
<1>0. conn \in [Conns -> {"off", "enrolled", "joining", "in"}] /\ members \subseteq Conns
      /\ hooks \in [Conns -> {"none", "promote", "arm", "leave", "done"}]
  BY DEF Base, TypeOK
<1>1. host' = host
  BY DEF Subscribe, JoinStarts, Drop, Arm, Leave, Kick, room
<1>2. \A u : Attending(u)' => Attending(u)
  <2> SUFFICES ASSUME NEW u, NEW d \in members', UserOf[d] = u, conn'[d] = "in",
                      hooks'[d] = "none"
               PROVE  Attending(u)
    BY DEF Attending
  <2>1. CASE Subscribe(c) \/ JoinStarts(c)
    <3>1. /\ members' = members \cup {c} /\ hooks' = hooks
          /\ conn' = [conn EXCEPT ![c] = IF Subscribe(c) THEN "enrolled" ELSE "joining"]
      BY <2>1 DEF Subscribe, JoinStarts, Enrol, Goto
    <3> QED BY <1>0, <3>1 DEF Attending
  <2>2. CASE Drop(c) \/ Arm(c)
    <3>1. /\ members' = members /\ conn' = conn
          /\ hooks' = [hooks EXCEPT ![c] = IF Drop(c) THEN "promote" ELSE "leave"]
      BY <2>2 DEF Drop, Arm, Hooks, presence
    <3> QED BY <1>0, <3>1 DEF Attending
  <2>3. CASE Leave(c)
    <3>1. members' = members \ {c}
      BY <2>3 DEF Leave, Disenrol
    <3>2. conn'[d] = conn[d] /\ hooks'[d] = hooks[d]
      BY <1>0, <2>3, <3>1 DEF Leave, Hooks, Goto
    <3> QED BY <3>1, <3>2 DEF Attending
  <2>4. CASE Kick(c)
    <3>1. members' \subseteq members /\ conn' = conn /\ hooks' = hooks
      BY <2>4 DEF Kick, Disenrol, presence
    <3> QED BY <3>1 DEF Attending
  <2> QED BY <2>1, <2>2, <2>3, <2>4
<1>3. ASSUME NEW u, Counted(u) PROVE Counted(u)'
  <2>1. CASE Subscribe(c) \/ JoinStarts(c) \/ Drop(c) \/ Arm(c)
    <3>1. members \subseteq members' /\ vanished' = vanished
      BY <2>1 DEF Subscribe, JoinStarts, Drop, Arm, Enrol, presence, lock
    <3> QED BY <1>3, <3>1, StayCounts
  <2>2. CASE Leave(c) \/ (Kick(c) /\ c \in members)
    <3>1. Disenrol(c)
      BY <2>2 DEF Leave, Kick
    <3> QED BY <1>3, <3>1, DisenrolCounts
  <2>3. CASE Kick(c) /\ c \notin members
    <3>1. members \subseteq members' /\ vanished' = vanished
      BY <2>3 DEF Kick, presence
    <3> QED BY <1>3, <3>1, StayCounts
  <2> QED BY <2>1, <2>2, <2>3
<1> QED BY <1>1, <1>2, <1>3 DEF Undisturbed

\* While room.mu is held nobody else writes the room, nobody's room.join returns and
\* who leaves is noted.
LEMMA OthersAside ==
    ASSUME Base, [Next]_vars, closure' = closure, closure # NoClosure
    PROVE  Undisturbed
<1>1. ASSUME NEW c \in Conns,
             \/ QueueAdd(c) \/ JoinLooks(c) \/ JoinCommits(c) \/ Promote(c) \/ ClaimHost(c)
             \/ \E target \in Conns : KickAllowed(c, target)
             \/ \E target \in Users : TransferAllowed(c, target)
      PROVE  FALSE
  BY <1>1 DEF QueueAdd, JoinLooks, JoinCommits, Promote, ClaimHost, KickAllowed,
              TransferAllowed, RoomFree, Lock, Unlock
<1>2. ASSUME \/ HandoffFinds \/ HandoffWrites \/ TransferWrites \/ Restart
             \/ \E h \in handoffs : HandoffLooks(h)
             \/ \E target \in Users : TransferLooks(target)
      PROVE  FALSE
  <2>1. ~HandoffFinds
    <3> SUFFICES ASSUME HandoffFinds PROVE FALSE
      OBVIOUS
    <3>1. closure \in HandoffClosures /\ ~closure.found
      BY DEF Base, TypeOK, HandoffFinds, Closures, JoinClosures, TransferClosures, NoClosure
    <3>2. [closure EXCEPT !.found = TRUE] # closure
      BY <3>1 DEF HandoffClosures
    <3> QED BY <3>2 DEF HandoffFinds, Unlock
  <2> QED BY <1>2, <2>1 DEF HandoffWrites, TransferWrites, Restart, HandoffLooks,
                            TransferLooks, RoomFree, Unlock
<1>3. CASE TimerFires \/ BootWindowEnds \/ BeginShutdown \/ UNCHANGED vars
           \/ \E e \in fired : Expire(e)
  <2>1. /\ UNCHANGED <<room, presence, connection, lock>>
    BY <1>3 DEF TimerFires, BootWindowEnds, BeginShutdown, Expire, vars
  <2> QED BY <2>1, StayCounts DEF Undisturbed, Attending, room, presence, connection, lock
<1> QED BY <1>1, <1>2, <1>3, HandlersAside DEF Next

-----------------------------------------------------------------------------
(* What a mutation sees *)

\* Only a look takes the lock or goes on with it.
LEMMA Looks ==
    ASSUME [Next]_vars, closure' # closure, closure' # NoClosure
    PROVE  \/ \E c \in Conns : JoinLooks(c)
           \/ \E h \in handoffs : HandoffLooks(h)
           \/ HandoffFinds
           \/ \E target \in Users : TransferLooks(target)
BY DEF Next, vars, lock, Subscribe, QueueAdd, JoinStarts, JoinCommits, Drop, Promote, Arm,
       Leave, ClaimHost, Kick, KickAllowed, TransferAllowed, TimerFires, Expire,
       HandoffWrites, TransferWrites, BootWindowEnds, BeginShutdown, Restart, Unlock

\* What a look has seen is so.
LEMMA LooksLocked ==
    ASSUME IInv, [Next]_vars, closure' # closure, closure' # NoClosure
    PROVE  Locked'
<1>1. ASSUME NEW u PROVE Attending(u) => InRoom(u)
  BY DEF Attending, InRoom
<1>2. CASE \E c \in Conns : JoinLooks(c)
  <2>1. PICK c \in Conns : JoinLooks(c)
    BY <1>2
  <2>2. /\ UNCHANGED <<host, members, conn, hooks>>
        /\ closure' = [op |-> "join", conn |-> c, present |-> InRoom(host)]
    BY <2>1 DEF JoinLooks, Lock, room, presence, connection
  <2>3. closure'.op = "join" /\ closure'.present = InRoom(host)
    BY <2>2
  <2> QED BY <1>1, <2>2, <2>3 DEF Locked, Counted, InRoom, Attending
<1>3. CASE \E h \in handoffs : HandoffLooks(h)
  <2>1. PICK h \in handoffs : HandoffLooks(h)
    BY <1>3
  <2>2. /\ UNCHANGED <<host, members, conn, hooks>>
        /\ closure' = HandoffOf(h) /\ host = h.entry.user /\ ~InRoom(host)
    BY <2>1 DEF HandoffLooks, Lock, RoomFree, room, presence, connection, lock
  <2>3. h.to \in Users
    BY DEF IInv, Base, SuccessorChosen
  <2>4. /\ closure'.op = "handoff" /\ closure'.from = host /\ closure'.to \in Users
        /\ ~closure'.found
    BY <2>2, <2>3 DEF HandoffOf
  <2>5. ~Attending(host)'
    BY <1>1, <2>2 DEF Attending
  <2> QED BY <2>2, <2>4, <2>5 DEF Locked
<1>4. CASE HandoffFinds
  <2>1. closure \in HandoffClosures /\ closure.op = "handoff"
    BY <1>4 DEF IInv, Base, TypeOK, HandoffFinds, Closures, JoinClosures, TransferClosures,
                NoClosure
  <2>2. /\ UNCHANGED <<host, members, conn, hooks, vanished>>
        /\ closure' = [closure EXCEPT !.found = TRUE]
        /\ closure.to = NoUser \/ InRoom(closure.to)
    BY <1>4 DEF HandoffFinds, Unlock, room, presence, connection
  <2>3. closure.to \in Users /\ host = closure.from /\ ~Attending(host)
    BY <2>1 DEF IInv, Locked
  <2>4. /\ closure'.op = "handoff" /\ closure'.from = closure.from
        /\ closure'.to = closure.to
    BY <2>1, <2>2 DEF HandoffClosures
  <2> QED BY <2>2, <2>3, <2>4 DEF Locked, Counted, InRoom, Attending
<1>5. CASE \E target \in Users : TransferLooks(target)
  <2>1. PICK target \in Users : TransferLooks(target)
    BY <1>5
  <2>2. /\ UNCHANGED <<members>> /\ InRoom(target)
        /\ closure' = [op |-> "transfer", to |-> target]
    BY <2>1 DEF TransferLooks, Lock, RoomFree, presence, lock
  <2>3. closure'.op = "transfer" /\ closure'.to = target
    BY <2>2
  <2> QED BY <2>2, <2>3 DEF Locked, Counted, InRoom
<1> QED BY <1>2, <1>3, <1>4, <1>5, Looks

\* What it has seen stays so until it writes.
LEMMA NextLocked == IInv /\ [Next]_vars => Locked'
<1> SUFFICES ASSUME IInv, [Next]_vars PROVE Locked'
  OBVIOUS
<1>1. CASE closure' = NoClosure
  BY <1>1 DEF Locked, NoClosure
<1>2. CASE closure' = closure /\ closure # NoClosure
  <2>1. Undisturbed
    BY <1>2, OthersAside DEF IInv
  <2> QED BY <1>2, <2>1 DEF IInv, Locked, Undisturbed
<1>3. CASE closure' # closure /\ closure' # NoClosure
  BY <1>3, LooksLocked
<1> QED BY <1>1, <1>2, <1>3

\* The invariant is inductive.
LEMMA NextInv == IInv /\ [Next]_vars => IInv'
BY NextBase, NextLocked DEF IInv

-----------------------------------------------------------------------------
(* What the steps may never do *)

\* The steps that change the host.
LEMMA HostChanges ==
    ASSUME [Next]_vars, host' # host
    PROVE  \/ \E c \in Conns : JoinCommits(c) \/ ClaimHost(c)
           \/ HandoffWrites \/ TransferWrites
BY DEF Next, vars, room, Subscribe, QueueAdd, JoinStarts, JoinLooks, Drop, Promote, Arm,
       Leave, Kick, KickAllowed, TransferAllowed, TransferLooks, TimerFires, Expire,
       HandoffLooks, HandoffFinds, BootWindowEnds, BeginShutdown, Restart

\* A join that finds the host in the room leaves the role alone.
LEMMA JoinRespects ==
    ASSUME NEW c \in Conns, JoinCommits(c), host # NoUser, closure.present
    PROVE  host' = host
BY DEF JoinCommits, room

\* A host who is in the room loses the role to a transfer or a claim only.
LEMMA StepKeepsPresentHost ==
    ASSUME IInv, [Next]_vars, host' # host, Attending(host)
    PROVE  Deliberate
<1>1. host # NoUser
  BY DEF Attending, IInv, Base, TypeOK
<1>2. ASSUME NEW c \in Conns, JoinCommits(c) PROVE FALSE
  <2>1. closure.present
    BY <1>2 DEF IInv, Locked, JoinCommits
  <2> QED BY <1>1, <1>2, <2>1, JoinRespects
<1>3. ~HandoffWrites
  BY DEF IInv, Locked, HandoffWrites
<1> QED BY <1>2, <1>3, HostChanges DEF Deliberate

\* Who becomes host is in the room at that moment, but for the departures during the
\* mutation.
LEMMA StepPassesToMember ==
    ASSUME IInv, [Next]_vars, host' # host
    PROVE  \/ InRoom(host') \/ host' \in vanished
           \/ \E c \in Conns : JoinsAsNobody(c)
<1>1. ASSUME NEW c \in Conns, JoinCommits(c)
      PROVE  InRoom(host') \/ JoinsAsNobody(c)
  <2>1. host' = UserOf[c]
    BY <1>1 DEF JoinCommits, Claims, room
  <2> QED BY <1>1, <2>1 DEF JoinsAsNobody, InRoom
<1>2. ASSUME NEW c \in Conns, ClaimHost(c) PROVE InRoom(host')
  BY <1>2 DEF ClaimHost, OwnerReclaims, SetHost, Acts, InRoom
<1>3. CASE HandoffWrites \/ TransferWrites
  BY <1>3 DEF IInv, Locked, Counted, HandoffWrites, TransferWrites, SetHost
<1> QED BY <1>1, <1>2, <1>3, HostChanges

\* The join that settles finds a host in the room, takes the role, or leaves a
\* promotion on its way.
LEMMA StepSettlesHost ==
    ASSUME IInv, NEW c \in Conns, JoinCommits(c)
    PROVE  \/ InRoom(host)' \/ HandoffPending(host)' \/ mode = "stopping"
           \/ host' \in vanished \/ JoinsAsNobody(c)
<1> DEFINE u == UserOf[c]
           absent == host # NoUser /\ ~closure.present
<1>1. members' = members /\ closure.op = "join" /\ host \in Users \cup {NoUser}
  BY DEF IInv, Base, TypeOK, JoinCommits, presence
<1>2. CASE host = NoUser \/ (absent /\ (OwnerReclaims(u) \/ ~Held))
  <2>1. host' = UserOf[c]
    BY <1>2 DEF JoinCommits, Claims
  <2> QED BY <1>1, <2>1 DEF InRoom, JoinsAsNobody
<1>3. CASE ~(host = NoUser \/ (absent /\ (OwnerReclaims(u) \/ ~Held)))
  <2>1. host' = host /\ host # NoUser /\ host \in Users
    BY <1>1, <1>3 DEF JoinCommits, room
  <2>2. CASE closure.present
    BY <1>1, <2>1, <2>2 DEF IInv, Locked, Counted, InRoom
  <2>3. CASE ~closure.present /\ OpensGrace
    <3>1. ScheduleGrace(host)
      BY <1>3, <2>1, <2>3 DEF JoinCommits
    <3>2. grace'.user = host'
      BY <2>1, <3>1, ScheduleFacts
    <3> QED BY <3>2 DEF HandoffPending
  <2>4. CASE ~closure.present /\ ~OpensGrace
    <3>1. grace' = grace
      BY <1>3, <2>4 DEF JoinCommits
    <3>2. grace.user = host \/ mode = "stopping"
      BY <1>3, <2>1, <2>4 DEF Held, OpensGrace
    <3> QED BY <2>1, <3>1, <3>2 DEF HandoffPending
  <2> QED BY <2>2, <2>3, <2>4
<1> QED BY <1>2, <1>3

\* The owner's join takes the role back unless the host is in the room.
LEMMA StepRegainsRole ==
    ASSUME IInv, NEW c \in Conns, JoinCommits(c), UserOf[c] = owner
    PROVE  host' = owner \/ InRoom(host') \/ host' \in vanished
<1> DEFINE absent == host # NoUser /\ ~closure.present
<1>1. OwnerReclaims(UserOf[c]) /\ closure.op = "join"
  BY DEF OwnerReclaims, JoinCommits
<1>2. CASE host = NoUser \/ absent
  BY <1>1, <1>2 DEF JoinCommits, Claims
<1>3. CASE ~(host = NoUser \/ absent)
  BY <1>1, <1>3 DEF JoinCommits, room, IInv, Locked, Counted
<1> QED BY <1>2, <1>3

-----------------------------------------------------------------------------
(* The theorems *)

\* The invariant holds in every reachable state.
THEOREM Invariance == Spec => []IInv
BY InitInv, NextInv, PTL DEF Spec

\* Every variable keeps its type; seniority lists each user once.
THEOREM RoleTypes == Spec => []TypeOK
<1>1. IInv => TypeOK
  BY DEF IInv, Base
<1> QED BY <1>1, Invariance, PTL

\* A host who is in the room, in whichever tab, loses the role only when somebody
\* transfers or claims it.
THEOREM PresentHostIsSafe == Spec => PresentHostKeepsRole
<1>1. IInv /\ [Next]_vars => [host' # host /\ Attending(host) => Deliberate]_vars
  BY StepKeepsPresentHost
<1> QED BY <1>1, Invariance, PTL DEF Spec, PresentHostKeepsRole

\* Nobody is made host who was not in the room when the mutation looked, or, joining,
\* when the join began.
THEOREM HostIsMember == Spec => RolePassesToMember
<1> DEFINE Passes == host' # host =>
                       \/ InRoom(host') \/ host' \in vanished
                       \/ \E c \in Conns : JoinsAsNobody(c)
<1>1. IInv /\ [Next]_vars => [Passes]_vars
  BY StepPassesToMember
<1> QED BY <1>1, Invariance, PTL DEF Spec, RolePassesToMember

\* A room.join leaves the room with a host who is in it, or with a promotion on its
\* way, unless the server stops, the host leaves meanwhile or the joiner is cut off.
THEOREM JoinLeavesHost == Spec => JoinSettlesHost
<1> DEFINE Settles == \A c \in Conns : JoinCommits(c) =>
                        \/ InRoom(host)' \/ HandoffPending(host)' \/ mode = "stopping"
                        \/ host' \in vanished \/ JoinsAsNobody(c)
<1>1. IInv /\ [Next]_vars => [Settles]_vars
  BY StepSettlesHost
<1> QED BY <1>1, Invariance, PTL DEF Spec, JoinSettlesHost

\* The owner's room.join ends with the owner as host, or with another host who is, or
\* a moment ago was, in the room.
THEOREM OwnerIsRestored == Spec => OwnerRegainsRole
<1> DEFINE Regains == \A c \in Conns : JoinCommits(c) /\ UserOf[c] = owner =>
                        host' = owner \/ InRoom(host') \/ host' \in vanished
<1>1. IInv /\ [Next]_vars => [Regains]_vars
  BY StepRegainsRole
<1> QED BY <1>1, Invariance, PTL DEF Spec, OwnerRegainsRole

===============================================================================
