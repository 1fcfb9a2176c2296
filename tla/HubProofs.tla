------------------------------- MODULE HubProofs -------------------------------
(***************************************************************************)
(* Proofs about the goroutines of the hub: their locks, the vote to skip   *)
(* and the video ticker, for any number of goroutines, rooms, listeners,   *)
(* calls, re-checks, tracks and loops.                                     *)
(***************************************************************************)
EXTENDS MCHub, FiniteSetTheorems, TLAPS

-----------------------------------------------------------------------------
(* Locks *)

\* The order the lock paths respect when nothing is evicted and rooms cannot be
\* listed: the room map, then one room, then the membership.
Rank(l) == IF l = "hub" THEN 1 ELSE IF l = "member" THEN 3 ELSE 2

\* A goroutine waits only for a lock that ranks above all it holds.
Ascending ==
    \A t \in Threads : Waiting(t) =>
        \A i \in 1 .. Len(held[t]) : Rank(held[t][i].lock) < Rank(wants[t].lock)

LockTypes ==
    /\ held \in [Threads -> Seq(Requests)]
    /\ wants \in [Threads -> Requests \cup {Nothing}]

Exclusion ==
    \A t, u \in Threads, l \in Locks :
        Holds(t, l, {"write"}) /\ Holds(u, l, {"read", "write"}) => t = u

-----------------------------------------------------------------------------
(* Requests and paths *)

\* Read and Write make requests.
LEMMA RequestTypes ==
    ASSUME NEW l \in Locks
    PROVE  /\ Read(l) \in Requests /\ Read(l).lock = l
           /\ Write(l) \in Requests /\ Write(l).lock = l
BY DEF Read, Write, Requests

\* One, two or three elements in a row are a sequence.
LEMMA ShortSequences ==
    ASSUME NEW S, NEW a \in S, NEW b \in S, NEW c \in S
    PROVE  <<a>> \in Seq(S) /\ <<a, b>> \in Seq(S) /\ <<a, b, c>> \in Seq(S)
OBVIOUS

\* Every path is a sequence of requests.
LEMMA PathTypes ==
    ASSUME NEW p \in Paths
    PROVE  p \in Seq(Requests)
<1>1. Read("hub") \in Requests /\ Write("hub") \in Requests
  BY RequestTypes DEF Locks
<1>2. Read("member") \in Requests /\ Write("member") \in Requests
  BY RequestTypes DEF Locks
<1>3. \A r \in Rooms : Write(r) \in Requests
  BY RequestTypes DEF Locks
<1>4. \/ p \in {Enrolment, MemberLookup, RoomLookup, ResidentLookup, Eviction}
      \/ \E r \in Rooms : p \in {RoleMutation(r), RebindMutation(r), HostLookup(r), Listing(r)}
  BY DEF Paths
<1>5. CASE p \in {Enrolment, MemberLookup, RoomLookup, ResidentLookup, Eviction}
  <2>1. \A a, b \in Requests : <<a>> \in Seq(Requests) /\ <<a, b>> \in Seq(Requests)
    BY ShortSequences
  <2> QED BY <1>1, <1>2, <1>5, <2>1
    DEF Enrolment, MemberLookup, RoomLookup, ResidentLookup, Eviction
<1>6. CASE \E r \in Rooms : p \in {RoleMutation(r), RebindMutation(r), HostLookup(r), Listing(r)}
  <2>1. PICK r \in Rooms : p \in {RoleMutation(r), RebindMutation(r), HostLookup(r), Listing(r)}
    BY <1>6
  <2>2. \A a, b, c \in Requests : <<a, b>> \in Seq(Requests) /\ <<a, b, c>> \in Seq(Requests)
    BY ShortSequences
  <2> QED BY <1>1, <1>2, <1>3, <2>1, <2>2
    DEF RoleMutation, RebindMutation, HostLookup, Listing
<1> QED BY <1>4, <1>5, <1>6

\* No request is the absent one.
LEMMA RequestsAreSomething == Nothing \notin Requests
BY DEF Nothing, Requests

\* With the evictor and the room list off, every path climbs in Rank.
LEMMA PathsAscend ==
    ASSUME ~Evicting, ~PublicRooms, NEW p \in Paths,
           NEW j \in 1 .. Len(p), NEW i \in 1 .. (j - 1)
    PROVE  Rank(p[i].lock) < Rank(p[j].lock)
<1>1. Rank("hub") = 1 /\ Rank("member") = 3
  BY DEF Rank
<1>2. \A r \in Rooms : Rank(r) = 2
  BY HubLocksAssumption DEF Rank
<1>3. p \in {Enrolment, MemberLookup, RoomLookup, ResidentLookup}
        \/ \E r \in Rooms : p \in {RoleMutation(r), RebindMutation(r), HostLookup(r)}
  BY DEF Paths
<1>4. CASE p \in {Enrolment, MemberLookup, RoomLookup, ResidentLookup}
  <2>1. Len(p) = 1
    BY <1>4 DEF Enrolment, MemberLookup, RoomLookup, ResidentLookup
  <2> QED BY <2>1
<1>5. CASE \E r \in Rooms : p \in {RoleMutation(r), RebindMutation(r), HostLookup(r)}
  <2>1. PICK r \in Rooms : p \in {RoleMutation(r), RebindMutation(r), HostLookup(r)}
    BY <1>5
  <2>2. Len(p) = 2
    BY <2>1 DEF RoleMutation, RebindMutation, HostLookup
  <2>3. i = 1 /\ j = 2
    BY <2>2
  <2>4. CASE p \in {RoleMutation(r), RebindMutation(r)}
    <3>1. p[1].lock = r /\ p[2].lock = "member"
      BY <2>4 DEF RoleMutation, RebindMutation, Read, Write
    <3> QED BY <3>1, <2>3, <1>1, <1>2
  <2>5. CASE p = HostLookup(r)
    <3>1. p[1].lock = "hub" /\ p[2].lock = r
      BY <2>5 DEF HostLookup, Read, Write
    <3> QED BY <3>1, <2>3, <1>1, <1>2
  <2> QED BY <2>1, <2>4, <2>5
<1> QED BY <1>3, <1>4, <1>5

\* What a goroutine holds is the start of the path whose next lock it asks for.
LEMMA PrefixFacts ==
    ASSUME NEW S, NEW s \in Seq(S), NEW p \in Seq(S), IsStrictPrefix(s, p)
    PROVE  /\ Len(s) + 1 \in 1 .. Len(p)
           /\ \A i \in 1 .. Len(s) : s[i] = p[i]
<1>1. Len(s) <= Len(p) /\ SubSeq(s, 1, Len(s)) = SubSeq(p, 1, Len(s)) /\ s # p
  BY DEF IsStrictPrefix, IsPrefix
<1>2. SubSeq(s, 1, Len(s)) = s
  OBVIOUS
<1>3. \A i \in 1 .. Len(s) : s[i] = p[i]
  BY <1>1, <1>2
<1>4. Len(s) # Len(p)
  BY <1>1, <1>2, SubSeq(p, 1, Len(p)) = p
<1> QED BY <1>1, <1>3, <1>4

-----------------------------------------------------------------------------
(* Locks exclude *)

\* Every step keeps the shape of the lock tables.
LEMMA LockTypesStep ==
    ASSUME LockTypes, [Next]_vars
    PROVE  LockTypes'
<1> USE DEF LockTypes
<1>1. ASSUME NEW t \in Threads, Request(t)
      PROVE  LockTypes'
  <2>1. PICK p \in Paths : /\ IsStrictPrefix(held[t], p)
                           /\ wants' = [wants EXCEPT ![t] = p[Len(held[t]) + 1]]
    BY <1>1 DEF Request
  <2>2. p \in Seq(Requests)
    BY PathTypes
  <2>3. p[Len(held[t]) + 1] \in Requests
    BY <2>1, <2>2, PrefixFacts
  <2> QED BY <1>1, <2>1, <2>3 DEF Request
<1>2. ASSUME NEW t \in Threads, Acquire(t)
      PROVE  LockTypes'
  <2>1. wants[t] \in Requests
    BY <1>2 DEF Acquire, Waiting
  <2> QED BY <1>2, <2>1 DEF Acquire
<1>3. ASSUME NEW t \in Threads, Release(t)
      PROVE  LockTypes'
  <2>1. Front(held[t]) \in Seq(Requests)
    BY <1>3 DEF Release, Front
  <2> QED BY <1>3, <2>1 DEF Release
<1>4. ASSUME UNCHANGED vars
      PROVE  LockTypes'
  BY <1>4 DEF vars
<1> QED BY <1>1, <1>2, <1>3, <1>4 DEF Next

\* Taking a request makes a goroutine hold that lock in addition.
LEMMA HoldsAppended ==
    ASSUME NEW s \in Seq(Requests), NEW q \in Requests, NEW x
    PROVE  x \in Range(Append(s, q)) <=> x \in Range(s) \/ x = q
<1>1. Append(s, q) \in Seq(Requests) /\ Len(Append(s, q)) = Len(s) + 1
  OBVIOUS
<1>2. \A i \in 1 .. Len(s) : Append(s, q)[i] = s[i]
  OBVIOUS
<1>3. Append(s, q)[Len(s) + 1] = q
  OBVIOUS
<1> QED BY <1>1, <1>2, <1>3 DEF Range

\* Letting go of the innermost lock adds none.
LEMMA HoldsReleased ==
    ASSUME NEW s \in Seq(Requests), s # <<>>, NEW x \in Range(Front(s))
    PROVE  x \in Range(s)
BY DEF Front, Range

\* Every step keeps writers alone with their lock.
LEMMA ExclusionStep ==
    ASSUME LockTypes, Exclusion, [Next]_vars
    PROVE  Exclusion'
<1> USE DEF LockTypes
<1>1. ASSUME NEW t \in Threads, Request(t)
      PROVE  Exclusion'
  BY <1>1 DEF Request, Exclusion, Holds
<1>2. ASSUME NEW t \in Threads, Acquire(t)
      PROVE  Exclusion'
  <2>1. wants[t] \in Requests
    BY <1>2 DEF Acquire, Waiting
  <2>2. \A u \in Threads \ {t} : held'[u] = held[u]
    BY <1>2 DEF Acquire
  <2>3. \A x : x \in Range(held'[t]) <=> x \in Range(held[t]) \/ x = wants[t]
    BY <1>2, <2>1, HoldsAppended DEF Acquire
  <2>4. \A l \in Locks, u \in Threads :
           /\ wants[t] = [mode |-> "write", lock |-> l] => ~Holds(u, l, {"read", "write"})
           /\ wants[t] = [mode |-> "read", lock |-> l] => ~Holds(u, l, {"write"})
    BY <1>2 DEF Acquire, Blocks, WantsTo
  <2> SUFFICES ASSUME NEW v \in Threads, NEW u \in Threads, NEW l \in Locks,
                      Holds(v, l, {"write"})', Holds(u, l, {"read", "write"})'
               PROVE  v = u
    BY DEF Exclusion
  <2>5. [mode |-> "write", lock |-> l] \in Range(held'[v])
    BY DEF Holds
  <2>6. [mode |-> "read", lock |-> l] \in Range(held'[u])
          \/ [mode |-> "write", lock |-> l] \in Range(held'[u])
    BY DEF Holds
  <2>7. CASE v = t /\ u # t
    <3>1. Holds(u, l, {"read", "write"})
      BY <2>2, <2>6, <2>7 DEF Holds
    <3>2. wants[t] # [mode |-> "write", lock |-> l]
      BY <3>1, <2>4
    <3>3. Holds(t, l, {"write"})
      BY <2>3, <2>5, <2>7, <3>2 DEF Holds
    <3> QED BY <3>1, <3>3, <2>7 DEF Exclusion
  <2>8. CASE v # t /\ u = t
    <3>1. Holds(v, l, {"write"}) /\ Holds(v, l, {"read", "write"})
      BY <2>2, <2>5, <2>8 DEF Holds
    <3>2. /\ wants[t] # [mode |-> "write", lock |-> l]
          /\ wants[t] # [mode |-> "read", lock |-> l]
      BY <3>1, <2>4
    <3>3. Holds(t, l, {"read", "write"})
      BY <2>3, <2>6, <2>8, <3>2 DEF Holds
    <3> QED BY <3>1, <3>3, <2>8 DEF Exclusion
  <2>9. CASE v # t /\ u # t
    <3>1. Holds(v, l, {"write"}) /\ Holds(u, l, {"read", "write"})
      BY <2>2, <2>5, <2>6, <2>9 DEF Holds
    <3> QED BY <3>1 DEF Exclusion
  <2> QED BY <2>7, <2>8, <2>9
<1>3. ASSUME NEW t \in Threads, Release(t)
      PROVE  Exclusion'
  <2>1. \A u \in Threads : Range(held'[u]) \subseteq Range(held[u])
    BY <1>3, HoldsReleased DEF Release
  <2>2. \A u \in Threads, l \in Locks :
           /\ Holds(u, l, {"write"})' => Holds(u, l, {"write"})
           /\ Holds(u, l, {"read", "write"})' => Holds(u, l, {"read", "write"})
    BY <2>1 DEF Holds
  <2> QED BY <2>2 DEF Exclusion
<1>4. ASSUME UNCHANGED vars
      PROVE  Exclusion'
  BY <1>4 DEF vars, Exclusion, Holds
<1> QED BY <1>1, <1>2, <1>3, <1>4 DEF Next

\* In every state the lock tables are well formed and a lock written under
\* (room.mu, or h.mu and memberMu by Lock) has one holder, whichever of the
\* features are on.
THEOREM LocksExclude == Spec => []TypeOK
<1>1. Init => LockTypes /\ Exclusion
  BY DEF Init, LockTypes, Exclusion, Holds, Range
<1>2. LockTypes /\ Exclusion /\ [Next]_vars => (LockTypes /\ Exclusion)'
  BY LockTypesStep, ExclusionStep
<1>3. LockTypes /\ Exclusion => TypeOK
  BY DEF LockTypes, Exclusion, TypeOK
<1> QED BY <1>1, <1>2, <1>3, PTL DEF Spec

-----------------------------------------------------------------------------
(* Nobody waits in a circle *)

\* Every step keeps goroutines climbing.
LEMMA AscendingStep ==
    ASSUME ~Evicting, ~PublicRooms, LockTypes, Ascending, [Next]_vars
    PROVE  Ascending'
<1> USE DEF LockTypes
<1>1. ASSUME NEW t \in Threads, Request(t)
      PROVE  Ascending'
  <2>1. PICK p \in Paths : /\ IsStrictPrefix(held[t], p)
                           /\ wants' = [wants EXCEPT ![t] = p[Len(held[t]) + 1]]
    BY <1>1 DEF Request
  <2>2. p \in Seq(Requests)
    BY PathTypes
  <2>3. /\ Len(held[t]) + 1 \in 1 .. Len(p)
        /\ \A i \in 1 .. Len(held[t]) : held[t][i] = p[i]
    BY <2>1, <2>2, PrefixFacts
  <2>4. \A i \in 1 .. Len(held[t]) : Rank(p[i].lock) < Rank(p[Len(held[t]) + 1].lock)
    BY <2>3, PathsAscend
  <2>5. held' = held /\ wants'[t] = p[Len(held[t]) + 1]
          /\ \A u \in Threads \ {t} : wants'[u] = wants[u]
    BY <1>1, <2>1 DEF Request
  <2> QED BY <2>3, <2>4, <2>5 DEF Ascending, Waiting
<1>2. ASSUME NEW t \in Threads, Acquire(t)
      PROVE  Ascending'
  <2>1. /\ wants'[t] = Nothing
        /\ \A u \in Threads \ {t} : wants'[u] = wants[u] /\ held'[u] = held[u]
    BY <1>2 DEF Acquire
  <2> QED BY <2>1 DEF Ascending, Waiting
<1>3. ASSUME NEW t \in Threads, Release(t)
      PROVE  Ascending'
  <2>1. /\ wants' = wants /\ ~Waiting(t)
        /\ \A u \in Threads \ {t} : held'[u] = held[u]
    BY <1>3 DEF Release
  <2> QED BY <2>1 DEF Ascending, Waiting
<1>4. ASSUME UNCHANGED vars
      PROVE  Ascending'
  BY <1>4 DEF vars, Ascending, Waiting
<1> QED BY <1>1, <1>2, <1>3, <1>4 DEF Next

\* Whoever holds the lock another goroutine waits for, waits itself for one that
\* ranks higher, if it waits at all.
LEMMA HolderRanksAbove ==
    ASSUME LockTypes, Ascending, NEW t \in Threads, NEW u \in Threads,
           NEW l \in Locks, Holds(u, l, {"read", "write"}), Waiting(u)
    PROVE  Rank(l) < Rank(wants[u].lock)
<1>1. PICK m \in {"read", "write"} : [mode |-> m, lock |-> l] \in Range(held[u])
  BY DEF Holds
<1>2. PICK i \in 1 .. Len(held[u]) : held[u][i] = [mode |-> m, lock |-> l]
  BY <1>1 DEF Range, LockTypes
<1>3. held[u][i].lock = l
  BY <1>2
<1> QED BY <1>3, <1>2 DEF Ascending

\* While every goroutine climbs, a set in which each waits for a member has none
\* whose lock ranks highest.
LEMMA ClimbingIsAcyclic ==
    ASSUME LockTypes, Ascending
    PROVE  NoCycleForms
<1> SUFFICES ASSUME NEW S \in SUBSET Threads, S # {},
                    \A t \in S : \E u \in S : Blocks(u, t)
             PROVE  FALSE
  BY DEF NoCycleForms
<1> DEFINE R(t) == Rank(wants[t].lock)
<1>1. \A t \in S : R(t) \in {1, 2, 3}
  BY DEF Rank
<1>2. \A t \in S : Waiting(t)
  <2> SUFFICES ASSUME NEW t \in S PROVE wants[t] # Nothing
    BY DEF Waiting
  <2>1. PICK m \in {"read", "write"}, l \in Locks : wants[t] = [mode |-> m, lock |-> l]
    BY DEF Blocks, WantsTo
  <2>2. wants[t] \in Requests
    BY <2>1 DEF Requests
  <2> QED BY <2>2, RequestsAreSomething
<1>3. \A t, u \in S : Blocks(u, t) =>
          R(t) < R(u) \/ (wants[t].mode = "read" /\ wants[u].mode = "write" /\ R(t) = R(u))
  <2> SUFFICES ASSUME NEW t \in S, NEW u \in S, Blocks(u, t)
               PROVE  R(t) < R(u) \/ (wants[t].mode = "read" /\ wants[u].mode = "write"
                                        /\ R(t) = R(u))
    OBVIOUS
  <2>1. PICK l \in Locks :
           \/ WantsTo(t, "write", l) /\ Holds(u, l, {"read", "write"})
           \/ WantsTo(t, "read", l) /\ (Holds(u, l, {"write"}) \/ WantsTo(u, "write", l))
    BY DEF Blocks
  <2>2. wants[t].lock = l
    BY <2>1 DEF WantsTo
  <2>3. CASE Holds(u, l, {"read", "write"})
    <3>1. Rank(l) < R(u)
      BY <2>3, <1>2, HolderRanksAbove
    <3> QED BY <2>2, <3>1
  <2>4. CASE Holds(u, l, {"write"})
    <3>1. Holds(u, l, {"read", "write"})
      BY <2>4 DEF Holds
    <3> QED BY <3>1, <2>3
  <2>5. CASE WantsTo(t, "read", l) /\ WantsTo(u, "write", l)
    BY <2>5 DEF WantsTo
  <2> QED BY <2>1, <2>3, <2>4, <2>5
<1>4. PICK t \in S : \A u \in S : R(u) <= R(t)
  <2>1. CASE \E t \in S : R(t) = 3
    <3> HIDE DEF R
    <3> QED BY <2>1, <1>1
  <2>2. CASE (\A t \in S : R(t) # 3) /\ \E t \in S : R(t) = 2
    <3> HIDE DEF R
    <3> QED BY <2>2, <1>1
  <2>3. CASE \A t \in S : R(t) # 3 /\ R(t) # 2
    <3>1. \A t \in S : R(t) = 1
      BY <2>3, <1>1
    <3> HIDE DEF R
    <3> QED BY <3>1
  <2> QED BY <2>1, <2>2, <2>3
<1>5. PICK u \in S : Blocks(u, t)
  OBVIOUS
<1>6. wants[u].mode = "write" /\ R(u) = R(t)
  BY <1>1, <1>3, <1>4, <1>5
<1>7. PICK v \in S : Blocks(v, u)
  OBVIOUS
<1>8. R(u) < R(v)
  BY <1>3, <1>6, <1>7
<1> QED BY <1>1, <1>4, <1>6, <1>8

\* Without the evictor and the room list, RPC handlers, disconnects, grace timers
\* and the metrics scrape never wait for each other in a circle, however many
\* goroutines and rooms there are.
THEOREM NoDeadlock ==
    ASSUME ~Evicting, ~PublicRooms
    PROVE  Spec => []NoCycleForms
<1>1. Init => LockTypes /\ Ascending
  BY DEF Init, LockTypes, Ascending, Waiting
<1>2. LockTypes /\ Ascending /\ [Next]_vars => (LockTypes /\ Ascending)'
  BY LockTypesStep, AscendingStep
<1>3. LockTypes /\ Ascending => NoCycleForms
  BY ClimbingIsAcyclic
<1> QED BY <1>1, <1>2, <1>3, PTL DEF Spec

-----------------------------------------------------------------------------
(***************************************************************************)
(* The vote to skip.  What a step saw is no smaller than what is present   *)
(* now, or a re-check that waits for the step is armed; so whoever counts  *)
(* last, the votes that stand were too few for everybody there.            *)
(***************************************************************************)

\* A step that counts with an outdated look has a re-check behind it.
LooksAnswered ==
    \A c \in Counters : step[c].pc = "count" =>
        \/ step[c].seen \subseteq present
        \/ \E k \in Rechecks : step[k].pc = "armed" /\ c \in older[k]

\* A re-check is about whatever plays, and nobody votes on silence.
RechecksAny ==
    /\ \A k \in Rechecks : step[k].pc = "count" => step[k].of = AnyTrackPlaying
    /\ track = Silence => standing = {}

\* An advance under way is for a track that enough of those present agreed on.
PassedIsAgreed == \A c \in Counters : step[c].pc = "skip" => step[c].of \in agreed

VoteInv ==
    /\ VoteTypeOK /\ LooksAnswered /\ RechecksAny /\ PassedIsAgreed
    /\ StandingVotesPass /\ VoteSkipsItsTrack

\* The threshold is a number, and more listeners never need fewer votes.
LEMMA ThresholdGrows ==
    ASSUME NEW m \in Nat, NEW n \in Nat, m <= n
    PROVE  SkipVotesNeeded(m) \in Nat /\ SkipVotesNeeded(m) <= SkipVotesNeeded(n)
BY DEF SkipVotesNeeded

\* Listeners are finitely many, and so is each set of them; a smaller one has fewer.
LEMMA ListenerSets ==
    ASSUME NEW S \in SUBSET Listeners, NEW T \in SUBSET S
    PROVE  /\ Cardinality(S) \in Nat /\ Cardinality(T) \in Nat
           /\ Cardinality(T) <= Cardinality(S)
           /\ T # {} => Cardinality(T) > 0
<1>1. IsFiniteSet(S)
  BY FS_Subset, SkipVoteAssumption
<1>2. IsFiniteSet(T) /\ Cardinality(T) <= Cardinality(S)
  BY <1>1, FS_Subset
<1>3. Cardinality(S) \in Nat /\ Cardinality(T) \in Nat
  BY <1>1, <1>2, FS_CardinalityType
<1>4. T # {} => Cardinality(T) # 0
  BY <1>2, FS_EmptySet
<1> QED BY <1>2, <1>3, <1>4

\* Votes that reach the threshold are at least half of those seen, and two unless
\* only one was seen.
LEMMA ReachedIsEnough ==
    ASSUME NEW seen \in SUBSET Listeners, NEW votes \in SUBSET seen, Reached(votes, seen)
    PROVE  EnoughOf(votes, seen)
<1> DEFINE v == Cardinality(votes)
           n == Cardinality(seen)
<1>1. v \in Nat /\ n \in Nat /\ v > 0 /\ v <= n /\ v >= SkipVotesNeeded(n)
  BY ListenerSets DEF Reached
<1>2. 2 * v >= n /\ (n = 1 \/ v >= 2)
  <2> HIDE DEF v, n
  <2> QED BY <1>1 DEF SkipVotesNeeded
<1> QED BY <1>2 DEF EnoughOf, Reached

\* Votes that do not reach the threshold of those seen do not reach that of more.
LEMMA FewStayFew ==
    ASSUME NEW room \in SUBSET Listeners, NEW seen \in SUBSET room, NEW votes \in SUBSET seen,
           ~Reached(votes, seen), votes # {}
    PROVE  Cardinality(votes) < SkipVotesNeeded(Cardinality(room))
<1>1. Cardinality(votes) \in Nat /\ Cardinality(seen) \in Nat
  BY ListenerSets
<1>2. Cardinality(room) \in Nat /\ Cardinality(seen) <= Cardinality(room)
  BY ListenerSets
<1>3. SkipVotesNeeded(Cardinality(seen)) \in Nat
  BY <1>1, ThresholdGrows
<1>4. SkipVotesNeeded(Cardinality(room)) \in Nat
  BY <1>2, ThresholdGrows
<1>5. SkipVotesNeeded(Cardinality(seen)) <= SkipVotesNeeded(Cardinality(room))
  BY <1>1, <1>2, ThresholdGrows
<1>6. Cardinality(votes) < SkipVotesNeeded(Cardinality(seen))
  BY <1>1, <1>3 DEF Reached
<1> QED BY <1>1, <1>3, <1>4, <1>5, <1>6

-----------------------------------------------------------------------------
(* Each action keeps the vote in order *)

\* At first nobody votes.
LEMMA VoteInitInv == VoteInit => VoteInv
<1> SUFFICES ASSUME VoteInit PROVE VoteInv
  OBVIOUS
<1>1. \A c \in Counters : step[c].pc = "idle"
  BY DEF VoteInit, Idle
<1>2. Idle \in Steps /\ Silence \in Nat /\ 1 .. Silence # {} /\ 1 \in 1 .. Silence /\ Silence \in 1 .. Silence
  BY SkipVoteAssumption DEF Idle, Steps, Silence, AnyTrackPlaying
<1>3. VoteTypeOK
  BY <1>2 DEF VoteTypeOK, VoteInit
<1>4. Rechecks \subseteq Counters
  BY DEF Counters
<1> QED BY <1>1, <1>3, <1>4
  DEF VoteInv, VoteInit, LooksAnswered, RechecksAny, PassedIsAgreed, StandingVotesPass, VoteSkipsItsTrack

\* An arrival can only raise what a skip needs.
LEMMA JoinRoomInv ==
    ASSUME VoteInv, NEW v \in Listeners, JoinRoom(v)
    PROVE  VoteInv'
<1> USE DEF VoteInv
<1>1. present \subseteq present' /\ present' \in SUBSET Listeners
  BY DEF JoinRoom, VoteTypeOK
<1>2. VoteTypeOK'
  BY <1>1 DEF JoinRoom, VoteTypeOK
<1>3. LooksAnswered'
  BY <1>1 DEF JoinRoom, LooksAnswered
<1>4. RechecksAny' /\ PassedIsAgreed' /\ VoteSkipsItsTrack'
  BY DEF JoinRoom, RechecksAny, PassedIsAgreed, VoteSkipsItsTrack
<1>5. StandingVotesPass'
  <2> SUFFICES ASSUME VoteAtRest', ~restored, standing # {}
               PROVE  /\ standing \subseteq present'
                      /\ Cardinality(standing) < SkipVotesNeeded(Cardinality(present'))
    BY DEF StandingVotesPass, JoinRoom
  <2>1. VoteAtRest
    BY DEF VoteAtRest, JoinRoom
  <2>2. standing \subseteq present /\ Cardinality(standing) < SkipVotesNeeded(Cardinality(present))
    BY <2>1 DEF StandingVotesPass
  <2>3. ~Reached(standing, present)
    <3>1. Cardinality(standing) \in Nat /\ Cardinality(present) \in Nat
      BY <2>2, ListenerSets DEF VoteTypeOK
    <3>2. SkipVotesNeeded(Cardinality(present)) \in Nat
      BY <3>1, ThresholdGrows
    <3> QED BY <2>2, <3>1, <3>2 DEF Reached
  <2>4. Cardinality(standing) < SkipVotesNeeded(Cardinality(present'))
    BY <1>1, <2>2, <2>3, FewStayFew
  <2> QED BY <1>1, <2>2, <2>4
<1> QED BY <1>2, <1>3, <1>4, <1>5

\* A departure leaves a re-check behind, which waits for every step that had looked.
LEMMA LeaveRoomInv ==
    ASSUME VoteInv, NEW v \in Listeners, NEW k \in Rechecks, LeaveRoom(v, k)
    PROVE  VoteInv'
<1> USE DEF VoteInv
<1>1. k \in Counters /\ step \in [Counters -> Steps] /\ step[k].pc = "idle"
  BY DEF Counters, VoteTypeOK, LeaveRoom
<1>2. ReevaluateSkipVotes \in Steps /\ ReevaluateSkipVotes.pc = "armed"
  BY SkipVoteAssumption DEF ReevaluateSkipVotes, Idle, Steps, Silence, AnyTrackPlaying
<1>3. step'[k].pc = "armed" /\ \A c \in Counters \ {k} : step'[c] = step[c]
  BY <1>1, <1>2 DEF LeaveRoom
<1>4. VoteTypeOK'
  BY <1>1, <1>2 DEF LeaveRoom, VoteTypeOK
<1>5. LooksAnswered'
  <2>1. \A c \in Counters : step'[c].pc = "count" => c \in older'[k]
    BY <1>1, <1>3 DEF LeaveRoom, VoteTypeOK
  <2> QED BY <1>3, <2>1 DEF LooksAnswered
<1>6. RechecksAny' /\ PassedIsAgreed' /\ VoteSkipsItsTrack'
  BY <1>3 DEF LeaveRoom, RechecksAny, PassedIsAgreed, VoteSkipsItsTrack, Counters
<1>7. StandingVotesPass'
  BY <1>3 DEF StandingVotesPass, VoteAtRest
<1> QED BY <1>4, <1>5, <1>6, <1>7

\* No vote outlives its track.
LEMMA TrackChangesInv == VoteInv /\ TrackChanges => VoteInv'
<1> SUFFICES ASSUME VoteInv, TrackChanges PROVE VoteInv'
  OBVIOUS
<1> USE DEF VoteInv
<1>1. VoteTypeOK'
  <2>1. track' \in 1 .. Silence
    BY SkipVoteAssumption DEF VoteTypeOK, TrackChanges, ToNextTrack, Silence
  <2>2. standing' \subseteq Listeners /\ restored' \in BOOLEAN
    BY DEF TrackChanges, ToNextTrack
  <2> QED BY <2>1, <2>2 DEF VoteTypeOK, TrackChanges
<1>2. standing' = {}
  BY DEF TrackChanges, ToNextTrack
<1> QED BY <1>1, <1>2 DEF TrackChanges, LooksAnswered, RechecksAny, PassedIsAgreed,
                          StandingVotesPass, VoteSkipsItsTrack

\* A restart ends every step and marks the votes it loads.
LEMMA RestartVoteInv == VoteInv /\ RestartVote => VoteInv'
<1> SUFFICES ASSUME VoteInv, RestartVote PROVE VoteInv'
  OBVIOUS
<1> USE DEF VoteInv
<1>1. Idle \in Steps /\ Idle.pc = "idle"
  BY SkipVoteAssumption DEF Idle, Steps, Silence, AnyTrackPlaying
<1>2. \A c \in Counters : step'[c].pc = "idle"
  BY <1>1 DEF RestartVote
<1>3. VoteTypeOK'
  BY <1>1 DEF VoteTypeOK, RestartVote
<1>4. Rechecks \subseteq Counters
  BY DEF Counters
<1> QED BY <1>2, <1>3, <1>4 DEF RestartVote, LooksAnswered, RechecksAny, PassedIsAgreed,
                                StandingVotesPass, VoteSkipsItsTrack

\* Votes that survive an eviction are those of a row that nobody has counted.
LEMMA EvictVotesInv == VoteInv /\ EvictVotes => VoteInv'
BY DEF VoteInv, VoteTypeOK, EvictVotes, LooksAnswered, RechecksAny, PassedIsAgreed,
       StandingVotesPass, VoteSkipsItsTrack

\* A step starts from what is present at that moment.
LEMMA VoteSkipInv ==
    ASSUME VoteInv, NEW c \in Voting, VoteSkip(c)
    PROVE  VoteInv'
<1> USE DEF VoteInv
<1>1. c \in Counters /\ c \notin Rechecks /\ Rechecks \subseteq Counters
  BY SkipVoteAssumption DEF Counters
<1>2. PICK v \in Listeners, t \in VoteTracks :
        step' = [step EXCEPT ![c] = [pc |-> "count", by |-> {v}, of |-> t, seen |-> present]]
  BY DEF VoteSkip
<1>3. step'[c].pc = "count" /\ step'[c].seen = present /\ \A d \in Counters \ {c} : step'[d] = step[d]
  BY <1>1, <1>2 DEF VoteTypeOK
<1>4. VoteTypeOK'
  <2>1. [pc |-> "count", by |-> {v}, of |-> t, seen |-> present] \in Steps
    BY SkipVoteAssumption DEF Steps, VoteTypeOK, VoteTracks, Silence
  <2> QED BY <1>2, <2>1 DEF VoteTypeOK, VoteSkip
<1>5. LooksAnswered'
  BY <1>1, <1>3 DEF LooksAnswered, VoteSkip
<1>6. RechecksAny' /\ PassedIsAgreed' /\ VoteSkipsItsTrack'
  BY <1>1, <1>3 DEF VoteSkip, RechecksAny, PassedIsAgreed, VoteSkipsItsTrack
<1>7. StandingVotesPass'
  <2>1. VoteAtRest' => VoteAtRest
    BY <1>1, <1>3 DEF VoteAtRest, VoteSkip
  <2> QED BY <2>1 DEF StandingVotesPass, VoteSkip
<1> QED BY <1>4, <1>5, <1>6, <1>7

\* A re-check runs only when no step waits for it.
LEMMA GraceOverInv ==
    ASSUME VoteInv, NEW k \in Rechecks, GraceOver(k)
    PROVE  VoteInv'
<1> USE DEF VoteInv
<1>1. k \in Counters /\ Rechecks \subseteq Counters /\ step \in [Counters -> Steps]
  BY DEF Counters, VoteTypeOK
<1>2. PICK s : /\ step' = [step EXCEPT ![k] = s]
               /\ \/ s = Idle /\ (standing = {} \/ restored)
                  \/ s = [Idle EXCEPT !.pc = "count", !.seen = present]
  BY DEF GraceOver
<1>3. /\ s \in Steps /\ s.pc \in {"idle", "count"} /\ s.of = AnyTrackPlaying
      /\ s.pc = "count" => s.seen = present
      /\ s.pc = "idle" => standing = {} \/ restored
  <2>1. CASE s = Idle /\ (standing = {} \/ restored)
    BY <2>1, SkipVoteAssumption DEF Idle, Steps, Silence, AnyTrackPlaying
  <2>2. CASE s = [Idle EXCEPT !.pc = "count", !.seen = present]
    <3>1. s = [pc |-> "count", by |-> {}, of |-> AnyTrackPlaying, seen |-> present]
      BY <2>2 DEF Idle
    <3>2. present \in SUBSET Listeners /\ AnyTrackPlaying \in 0 .. Silence
      BY SkipVoteAssumption DEF VoteTypeOK, Silence, AnyTrackPlaying
    <3> QED BY <3>1, <3>2 DEF Steps
  <2> QED BY <1>2, <2>1, <2>2
<1>4. step'[k] = s /\ \A d \in Counters \ {k} : step'[d] = step[d]
  BY <1>1, <1>2
<1>5. VoteTypeOK'
  BY <1>1, <1>2, <1>3 DEF VoteTypeOK, GraceOver
<1>6. LooksAnswered'
  BY <1>1, <1>3, <1>4 DEF LooksAnswered, GraceOver
<1>7. RechecksAny' /\ PassedIsAgreed' /\ VoteSkipsItsTrack'
  BY <1>1, <1>3, <1>4 DEF GraceOver, RechecksAny, PassedIsAgreed, VoteSkipsItsTrack
<1>8. StandingVotesPass'
  <2>1. standing # {} /\ ~restored => step'[k].pc = "count"
    BY <1>3, <1>4
  <2> QED BY <2>1 DEF StandingVotesPass, VoteAtRest, GraceOver
<1> QED BY <1>5, <1>6, <1>7, <1>8

\* A step that has counted is taken off the lists of those that wait for it, and a
\* re-check that counts is on nobody's way: every other step stays answered.
LEMMA CountKeepsAnswers ==
    ASSUME VoteInv, NEW c \in Counters, Count(c),
           step'[c].pc # "count", \A d \in Counters \ {c} : step'[d] = step[d]
    PROVE  LooksAnswered'
<1> SUFFICES ASSUME NEW d \in Counters, step'[d].pc = "count"
             PROVE  \/ step'[d].seen \subseteq present'
                    \/ \E k \in Rechecks : step'[k].pc = "armed" /\ d \in older'[k]
  BY DEF LooksAnswered
<1>1. d # c /\ step'[d] = step[d] /\ present' = present /\ step[c].pc = "count"
  BY DEF Count
<1>2. CASE \E k \in Rechecks : step[k].pc = "armed" /\ d \in older[k]
  <2>1. PICK k \in Rechecks : step[k].pc = "armed" /\ d \in older[k]
    BY <1>2
  <2>2. k # c /\ k \in Counters
    BY <1>1, <2>1 DEF Counters
  <2>3. older'[k] = older[k] \ {c}
    BY DEF Count
  <2> QED BY <1>1, <2>1, <2>2, <2>3
<1> QED BY <1>1, <1>2 DEF VoteInv, LooksAnswered

\* A count that reaches the threshold sends its track off; one that does not leaves
\* too few votes for those seen, who are all there once no re-check is armed.
LEMMA CountVotesInv ==
    ASSUME VoteInv, NEW c \in Counters, Count(c), CountVotes(c)
    PROVE  VoteInv'
<1> DEFINE seen == step[c].seen
           next == IF Reached(standing', seen)
                   THEN [Idle EXCEPT !.pc = "skip", !.of = track] ELSE Idle
<1> USE DEF VoteInv
<1>1. /\ step \in [Counters -> Steps] /\ Rechecks \subseteq Counters
      /\ seen \in SUBSET Listeners /\ step[c].by \in SUBSET Listeners
      /\ track \in VoteTracks /\ track # Silence
  <2>1. step[c] \in Steps
    BY DEF VoteTypeOK
  <2>2. track \in VoteTracks
    BY SkipVoteAssumption DEF CountVotes, VoteTypeOK, VoteTracks, Silence
  <2> QED BY <2>1, <2>2 DEF VoteTypeOK, Counters, Steps, CountVotes
<1>2. standing' \subseteq seen
  BY DEF CountVotes, PruneSkipVotes
<1>3. step' = [step EXCEPT ![c] = next]
  BY DEF CountVotes
<1>4. /\ next \in Steps
      /\ Reached(standing', seen) => next.pc = "skip" /\ next.of = track
      /\ ~Reached(standing', seen) => next.pc = "idle"
  <2>1. Idle \in Steps /\ Idle.pc = "idle"
    BY SkipVoteAssumption DEF Idle, Steps, Silence, AnyTrackPlaying
  <2>2. track \in 0 .. Silence
    BY SkipVoteAssumption DEF VoteTypeOK, Silence
  <2>3. PICK s : s = [Idle EXCEPT !.pc = "skip", !.of = track]
    OBVIOUS
  <2>4. s = [pc |-> "skip", by |-> {}, of |-> track, seen |-> {}]
    BY <2>3 DEF Idle
  <2>5. s \in Steps /\ s.pc = "skip" /\ s.of = track
    BY <2>2, <2>4 DEF Steps
  <2> QED BY <2>1, <2>3, <2>5
<1> HIDE DEF next, seen
<1>5. step'[c] = next /\ \A d \in Counters \ {c} : step'[d] = step[d]
  BY <1>1, <1>3
<1>6. agreed' \in SUBSET VoteTracks /\ agreed \subseteq agreed'
  BY <1>1 DEF CountVotes, VoteTypeOK
<1>7. VoteTypeOK'
  <2>1. step' \in [Counters -> Steps]
    BY <1>1, <1>3, <1>4
  <2>2. older' \in [Rechecks -> SUBSET Counters]
    BY DEF Count, VoteTypeOK
  <2>3. standing' \in SUBSET Listeners
    BY <1>1, <1>2
  <2> QED BY <1>6, <2>1, <2>2, <2>3 DEF VoteTypeOK, Count, CountVotes
<1>8. LooksAnswered'
  BY <1>1, <1>4, <1>5, CountKeepsAnswers
<1>9. RechecksAny'
  BY <1>1, <1>4, <1>5 DEF RechecksAny, Count
<1>10. PassedIsAgreed'
  <2>1. Reached(standing', seen) => track \in agreed'
    BY <1>1, <1>2, ReachedIsEnough DEF CountVotes, seen
  <2> QED BY <1>4, <1>5, <1>6, <2>1 DEF PassedIsAgreed
<1>11. StandingVotesPass'
  <2> SUFFICES ASSUME VoteAtRest', standing' # {}
               PROVE  /\ standing' \subseteq present'
                      /\ Cardinality(standing') < SkipVotesNeeded(Cardinality(present'))
    BY DEF StandingVotesPass
  <2>1. ~Reached(standing', seen)
    BY <1>4, <1>5 DEF VoteAtRest, Count
  <2>2. seen \subseteq present /\ present' = present /\ present \in SUBSET Listeners
    <3>1. \A k \in Rechecks : step[k].pc # "armed"
      BY <1>1, <1>5 DEF VoteAtRest, Count
    <3> QED BY <3>1 DEF LooksAnswered, Count, VoteTypeOK, seen
  <2> QED BY <1>2, <2>1, <2>2, FewStayFew
<1> QED BY <1>6, <1>7, <1>8, <1>9, <1>10, <1>11 DEF VoteSkipsItsTrack, Count

\* A count about a track that is gone changes no vote.
LEMMA CountsNothingInv ==
    ASSUME VoteInv, NEW c \in Counters, Count(c), CountsNothing(c)
    PROVE  VoteInv'
<1> USE DEF VoteInv
<1>1. /\ step \in [Counters -> Steps] /\ Rechecks \subseteq Counters
      /\ Idle \in Steps /\ Idle.pc = "idle"
  BY SkipVoteAssumption DEF VoteTypeOK, Counters, Idle, Steps, Silence, AnyTrackPlaying
<1>2. step'[c] = Idle /\ \A d \in Counters \ {c} : step'[d] = step[d]
  BY <1>1 DEF CountsNothing
<1>3. VoteTypeOK'
  <2>1. older' \in [Rechecks -> SUBSET Counters]
    BY DEF Count, VoteTypeOK
  <2> QED BY <1>1, <2>1 DEF VoteTypeOK, Count, CountsNothing
<1>4. LooksAnswered'
  BY <1>1, <1>2, CountKeepsAnswers
<1>5. RechecksAny' /\ PassedIsAgreed' /\ VoteSkipsItsTrack'
  BY <1>1, <1>2 DEF RechecksAny, PassedIsAgreed, VoteSkipsItsTrack, Count, CountsNothing
<1>6. StandingVotesPass'
  <2>1. VoteAtRest' /\ standing # {} => VoteAtRest
    <3>1. c \in Rechecks => standing = {}
      BY DEF RechecksAny, Count, CountsNothing
    <3> QED BY <1>1, <1>2, <3>1 DEF VoteAtRest, Count
  <2> QED BY <2>1 DEF StandingVotesPass, Count, CountsNothing
<1> QED BY <1>3, <1>4, <1>5, <1>6

\* The advance skips the track that was agreed on or nothing.
LEMMA VoteAdvancesInv ==
    ASSUME VoteInv, NEW c \in Counters, VoteAdvances(c)
    PROVE  VoteInv'
<1> USE DEF VoteInv
<1>1. /\ step \in [Counters -> Steps] /\ Rechecks \subseteq Counters
      /\ Idle \in Steps /\ Idle.pc = "idle"
  BY SkipVoteAssumption DEF VoteTypeOK, Counters, Idle, Steps, Silence, AnyTrackPlaying
<1>2. step'[c] = Idle /\ \A d \in Counters \ {c} : step'[d] = step[d]
  BY <1>1 DEF VoteAdvances
<1>3. LooksAnswered' /\ PassedIsAgreed'
  BY <1>1, <1>2 DEF LooksAnswered, PassedIsAgreed, VoteAdvances
<1>4. CASE StillVotedOn(c) /\ ToNextTrack /\ votedOff' = votedOff \cup {track}
  <2>1. standing' = {} /\ restored' = FALSE
    BY <1>4 DEF ToNextTrack
  <2>2. track' \in 1 .. Silence /\ track \in VoteTracks
    BY <1>4, SkipVoteAssumption DEF VoteTypeOK, VoteTracks, ToNextTrack, Silence
  <2>3. track \in agreed
    BY <1>4 DEF StillVotedOn, PassedIsAgreed, VoteAdvances
  <2>4. VoteTypeOK'
    BY <1>1, <1>4, <2>1, <2>2 DEF VoteTypeOK, VoteAdvances
  <2> QED BY <1>1, <1>2, <1>3, <1>4, <2>1, <2>3, <2>4
      DEF RechecksAny, StandingVotesPass, VoteSkipsItsTrack, VoteAdvances
<1>5. CASE ~StillVotedOn(c) /\ UNCHANGED <<track, standing, restored, votedOff>>
  <2>1. VoteTypeOK'
    BY <1>1, <1>5 DEF VoteTypeOK, VoteAdvances
  <2>2. VoteAtRest' => VoteAtRest
    BY <1>1, <1>2, <1>5 DEF VoteAtRest, StillVotedOn, VoteAdvances
  <2> QED BY <1>1, <1>2, <1>3, <1>5, <2>1, <2>2
      DEF RechecksAny, StandingVotesPass, VoteSkipsItsTrack, VoteAdvances
<1> QED BY <1>4, <1>5 DEF VoteAdvances

\* Every step of the vote keeps it in order.
LEMMA VoteStepInv == VoteInv /\ [VoteNext]_voteVars => VoteInv'
<1> SUFFICES ASSUME VoteInv, [VoteNext]_voteVars PROVE VoteInv'
  OBVIOUS
<1>1. CASE UNCHANGED voteVars
  BY <1>1 DEF voteVars, VoteInv, VoteTypeOK, LooksAnswered, RechecksAny, PassedIsAgreed,
              StandingVotesPass, VoteAtRest, VoteSkipsItsTrack
<1>2. CASE TrackChanges \/ RestartVote \/ EvictVotes
  BY <1>2, TrackChangesInv, RestartVoteInv, EvictVotesInv
<1>3. ASSUME NEW v \in Listeners, JoinRoom(v) \/ \E k \in Rechecks : LeaveRoom(v, k)
      PROVE  VoteInv'
  BY <1>3, JoinRoomInv, LeaveRoomInv
<1>4. ASSUME NEW c \in Voting, VoteSkip(c) PROVE VoteInv'
  BY <1>4, VoteSkipInv
<1>5. ASSUME NEW k \in Rechecks, GraceOver(k) PROVE VoteInv'
  BY <1>5, GraceOverInv
<1>6. ASSUME NEW c \in Counters, Count(c) \/ VoteAdvances(c) PROVE VoteInv'
  <2>1. Count(c) => CountVotes(c) \/ CountsNothing(c)
    BY DEF Count
  <2> QED BY <1>6, <2>1, CountVotesInv, CountsNothingInv, VoteAdvancesInv
<1> QED BY <1>1, <1>2, <1>3, <1>4, <1>5, <1>6 DEF VoteNext

\* The vote is in order in every reachable state.
LEMMA VoteInvariance == VoteSpec => []VoteInv
<1> QED BY VoteInitInv, VoteStepInv, PTL DEF VoteSpec

\* Whenever no re-check is owed and no skip is under way, whoever stands for a skip is
\* in the room and they are too few for the listeners there: a departure completes the
\* vote it should, however many listeners, steps and re-checks interleave.
THEOREM DeparturesCount == VoteSpec => []StandingVotesPass
<1>1. VoteInv => StandingVotesPass
  BY DEF VoteInv
<1> QED BY <1>1, VoteInvariance, PTL

\* A vote skips no track but one that enough of the listeners agreed on.
THEOREM VotesSkipWhatWasAgreed == VoteSpec => []VoteSkipsItsTrack
<1>1. VoteInv => VoteSkipsItsTrack
  BY DEF VoteInv
<1> QED BY <1>1, VoteInvariance, PTL

-----------------------------------------------------------------------------
(***************************************************************************)
(* The video ticker.  A loop that is not stopped is the registered one, so *)
(* there is one at most; and whoever made the room want beats is still on  *)
(* the way to start one.                                                   *)
(***************************************************************************)

\* A loop nobody has stopped is the registered one.
LoopsAreRegistered == \A l \in Loops \ stopped : loop[l] # "free" => l = ticker

\* The registered loop runs on an open channel.
TickerRuns == ticker # NoLoop => ticker \notin stopped /\ loop[ticker] # "free"

\* A channel is closed only while its goroutine is there to see it.
StoppedRun == \A l \in stopped : loop[l] # "free"

\* A room that wants beats and has no ticker has somebody on the way to start one.
StarterComes ==
    WantsBeats /\ ~mislaid /\ ticker = NoLoop =>
        \E c \in Reconcilers : caller[c] \in {"looks", "start"}

BeatInv == BeatTypeOK /\ LoopsAreRegistered /\ TickerRuns /\ StoppedRun /\ StarterComes

\* Closing the registered channel leaves no loop unstopped and none stopped twice.
LEMMA StopHeartbeatInv ==
    ASSUME BeatTypeOK, LoopsAreRegistered, TickerRuns, StoppedRun,
           StopHeartbeat, loop' = loop
    PROVE  /\ ticker' = NoLoop /\ stopped' \subseteq Loops
           /\ LoopsAreRegistered' /\ TickerRuns' /\ StoppedRun'
<1>1. ticker' = NoLoop /\ stopped' = stopped \cup ({ticker} \ {NoLoop})
  BY DEF StopHeartbeat
<1>2. stopped' \subseteq Loops
  BY <1>1 DEF BeatTypeOK
<1>3. \A l \in Loops \ stopped' : loop'[l] = "free"
  BY <1>1, HeartbeatAssumption DEF LoopsAreRegistered
<1>4. StoppedRun'
  BY <1>1 DEF StoppedRun, TickerRuns
<1> QED BY <1>1, <1>2, <1>3, <1>4 DEF LoopsAreRegistered, TickerRuns

\* A goroutine that returns leaves its loop free and its channel gone.
LEMMA ReturnsInv ==
    ASSUME BeatTypeOK, StoppedRun, NEW l \in Loops, Returns(l)
    PROVE  /\ loop' \in [Loops -> {"free", "waits", "counts", "beats", "ends"}]
           /\ loop'[l] = "free" /\ \A m \in Loops \ {l} : loop'[m] = loop[m]
           /\ stopped' = stopped \ {l} /\ stopped' \subseteq Loops /\ StoppedRun'
BY DEF BeatTypeOK, Returns, StoppedRun

\* The room changes and its reconciliation begins.
LEMMA RoomChangesInv ==
    ASSUME BeatInv, NEW c \in Reconcilers, Mutation(c) \/ Arrival(c)
    PROVE  BeatInv'
<1> USE DEF BeatInv
<1>1. caller' = [caller EXCEPT ![c] = "looks"] /\ UNCHANGED <<ticker, loop, stopped, mislaid>>
  BY DEF Mutation, Arrival
<1>2. caller'[c] = "looks"
  BY <1>1 DEF BeatTypeOK
<1>3. BeatTypeOK'
  BY <1>1 DEF BeatTypeOK, Mutation, Arrival
<1> QED BY <1>1, <1>2, <1>3 DEF LoopsAreRegistered, TickerRuns, StoppedRun, StarterComes

\* A refused mutation mislays, a departure and an eviction want less.
LEMMA RoomLeftInv ==
    ASSUME BeatInv, RefusedMutation \/ LastLeaves \/ EvictIdle \/ StopHeartbeats
    PROVE  BeatInv'
<1> USE DEF BeatInv
<1>1. CASE RefusedMutation \/ LastLeaves
  BY <1>1 DEF RefusedMutation, LastLeaves, BeatTypeOK, LoopsAreRegistered, TickerRuns, StoppedRun,
              StarterComes, WantsBeats
<1>2. CASE EvictIdle \/ StopHeartbeats
  <2>1. StopHeartbeat /\ UNCHANGED <<videoPlays, inhabited, loop, caller>>
    BY <1>2 DEF EvictIdle, StopHeartbeats
  <2>2. /\ ticker' = NoLoop /\ stopped' \subseteq Loops
        /\ LoopsAreRegistered' /\ TickerRuns' /\ StoppedRun'
    BY <2>1, StopHeartbeatInv
  <2>3. (resident' = FALSE /\ mislaid' = mislaid) \/ (resident' = resident /\ mislaid' = TRUE)
    BY <1>2 DEF EvictIdle, StopHeartbeats
  <2>4. BeatTypeOK'
    BY <2>1, <2>2, <2>3 DEF BeatTypeOK
  <2> QED BY <2>2, <2>3, <2>4 DEF StarterComes, WantsBeats
<1> QED BY <1>1, <1>2

\* What the caller reads is what the room wants, unless nobody is in it.
LEMMA ReadsRoomInv ==
    ASSUME BeatInv, NEW c \in Reconcilers, ReadsRoom(c)
    PROVE  BeatInv'
<1> USE DEF BeatInv
<1>1. /\ caller' = [caller EXCEPT ![c] = IF resident /\ videoPlays THEN "start" ELSE "stop"]
      /\ UNCHANGED <<resident, videoPlays, inhabited, ticker, loop, stopped, mislaid>>
  BY DEF ReadsRoom
<1>2. BeatTypeOK'
  BY <1>1 DEF BeatTypeOK
<1>3. LoopsAreRegistered' /\ TickerRuns' /\ StoppedRun'
  BY <1>1 DEF LoopsAreRegistered, TickerRuns, StoppedRun
<1>4. StarterComes'
  <2>1. WantsBeats' => caller'[c] = "start"
    BY <1>1 DEF WantsBeats, BeatTypeOK
  <2> QED BY <2>1 DEF StarterComes
<1> QED BY <1>2, <1>3, <1>4

\* A ticker is started only where none is registered.
LEMMA StartsTickerInv ==
    ASSUME BeatInv, NEW c \in Reconcilers, StartsTicker(c)
    PROVE  BeatInv'
<1> USE DEF BeatInv
<1>1. /\ caller' = [caller EXCEPT ![c] = "idle"]
      /\ UNCHANGED <<resident, videoPlays, inhabited, stopped>>
  BY DEF StartsTicker
<1>2. caller' \in [Reconcilers -> {"idle", "looks", "start", "stop"}]
  BY <1>1 DEF BeatTypeOK
<1>3. CASE ticker # NoLoop /\ UNCHANGED <<ticker, loop, mislaid>>
  BY <1>1, <1>2, <1>3 DEF BeatTypeOK, LoopsAreRegistered, TickerRuns, StoppedRun, StarterComes
<1>4. ASSUME ticker = NoLoop, NEW l \in Loops, Starts(l)
      PROVE  BeatInv'
  <2>1. /\ loop[l] = "free" /\ ticker' = l /\ mislaid' = FALSE
        /\ loop' = [loop EXCEPT ![l] = "waits"]
    BY <1>4 DEF Starts
  <2>2. loop'[l] = "waits" /\ \A m \in Loops \ {l} : loop'[m] = loop[m]
    BY <2>1 DEF BeatTypeOK
  <2>3. l \notin stopped
    BY <2>1 DEF StoppedRun
  <2>4. BeatTypeOK'
    BY <1>1, <1>2, <2>1 DEF BeatTypeOK
  <2>5. LoopsAreRegistered'
    BY <1>1, <1>4, <2>1, <2>2, HeartbeatAssumption DEF LoopsAreRegistered
  <2>6. TickerRuns'
    BY <1>1, <2>1, <2>2, <2>3 DEF TickerRuns
  <2>7. StoppedRun'
    BY <1>1, <2>2 DEF StoppedRun, BeatTypeOK
  <2>8. StarterComes'
    BY <2>1, HeartbeatAssumption DEF StarterComes
  <2> QED BY <2>4, <2>5, <2>6, <2>7, <2>8
<1> QED BY <1>3, <1>4 DEF StartsTicker

\* A ticker that is stopped although the room wants it is mislaid.
LEMMA StopsTickerInv ==
    ASSUME BeatInv, NEW c \in Reconcilers, StopsTicker(c)
    PROVE  BeatInv'
<1> USE DEF BeatInv
<1>1. /\ caller' = [caller EXCEPT ![c] = "idle"] /\ caller[c] = "stop" /\ StopHeartbeat
      /\ mislaid' = (mislaid \/ (ticker # NoLoop /\ WantsBeats))
      /\ UNCHANGED <<resident, videoPlays, inhabited, loop>>
  BY DEF StopsTicker
<1>2. /\ ticker' = NoLoop /\ stopped' \subseteq Loops
      /\ LoopsAreRegistered' /\ TickerRuns' /\ StoppedRun'
  BY <1>1, StopHeartbeatInv
<1>3. BeatTypeOK'
  BY <1>1, <1>2 DEF BeatTypeOK
<1>4. StarterComes'
  <2> SUFFICES ASSUME WantsBeats', ~mislaid'
               PROVE  \E d \in Reconcilers : caller'[d] \in {"looks", "start"}
    BY DEF StarterComes
  <2>1. WantsBeats /\ ~mislaid /\ ticker = NoLoop
    BY <1>1 DEF WantsBeats
  <2>2. PICK d \in Reconcilers : caller[d] \in {"looks", "start"}
    BY <2>1 DEF StarterComes
  <2>3. d # c /\ caller'[d] = caller[d]
    BY <1>1, <2>2 DEF BeatTypeOK
  <2> QED BY <2>2, <2>3
<1> QED BY <1>2, <1>3, <1>4

\* A loop that waits, ticks or beats stays what it is.
LEMMA LoopRunsInv ==
    ASSUME BeatInv, NEW l \in Loops, Tick(l) \/ CountsMembers(l) \/ Beats(l)
    PROVE  BeatInv'
<1> USE DEF BeatInv
<1>1. /\ loop[l] \in {"waits", "counts", "beats"}
      /\ \E next \in {"waits", "counts", "beats", "ends"} : loop' = [loop EXCEPT ![l] = next]
      /\ UNCHANGED <<resident, videoPlays, inhabited, ticker, stopped, caller, mislaid>>
  BY DEF Tick, CountsMembers, Beats
<1>2. loop'[l] \in {"waits", "counts", "beats", "ends"} /\ \A m \in Loops \ {l} : loop'[m] = loop[m]
  BY <1>1 DEF BeatTypeOK
<1>3. BeatTypeOK'
  BY <1>1 DEF BeatTypeOK
<1>4. \A m \in Loops : loop'[m] = "free" <=> loop[m] = "free"
  BY <1>1, <1>2
<1>5. LoopsAreRegistered'
  BY <1>1, <1>4 DEF LoopsAreRegistered
<1>6. TickerRuns' /\ StoppedRun'
  BY <1>1, <1>4 DEF TickerRuns, StoppedRun, BeatTypeOK
<1>7. StarterComes'
  BY <1>1 DEF StarterComes, WantsBeats
<1> QED BY <1>3, <1>5, <1>6, <1>7

\* A loop that sees its channel closed was not the registered one any more.
LEMMA LoopStopsInv ==
    ASSUME BeatInv, NEW l \in Loops, LoopStops(l)
    PROVE  BeatInv'
<1> USE DEF BeatInv
<1>1. /\ l \in stopped /\ Returns(l)
      /\ UNCHANGED <<resident, videoPlays, inhabited, ticker, caller, mislaid>>
  BY DEF LoopStops
<1>2. /\ loop' \in [Loops -> {"free", "waits", "counts", "beats", "ends"}]
      /\ loop'[l] = "free" /\ \A m \in Loops \ {l} : loop'[m] = loop[m]
      /\ stopped' = stopped \ {l} /\ stopped' \subseteq Loops /\ StoppedRun'
  BY <1>1, ReturnsInv
<1>3. BeatTypeOK'
  BY <1>1, <1>2 DEF BeatTypeOK
<1>4. LoopsAreRegistered'
  BY <1>1, <1>2 DEF LoopsAreRegistered
<1>5. TickerRuns'
  BY <1>1, <1>2 DEF TickerRuns, BeatTypeOK
<1>6. StarterComes'
  BY <1>1 DEF StarterComes, WantsBeats
<1> QED BY <1>2, <1>3, <1>4, <1>5, <1>6

\* A stale loop ends without taking a newer ticker with it.
LEMMA EndHeartbeatInv ==
    ASSUME BeatInv, NEW l \in Loops, EndHeartbeat(l)
    PROVE  BeatInv'
<1> USE DEF BeatInv
<1>1. Returns(l) /\ UNCHANGED <<resident, videoPlays, inhabited, caller>>
  BY DEF EndHeartbeat
<1>2. /\ loop' \in [Loops -> {"free", "waits", "counts", "beats", "ends"}]
      /\ loop'[l] = "free" /\ \A m \in Loops \ {l} : loop'[m] = loop[m]
      /\ stopped' = stopped \ {l} /\ stopped' \subseteq Loops /\ StoppedRun'
  BY <1>1, ReturnsInv
<1>3. CASE ticker = l /\ ticker' = NoLoop /\ mislaid' = (mislaid \/ WantsBeats)
  <2>1. BeatTypeOK'
    BY <1>1, <1>2, <1>3 DEF BeatTypeOK
  <2>2. LoopsAreRegistered' /\ TickerRuns'
    BY <1>2, <1>3 DEF LoopsAreRegistered, TickerRuns
  <2>3. StarterComes'
    BY <1>1, <1>3 DEF StarterComes, WantsBeats
  <2> QED BY <1>2, <2>1, <2>2, <2>3
<1>4. CASE ticker # l /\ UNCHANGED <<ticker, mislaid>>
  <2>1. BeatTypeOK'
    BY <1>1, <1>2, <1>4 DEF BeatTypeOK
  <2>2. LoopsAreRegistered'
    BY <1>2, <1>4 DEF LoopsAreRegistered
  <2>3. TickerRuns'
    BY <1>2, <1>4 DEF TickerRuns, BeatTypeOK
  <2>4. StarterComes'
    BY <1>1, <1>4 DEF StarterComes, WantsBeats
  <2> QED BY <1>2, <2>1, <2>2, <2>3, <2>4
<1> QED BY <1>3, <1>4 DEF EndHeartbeat, RegisteredItself

\* Every step keeps the ticker in hand.
LEMMA BeatStepInv == BeatInv /\ [BeatNext]_beatVars => BeatInv'
<1> SUFFICES ASSUME BeatInv, [BeatNext]_beatVars PROVE BeatInv'
  OBVIOUS
<1>1. CASE UNCHANGED beatVars
  BY <1>1 DEF beatVars, BeatInv, BeatTypeOK, LoopsAreRegistered, TickerRuns, StoppedRun,
              StarterComes, WantsBeats
<1>2. CASE RefusedMutation \/ LastLeaves \/ EvictIdle \/ StopHeartbeats
  BY <1>2, RoomLeftInv
<1>3. ASSUME NEW c \in Reconcilers,
             Mutation(c) \/ Arrival(c) \/ ReadsRoom(c) \/ StartsTicker(c) \/ StopsTicker(c)
      PROVE  BeatInv'
  BY <1>3, RoomChangesInv, ReadsRoomInv, StartsTickerInv, StopsTickerInv
<1>4. ASSUME NEW l \in Loops,
             LoopStops(l) \/ Tick(l) \/ CountsMembers(l) \/ Beats(l) \/ EndHeartbeat(l)
      PROVE  BeatInv'
  BY <1>4, LoopRunsInv, LoopStopsInv, EndHeartbeatInv
<1> QED BY <1>1, <1>2, <1>3, <1>4 DEF BeatNext

\* The ticker is in hand in every reachable state.
LEMMA BeatInvariance == BeatSpec => []BeatInv
<1>1. BeatInit => BeatInv
  BY DEF BeatInit, BeatInv, BeatTypeOK, LoopsAreRegistered, TickerRuns, StoppedRun, StarterComes,
         WantsBeats
<1> QED BY <1>1, BeatStepInv, PTL DEF BeatSpec

\* However many calls, loops, evictions and shutdowns race, a room has at most one
\* ticker that is not told to stop, it is the one that can be told, and it has one when
\* it wants beats, nobody is about to look and none was mislaid.
THEOREM TickerInHand == BeatSpec => []OneTicker
<1>1. BeatInv => OneTicker
  BY DEF BeatInv, BeatTypeOK, LoopsAreRegistered, TickerRuns, StarterComes, OneTicker
<1> QED BY <1>1, BeatInvariance, PTL

-----------------------------------------------------------------------------
(* The hub as it is checked *)

\* A behaviour of the hub is one of each of its parts, those at rest included.
THEOREM HubIsItsParts == HubSpec => Spec /\ VoteSpec /\ BeatSpec
<1>1. HubInit => Init /\ VoteInit /\ BeatInit
  BY DEF HubInit
<1>2. [HubNext]_hubVars => [Next]_vars /\ [VoteNext]_voteVars /\ [BeatNext]_beatVars
  BY DEF HubNext, hubVars
<1> QED BY <1>1, <1>2, PTL DEF HubSpec, Spec, VoteSpec, BeatSpec

\* Every variable of the hub's parts keeps its type.
THEOREM HubTypes == HubSpec => []HubTypeOK
<1>1. VoteInv => VoteTypeOK
  BY DEF VoteInv
<1>2. BeatInv => BeatTypeOK
  BY DEF BeatInv
<1> QED BY <1>1, <1>2, HubIsItsParts, LocksExclude, VoteInvariance, BeatInvariance, PTL
    DEF HubTypeOK
===============================================================================
