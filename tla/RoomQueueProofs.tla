---------------------------- MODULE RoomQueueProofs ----------------------------
(***************************************************************************)
(* Proofs about RoomQueue, for every set of tracks and voters and every    *)
(* cap: its invariants, and what a step may never do (every change has a   *)
(* version of its own, a playing room has a clock, the history is in the   *)
(* order of play, no vote outlives its track).                             *)
(***************************************************************************)
EXTENDS RoomQueue, SequenceFacts, FiniteSetTheorems

-----------------------------------------------------------------------------
(* Sequences without duplicates *)

\* Position finds the one place of an element.
LEMMA PositionFacts ==
    ASSUME NEW S, NEW s \in Seq(S), NEW id \in Range(s)
    PROVE  Position(s, id) \in 1 .. Len(s) /\ s[Position(s, id)] = id
BY DEF Position, Range

\* Removing an element drops exactly that element.
LEMMA WithoutFacts ==
    ASSUME NEW S, NEW s \in Seq(S), IsInjective(s), NEW id \in Range(s)
    PROVE  /\ Without(s, id) \in Seq(S)
           /\ Len(Without(s, id)) = Len(s) - 1
           /\ IsInjective(Without(s, id))
           /\ Range(Without(s, id)) = Range(s) \ {id}
BY PositionFacts, RemoveOneFacts DEF Without

\* Capped cuts to MaxHistory and nothing else.
LEMMA CappedFacts ==
    ASSUME NEW S, NEW h \in Seq(S)
    PROVE  /\ Capped(h) \in Seq(S) /\ Len(Capped(h)) <= MaxHistory
           /\ Range(Capped(h)) \subseteq Range(h)
           /\ IsInjective(h) => IsInjective(Capped(h))
<1>1. MaxHistory \in Nat
  BY RoomQueueAssumption
<1>2. CASE Len(h) > MaxHistory
  <2>1. MaxHistory \in 0 .. Len(h) /\ 1 \in 1 .. Len(h) + 1
    BY <1>1, <1>2
  <2> QED BY <1>1, <1>2, <2>1, SubSeqFacts DEF Capped
<1>3. CASE ~(Len(h) > MaxHistory)
  BY <1>1, <1>3 DEF Capped
<1> QED BY <1>2, <1>3

-----------------------------------------------------------------------------
(* What the building blocks of the actions establish *)

\* A mutation that plays np with a well-formed transport of np keeps the clock.
LEMMA CommitFacts ==
    ASSUME TypeOK, NEW np \in TrackIds \cup {NoTrack}, NEW bumps \in Nat,
           NEW tr \in Transports, tr.state # "none" => tr.anchor = np,
           tr.overrun => tr.state # "none" /\ np # NoTrack, Commit(np, tr, bumps)
    PROVE  /\ resident /\ resident' /\ nowPlaying' = np
           /\ transport' \in Transports /\ ClockFollowsTrack'
           /\ version' \in Nat /\ version' >= version + bumps
           /\ SyncEnabled /\ np # NoTrack => transport'.state # "none"
           /\ transport' # tr => version' > version
<1> DEFINE start == SyncEnabled /\ np # NoTrack /\ tr.state = "none"
<1>1. /\ resident /\ resident' /\ nowPlaying' = np
      /\ version' = version + bumps + (IF start THEN 1 ELSE 0)
      /\ transport' = IF start THEN Clock("playing", np, FALSE) ELSE tr
  BY DEF Commit
<1>2. version' \in Nat /\ version' >= version + bumps
      /\ (start => version' > version)
  BY <1>1 DEF TypeOK
<1>3. CASE start
  <2>1. transport' = Clock("playing", np, FALSE)
    BY <1>1, <1>3
  <2>2. /\ transport' \in Transports /\ transport'.anchor = np
        /\ transport'.overrun = FALSE /\ transport'.state = "playing"
    BY <2>1 DEF Transports, Clock
  <2> QED BY <1>1, <1>2, <1>3, <2>2 DEF ClockFollowsTrack
<1>4. CASE ~start
  <2>1. transport' = tr
    BY <1>1, <1>4
  <2>2. ClockFollowsTrack'
    BY <1>1, <2>1 DEF ClockFollowsTrack
  <2>3. SyncEnabled /\ np # NoTrack => transport'.state # "none"
    BY <1>4, <2>1
  <2> QED BY <1>1, <1>2, <2>1, <2>2, <2>3
<1> QED BY <1>3, <1>4

\* A mutation that does not move playback leaves clock and pointer consistent.
LEMMA StayFacts ==
    ASSUME IInv, NEW bumps \in Nat, Stay(bumps)
    PROVE  /\ resident /\ resident' /\ nowPlaying' = nowPlaying
           /\ transport' \in Transports /\ ClockFollowsTrack'
           /\ version' \in Nat /\ version' >= version + bumps
           /\ SyncEnabled /\ nowPlaying # NoTrack => transport'.state # "none"
           /\ transport' # transport => version' > version
<1>1. TypeOK /\ ClockFollowsTrack /\ Commit(nowPlaying, transport, bumps)
  BY DEF IInv, Stay
<1> QED BY <1>1, CommitFacts DEF TypeOK, ClockFollowsTrack

\* Moving playback to np clears the skip votes of the track it leaves.
LEMMA SwitchFacts ==
    ASSUME IInv, NEW np \in TrackIds \cup {NoTrack}, NEW bumps \in Nat,
           SwitchTo(np, bumps)
    PROVE  /\ resident /\ resident' /\ nowPlaying' = np
           /\ transport' \in Transports /\ ClockFollowsTrack'
           /\ version' \in Nat /\ version' >= version + bumps
           /\ SyncEnabled /\ np # NoTrack => transport'.state # "none"
           /\ skipVotes' \subseteq Voters
           /\ np # nowPlaying => skipVotes' = {}
           /\ np = nowPlaying => skipVotes' = skipVotes
<1>1. TypeOK /\ ClockFollowsTrack /\ Commit(np, ReAnchored(np), bumps)
  BY DEF IInv, SwitchTo
<1>2. /\ ReAnchored(np) \in Transports
      /\ ReAnchored(np).state # "none" => ReAnchored(np).anchor = np
      /\ ReAnchored(np).overrun => ReAnchored(np).state # "none" /\ np # NoTrack
  <2>1. CASE np = nowPlaying \/ transport.state = "none"
    <3>1. ReAnchored(np) = transport
      BY <2>1 DEF ReAnchored
    <3>2. transport \in Transports /\ (transport.state = "none" => ~transport.overrun)
      BY <1>1, <2>1 DEF TypeOK, ClockFollowsTrack
    <3> QED BY <1>1, <2>1, <3>1, <3>2 DEF ClockFollowsTrack
  <2>2. CASE ~(np = nowPlaying \/ transport.state = "none")
    BY <1>1, <2>2 DEF ReAnchored, TypeOK, Transports, Clock
  <2> QED BY <2>1, <2>2
<1>3. /\ skipVotes' \subseteq Voters
      /\ np # nowPlaying => skipVotes' = {}
      /\ np = nowPlaying => skipVotes' = skipVotes
  BY <1>1 DEF SwitchTo, TypeOK
<1> QED BY <1>1, <1>2, <1>3, CommitFacts

\* Dropping the votes of some tracks leaves the other votes as they are.
LEMMA VotesWithoutFacts ==
    ASSUME TypeOK, NEW S
    PROVE  /\ VotesWithout(S) \in [TrackIds -> SUBSET Voters]
           /\ \A t \in TrackIds : WithinCap(VotesWithout(S)[t])
           /\ \A t \in TrackIds :
                VotesWithout(S)[t] = IF t \in S THEN {} ELSE votes[t]
<1>1. WithinCap({})
  BY FS_EmptySet, RoomQueueAssumption DEF WithinCap
<1> QED BY <1>1 DEF TypeOK, VotesWithout

\* Retiring the playing track: it leaves Queue for the front of History, with
\* its votes gone.
LEMMA RetireFacts ==
    ASSUME IInv, nowPlaying \in Range(queue), RetireNowPlaying
    PROVE  /\ RemainingQueue \in Seq(issued) /\ IsInjective(RemainingQueue)
           /\ Len(RemainingQueue) = Len(queue) - 1
           /\ Range(RemainingQueue) = Range(queue) \ {nowPlaying}
           /\ history' = Capped(<<nowPlaying>> \o history)
           /\ history' \in Seq(issued) /\ Len(history') <= MaxHistory
           /\ IsInjective(history')
           /\ Range(history') \subseteq Range(history) \cup {nowPlaying}
           /\ votes' = VotesWithout({nowPlaying})
<1>1. /\ queue \in Seq(issued) /\ IsInjective(queue) /\ nowPlaying \in issued
      /\ history \in Seq(issued) /\ IsInjective(history)
      /\ nowPlaying \notin Range(history)
  <2>1. queue \in Seq(issued) /\ nowPlaying \in issued
    BY InRange DEF IInv, TypeOK
  <2> QED BY <2>1 DEF IInv, TypeOK, NoTrackTwice
<1>2. RemainingQueue = Without(queue, nowPlaying)
  BY DEF RemainingQueue
<1>3. /\ <<nowPlaying>> \in Seq(issued) /\ IsInjective(<<nowPlaying>>)
      /\ Range(<<nowPlaying>>) = {nowPlaying}
  BY <1>1 DEF IsInjective, Range
<1>4. /\ <<nowPlaying>> \o history \in Seq(issued)
      /\ IsInjective(<<nowPlaying>> \o history)
      /\ Range(<<nowPlaying>> \o history) = Range(history) \cup {nowPlaying}
  <2>1. Range(<<nowPlaying>>) \cap Range(history) = {}
    BY <1>1, <1>3
  <2>2. /\ <<nowPlaying>> \in Seq(issued) /\ history \in Seq(issued)
        /\ IsInjective(<<nowPlaying>>) /\ IsInjective(history)
    BY <1>1, <1>3
  <2>3. /\ <<nowPlaying>> \o history \in Seq(issued)
        /\ IsInjective(<<nowPlaying>> \o history)
        /\ Range(<<nowPlaying>> \o history) = Range(<<nowPlaying>>) \cup Range(history)
    <3>1. ASSUME NEW s \in Seq(issued), NEW t \in Seq(issued)
          PROVE  /\ s \o t \in Seq(issued) /\ Range(s \o t) = Range(s) \cup Range(t)
                 /\ IsInjective(s) /\ IsInjective(t) /\ Range(s) \cap Range(t) = {}
                      => IsInjective(s \o t)
      BY ConcatFacts
    <3>2. PICK first : first = <<nowPlaying>>
      OBVIOUS
    <3>3. /\ first \o history \in Seq(issued) /\ IsInjective(first \o history)
          /\ Range(first \o history) = Range(first) \cup Range(history)
      BY <2>1, <2>2, <3>1, <3>2
    <3> QED BY <3>2, <3>3
  <2> QED BY <1>3, <2>3
<1>5. history' = Capped(<<nowPlaying>> \o history)
  BY DEF RetireNowPlaying
<1>6. votes' = VotesWithout({nowPlaying})
  <2>1. {nowPlaying} \cap Range(queue) = {nowPlaying}
    OBVIOUS
  <2> QED BY <2>1 DEF RetireNowPlaying
<1> QED BY <1>1, <1>2, <1>4, <1>5, <1>6, WithoutFacts, CappedFacts

-----------------------------------------------------------------------------
(* Every action preserves the invariant *)

\* Head and Tail of a sequence without duplicates.
LEMMA HeadTailFacts ==
    ASSUME NEW S, NEW s \in Seq(S), s # <<>>
    PROVE  /\ Head(s) \in S /\ Head(s) \in Range(s)
           /\ Tail(s) \in Seq(S) /\ Len(Tail(s)) = Len(s) - 1
           /\ Range(Tail(s)) \subseteq Range(s)
           /\ IsInjective(s) => IsInjective(Tail(s)) /\ Head(s) \notin Range(Tail(s))
<1> DEFINE t == Tail(s)
<1>1. /\ Len(s) >= 1 /\ Head(s) = s[1] /\ Head(s) \in S
      /\ t \in Seq(S) /\ Len(t) = Len(s) - 1
      /\ \A i \in 1 .. Len(t) : t[i] = s[i + 1] /\ i + 1 \in 1 .. Len(s)
  <2>1. Len(s) >= 1 /\ Head(s) = s[1] /\ Head(s) \in S
    OBVIOUS
  <2>2. t \in Seq(S) /\ Len(t) = Len(s) - 1
    OBVIOUS
  <2>3. ASSUME NEW i \in 1 .. Len(t) PROVE t[i] = s[i + 1] /\ i + 1 \in 1 .. Len(s)
    BY <2>2
  <2> QED BY <2>1, <2>2, <2>3
<1> HIDE DEF t
<1>2. Range(t) \subseteq Range(s) /\ Head(s) \in Range(s)
  BY <1>1, InRange
<1>3. ASSUME IsInjective(s) PROVE IsInjective(t)
  <2> SUFFICES ASSUME NEW i \in 1 .. Len(t), NEW j \in 1 .. Len(t), t[i] = t[j]
               PROVE  i = j
    BY <1>1 DEF IsInjective
  <2>1. s[i + 1] = s[j + 1] /\ i + 1 \in 1 .. Len(s) /\ j + 1 \in 1 .. Len(s)
    BY <1>1
  <2>2. i + 1 = j + 1
    BY <2>1, <1>3 DEF IsInjective
  <2> QED BY <2>2
<1>4. IsInjective(s) => Head(s) \notin Range(t)
  BY <1>1, InRange DEF IsInjective
<1> QED BY <1>1, <1>2, <1>3, <1>4 DEF t

\* Newly minted ids are distinct and unused.
LEMMA FreshFacts ==
    ASSUME NEW n \in Nat, NEW new \in FreshIds(n)
    PROVE  new \in Seq(TrackIds \ issued) /\ Len(new) <= n /\ IsInjective(new)
BY DEF FreshIds, BoundedSeq, SeqOf

\* New tracks are minted ids behind the queue; an idle room plays the first.
LEMMA AddTracksInv ==
    ASSUME IInv, NEW new \in Seq(TrackIds \ issued), new # <<>>, IsInjective(new),
           Len(queue) + Len(new) <= MaxQueueSize, AddTracks(new),
           refill' \in {"ready", "fetching", "cooling"}
    PROVE  IInv'
<1> DEFINE np == IF nowPlaying = NoTrack THEN Head(new) ELSE nowPlaying
<1>1. /\ TypeOK /\ QueueShape /\ NoTrackTwice /\ VotesFollowQueue
      /\ issued \subseteq TrackIds /\ queue \in Seq(issued) /\ history \in Seq(issued)
      /\ NoTrack \notin TrackIds
  BY RoomQueueAssumption DEF IInv, TypeOK
<1>2. /\ issued' = issued \cup Range(new)
      /\ queue' = IF nowPlaying = NoTrack THEN <<Head(new)>> \o queue \o Tail(new)
                  ELSE queue \o new
      /\ SwitchTo(np, Len(new))
      /\ history' = history /\ votes' = votes /\ radio' = radio
  BY DEF AddTracks
<1>3. /\ issued' \subseteq TrackIds /\ issued \subseteq issued'
      /\ Range(new) \subseteq issued' /\ Range(new) \cap issued = {}
      /\ queue \in Seq(issued') /\ history' \in Seq(issued') /\ new \in Seq(issued')
  <2>1. Range(new) \subseteq TrackIds \ issued
    BY InRange
  <2>2. new \in Seq(issued')
    <3>1. \A i \in 1 .. Len(new) : new[i] \in issued'
      BY <1>2, InRange
    <3> QED BY <3>1
  <2> QED BY <1>1, <1>2, <2>1, <2>2, SeqMonotone
<1>4. Head(new) \in Range(new) /\ np \in TrackIds \cup {NoTrack} /\ Len(new) \in Nat
  BY <1>1, HeadTailFacts DEF TypeOK
<1>5. /\ resident /\ resident' /\ nowPlaying' = np
      /\ transport' \in Transports /\ ClockFollowsTrack'
      /\ version' \in Nat /\ skipVotes' \subseteq Voters
  BY <1>2, <1>4, SwitchFacts
<1>6. Range(queue) \subseteq issued /\ Range(history) \subseteq issued
  BY <1>1, InRange
<1>7. /\ queue' \in Seq(issued') /\ Len(queue') = Len(queue) + Len(new)
      /\ IsInjective(queue') /\ Range(queue) \subseteq Range(queue')
      /\ Range(queue') \subseteq Range(queue) \cup Range(new)
      /\ queue' # <<>> /\ Head(queue') = np
  <2>1. CASE nowPlaying = NoTrack
    <3> DEFINE one == <<Head(new)>>
               rest == Tail(new)
    <3>1. queue = <<>>
      BY <1>1, <1>5, <2>1 DEF QueueShape
    <3>2. /\ one \in Seq(issued') /\ Len(one) = 1 /\ Head(one) = Head(new)
          /\ IsInjective(one) /\ Range(one) = {Head(new)} /\ one # <<>>
      <4>1. Head(new) \in issued'
        BY <1>3, <1>4
      <4>2. one \in Seq(issued') /\ Len(one) = 1 /\ one[1] = Head(new)
        BY <4>1
      <4> QED BY <4>2 DEF IsInjective, Range
    <3>3. one \o queue = one /\ Range(queue) = {} /\ Len(queue) = 0
      BY <3>1, <3>2 DEF Range
    <3>4. /\ rest \in Seq(issued') /\ Len(rest) = Len(new) - 1
          /\ Range(rest) \subseteq Range(new)
          /\ IsInjective(rest) /\ Head(new) \notin Range(rest)
      BY <1>3, HeadTailFacts
    <3>5. queue' = one \o rest
      BY <1>2, <2>1, <3>3
    <3> HIDE DEF one, rest
    <3>7. /\ one \in Seq(issued') /\ rest \in Seq(issued') /\ one # <<>>
          /\ IsInjective(one) /\ IsInjective(rest)
          /\ Range(one) \cap Range(rest) = {}
      BY <3>2, <3>4
    <3>6. /\ queue' \in Seq(issued') /\ Len(queue') = Len(one) + Len(rest)
          /\ Range(queue') = Range(one) \cup Range(rest)
          /\ Head(queue') = Head(one) /\ IsInjective(queue')
      BY <3>5, <3>7, ConcatFacts
    <3> QED BY <1>4, <2>1, <3>2, <3>3, <3>4, <3>6
  <2>2. CASE nowPlaying # NoTrack
    <3>1. queue # <<>> /\ Head(queue) = nowPlaying /\ queue' = queue \o new
      BY <1>1, <1>2, <1>5, <2>2 DEF QueueShape
    <3>2. IsInjective(queue) /\ Range(queue) \cap Range(new) = {}
      BY <1>1, <1>3, <1>6 DEF NoTrackTwice
    <3>3. /\ queue' \in Seq(issued') /\ Len(queue') = Len(queue) + Len(new)
          /\ Range(queue') = Range(queue) \cup Range(new)
          /\ Head(queue') = Head(queue) /\ IsInjective(queue')
      BY <1>3, <3>1, <3>2, ConcatFacts
    <3> QED BY <2>2, <3>1, <3>3
  <2> QED BY <2>1, <2>2
<1>8. TypeOK'
  <2>1. nowPlaying' \in issued' \cup {NoTrack}
    BY <1>1, <1>3, <1>4, <1>5 DEF TypeOK
  <2> QED BY <1>1, <1>2, <1>3, <1>5, <1>7, <2>1 DEF TypeOK
<1>9. QueueShape'
  <2>1. np # NoTrack
    BY <1>1, <1>3, <1>4
  <2> QED BY <1>5, <1>7, <2>1 DEF QueueShape
<1>10. NoTrackTwice'
  BY <1>1, <1>2, <1>3, <1>6, <1>7 DEF NoTrackTwice
<1>11. VotesFollowQueue'
  BY <1>1, <1>2, <1>7 DEF VotesFollowQueue
<1> QED BY <1>5, <1>8, <1>9, <1>10, <1>11 DEF IInv, StoredRow

\* Playback moves to the next upcoming track, or stops: the track it leaves is
\* played (RetireNowPlaying) or skipped unplayed.
LEMMA NextTrackInv ==
    ASSUME IInv, NEW bumps \in Nat, nowPlaying \in Range(queue),
           queue' = RemainingQueue, SwitchTo(NextUpcoming(queue'), bumps),
           RetireNowPlaying \/ (history' = history /\ votes' = VotesWithout({nowPlaying})),
           issued' = issued, radio' \in BOOLEAN,
           refill' \in {"ready", "fetching", "cooling"}
    PROVE  IInv'
<1>1. /\ TypeOK /\ QueueShape /\ NoTrackTwice /\ VotesFollowQueue
      /\ queue \in Seq(issued) /\ history \in Seq(issued) /\ issued \subseteq TrackIds
      /\ nowPlaying \in issued
  <2>1. queue \in Seq(issued)
    BY DEF IInv, TypeOK
  <2> QED BY <2>1, InRange DEF IInv, TypeOK
<1>2. /\ queue' \in Seq(issued) /\ IsInjective(queue') /\ Len(queue') = Len(queue) - 1
      /\ Range(queue') = Range(queue) \ {nowPlaying}
  BY <1>1, WithoutFacts DEF RemainingQueue, NoTrackTwice
<1>3. /\ history' \in Seq(issued) /\ Len(history') <= MaxHistory /\ IsInjective(history')
      /\ Range(history') \subseteq Range(history) \cup {nowPlaying}
      /\ votes' = VotesWithout({nowPlaying})
  <2>1. CASE RetireNowPlaying
    BY <2>1, RetireFacts
  <2>2. CASE history' = history /\ votes' = VotesWithout({nowPlaying})
    BY <1>1, <2>2 DEF TypeOK, NoTrackTwice
  <2> QED BY <2>1, <2>2
<1>4. /\ queue' = <<>> => NextUpcoming(queue') = NoTrack
      /\ queue' # <<>> => NextUpcoming(queue') = Head(queue') /\ Head(queue') \in issued
  BY <1>2, HeadTailFacts DEF NextUpcoming
<1>5. NextUpcoming(queue') \in TrackIds \cup {NoTrack}
  BY <1>1, <1>4
<1>6. /\ resident /\ resident' /\ nowPlaying' = NextUpcoming(queue')
      /\ transport' \in Transports /\ ClockFollowsTrack'
      /\ version' \in Nat /\ skipVotes' \subseteq Voters
  BY <1>5, SwitchFacts
<1>7. /\ votes' \in [TrackIds -> SUBSET Voters]
      /\ \A t \in TrackIds : WithinCap(votes'[t])
      /\ \A t \in TrackIds : votes'[t] = IF t = nowPlaying THEN {} ELSE votes[t]
  BY <1>1, <1>3, VotesWithoutFacts
<1>8. TypeOK'
  <2>1. Len(queue') <= MaxQueueSize
    BY <1>1, <1>2, RoomQueueAssumption DEF TypeOK
  <2>2. nowPlaying' \in issued' \cup {NoTrack}
    BY <1>4, <1>6
  <2> QED BY <1>1, <1>2, <1>3, <1>6, <1>7, <2>1, <2>2 DEF TypeOK
<1>9. QueueShape'
  BY <1>1, <1>4, <1>6, RoomQueueAssumption DEF QueueShape
<1>10. NoTrackTwice'
  BY <1>1, <1>2, <1>3 DEF NoTrackTwice
<1>11. VotesFollowQueue'
  BY <1>1, <1>2, <1>7 DEF VotesFollowQueue
<1> QED BY <1>6, <1>8, <1>9, <1>10, <1>11 DEF IInv, StoredRow

\* Jumping to an upcoming track puts it at the head and retires the playing one.
LEMMA JumpInv ==
    ASSUME IInv, NEW id \in Range(queue), Jump(id), resident, resident',
           nowPlaying' = id, transport' \in Transports, ClockFollowsTrack',
           version' \in Nat, skipVotes' \subseteq Voters,
           issued' = issued, radio' \in BOOLEAN,
           refill' \in {"ready", "fetching", "cooling"}
    PROVE  IInv'
<1>1. /\ TypeOK /\ QueueShape /\ NoTrackTwice /\ VotesFollowQueue
      /\ queue \in Seq(issued) /\ history \in Seq(issued) /\ issued \subseteq TrackIds
      /\ id \in issued
  <2>1. queue \in Seq(issued)
    BY DEF IInv, TypeOK
  <2> QED BY <2>1, InRange DEF IInv, TypeOK
<1>2. CASE id = nowPlaying
  <2>1. queue' = queue /\ history' = history /\ votes' = votes
    BY <1>2 DEF Jump
  <2>2. TypeOK' /\ NoTrackTwice' /\ VotesFollowQueue' /\ QueueShape'
    BY <1>1, <1>2, <2>1 DEF TypeOK, NoTrackTwice, VotesFollowQueue, QueueShape
  <2> QED BY <2>2 DEF IInv, StoredRow
<1>3. CASE id # nowPlaying
  <2> DEFINE rest == Without(RemainingQueue, id)
             one == <<id>>
  <2>1. queue' = one \o rest /\ RetireNowPlaying
    BY <1>3 DEF Jump
  <2>2. nowPlaying \in Range(queue)
    <3>1. queue # <<>> /\ Range(<<>>) = {}
      BY <1>1, InRange DEF Range
    <3>2. nowPlaying = Head(queue)
      BY <1>1, <3>1 DEF QueueShape
    <3> QED BY <1>1, <3>1, <3>2, HeadTailFacts
  <2>3. /\ RemainingQueue \in Seq(issued) /\ IsInjective(RemainingQueue)
        /\ Len(RemainingQueue) = Len(queue) - 1
        /\ Range(RemainingQueue) = Range(queue) \ {nowPlaying}
        /\ history' \in Seq(issued) /\ Len(history') <= MaxHistory
        /\ IsInjective(history')
        /\ Range(history') \subseteq Range(history) \cup {nowPlaying}
        /\ votes' = VotesWithout({nowPlaying})
    BY <2>1, <2>2, RetireFacts
  <2>4. id \in Range(RemainingQueue)
    BY <1>3, <2>3
  <2>5. /\ rest \in Seq(issued) /\ IsInjective(rest) /\ Len(rest) = Len(queue) - 2
        /\ Range(rest) = Range(queue) \ {nowPlaying, id}
    <3>1. /\ rest \in Seq(issued) /\ IsInjective(rest)
          /\ Len(rest) = Len(RemainingQueue) - 1
          /\ Range(rest) = Range(RemainingQueue) \ {id}
      BY <2>3, <2>4, WithoutFacts
    <3> QED BY <1>1, <2>3, <3>1
  <2>6. /\ one \in Seq(issued) /\ IsInjective(one) /\ Range(one) = {id}
        /\ one # <<>> /\ Head(one) = id /\ Len(one) = 1
    <3>1. one \in Seq(issued) /\ Len(one) = 1 /\ one[1] = id
      BY <1>1
    <3> QED BY <3>1 DEF IsInjective, Range
  <2> HIDE DEF one, rest
  <2>7. Range(one) \cap Range(rest) = {}
    BY <2>5, <2>6
  <2>8. /\ queue' \in Seq(issued) /\ Len(queue') = Len(one) + Len(rest)
        /\ Range(queue') = Range(one) \cup Range(rest)
        /\ Head(queue') = Head(one) /\ IsInjective(queue')
    BY <2>1, <2>5, <2>6, <2>7, ConcatFacts, ZenonT(30)
  <2>9. Len(queue') = Len(queue) - 1 /\ queue' # <<>>
    <3>1. Len(queue') >= 1
      BY <2>5, <2>6, <2>8
    <3> QED BY <1>1, <2>5, <2>6, <2>8, <3>1
  <2>10. /\ votes' \in [TrackIds -> SUBSET Voters]
         /\ \A t \in TrackIds : WithinCap(votes'[t])
         /\ \A t \in TrackIds : votes'[t] = IF t = nowPlaying THEN {} ELSE votes[t]
    BY <1>1, <2>3, VotesWithoutFacts
  <2>11. TypeOK'
    <3>1. Len(queue') <= MaxQueueSize
      BY <1>1, <2>9, RoomQueueAssumption DEF TypeOK
    <3> QED BY <1>1, <2>3, <2>8, <2>10, <3>1 DEF TypeOK
  <2>12. QueueShape'
    BY <1>1, <2>6, <2>8, <2>9, RoomQueueAssumption DEF QueueShape
  <2>13. NoTrackTwice'
    BY <1>1, <1>3, <2>3, <2>5, <2>6, <2>8 DEF NoTrackTwice
  <2>14. VotesFollowQueue'
    BY <1>1, <2>5, <2>6, <2>8, <2>10 DEF VotesFollowQueue
  <2> QED BY <2>11, <2>12, <2>13, <2>14 DEF IInv, StoredRow
<1> QED BY <1>2, <1>3

\* A mutation that moves no track: only votes, skip votes, clock or radio change.
LEMMA SameTracksInv ==
    ASSUME IInv, NEW bumps \in Nat, Stay(bumps),
           issued' = issued, queue' = queue, history' = history,
           votes' \in [TrackIds -> SUBSET Voters],
           \A t \in TrackIds : WithinCap(votes'[t]),
           \A t \in TrackIds : votes'[t] # {} => t \in Range(queue),
           skipVotes' \subseteq Voters, radio' \in BOOLEAN,
           refill' \in {"ready", "fetching", "cooling"}
    PROVE  IInv'
<1>1. /\ resident /\ resident' /\ nowPlaying' = nowPlaying
      /\ transport' \in Transports /\ ClockFollowsTrack' /\ version' \in Nat
  BY StayFacts
<1>2. TypeOK' /\ QueueShape' /\ NoTrackTwice' /\ VotesFollowQueue' /\ StoredRow'
  BY <1>1 DEF IInv, TypeOK, QueueShape, NoTrackTwice, VotesFollowQueue, StoredRow
<1> QED BY <1>1, <1>2 DEF IInv

\* The same for a transport command, which replaces the clock.
LEMMA CommandInv ==
    ASSUME IInv, NEW state \in {"playing", "paused", "unset"}, NEW late \in BOOLEAN,
           Reachable(nowPlaying, late), Commit(nowPlaying, Clock(state, nowPlaying, late), 1),
           UNCHANGED <<issued, queue, history, votes, skipVotes, radio, refill>>
    PROVE  IInv'
<1> DEFINE tr == Clock(state, nowPlaying, late)
<1>1. TypeOK /\ nowPlaying \in TrackIds \cup {NoTrack}
  BY DEF IInv, TypeOK
<1>2. /\ tr \in Transports /\ tr.anchor = nowPlaying /\ tr.state # "none"
      /\ tr.overrun => nowPlaying # NoTrack
  BY <1>1 DEF Clock, Transports, Reachable
<1>3. /\ resident /\ resident' /\ nowPlaying' = nowPlaying
      /\ transport' \in Transports /\ ClockFollowsTrack' /\ version' \in Nat
  BY <1>1, <1>2, CommitFacts
<1>4. TypeOK' /\ QueueShape' /\ NoTrackTwice' /\ VotesFollowQueue' /\ StoredRow'
  BY <1>3 DEF IInv, TypeOK, QueueShape, NoTrackTwice, VotesFollowQueue, StoredRow
<1> QED BY <1>3, <1>4 DEF IInv

\* A mutation of the upcoming tracks: the playing head stays, no track is added.
LEMMA UpcomingInv ==
    ASSUME IInv, Stay(1), issued' = issued, history' = history,
           queue' \in Seq(issued), IsInjective(queue'), Len(queue') <= Len(queue),
           Range(queue') \subseteq Range(queue),
           nowPlaying # NoTrack => queue' # <<>> /\ Head(queue') = nowPlaying,
           votes' \in [TrackIds -> SUBSET Voters],
           \A t \in TrackIds : WithinCap(votes'[t]),
           \A t \in TrackIds : votes'[t] # {} => t \in Range(queue'),
           skipVotes' = skipVotes, radio' = radio, refill' = refill
    PROVE  IInv'
<1>1. /\ resident /\ resident' /\ nowPlaying' = nowPlaying
      /\ transport' \in Transports /\ ClockFollowsTrack' /\ version' \in Nat
  BY StayFacts
<1>2. TypeOK'
  <2>1. Len(queue') <= MaxQueueSize
    BY RoomQueueAssumption DEF IInv, TypeOK
  <2> QED BY <1>1, <2>1 DEF IInv, TypeOK
<1>3. QueueShape'
  <2>1. CASE nowPlaying = NoTrack
    <3>1. Len(queue') = 0
      BY <1>1, <2>1 DEF IInv, QueueShape
    <3> QED BY <1>1, <2>1, <3>1 DEF QueueShape
  <2>2. CASE nowPlaying # NoTrack
    BY <1>1, <2>2 DEF QueueShape
  <2> QED BY <2>1, <2>2
<1>4. NoTrackTwice' /\ VotesFollowQueue' /\ StoredRow'
  BY <1>1 DEF IInv, NoTrackTwice, VotesFollowQueue, StoredRow
<1> QED BY <1>1, <1>2, <1>3, <1>4 DEF IInv

\* Removing an upcoming track takes its votes along.
LEMMA RemoveUpcomingInv ==
    ASSUME IInv, NEW id \in TrackIds, RemoveUpcoming(id) PROVE IInv'
<1>1. /\ TypeOK /\ QueueShape /\ queue \in Seq(issued) /\ IsInjective(queue)
      /\ id \in Range(queue) /\ id # nowPlaying /\ resident
  BY StayFacts DEF RemoveUpcoming, IInv, TypeOK, NoTrackTwice
<1>2. /\ queue' = Without(queue, id)
      /\ queue' \in Seq(issued) /\ IsInjective(queue') /\ Len(queue') = Len(queue) - 1
      /\ Range(queue') = Range(queue) \ {id}
  BY <1>1, WithoutFacts DEF RemoveUpcoming
<1>3. nowPlaying # NoTrack => queue' # <<>> /\ Head(queue') = nowPlaying
  <2> SUFFICES ASSUME nowPlaying # NoTrack
               PROVE  queue' # <<>> /\ Head(queue') = nowPlaying
    OBVIOUS
  <2>1. Len(queue) >= 1 /\ queue[1] = nowPlaying
    BY <1>1 DEF QueueShape
  <2> DEFINE p == Position(queue, id)
  <2>2. p \in 2 .. Len(queue)
    <3>1. p \in 1 .. Len(queue) /\ queue[p] = id
      BY <1>1, PositionFacts
    <3> QED BY <1>1, <2>1, <3>1
  <2>3. /\ SubSeq(queue, 1, p - 1) \in Seq(issued) /\ SubSeq(queue, 1, p - 1) # <<>>
        /\ Head(SubSeq(queue, 1, p - 1)) = nowPlaying
        /\ SubSeq(queue, p + 1, Len(queue)) \in Seq(issued)
    BY <1>1, <2>1, <2>2
  <2>4. queue' = SubSeq(queue, 1, p - 1) \o SubSeq(queue, p + 1, Len(queue))
    BY <1>2 DEF Without, RemoveAt
  <2>5. Head(queue') = nowPlaying
    BY <2>3, <2>4, ConcatFacts
  <2> QED BY <1>1, <1>2, <2>2, <2>5
<1>4. /\ votes' \in [TrackIds -> SUBSET Voters]
      /\ \A t \in TrackIds : WithinCap(votes'[t])
      /\ \A t \in TrackIds : votes'[t] # {} => t \in Range(queue')
  BY <1>1, <1>2, VotesWithoutFacts DEF RemoveUpcoming, IInv, VotesFollowQueue
<1>5. Len(queue') <= Len(queue) /\ Range(queue') \subseteq Range(queue)
  BY <1>1, <1>2
<1>6. /\ Stay(1) /\ issued' = issued /\ history' = history
      /\ skipVotes' = skipVotes /\ radio' = radio /\ refill' = refill
  BY DEF RemoveUpcoming
<1> QED BY <1>2, <1>3, <1>4, <1>5, <1>6, UpcomingInv

\* Clearing the queue keeps the playing head and its votes.
LEMMA QueueClearInv ==
    ASSUME IInv, QueueClear PROVE IInv'
<1>1. /\ TypeOK /\ QueueShape /\ queue \in Seq(issued) /\ resident /\ Stay(1)
  BY StayFacts DEF QueueClear, IInv, TypeOK
<1>2. /\ queue' = IF nowPlaying \in Range(queue) THEN <<nowPlaying>> ELSE <<>>
      /\ Len(queue) > Len(queue')
  BY DEF QueueClear
<1>3. CASE nowPlaying \in Range(queue)
  <2>1. queue' = <<nowPlaying>> /\ nowPlaying \in issued
    BY <1>1, <1>2, <1>3, InRange
  <2>2. /\ queue' \in Seq(issued) /\ Len(queue') = 1 /\ queue'[1] = nowPlaying
    BY <2>1
  <2>3. IsInjective(queue') /\ Range(queue') = {nowPlaying}
    BY <2>2 DEF IsInjective, Range
  <2>4. /\ votes' \in [TrackIds -> SUBSET Voters]
        /\ \A t \in TrackIds : WithinCap(votes'[t])
        /\ \A t \in TrackIds : votes'[t] # {} => t \in Range(queue')
    BY <1>1, <2>3, VotesWithoutFacts DEF QueueClear, IInv, VotesFollowQueue
  <2>5. /\ Len(queue') <= Len(queue) /\ Range(queue') \subseteq Range(queue)
        /\ queue' # <<>> /\ Head(queue') = nowPlaying
    BY <1>1, <1>2, <1>3, <2>2, <2>3
  <2>6. /\ issued' = issued /\ history' = history
        /\ skipVotes' = skipVotes /\ radio' = radio /\ refill' = refill
    BY DEF QueueClear
  <2> QED BY <1>1, <2>2, <2>3, <2>4, <2>5, <2>6, UpcomingInv
<1>4. CASE nowPlaying \notin Range(queue)
  <2>1. queue # <<>>
    BY <1>1, <1>2, <1>4
  <2>2. nowPlaying = Head(queue)
    BY <1>1, <2>1 DEF QueueShape
  <2> QED BY <1>1, <1>4, <2>1, <2>2, HeadTailFacts
<1> QED BY <1>3, <1>4

\* Reordering never moves a track to or from the playing head.
LEMMA QueueReorderInv ==
    ASSUME IInv, NEW id \in TrackIds, NEW to \in 1 .. MaxQueueSize, QueueReorder(id, to)
    PROVE  IInv'
<1> DEFINE k == Target(to)
           rest == Without(queue, id)
<1>1. /\ TypeOK /\ QueueShape /\ queue \in Seq(issued) /\ IsInjective(queue)
      /\ id \in Range(queue) /\ id \in issued /\ resident
      /\ ~(id = nowPlaying /\ Head(queue) = nowPlaying)
  <2>1. queue \in Seq(issued) /\ id \in Range(queue)
    BY DEF QueueReorder, IInv, TypeOK
  <2> QED BY <2>1, InRange, StayFacts DEF QueueReorder, IInv, NoTrackTwice
<1>2. Len(queue) >= 1 /\ MaxQueueSize \in Nat
  BY <1>1, InRange, RoomQueueAssumption
<1>3. nowPlaying # NoTrack /\ Head(queue) = nowPlaying
  BY <1>1, <1>2 DEF QueueShape
<1>4. \E p \in 1 .. Len(queue) : queue[p] = id
  BY <1>1, InRange
<1>5. Len(queue) >= 2
  BY <1>1, <1>2, <1>3, <1>4
<1>6. k \in 2 .. Len(queue)
  BY <1>2, <1>3, <1>5 DEF Target
<1>7. /\ rest \in Seq(issued) /\ IsInjective(rest) /\ Len(rest) = Len(queue) - 1
      /\ Range(rest) = Range(queue) \ {id}
  BY <1>1, WithoutFacts
<1>8. Head(rest) = nowPlaying
  <2> DEFINE p == Position(queue, id)
  <2>1. p \in 1 .. Len(queue) /\ queue[p] = id
    BY <1>1, PositionFacts
  <2>2. p \in 2 .. Len(queue) /\ queue[1] = nowPlaying
    BY <1>1, <1>2, <1>3, <2>1
  <2>3. /\ SubSeq(queue, 1, p - 1) \in Seq(issued) /\ SubSeq(queue, 1, p - 1) # <<>>
        /\ Head(SubSeq(queue, 1, p - 1)) = nowPlaying
        /\ SubSeq(queue, p + 1, Len(queue)) \in Seq(issued)
    BY <1>1, <2>2
  <2>4. rest = SubSeq(queue, 1, p - 1) \o SubSeq(queue, p + 1, Len(queue))
    BY DEF Without, RemoveAt
  <2> QED BY <2>3, <2>4, ConcatFacts
<1> HIDE DEF k, rest
<1>9. queue' = InsertAt(rest, k, id)
  BY DEF QueueReorder, k, rest
<1>10. k \in 1 .. Len(rest) + 1 /\ k > 1
  BY <1>1, <1>6, <1>7
<1>11. /\ queue' \in Seq(issued) /\ IsInjective(queue') /\ Len(queue') = Len(rest) + 1
       /\ Range(queue') = Range(rest) \cup {id} /\ Head(queue') = Head(rest)
  <2>1. rest \in Seq(issued) /\ id \in issued /\ IsInjective(rest) /\ id \notin Range(rest)
    BY <1>1, <1>7
  <2>2. /\ InsertAt(rest, k, id) \in Seq(issued)
        /\ IsInjective(InsertAt(rest, k, id))
        /\ Len(InsertAt(rest, k, id)) = Len(rest) + 1
        /\ Range(InsertAt(rest, k, id)) = Range(rest) \cup {id}
        /\ Head(InsertAt(rest, k, id)) = Head(rest)
    BY <1>10, <2>1, InsertFacts
  <2> QED BY <1>9, <2>2
<1>12. /\ Len(queue') <= Len(queue) /\ Range(queue') = Range(queue)
       /\ queue' # <<>> /\ Head(queue') = nowPlaying
  BY <1>1, <1>2, <1>7, <1>8, <1>11
<1>13. /\ Stay(1) /\ issued' = issued /\ history' = history /\ votes' = votes
       /\ skipVotes' = skipVotes /\ radio' = radio /\ refill' = refill
  BY DEF QueueReorder
<1>14. /\ votes' \in [TrackIds -> SUBSET Voters]
       /\ \A t \in TrackIds : WithinCap(votes'[t])
       /\ \A t \in TrackIds : votes'[t] # {} => t \in Range(queue')
  BY <1>1, <1>12, <1>13 DEF TypeOK, IInv, VotesFollowQueue
<1> QED BY <1>11, <1>12, <1>13, <1>14, UpcomingInv

\* The vote operations stay within the cap: only queue.vote adds a voter, and
\* only below it; a rebind replaces one.
LEMMA WithinCapFacts ==
    ASSUME NEW V, WithinCap(V)
    PROVE  /\ \A W : W \subseteq V => WithinCap(W)
           /\ \A v : Cardinality(V) < MaxVotersPerTrack => WithinCap(V \cup {v})
           /\ \A old, new : WithinCap(Rekeyed(V, old, new))
<1>1. IsFiniteSet(V) /\ Cardinality(V) \in Nat /\ MaxVotersPerTrack \in Nat
  BY FS_CardinalityType, RoomQueueAssumption DEF WithinCap
<1>2. ASSUME NEW W, W \subseteq V PROVE WithinCap(W)
  <2>1. IsFiniteSet(W) /\ Cardinality(W) \in Nat /\ Cardinality(W) <= Cardinality(V)
    BY <1>1, <1>2, FS_Subset, FS_CardinalityType
  <2> QED BY <1>1, <2>1 DEF WithinCap
<1>3. ASSUME NEW v, Cardinality(V) < MaxVotersPerTrack PROVE WithinCap(V \cup {v})
  <2>1. IsFiniteSet(V \cup {v})
        /\ Cardinality(V \cup {v}) = IF v \in V THEN Cardinality(V) ELSE Cardinality(V) + 1
    BY <1>1, FS_AddElement
  <2> QED BY <1>1, <1>3, <2>1 DEF WithinCap
<1>4. ASSUME NEW old, NEW new PROVE WithinCap(Rekeyed(V, old, new))
  <2>1. CASE old \notin V
    BY <2>1 DEF Rekeyed
  <2>2. CASE old \in V
    <3>1. IsFiniteSet(V \ {old}) /\ Cardinality(V \ {old}) = Cardinality(V) - 1
      BY <1>1, <2>2, FS_RemoveElement
    <3>2. /\ IsFiniteSet((V \ {old}) \cup {new})
          /\ Cardinality((V \ {old}) \cup {new})
               = IF new \in V \ {old} THEN Cardinality(V \ {old})
                 ELSE Cardinality(V \ {old}) + 1
      BY <3>1, FS_AddElement
    <3> QED BY <1>1, <2>2, <3>1, <3>2 DEF WithinCap, Rekeyed
  <2> QED BY <2>1, <2>2
<1> QED BY <1>2, <1>3, <1>4

\* Loading a legacy row: what stood before the playing track was played.
LEMMA LoadInv ==
    ASSUME IInv, Load PROVE IInv'
<1> DEFINE n == PlayedCount
           played == SubSeq(queue, 1, n)
           rest == SubSeq(queue, n + 1, Len(queue))
<1>1. /\ TypeOK /\ ClockFollowsTrack /\ VotesFollowQueue
      /\ queue \in Seq(issued) /\ IsInjective(queue) /\ history = <<>>
      /\ nowPlaying \in Range(queue) \cup {NoTrack}
      /\ NoTrack \notin TrackIds /\ issued \subseteq TrackIds
  BY RoomQueueAssumption DEF Load, IInv, TypeOK, NoTrackTwice, StoredRow
<1>3. /\ n \in 0 .. Len(queue)
      /\ nowPlaying = NoTrack => n = Len(queue)
      /\ nowPlaying # NoTrack => n + 1 \in 1 .. Len(queue) /\ queue[n + 1] = nowPlaying
  <2>1. CASE nowPlaying = NoTrack
    BY <1>1, <2>1 DEF PlayedCount
  <2>2. CASE nowPlaying # NoTrack
    <3>1. /\ Position(queue, nowPlaying) \in 1 .. Len(queue)
          /\ queue[Position(queue, nowPlaying)] = nowPlaying
      BY <1>1, <2>2, PositionFacts
    <3> QED BY <1>1, <2>2, <3>1 DEF PlayedCount
  <2> QED BY <2>1, <2>2
<1>4. /\ queue' = rest /\ votes' = VotesWithout(Range(played))
      /\ history' = IF played = <<>> THEN history ELSE Capped(Reverse(played) \o history)
      /\ version' = IF played = <<>> THEN version ELSE version + 1
      /\ resident' /\ issued' = issued /\ nowPlaying' = nowPlaying
      /\ skipVotes' = skipVotes /\ transport' = transport
      /\ radio' = radio /\ refill' = refill
  BY DEF Load
<1> HIDE DEF n
<1>5. /\ played \in Seq(issued) /\ IsInjective(played) /\ Len(played) = n
      /\ \A i \in 1 .. n : played[i] = queue[i]
      /\ Range(played) \subseteq Range(queue)
  <2>1. 1 \in 1 .. Len(queue) + 1 /\ n \in 0 .. Len(queue)
    BY <1>1, <1>3
  <2>2. n \in Nat /\ (IF 1 <= n THEN n - 1 + 1 ELSE 0) = n
    BY <1>3
  <2> QED BY <1>1, <2>1, <2>2, SubSeqFacts
<1>6. /\ rest \in Seq(issued) /\ IsInjective(rest) /\ Len(rest) = Len(queue) - n
      /\ \A i \in 1 .. Len(queue) - n : rest[i] = queue[n + i]
      /\ Range(rest) \subseteq Range(queue)
  <2>1. n + 1 \in 1 .. Len(queue) + 1 /\ Len(queue) \in 0 .. Len(queue) /\ n \in Nat
    BY <1>1, <1>3
  <2>2. /\ rest \in Seq(issued) /\ IsInjective(rest)
        /\ Len(rest) = IF n + 1 <= Len(queue) THEN Len(queue) - (n + 1) + 1 ELSE 0
        /\ \A i \in 1 .. Len(rest) : rest[i] = queue[n + 1 + i - 1]
        /\ Range(rest) \subseteq Range(queue)
    BY <1>1, <2>1, SubSeqFacts
  <2> QED BY <1>1, <1>3, <2>2
<1> HIDE DEF played, rest
<1>7. Range(played) \cap Range(rest) = {}
  <2> SUFFICES ASSUME NEW i \in 1 .. n, NEW j \in 1 .. Len(queue) - n, queue[i] = queue[n + j]
               PROVE  FALSE
    BY <1>3, <1>5, <1>6, InRange, SMTT(30)
  <2>1. i \in 1 .. Len(queue) /\ n + j \in 1 .. Len(queue) /\ i # n + j
    BY <1>1, <1>3
  <2> QED BY <1>1, <2>1 DEF IsInjective
<1>8. Range(queue) \subseteq Range(played) \cup Range(rest)
  <2> SUFFICES ASSUME NEW i \in 1 .. Len(queue)
               PROVE  queue[i] \in Range(played) \cup Range(rest)
    BY <1>1, InRange
  <2>1. CASE i <= n
    BY <2>1, <1>3, <1>5, InRange
  <2>2. CASE i > n
    <3>1. i - n \in 1 .. Len(rest) /\ rest[i - n] = queue[i]
      BY <1>1, <1>3, <1>6, <2>2
    <3> QED BY <3>1, <1>6, InRange
  <2> QED BY <2>1, <2>2, <1>3
<1>9. /\ history' \in Seq(issued) /\ Len(history') <= MaxHistory
      /\ IsInjective(history') /\ Range(history') \subseteq Range(played)
  <2>1. /\ history \in Seq(issued) /\ Range(history) = {} /\ IsInjective(history)
        /\ Len(history) = 0 /\ MaxHistory \in Nat
    BY <1>1, RoomQueueAssumption DEF IsInjective, Range
  <2>2. /\ Reverse(played) \in Seq(issued) /\ IsInjective(Reverse(played))
        /\ Range(Reverse(played)) = Range(played)
    BY <1>5, ReverseFacts
  <2> DEFINE r == Reverse(played)
             h == r \o history
  <2> HIDE DEF r
  <2>3. /\ h \in Seq(issued) /\ Range(h) = Range(r) \cup Range(history)
        /\ IsInjective(h)
    <3>1. /\ r \in Seq(issued) /\ IsInjective(r) /\ Range(r) \cap Range(history) = {}
      BY <2>1, <2>2 DEF r
    <3> QED BY <2>1, <3>1, ConcatFacts
  <2> HIDE DEF h
  <2>4. /\ Capped(h) \in Seq(issued) /\ Len(Capped(h)) <= MaxHistory
        /\ IsInjective(Capped(h)) /\ Range(Capped(h)) \subseteq Range(h)
    BY <2>3, CappedFacts
  <2>5. history' = IF played = <<>> THEN history ELSE Capped(h)
    BY <1>4 DEF h, r
  <2>6. Range(h) = Range(played)
    BY <2>1, <2>2, <2>3 DEF r
  <2> QED BY <2>1, <2>4, <2>5, <2>6
<1>10. /\ votes' \in [TrackIds -> SUBSET Voters]
       /\ \A t \in TrackIds : WithinCap(votes'[t])
       /\ \A t \in TrackIds : votes'[t] # {} => t \in Range(queue) \ Range(played)
  BY <1>1, <1>4, VotesWithoutFacts DEF VotesFollowQueue
<1>11. TypeOK'
  <2>1. Len(queue') <= MaxQueueSize
    BY <1>1, <1>3, <1>4, <1>6, RoomQueueAssumption DEF TypeOK
  <2>2. version' \in Nat
    BY <1>1, <1>4 DEF TypeOK
  <2> QED BY <1>1, <1>4, <1>6, <1>9, <1>10, <2>1, <2>2 DEF TypeOK
<1>12. QueueShape'
  <2>1. CASE nowPlaying = NoTrack
    <3>1. Len(rest) = 0
      BY <1>1, <1>3, <1>6, <2>1
    <3> QED BY <1>4, <1>6, <2>1, <3>1 DEF QueueShape
  <2>2. CASE nowPlaying # NoTrack
    <3>1. Len(rest) >= 1 /\ rest[1] = nowPlaying
      BY <1>1, <1>3, <1>6, <2>2
    <3> QED BY <1>4, <1>6, <2>2, <3>1 DEF QueueShape
  <2> QED BY <2>1, <2>2
<1>13. NoTrackTwice'
  BY <1>4, <1>6, <1>7, <1>9 DEF NoTrackTwice
<1>14. VotesFollowQueue'
  BY <1>4, <1>8, <1>10 DEF VotesFollowQueue
<1>15. ClockFollowsTrack' /\ StoredRow'
  BY <1>1, <1>4 DEF ClockFollowsTrack, StoredRow
<1> QED BY <1>11, <1>12, <1>13, <1>14, <1>15 DEF IInv

\* A new room and a row stored before History existed satisfy the invariant.
LEMMA InitInv ==
    Init => IInv
<1> SUFFICES ASSUME Init PROVE IInv
  OBVIOUS
<1>1. /\ queue \in Seq(TrackIds) /\ Len(queue) <= MaxQueueSize /\ IsInjective(queue)
      /\ issued = Range(queue) /\ history = <<>> /\ resident = FALSE
      /\ nowPlaying \in issued \cup {NoTrack} /\ MaxQueueSize \in Nat
      /\ version = Len(queue) /\ skipVotes = {} /\ refill = "ready" /\ radio \in BOOLEAN
  BY RoomQueueAssumption DEF Init, BoundedSeq, SeqOf
<1>2. queue \in Seq(issued) /\ issued \subseteq TrackIds
  <2>1. \A i \in 1 .. Len(queue) : queue[i] \in Range(queue)
    BY <1>1, InRange
  <2> QED BY <1>1, <2>1, InRange, SMTT(30)
<1>3. history \in Seq(issued) /\ Len(history) = 0 /\ IsInjective(history) /\ Range(history) = {}
  BY <1>1 DEF IsInjective, Range
<1>4. /\ transport \in Transports /\ ClockFollowsTrack
  <2>1. \/ transport = Clock("none", NoTrack, FALSE)
        \/ transport = Clock("playing", nowPlaying, FALSE) /\ nowPlaying # NoTrack
    BY DEF Init, NoClock
  <2>2. CASE transport = Clock("none", NoTrack, FALSE)
    BY <2>2 DEF Clock, Transports, ClockFollowsTrack
  <2>3. CASE transport = Clock("playing", nowPlaying, FALSE)
    BY <1>1, <1>2, <2>3 DEF Clock, Transports, ClockFollowsTrack
  <2> QED BY <2>1, <2>2, <2>3
<1>5. PICK S \in SUBSET Voters :
        WithinCap(S) /\ votes = [t \in TrackIds |-> IF t \in Range(queue) THEN S ELSE {}]
  BY DEF Init
<1>6. WithinCap({})
  BY FS_EmptySet, RoomQueueAssumption DEF WithinCap
<1>7. TypeOK
  <2>1. /\ votes \in [TrackIds -> SUBSET Voters]
        /\ \A t \in TrackIds : WithinCap(votes[t])
    BY <1>5, <1>6
  <2>2. Len(history) <= MaxHistory /\ version \in Nat
    BY <1>1, <1>3, RoomQueueAssumption
  <2> QED BY <1>1, <1>2, <1>3, <1>4, <2>1, <2>2 DEF TypeOK
<1>8. QueueShape /\ NoTrackTwice /\ VotesFollowQueue /\ StoredRow
  BY <1>1, <1>3, <1>5 DEF QueueShape, NoTrackTwice, VotesFollowQueue, StoredRow
<1> QED BY <1>4, <1>7, <1>8 DEF IInv

\* One step of the next-state relation, action by action.
LEMMA StepInv ==
    IInv /\ [Next]_vars => IInv'
<1> SUFFICES ASSUME IInv, [Next]_vars PROVE IInv'
  OBVIOUS
<1>1. /\ TypeOK /\ queue \in Seq(issued) /\ issued \subseteq TrackIds
      /\ radio \in BOOLEAN /\ refill \in {"ready", "fetching", "cooling"}
      /\ votes \in [TrackIds -> SUBSET Voters] /\ skipVotes \subseteq Voters
      /\ \A t \in TrackIds : WithinCap(votes[t])
      /\ \A t \in TrackIds : votes[t] # {} => t \in Range(queue)
      /\ Len(queue) \in Nat /\ MaxQueueSize \in Nat
  BY RoomQueueAssumption DEF IInv, TypeOK, VotesFollowQueue
<1>2. CASE UNCHANGED vars
  BY <1>2 DEF vars, IInv, TypeOK, QueueShape, NoTrackTwice, VotesFollowQueue,
              ClockFollowsTrack, StoredRow
<1>3. CASE Load
  BY <1>3, LoadInv
<1>4. ASSUME NEW id \in TrackIds \ issued, Len(queue) < MaxQueueSize,
             AddTracks(<<id>>), refill' = refill
      PROVE  IInv'
  <2>1. /\ <<id>> \in Seq(TrackIds \ issued) /\ <<id>> # <<>> /\ Len(<<id>>) = 1
        /\ IsInjective(<<id>>)
    BY DEF IsInjective
  <2>2. Len(queue) + Len(<<id>>) <= MaxQueueSize
    BY <1>1, <1>4, <2>1
  <2> QED BY <1>1, <1>4, <2>1, <2>2, AddTracksInv
<1>5. CASE QueueAdd
  BY <1>4, <1>5 DEF QueueAdd
<1>6. CASE HistoryReAdd
  BY <1>4, <1>6 DEF HistoryReAdd
<1>7. ASSUME NEW new \in FreshIds(MaxQueueSize - Len(queue)), new # <<>>, AddTracks(new),
             refill' \in {"ready", "fetching", "cooling"}
      PROVE  IInv'
  <2>1. MaxQueueSize - Len(queue) \in Nat
    BY <1>1 DEF TypeOK
  <2>2. /\ new \in Seq(TrackIds \ issued) /\ IsInjective(new)
        /\ Len(new) <= MaxQueueSize - Len(queue)
    BY <2>1, FreshFacts
  <2>3. Len(queue) + Len(new) <= MaxQueueSize
    BY <1>1, <2>2
  <2> QED BY <1>7, <2>2, <2>3, AddTracksInv
<1>8. CASE PlaylistImport
  BY <1>1, <1>7, <1>8 DEF PlaylistImport
<1>9. ASSUME NEW bumps \in Nat, Stay(bumps), issued' = issued, queue' = queue,
             history' = history, votes' = votes, skipVotes' \subseteq Voters,
             radio' \in BOOLEAN, refill' \in {"ready", "fetching", "cooling"}
      PROVE  IInv'
  BY <1>1, <1>9, SameTracksInv
<1>10. CASE RadioRefill
  BY <1>1, <1>7, <1>9, <1>10 DEF RadioRefill
<1>11. CASE RefillGapEnds
  BY <1>11 DEF RefillGapEnds, IInv, TypeOK, QueueShape, NoTrackTwice, VotesFollowQueue,
               ClockFollowsTrack, StoredRow
<1>12. ASSUME NEW seeds, NEW np, StartRefillIfDry(np, seeds)
       PROVE  refill' \in {"ready", "fetching", "cooling"}
  BY <1>1, <1>12 DEF StartRefillIfDry
<1>13. ASSUME NEW bumps \in Nat, Advance(bumps) PROVE IInv'
  <2>1. refill' \in {"ready", "fetching", "cooling"}
    BY <1>12, <1>13 DEF Advance
  <2> QED BY <1>1, <1>13, <2>1, NextTrackInv DEF Advance
<1>14. ASSUME NEW id \in TrackIds, NowPlayingAdvance(id) PROVE IInv'
  BY <1>13, <1>14 DEF NowPlayingAdvance
<1>15. ASSUME NEW id \in TrackIds, SkipUnplayable(id) PROVE IInv'
  <2>1. refill' \in {"ready", "fetching", "cooling"}
    BY <1>12, <1>15 DEF SkipUnplayable
  <2> QED BY <1>1, <1>15, <2>1, NextTrackInv DEF SkipUnplayable
<1>16. CASE RemovePlaying
  BY <1>1, <1>16, NextTrackInv DEF RemovePlaying
<1>17. ASSUME NEW id \in TrackIds, NowPlayingSet(id) PROVE IInv'
  <2>1. /\ resident /\ resident' /\ nowPlaying' = id /\ transport' \in Transports
        /\ ClockFollowsTrack' /\ version' \in Nat /\ skipVotes' \subseteq Voters
    BY <1>17, SwitchFacts DEF NowPlayingSet
  <2> QED BY <1>1, <1>17, <2>1, JumpInv DEF NowPlayingSet
<1>18. ASSUME NEW id \in TrackIds, RemoveUpcoming(id) PROVE IInv'
  BY <1>18, RemoveUpcomingInv
<1>19. CASE QueueClear
  BY <1>19, QueueClearInv
<1>20. ASSUME NEW id \in TrackIds, NEW to \in 1 .. MaxQueueSize, QueueReorder(id, to)
       PROVE  IInv'
  BY <1>20, QueueReorderInv
<1>21. ASSUME NEW id \in TrackIds, NEW voter \in Voters, QueueVote(id, voter)
       PROVE  IInv'
  <2>1. /\ votes' \in [TrackIds -> SUBSET Voters]
        /\ \A t \in TrackIds : WithinCap(votes'[t])
        /\ \A t \in TrackIds : votes'[t] # {} => t \in Range(queue)
    <3>1. CASE voter \in votes[id] /\ votes' = [votes EXCEPT ![id] = @ \ {voter}]
      BY <1>1, <1>21, <3>1, WithinCapFacts DEF QueueVote
    <3>2. CASE /\ voter \notin votes[id] /\ Cardinality(votes[id]) < MaxVotersPerTrack
               /\ votes' = [votes EXCEPT ![id] = @ \cup {voter}]
      BY <1>1, <1>21, <3>2, WithinCapFacts DEF QueueVote
    <3> QED BY <1>21, <3>1, <3>2 DEF QueueVote
  <2> QED BY <1>1, <1>21, <2>1, SameTracksInv DEF QueueVote
<1>22. ASSUME NEW voter \in Voters, PruneGuestVotes(voter) PROVE IInv'
  <2>1. /\ votes' \in [TrackIds -> SUBSET Voters]
        /\ \A t \in TrackIds : WithinCap(votes'[t])
        /\ \A t \in TrackIds : votes'[t] # {} => t \in Range(queue)
    BY <1>1, <1>22, WithinCapFacts DEF PruneGuestVotes
  <2> QED BY <1>1, <1>22, <2>1, SameTracksInv DEF PruneGuestVotes
<1>23. ASSUME NEW voter \in Voters, NEW present \in SUBSET Voters, VoteSkip(voter, present)
       PROVE  IInv'
  <2>1. skipVotes' \subseteq Voters
    BY <1>1, <1>23 DEF VoteSkip
  <2>2. \E bumps \in Nat : Stay(bumps)
    BY <1>23 DEF VoteSkip
  <2> QED BY <1>1, <1>9, <1>23, <2>1, <2>2 DEF VoteSkip
<1>24. ASSUME NEW present \in SUBSET Voters, PruneSkipVotes(present) PROVE IInv'
  BY <1>1, <1>9, <1>24 DEF PruneSkipVotes
<1>25. ASSUME NEW old \in Voters, NEW new \in Voters, Rebind(old, new) PROVE IInv'
  <2>1. \A V : V \subseteq Voters => /\ Rekeyed(V, old, new) \subseteq Voters
                                     /\ V = {} => Rekeyed(V, old, new) = {}
    BY DEF Rekeyed
  <2>2. /\ votes' \in [TrackIds -> SUBSET Voters]
        /\ \A t \in TrackIds : WithinCap(votes'[t])
        /\ \A t \in TrackIds : votes'[t] # {} => t \in Range(queue)
        /\ skipVotes' \subseteq Voters
    BY <1>1, <1>25, <2>1, WithinCapFacts DEF Rebind
  <2> QED BY <1>1, <1>25, <2>2, SameTracksInv DEF Rebind
<1>26. ASSUME NEW late \in BOOLEAN,
              TransportPlay(late) \/ TransportPause(late) \/ TransportSeek(late)
       PROVE  IInv'
  <2>1. CASE TransportPlay(late)
    BY <2>1, CommandInv DEF TransportPlay
  <2>2. CASE TransportPause(late)
    BY <2>2, CommandInv DEF TransportPause
  <2>3. CASE TransportSeek(late)
    <3> DEFINE state == IF transport.state = "none" THEN "unset" ELSE transport.state
    <3>1. state \in {"playing", "paused", "unset"}
      BY <1>1 DEF TypeOK, Transports
    <3>2. Reachable(nowPlaying, late) /\ Commit(nowPlaying, Clock(state, nowPlaying, late), 1)
      BY <2>3 DEF TransportSeek
    <3> HIDE DEF state
    <3> QED BY <2>3, <3>1, <3>2, CommandInv DEF TransportSeek
  <2> QED BY <1>26, <2>1, <2>2, <2>3
<1>27. ASSUME NEW id \in TrackIds, NEW late \in BOOLEAN, TransportPlayTrack(id, late)
       PROVE  IInv'
  <2>1. /\ Clock("playing", id, late) \in Transports
        /\ Clock("playing", id, late).anchor = id
        /\ Clock("playing", id, late).state = "playing" /\ id # NoTrack
    BY RoomQueueAssumption DEF Clock, Transports
  <2>2. Commit(id, Clock("playing", id, late), 2) /\ id \in TrackIds \cup {NoTrack}
    BY <1>27 DEF TransportPlayTrack
  <2>3. /\ resident /\ resident' /\ nowPlaying' = id /\ transport' \in Transports
        /\ ClockFollowsTrack' /\ version' \in Nat
    BY <1>1, <2>1, <2>2, CommitFacts
  <2>4. skipVotes' \subseteq Voters
    BY <1>1, <1>27 DEF TransportPlayTrack
  <2> QED BY <1>1, <1>27, <2>3, <2>4, JumpInv DEF TransportPlayTrack
<1>28. CASE ClockRuns
  <2>1. /\ transport' \in Transports /\ transport'.anchor = transport.anchor
        /\ transport'.state = "playing" /\ transport.state = "playing"
    BY <1>1, <1>28 DEF ClockRuns, TypeOK, Transports
  <2> QED BY <1>28, <2>1 DEF ClockRuns, IInv, TypeOK, QueueShape, NoTrackTwice,
             VotesFollowQueue, ClockFollowsTrack, StoredRow
<1>29. ASSUME NEW claims \in {0, 1}, RoomJoin(claims) PROVE IInv'
  <2>1. CASE Advance(1 + claims)
    BY <1>13, <2>1
  <2>2. CASE /\ Stay(claims)
             /\ UNCHANGED <<issued, queue, history, votes, skipVotes, radio, refill>>
    BY <1>1, <1>9, <2>2
  <2> QED BY <1>29, <2>1, <2>2 DEF RoomJoin
<1>30. ASSUME NEW on \in BOOLEAN, RadioSet(on) PROVE IInv'
  BY <1>1, <1>9, <1>30 DEF RadioSet
<1>31. CASE OtherMutation
  BY <1>1, <1>9, <1>31 DEF OtherMutation
<1> QED
  BY <1>2, <1>3, <1>5, <1>6, <1>8, <1>10, <1>11, <1>14, <1>15, <1>16, <1>17, <1>18,
     <1>19, <1>20, <1>21, <1>22, <1>23, <1>24, <1>25, <1>26, <1>27, <1>28, <1>29,
     <1>30, <1>31 DEF Next

-----------------------------------------------------------------------------
(* What the steps may never do *)

\* Whoever changes the playing track goes through setNowPlayingID.
LEMMA StepKeepsNoVote ==
    IInv /\ [Next]_vars => (nowPlaying' # nowPlaying => skipVotes' = {})
<1> SUFFICES ASSUME IInv, Next, nowPlaying' # nowPlaying PROVE skipVotes' = {}
  BY DEF vars
<1>1. TypeOK /\ queue \in Seq(issued) /\ issued \subseteq TrackIds
  BY DEF IInv, TypeOK
<1>2. ASSUME NEW np, NEW bumps, SwitchTo(np, bumps) PROVE skipVotes' = {}
  BY <1>2 DEF SwitchTo, Commit
<1>3. ASSUME NEW bumps, Stay(bumps) PROVE FALSE
  BY <1>3 DEF Stay, Commit
<1>4. ASSUME NEW new, AddTracks(new) PROVE skipVotes' = {}
  BY <1>2, <1>4 DEF AddTracks
<1>5. CASE QueueAdd \/ HistoryReAdd \/ PlaylistImport \/ RadioRefill
  BY <1>3, <1>4, <1>5 DEF QueueAdd, HistoryReAdd, PlaylistImport, RadioRefill
<1>6. CASE Load \/ RefillGapEnds \/ ClockRuns
  BY <1>6 DEF Load, RefillGapEnds, ClockRuns
<1>7. CASE RemovePlaying
  BY <1>2, <1>7 DEF RemovePlaying
<1>8. CASE QueueClear
  BY <1>3, <1>8 DEF QueueClear
<1>9. CASE \E claims \in {0, 1} : RoomJoin(claims)
  BY <1>2, <1>3, <1>9 DEF RoomJoin, Advance
<1>10. CASE OtherMutation \/ \E on \in BOOLEAN : RadioSet(on)
  BY <1>3, <1>10 DEF OtherMutation, RadioSet
<1>11. ASSUME NEW late, TransportPlay(late) \/ TransportPause(late) \/ TransportSeek(late)
       PROVE  FALSE
  BY <1>11 DEF TransportPlay, TransportPause, TransportSeek, Commit
<1>12. ASSUME NEW id \in TrackIds, NowPlayingAdvance(id) \/ SkipUnplayable(id) \/ NowPlayingSet(id)
       PROVE  skipVotes' = {}
  BY <1>2, <1>12 DEF NowPlayingAdvance, Advance, SkipUnplayable, NowPlayingSet
<1>13. ASSUME NEW id, NEW late, TransportPlayTrack(id, late) PROVE skipVotes' = {}
  BY <1>13 DEF TransportPlayTrack, Commit
<1>14. ASSUME NEW id, NEW to, NEW voter, RemoveUpcoming(id) \/ QueueReorder(id, to) \/ QueueVote(id, voter)
       PROVE  FALSE
  BY <1>3, <1>14 DEF RemoveUpcoming, QueueReorder, QueueVote
<1>15. ASSUME NEW voter, NEW present, NEW new,
              PruneGuestVotes(voter) \/ VoteSkip(voter, present) \/ Rebind(voter, new)
                \/ PruneSkipVotes(present)
       PROVE  FALSE
  BY <1>3, <1>15 DEF PruneGuestVotes, VoteSkip, Rebind, PruneSkipVotes
<1> QED BY <1>5, <1>6, <1>7, <1>8, <1>9, <1>10, <1>11, <1>12, <1>13, <1>14, <1>15 DEF Next

\* The three action properties, as what one step does.
Versioned ==
    /\ version' >= version
    /\ published' # published => version' > version

Clocked ==
    SyncEnabled /\ resident /\ version' # version
      => (nowPlaying' # NoTrack => transport'.state # "none")

PlayOrder ==
    /\ resident /\ history' # history
         => nowPlaying' # nowPlaying /\ history' = Capped(<<nowPlaying>> \o history)
    /\ nowPlaying' # nowPlaying => nowPlaying \notin Range(queue')

-----------------------------------------------------------------------------
(* Versions and clocks *)

\* A mutation that bumps is versioned, and every mutation leaves a playing room
\* with a clock.
LEMMA MutationFacts ==
    ASSUME TypeOK, NEW np, NEW tr, NEW bumps \in Nat, Commit(np, tr, bumps)
    PROVE  /\ Clocked
           /\ version' \in Nat /\ version' >= version + bumps
           /\ bumps > 0 \/ transport' # tr => version' > version
<1>1. version \in Nat
  BY DEF TypeOK
<1>2. Clocked
  BY DEF Commit, Clock, Clocked
<1> DEFINE start == SyncEnabled /\ np # NoTrack /\ tr.state = "none"
<1>3. /\ version' = version + bumps + (IF start THEN 1 ELSE 0)
      /\ ~start => transport' = tr
  BY DEF Commit
<1> HIDE DEF start
<1> QED BY <1>1, <1>2, <1>3

\* A mutation that moves playback, or stays, and bumps.
LEMMA BumpFacts ==
    ASSUME TypeOK, NEW bumps \in Nat, bumps > 0,
           Stay(bumps) \/ \E np : SwitchTo(np, bumps)
    PROVE  Versioned /\ Clocked
<1>1. PICK n, tr : Commit(n, tr, bumps)
  BY DEF SwitchTo, Stay
<1>2. version \in Nat
  BY DEF TypeOK
<1> QED BY <1>1, <1>2, MutationFacts DEF Versioned

\* A mutation that changes nothing itself, bumping or not: it is seen only if the
\* clock starts, and then with a bump.
LEMMA QuietFacts ==
    ASSUME TypeOK, NEW bumps \in Nat, Stay(bumps),
           UNCHANGED <<queue, history, votes, skipVotes, radio>>
    PROVE  Versioned /\ Clocked
<1>1. Commit(nowPlaying, transport, bumps) /\ version \in Nat
  BY DEF Stay, TypeOK
<1>2. nowPlaying' = nowPlaying
  BY <1>1 DEF Commit
<1>3. transport' = transport => published' = published
  BY <1>2 DEF published
<1> QED BY <1>1, <1>3, MutationFacts DEF Versioned

\* Loading a row shows a change only if tracks already played were moved.
LEMMA LoadVersioned ==
    ASSUME IInv, Load PROVE Versioned /\ Clocked
<1>1. /\ queue \in Seq(issued) /\ nowPlaying \in Range(queue) \cup {NoTrack}
      /\ version \in Nat /\ votes \in [TrackIds -> SUBSET Voters] /\ ~resident
  BY DEF IInv, TypeOK, StoredRow, Load
<1>2. PlayedCount \in 0 .. Len(queue)
  BY <1>1, PositionFacts DEF PlayedCount
<1> DEFINE played == SubSeq(queue, 1, PlayedCount)
<1>3. /\ queue' = SubSeq(queue, PlayedCount + 1, Len(queue))
      /\ history' = IF played = <<>> THEN history ELSE Capped(Reverse(played) \o history)
      /\ votes' = VotesWithout(Range(played))
      /\ version' = IF played = <<>> THEN version ELSE version + 1
      /\ UNCHANGED <<nowPlaying, skipVotes, transport, radio>>
  BY DEF Load
<1>4. CASE played # <<>>
  BY <1>1, <1>3, <1>4 DEF Versioned, Clocked
<1>5. CASE played = <<>>
  <2>1. PlayedCount = 0
    BY <1>1, <1>2, <1>5
  <2>2. queue' = queue
    BY <1>1, <1>3, <2>1
  <2>3. votes' = votes
    <3>1. Range(<<>>) = {}
      BY DEF Range
    <3>2. votes' = VotesWithout({})
      BY <1>3, <1>5, <3>1
    <3> QED BY <1>1, <3>2 DEF VotesWithout
  <2> QED BY <1>1, <1>3, <1>5, <2>2, <2>3 DEF Versioned, Clocked, published
<1> QED BY <1>4, <1>5

\* One step of the next-state relation, action by action.
LEMMA StepVersioned == IInv /\ [Next]_vars => Versioned /\ Clocked
<1> SUFFICES ASSUME IInv, [Next]_vars PROVE Versioned /\ Clocked
  OBVIOUS
<1>1. /\ TypeOK /\ version \in Nat /\ transport \in Transports
      /\ queue \in Seq(issued) /\ Len(queue) \in Nat /\ MaxQueueSize - Len(queue) \in Nat
  BY RoomQueueAssumption DEF IInv, TypeOK
<1>2. ASSUME UNCHANGED <<version, queue, nowPlaying, history, votes, skipVotes, radio>>,
             transport'.state = transport.state, transport'.anchor = transport.anchor
      PROVE  Versioned /\ Clocked
  BY <1>1, <1>2 DEF Versioned, Clocked, published
<1>3. CASE UNCHANGED vars \/ RefillGapEnds
  BY <1>2, <1>3 DEF vars, RefillGapEnds
<1>4. CASE ClockRuns
  BY <1>1, <1>2, <1>4 DEF ClockRuns, Transports
<1>5. CASE Load
  BY <1>5, LoadVersioned
<1>6. ASSUME NEW new \in Seq(TrackIds), new # <<>>, AddTracks(new)
      PROVE  Versioned /\ Clocked
  <2>1. Len(new) \in Nat /\ Len(new) > 0
    BY <1>6
  <2> QED BY <1>1, <1>6, <2>1, BumpFacts DEF AddTracks
<1>7. ASSUME NEW id \in TrackIds \ issued, AddTracks(<<id>>) PROVE Versioned /\ Clocked
  <2>1. <<id>> \in Seq(TrackIds) /\ <<id>> # <<>>
    OBVIOUS
  <2> QED BY <1>6, <1>7, <2>1
<1>8. CASE QueueAdd \/ HistoryReAdd
  BY <1>7, <1>8 DEF QueueAdd, HistoryReAdd
<1>9. ASSUME NEW new \in FreshIds(MaxQueueSize - Len(queue)), new # <<>>, AddTracks(new)
      PROVE  Versioned /\ Clocked
  <2>1. new \in Seq(TrackIds)
    BY <1>1, FreshFacts, SeqMonotone
  <2> QED BY <1>6, <1>9, <2>1
<1>10. CASE PlaylistImport
  BY <1>9, <1>10 DEF PlaylistImport
<1>11. CASE RadioRefill
  BY <1>1, <1>9, <1>11, QuietFacts DEF RadioRefill
<1>12. ASSUME NEW bumps \in Nat, bumps > 0, Advance(bumps) PROVE Versioned /\ Clocked
  BY <1>1, <1>12, BumpFacts DEF Advance
<1>13. CASE \E claims \in {0, 1} : RoomJoin(claims)
  BY <1>1, <1>12, <1>13, QuietFacts DEF RoomJoin
<1>14. CASE RemovePlaying \/ QueueClear \/ OtherMutation \/ \E on \in BOOLEAN : RadioSet(on)
  BY <1>1, <1>14, BumpFacts DEF RemovePlaying, QueueClear, OtherMutation, RadioSet
<1>15. ASSUME NEW late, TransportPlay(late) \/ TransportPause(late) \/ TransportSeek(late)
       PROVE  Versioned /\ Clocked
  <2>1. PICK tr : Commit(nowPlaying, tr, 1)
    BY <1>15 DEF TransportPlay, TransportPause, TransportSeek
  <2> QED BY <1>1, <2>1, MutationFacts DEF Versioned
<1>16. ASSUME NEW id, NEW late, TransportPlayTrack(id, late) PROVE Versioned /\ Clocked
  <2>1. Commit(id, Clock("playing", id, late), 2)
    BY <1>16 DEF TransportPlayTrack
  <2> QED BY <1>1, <2>1, MutationFacts DEF Versioned
<1>17. ASSUME NEW id, NowPlayingAdvance(id) \/ SkipUnplayable(id) \/ NowPlayingSet(id)
                        \/ RemoveUpcoming(id)
       PROVE  Versioned /\ Clocked
  BY <1>1, <1>12, <1>17, BumpFacts
     DEF NowPlayingAdvance, SkipUnplayable, NowPlayingSet, RemoveUpcoming
<1>18. ASSUME NEW id, NEW to, NEW voter, QueueReorder(id, to) \/ QueueVote(id, voter)
       PROVE  Versioned /\ Clocked
  BY <1>1, <1>18, BumpFacts DEF QueueReorder, QueueVote
<1>19. ASSUME NEW voter, NEW present, NEW new,
              PruneGuestVotes(voter) \/ Rebind(voter, new) \/ PruneSkipVotes(present)
                \/ VoteSkip(voter, present)
       PROVE  Versioned /\ Clocked
  <2>1. Stay(1) \/ Stay(2)
    BY <1>19 DEF PruneGuestVotes, Rebind, PruneSkipVotes, VoteSkip
  <2> QED BY <1>1, <2>1, BumpFacts
<1> QED BY <1>3, <1>4, <1>5, <1>8, <1>10, <1>11, <1>13, <1>14, <1>15, <1>16, <1>17,
           <1>18, <1>19 DEF Next

-----------------------------------------------------------------------------
(* The order of History *)

\* Moving to the next track takes the playing one out of the queue; History
\* either records it or stays as it is.
LEMMA NextTrackOrder ==
    ASSUME IInv, IInv', nowPlaying \in Range(queue), queue' = RemainingQueue,
           RetireNowPlaying \/ history' = history
    PROVE  PlayOrder
<1>1. /\ queue \in Seq(issued) /\ IsInjective(queue) /\ nowPlaying \in TrackIds
      /\ queue' \in Seq(issued') /\ NoTrack \notin TrackIds
  <2>1. queue \in Seq(issued) /\ issued \subseteq TrackIds
    BY DEF IInv, TypeOK
  <2>2. nowPlaying \in TrackIds
    BY <2>1, InRange
  <2>3. queue' \in Seq(issued')
    BY DEF IInv, TypeOK
  <2>4. IsInjective(queue)
    BY DEF IInv, NoTrackTwice
  <2> QED BY <2>1, <2>2, <2>3, <2>4, RoomQueueAssumption
<1>2. queue' = Without(queue, nowPlaying) /\ Range(queue') = Range(queue) \ {nowPlaying}
  BY <1>1, WithoutFacts DEF RemainingQueue
<1>3. RetireNowPlaying => history' = Capped(<<nowPlaying>> \o history)
  BY DEF RetireNowPlaying
<1>4. nowPlaying' # nowPlaying
  <2>1. CASE nowPlaying' = NoTrack
    BY <1>1, <2>1
  <2>2. CASE nowPlaying' # NoTrack
    <3>1. resident' \/ nowPlaying' \in Range(queue')
      BY <2>2 DEF IInv, StoredRow
    <3>2. CASE resident'
      <4>1. queue' # <<>> /\ Head(queue') = nowPlaying'
        BY <2>2, <3>2 DEF IInv, QueueShape
      <4>2. Head(queue') \in Range(queue')
        BY <1>1, <4>1, HeadTailFacts
      <4> QED BY <1>2, <4>1, <4>2
    <3> QED BY <1>2, <3>1, <3>2
  <2> QED BY <2>1, <2>2
<1> QED BY <1>2, <1>3, <1>4 DEF PlayOrder

\* A jump puts another track at the head and takes the playing one out.
LEMMA JumpOrder ==
    ASSUME IInv, NEW id \in Range(queue), resident, Jump(id), nowPlaying' = id
    PROVE  PlayOrder
<1>1. /\ queue \in Seq(issued) /\ IsInjective(queue) /\ queue # <<>> /\ id \in issued
      /\ nowPlaying \in Range(queue)
  <2>1. queue \in Seq(issued) /\ IsInjective(queue)
    BY DEF IInv, TypeOK, NoTrackTwice
  <2>2. queue # <<>>
    BY DEF Range
  <2>3. nowPlaying = Head(queue)
    BY <2>2 DEF IInv, QueueShape
  <2> QED BY <2>1, <2>2, <2>3, InRange, HeadTailFacts
<1>2. CASE id = nowPlaying
  BY <1>2 DEF Jump, PlayOrder
<1>3. CASE id # nowPlaying
  <2> DEFINE rest == Without(RemainingQueue, id)
             one == <<id>>
  <2>1. /\ queue' = one \o rest /\ RetireNowPlaying
        /\ history' = Capped(<<nowPlaying>> \o history)
    BY <1>1, <1>3 DEF Jump, RetireNowPlaying
  <2>2. /\ RemainingQueue \in Seq(issued) /\ IsInjective(RemainingQueue)
        /\ Range(RemainingQueue) = Range(queue) \ {nowPlaying}
    BY <1>1, WithoutFacts DEF RemainingQueue
  <2>3. rest \in Seq(issued) /\ Range(rest) = Range(RemainingQueue) \ {id}
    BY <1>3, <2>2, WithoutFacts
  <2>4. one \in Seq(issued) /\ Range(one) = {id}
    <3>1. one \in Seq(issued) /\ Len(one) = 1 /\ one[1] = id
      BY <1>1
    <3> QED BY <3>1 DEF Range
  <2> HIDE DEF one, rest
  <2>5. Range(queue') = Range(one) \cup Range(rest)
    BY <2>1, <2>3, <2>4, ConcatFacts
  <2> QED BY <1>3, <2>1, <2>2, <2>3, <2>4, <2>5 DEF PlayOrder
<1> QED BY <1>2, <1>3

\* One step of the next-state relation, action by action.
LEMMA StepPlayOrder == IInv /\ [Next]_vars => PlayOrder
<1> SUFFICES ASSUME IInv, [Next]_vars PROVE PlayOrder
  OBVIOUS
<1>1. IInv'
  BY StepInv
<1>2. NoTrack \notin Range(queue')
  <2>1. queue' \in Seq(issued') /\ issued' \subseteq TrackIds
    BY <1>1 DEF IInv, TypeOK
  <2> QED BY <2>1, InRange, RoomQueueAssumption
<1>3. ASSUME history' = history \/ ~resident, nowPlaying' = nowPlaying \/ nowPlaying = NoTrack
      PROVE  PlayOrder
  BY <1>2, <1>3 DEF PlayOrder
<1>4. CASE UNCHANGED vars \/ RefillGapEnds \/ ClockRuns \/ Load
  BY <1>3, <1>4 DEF vars, RefillGapEnds, ClockRuns, Load
<1>5. ASSUME NEW new, AddTracks(new) PROVE PlayOrder
  BY <1>3, <1>5 DEF AddTracks, SwitchTo, Commit
<1>6. ASSUME NEW bumps, Stay(bumps), history' = history PROVE PlayOrder
  BY <1>3, <1>6 DEF Stay, Commit
<1>7. CASE QueueAdd \/ HistoryReAdd \/ PlaylistImport \/ RadioRefill
  BY <1>5, <1>6, <1>7 DEF QueueAdd, HistoryReAdd, PlaylistImport, RadioRefill
<1>8. ASSUME NEW bumps, Advance(bumps) PROVE PlayOrder
  BY <1>1, <1>8, NextTrackOrder DEF Advance
<1>9. CASE RemovePlaying
  BY <1>1, <1>9, NextTrackOrder DEF RemovePlaying
<1>10. ASSUME NEW id, SkipUnplayable(id) PROVE PlayOrder
  BY <1>1, <1>10, NextTrackOrder DEF SkipUnplayable
<1>11. ASSUME NEW id, NowPlayingAdvance(id) PROVE PlayOrder
  BY <1>8, <1>11 DEF NowPlayingAdvance
<1>12. ASSUME NEW id, NEW late, NowPlayingSet(id) \/ TransportPlayTrack(id, late)
       PROVE  PlayOrder
  <2>1. id \in Range(queue) /\ Jump(id) /\ resident /\ nowPlaying' = id
    BY <1>12 DEF NowPlayingSet, TransportPlayTrack, SwitchTo, Commit
  <2> QED BY <2>1, JumpOrder
<1>13. CASE \E claims \in {0, 1} : RoomJoin(claims)
  BY <1>6, <1>8, <1>13 DEF RoomJoin
<1>14. CASE QueueClear \/ OtherMutation \/ \E on \in BOOLEAN : RadioSet(on)
  BY <1>6, <1>14 DEF QueueClear, OtherMutation, RadioSet
<1>15. ASSUME NEW late, TransportPlay(late) \/ TransportPause(late) \/ TransportSeek(late)
       PROVE  PlayOrder
  BY <1>3, <1>15 DEF TransportPlay, TransportPause, TransportSeek, Commit
<1>16. ASSUME NEW id, NEW to, NEW voter,
              RemoveUpcoming(id) \/ QueueReorder(id, to) \/ QueueVote(id, voter)
       PROVE  PlayOrder
  BY <1>6, <1>16 DEF RemoveUpcoming, QueueReorder, QueueVote
<1>17. ASSUME NEW voter, NEW present, NEW new,
              PruneGuestVotes(voter) \/ VoteSkip(voter, present) \/ Rebind(voter, new)
                \/ PruneSkipVotes(present)
       PROVE  PlayOrder
  BY <1>6, <1>17 DEF PruneGuestVotes, VoteSkip, Rebind, PruneSkipVotes
<1> QED BY <1>4, <1>7, <1>9, <1>10, <1>11, <1>12, <1>13, <1>14, <1>15, <1>16, <1>17
        DEF Next

-----------------------------------------------------------------------------
(* The theorems *)

\* The inductive invariant: six properties of the room that need each other.
THEOREM Invariance == Spec => []IInv
<1>1. Init => IInv
  BY InitInv
<1>2. IInv /\ [Next]_vars => IInv'
  BY StepInv
<1> QED BY <1>1, <1>2, PTL DEF Spec

\* The variables keep their types, and Queue, History and every voter set their
\* caps, however long the room lives.
THEOREM TypesAndCaps == Spec => []TypeOK
<1>1. IInv => TypeOK
  BY DEF IInv
<1> QED BY <1>1, Invariance, PTL

\* A loaded room plays the head of its queue, or has none.
THEOREM HeadPlays == Spec => []QueueShape
<1>1. IInv => QueueShape
  BY DEF IInv
<1> QED BY <1>1, Invariance, PTL

\* A track id is in Queue or in History, and once.
THEOREM TracksAreUnique == Spec => []NoTrackTwice
<1>1. IInv => NoTrackTwice
  BY DEF IInv
<1> QED BY <1>1, Invariance, PTL

\* No vote outlives its track.
THEOREM VotesAreLive == Spec => []VotesFollowQueue
<1>1. IInv => VotesFollowQueue
  BY DEF IInv
<1> QED BY <1>1, Invariance, PTL

\* The transport never carries the position of an earlier track.
THEOREM ClockIsCurrent == Spec => []ClockFollowsTrack
<1>1. IInv => ClockFollowsTrack
  BY DEF IInv
<1> QED BY <1>1, Invariance, PTL

\* No skip vote is counted against a track it was not cast on.
THEOREM SkipVotesAreCurrent == Spec => NoVoteCarriesOver
<1>1. IInv /\ [Next]_vars => [nowPlaying' # nowPlaying => skipVotes' = {}]_vars
  BY StepKeepsNoVote
<1> QED BY <1>1, Invariance, PTL DEF Spec, NoVoteCarriesOver

\* Whatever clients are shown changes only with a version bump, and the version
\* never falls: a client that drops a state that is not newer misses nothing.
THEOREM ChangesAreVersioned == Spec => EveryChangeIsVersioned
<1>1. IInv /\ [Next]_vars => [/\ version' >= version
                              /\ published' # published => version' > version]_vars
  BY StepVersioned DEF Versioned
<1> QED BY <1>1, Invariance, PTL DEF Spec, EveryChangeIsVersioned

\* With sync on, a room that plays has a clock after every mutation that bumps.
THEOREM PlayingRoomsHaveClocks == Spec => PlayingHasClock
<1>1. IInv /\ [Next]_vars =>
        [SyncEnabled /\ resident /\ version' # version
           => (nowPlaying' # NoTrack => transport'.state # "none")]_vars
  BY StepVersioned DEF Clocked
<1> QED BY <1>1, Invariance, PTL DEF Spec, PlayingHasClock

\* History gains only the track that stops playing, at its front, and a track
\* that stops playing leaves the queue.
THEOREM HistoryInPlayOrder == Spec => HistoryIsPlayOrder
<1>1. IInv /\ [Next]_vars =>
        [/\ resident /\ history' # history
              => nowPlaying' # nowPlaying /\ history' = Capped(<<nowPlaying>> \o history)
         /\ nowPlaying' # nowPlaying => nowPlaying \notin Range(queue')]_vars
  BY StepPlayOrder DEF PlayOrder
<1> QED BY <1>1, Invariance, PTL DEF Spec, HistoryIsPlayOrder

=============================================================================
