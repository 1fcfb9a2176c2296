--------------------------- MODULE BackgroundProofs ---------------------------
(***************************************************************************)
(* Proofs about what a room does by itself: the event writer, the source   *)
(* lookups and the end of a track, for every number of events, pages and   *)
(* tracks, and every capacity, bound and number of retries.                *)
(***************************************************************************)
EXTENDS MCBackground, SequenceFacts, FiniteSetTheorems

-----------------------------------------------------------------------------
(***************************************************************************)
(* The event writer.  No event is lost or counted twice (EventsAccounted): *)
(* the count is kept because the buffer, the two chunks and the two        *)
(* counters are disjoint and hold no event twice.                          *)
(***************************************************************************)

\* A sequence without duplicates has as many elements as places.
LEMMA RangeCount ==
    ASSUME NEW S, NEW s \in Seq(S), IsInjective(s)
    PROVE  IsFiniteSet(Range(s)) /\ Cardinality(Range(s)) = Len(s)
<1>1. s \in Bijection(1 .. Len(s), Range(s))
  BY DEF Bijection, Injection, Surjection, IsInjective, Range
<1>2. ExistsBijection(1 .. Len(s), Range(s)) /\ Len(s) \in Nat
  BY <1>1 DEF ExistsBijection
<1> QED BY <1>2, FS_CountingElements, FS_NatBijection

\* Taking a chunk off the front splits a sequence into two without common elements.
LEMMA SplitFacts ==
    ASSUME NEW S, NEW s \in Seq(S), IsInjective(s), NEW n \in 0 .. Len(s)
    PROVE  LET a == SubSeq(s, 1, n)
               b == SubSeq(s, n + 1, Len(s))
           IN  /\ a \in Seq(S) /\ b \in Seq(S) /\ Len(a) = n /\ Len(b) = Len(s) - n
               /\ IsInjective(a) /\ IsInjective(b)
               /\ Range(a) \cup Range(b) = Range(s) /\ Range(a) \cap Range(b) = {}
<1> DEFINE a == SubSeq(s, 1, n)
           b == SubSeq(s, n + 1, Len(s))
<1>1. /\ a \in Seq(S) /\ b \in Seq(S) /\ Len(a) = n /\ Len(b) = Len(s) - n
      /\ \A i \in 1 .. n : a[i] = s[i]
      /\ \A i \in 1 .. Len(s) - n : b[i] = s[n + i]
  OBVIOUS
<1> HIDE DEF a, b
<1>2. IsInjective(a) /\ IsInjective(b)
  <2>1. IsInjective(a)
    BY <1>1 DEF IsInjective
  <2>2. ASSUME NEW i \in 1 .. Len(b), NEW j \in 1 .. Len(b), b[i] = b[j] PROVE i = j
    <3>1. n + i \in 1 .. Len(s) /\ n + j \in 1 .. Len(s) /\ s[n + i] = s[n + j]
      BY <1>1, <2>2
    <3>2. n + i = n + j
      BY <3>1 DEF IsInjective
    <3> QED BY <1>1, <3>2
  <2>3. IsInjective(b)
    BY <1>1, <2>2 DEF IsInjective
  <2> QED BY <2>1, <2>3
<1>3. Range(a) \cup Range(b) \subseteq Range(s)
  <2>1. ASSUME NEW i \in 1 .. Len(a) PROVE a[i] \in Range(s)
    <3>1. i \in 1 .. Len(s) /\ s[i] = a[i]
      BY <1>1
    <3> QED BY <3>1, InRange
  <2>2. \A i \in 1 .. Len(b) : b[i] \in Range(s)
    <3> SUFFICES ASSUME NEW i \in 1 .. Len(b) PROVE b[i] \in Range(s)
      OBVIOUS
    <3>1. n + i \in 1 .. Len(s) /\ b[i] = s[n + i]
      BY <1>1
    <3> QED BY <3>1, InRange
  <2>3. Range(a) \subseteq Range(s)
    <3>1. \A e \in Range(a) : \E i \in 1 .. Len(a) : e = a[i]
      BY <1>1, InRange
    <3> QED BY <2>1, <3>1
  <2>4. Range(b) \subseteq Range(s)
    <3>1. \A e \in Range(b) : \E i \in 1 .. Len(b) : e = b[i]
      BY <1>1, InRange
    <3> QED BY <2>2, <3>1
  <2> QED BY <2>3, <2>4
<1>4. Range(s) \subseteq Range(a) \cup Range(b)
  <2> SUFFICES ASSUME NEW i \in 1 .. Len(s) PROVE s[i] \in Range(a) \cup Range(b)
    BY InRange
  <2>1. CASE i <= n
    <3>1. i \in 1 .. Len(a) /\ a[i] = s[i]
      BY <1>1, <2>1
    <3> QED BY <1>1, <3>1, InRange
  <2>2. CASE i > n
    <3>1. i - n \in 1 .. Len(b) /\ b[i - n] = s[i]
      BY <1>1, <2>2
    <3> QED BY <1>1, <3>1, InRange
  <2> QED BY <2>1, <2>2
<1>5. Range(a) \cap Range(b) = {}
  <2> SUFFICES ASSUME NEW i \in 1 .. Len(a), NEW j \in 1 .. Len(b), a[i] = b[j] PROVE FALSE
    BY <1>1, InRange
  <2>1. i \in 1 .. Len(s) /\ n + j \in 1 .. Len(s) /\ s[i] = s[n + j] /\ i # n + j
    BY <1>1
  <2> QED BY <2>1 DEF IsInjective
<1> QED BY <1>1, <1>2, <1>3, <1>4, <1>5 DEF a, b

-----------------------------------------------------------------------------
(* The inductive invariant *)

\* Where an event is: in one place, and once.
Apart ==
    /\ IsInjective(buf) /\ \A f \in Flushers : IsInjective(chunk[f])
    /\ \A f \in Flushers : Range(buf) \cap Range(chunk[f]) = {}
    /\ Range(chunk["loop"]) \cap Range(chunk["close"]) = {}
    /\ Range(buf) \cap (written \cup dropped) = {}
    /\ \A f \in Flushers : Range(chunk[f]) \cap (written \cup dropped) = {}
    /\ written \cap dropped = {}

\* A flusher holds rows only while it inserts them, and Close works only on a
\* closed writer.
Phases ==
    /\ \A f \in Flushers : flusher[f] # "insert" => chunk[f] = <<>>
    /\ flusher["close"] # "idle" => closed
    /\ flusher["loop"] # "rest"

WriterInv == WriterTypeOK /\ Apart /\ Phases /\ EventsAccounted

\* What EventsAccounted says, place by place.
LEMMA Places ==
    /\ UNION Held = Range(buf) \cup Range(chunk["loop"]) \cup Range(chunk["close"])
                      \cup written \cup dropped
    /\ (UNION Held)' = Range(buf') \cup Range(chunk'["loop"]) \cup Range(chunk'["close"])
                      \cup written' \cup dropped'
BY DEF Held

\* The counters count finite sets.
LEMMA CountersFinite ==
    WriterTypeOK => /\ IsFiniteSet(written) /\ Cardinality(written) \in Nat
                    /\ IsFiniteSet(dropped) /\ Cardinality(dropped) \in Nat
<1> SUFFICES ASSUME WriterTypeOK PROVE /\ IsFiniteSet(written) /\ Cardinality(written) \in Nat
                                       /\ IsFiniteSet(dropped) /\ Cardinality(dropped) \in Nat
  OBVIOUS
<1>1. IsFiniteSet(Events)
  BY WriterAssumption, FS_Interval DEF Events
<1>2. written \subseteq Events /\ dropped \subseteq Events
  BY DEF WriterTypeOK
<1> QED BY <1>1, <1>2, FS_Subset, FS_CardinalityType

\* The rows in a flusher's hands.
Rows(f) == Len(chunk[f])

\* The sum of EventsAccounted is one of naturals.
LEMMA CountTypes ==
    WriterTypeOK => /\ Len(buf) \in Nat /\ Rows("loop") \in Nat /\ Rows("close") \in Nat
                    /\ Cardinality(written) \in Nat /\ Cardinality(dropped) \in Nat
                    /\ emitted \in Nat
<1> SUFFICES ASSUME WriterTypeOK
             PROVE  /\ Len(buf) \in Nat /\ Rows("loop") \in Nat /\ Rows("close") \in Nat
                    /\ Cardinality(written) \in Nat /\ Cardinality(dropped) \in Nat
                    /\ emitted \in Nat
  OBVIOUS
<1>1. buf \in Seq(Events) /\ chunk["loop"] \in Seq(Events) /\ chunk["close"] \in Seq(Events)
  BY DEF WriterTypeOK, Flushers
<1>2. emitted \in Nat
  BY WriterAssumption DEF WriterTypeOK
<1> QED BY <1>1, <1>2, CountersFinite DEF Rows

Total == Len(buf) + Rows("loop") + Rows("close") + Cardinality(written) + Cardinality(dropped)

\* EventsAccounted, before and after a step, in these terms.
LEMMA Accounted ==
    /\ EventsAccounted <=> /\ UNION Held = 1 .. emitted /\ Total = emitted
                           /\ flusher["close"] = "ended" => buf = <<>>
    /\ EventsAccounted' <=> /\ (UNION Held)' = 1 .. emitted' /\ Total' = emitted'
                            /\ flusher'["close"] = "ended" => buf' = <<>>
BY DEF EventsAccounted, Total, Rows

\* Rows that a counter takes over raise it by their number.
LEMMA CountRows ==
    ASSUME NEW S, NEW s \in Seq(S), IsInjective(s), NEW C, IsFiniteSet(C),
           Range(s) \cap C = {}
    PROVE  Cardinality(C \cup Range(s)) = Cardinality(C) + Len(s)
<1>1. /\ IsFiniteSet(Range(s)) /\ Cardinality(Range(s)) = Len(s)
      /\ Cardinality(C) \in Nat /\ Len(s) \in Nat
  BY RangeCount, FS_CardinalityType
<1>2. C \cap Range(s) = {} /\ Cardinality({}) = 0
  BY FS_EmptySet
<1>3. Cardinality(C \cup Range(s))
        = Cardinality(C) + Cardinality(Range(s)) - Cardinality(C \cap Range(s))
  BY <1>1, FS_Union
<1>4. Cardinality(C \cup Range(s)) = Cardinality(C) + Len(s) - 0
  BY <1>1, <1>2, <1>3
<1> QED BY <1>1, <1>4

\* Before the first event every place is empty.
LEMMA WriterInitInv == WriterInit => WriterInv
<1> SUFFICES ASSUME WriterInit PROVE WriterInv
  OBVIOUS
<1>1. Range(<<>>) = {} /\ IsInjective(<<>>) /\ Len(<<>>) = 0 /\ <<>> \in Seq(Events)
  BY DEF Range, IsInjective
<1>2. WriterTypeOK
  <2>1. MaxEvents \in Nat /\ Capacity \in Nat
    BY WriterAssumption
  <2>2. emitted \in 0 .. MaxEvents /\ buf \in Seq(Events) /\ Len(buf) <= Capacity
    BY <1>1, <2>1 DEF WriterInit
  <2>3. /\ {closed, woken, timeUp} \subseteq BOOLEAN
        /\ {written, dropped} \subseteq SUBSET Events
    BY DEF WriterInit
  <2>4. /\ flusher \in [Flushers -> {"idle", "waits", "flush", "insert", "rest", "ended"}]
        /\ chunk \in [Flushers -> Seq(Events)]
    BY <1>1 DEF WriterInit
  <2> QED BY <2>2, <2>3, <2>4 DEF WriterTypeOK
<1>3. Apart /\ Phases
  BY <1>1 DEF WriterInit, Apart, Phases, Flushers
<1>4. Cardinality({}) = 0
  BY FS_EmptySet
<1>5. EventsAccounted
  BY <1>1, <1>4, Places DEF WriterInit, EventsAccounted, Flushers
<1> QED BY <1>2, <1>3, <1>5 DEF WriterInv

\* The steps that move no event.
LEMMA NothingMoves ==
    ASSUME WriterInv, UNCHANGED <<emitted, buf, chunk, written, dropped>>,
           WriterTypeOK', Phases', flusher'["close"] = "ended" => buf = <<>>
    PROVE  WriterInv'
BY Places DEF WriterInv, Apart, EventsAccounted

\* A new event is in the buffer, or counted as dropped when the buffer is full.
LEMMA EmitInv == WriterInv /\ Emit => WriterInv'
<1> SUFFICES ASSUME WriterInv, Emit PROVE WriterInv'
  OBVIOUS
<1> DEFINE e == emitted + 1
<1>1. /\ WriterTypeOK /\ Apart /\ Phases /\ EventsAccounted
      /\ emitted \in Nat /\ MaxEvents \in Nat /\ buf \in Seq(Events)
      /\ UNCHANGED <<closed, flusher, chunk, timeUp, written>>
      /\ emitted' = e /\ e \in Events /\ 1 .. e = (1 .. emitted) \cup {e}
  BY WriterAssumption DEF WriterInv, WriterTypeOK, Emit, Events
<1>2. e \notin UNION Held
  BY <1>1 DEF EventsAccounted
<1>3. /\ e \notin Range(buf) /\ e \notin written \cup dropped
      /\ e \notin Range(chunk["loop"]) /\ e \notin Range(chunk["close"])
  BY <1>2, Places
<1> HIDE DEF e
<1>4. CASE TurnedAway
  <2>1. dropped' = dropped \cup {e} /\ UNCHANGED <<buf, woken>>
    BY <1>1, <1>4 DEF Emit
  <2>2. Cardinality(dropped') = Cardinality(dropped) + 1
    BY <1>1, <1>3, <2>1, CountersFinite, FS_AddElement
  <2>3. WriterTypeOK'
    BY <1>1, <2>1 DEF WriterTypeOK, Events
  <2>4. Apart' /\ Phases'
    BY <1>1, <1>3, <2>1 DEF Apart, Phases, Flushers
  <2>5. EventsAccounted'
    <3>1. (UNION Held)' = 1 .. emitted'
      BY <1>1, <2>1, Places DEF EventsAccounted
    <3>2. Rows("loop")' = Rows("loop") /\ Rows("close")' = Rows("close")
      BY <1>1 DEF Rows
    <3>3. Total' = Total + 1
      BY <1>1, <2>1, <2>2, <3>2, CountTypes DEF Total
    <3>4. flusher'["close"] = "ended" => buf' = <<>>
      BY <1>1, <2>1 DEF EventsAccounted
    <3> QED BY <1>1, <3>1, <3>3, <3>4, Accounted DEF e
  <2> QED BY <2>3, <2>4, <2>5 DEF WriterInv
<1>5. CASE ~TurnedAway
  <2>1. /\ buf' = Append(buf, e) /\ UNCHANGED dropped /\ woken' \in BOOLEAN
        /\ ~closed /\ Len(buf) < Capacity
    <3>1. ~closed /\ ~(Len(buf) >= Capacity) /\ Len(buf) \in Nat /\ Capacity \in Nat
      BY <1>1, <1>5, WriterAssumption DEF TurnedAway
    <3> QED BY <1>1, <1>5, <3>1 DEF Emit, WriterTypeOK
  <2>2. /\ buf' \in Seq(Events) /\ IsInjective(buf') /\ Len(buf') = Len(buf) + 1
        /\ Range(buf') = Range(buf) \cup {e}
    BY <1>1, <1>3, <2>1, AppendFacts DEF Apart
  <2>3. WriterTypeOK'
    BY <1>1, <2>1, <2>2, WriterAssumption DEF WriterTypeOK, Events
  <2>4. Apart' /\ Phases'
    BY <1>1, <1>3, <2>1, <2>2 DEF Apart, Phases, Flushers
  <2>5. EventsAccounted'
    <3>1. (UNION Held)' = 1 .. emitted'
      BY <1>1, <2>1, <2>2, Places DEF EventsAccounted
    <3>2. Rows("loop")' = Rows("loop") /\ Rows("close")' = Rows("close")
      BY <1>1 DEF Rows
    <3>3. Total' = Total + 1
      BY <1>1, <2>1, <2>2, <3>2, CountTypes DEF Total
    <3>4. flusher'["close"] # "ended"
      BY <1>1, <2>1 DEF Phases
    <3> QED BY <1>1, <3>1, <3>3, <3>4, Accounted DEF e
  <2> QED BY <2>3, <2>4, <2>5 DEF WriterInv
<1> QED BY <1>4, <1>5

\* A flusher moves events from the buffer to its chunk, whole.
LEMMA TakeChunkInv ==
    ASSUME WriterInv, NEW f \in Flushers, TakeChunk(f) PROVE WriterInv'
<1>1. /\ WriterTypeOK /\ Apart /\ Phases /\ EventsAccounted /\ buf \in Seq(Events)
      /\ flusher[f] = "flush" /\ chunk[f] = <<>>
      /\ UNCHANGED <<emitted, closed, woken, timeUp, written, dropped>>
  BY DEF WriterInv, WriterTypeOK, Phases, TakeChunk
<1>2. CASE buf = <<>> \/ (f = "close" /\ timeUp)
  <2>1. flusher' = [flusher EXCEPT ![f] = After(f)] /\ UNCHANGED <<buf, chunk>>
    BY <1>2 DEF TakeChunk
  <2>2. WriterTypeOK' /\ Phases'
    BY <1>1, <2>1 DEF WriterTypeOK, Phases, Flushers, After
  <2>3. flusher'["close"] = "ended" => buf = <<>>
    BY <1>1, <2>1 DEF WriterTypeOK, EventsAccounted, Flushers, After
  <2> QED BY <1>1, <2>1, <2>2, <2>3, NothingMoves
<1>3. CASE ~(buf = <<>> \/ (f = "close" /\ timeUp))
  <2> DEFINE n == Least(Len(buf))
  <2>1. /\ chunk' = [chunk EXCEPT ![f] = SubSeq(buf, 1, n)]
        /\ buf' = SubSeq(buf, n + 1, Len(buf))
        /\ flusher' = [flusher EXCEPT ![f] = "insert"]
    BY <1>3 DEF TakeChunk
  <2>2. n \in 0 .. Len(buf)
    BY <1>1, WriterAssumption DEF Least
  <2> HIDE DEF n
  <2>3. /\ chunk'[f] \in Seq(Events) /\ buf' \in Seq(Events)
        /\ Len(chunk'[f]) = n /\ Len(buf') = Len(buf) - n
        /\ IsInjective(chunk'[f]) /\ IsInjective(buf')
        /\ Range(chunk'[f]) \cup Range(buf') = Range(buf)
        /\ Range(chunk'[f]) \cap Range(buf') = {}
    <3>1. chunk'[f] = SubSeq(buf, 1, n)
      BY <1>1, <2>1 DEF WriterTypeOK
    <3> DEFINE a == SubSeq(buf, 1, n)
               b == SubSeq(buf, n + 1, Len(buf))
    <3>2. /\ a \in Seq(Events) /\ b \in Seq(Events) /\ Len(a) = n /\ Len(b) = Len(buf) - n
          /\ IsInjective(a) /\ IsInjective(b)
          /\ Range(a) \cup Range(b) = Range(buf) /\ Range(a) \cap Range(b) = {}
      BY <1>1, <2>2, SplitFacts DEF Apart
    <3> HIDE DEF a, b
    <3>3. chunk'[f] = a /\ buf' = b
      BY <2>1, <3>1 DEF a, b
    <3> QED BY <3>2, <3>3
  <2>4. WriterTypeOK' /\ Phases'
    <3>1. Len(buf') <= Capacity
      BY <1>1, <2>2, <2>3, WriterAssumption DEF WriterTypeOK
    <3> QED BY <1>1, <2>1, <2>3, <3>1 DEF WriterTypeOK, Phases, Flushers
  <2>5. /\ \A g \in Flushers \ {f} : chunk'[g] = chunk[g] /\ flusher'[g] = flusher[g]
        /\ flusher'[f] = "insert"
    BY <1>1, <2>1 DEF WriterTypeOK
  <2>6. Apart'
    BY <1>1, <2>3, <2>5 DEF Apart, Flushers
  <2>7. Range(<<>>) = {} /\ Len(<<>>) = 0
    BY DEF Range
  <2>8. EventsAccounted'
    <3>1. (UNION Held)' = UNION Held
      BY <1>1, <2>3, <2>5, <2>7, Places DEF Flushers
    <3>2. /\ Rows(f) = 0 /\ Rows(f)' = n
          /\ \A g \in Flushers \ {f} : Rows(g)' = Rows(g)
      BY <1>1, <2>3, <2>5, <2>7 DEF Rows
    <3>3. Len(buf') + Rows("loop")' + Rows("close")' = Len(buf) + Rows("loop") + Rows("close")
      <4>1. n \in Nat /\ Len(buf) \in Nat /\ Len(buf') = Len(buf) - n
        BY <1>1, <2>2, <2>3
      <4>2. CASE f = "loop"
        BY <1>1, <3>2, <4>1, <4>2, CountTypes DEF Flushers
      <4>3. CASE f = "close"
        BY <1>1, <3>2, <4>1, <4>3, CountTypes DEF Flushers
      <4> QED BY <4>2, <4>3 DEF Flushers
    <3>4. Total' = Total
      BY <1>1, <3>3 DEF Total
    <3>5. flusher'["close"] # "ended"
      BY <1>1, <1>3, <2>5 DEF EventsAccounted, Flushers
    <3> QED BY <1>1, <3>1, <3>4, <3>5, Accounted
  <2> QED BY <2>4, <2>6, <2>8 DEF WriterInv
<1> QED BY <1>2, <1>3

\* A chunk that was inserted is counted as written, once.
LEMMA InsertedInv ==
    ASSUME WriterInv, NEW f \in Flushers, Inserted(f) PROVE WriterInv'
<1>1. /\ WriterTypeOK /\ Apart /\ Phases /\ EventsAccounted /\ chunk[f] \in Seq(Events)
      /\ flusher[f] = "insert" /\ flusher' = [flusher EXCEPT ![f] = "flush"]
      /\ chunk' = [chunk EXCEPT ![f] = <<>>]
      /\ UNCHANGED <<emitted, buf, closed, woken, timeUp>>
  BY DEF WriterInv, WriterTypeOK, Inserted
<1>2. /\ \A g \in Flushers \ {f} : chunk'[g] = chunk[g] /\ flusher'[g] = flusher[g]
      /\ flusher'[f] = "flush" /\ chunk'[f] = <<>>
  BY <1>1 DEF WriterTypeOK
<1>3. Range(<<>>) = {} /\ Len(<<>>) = 0 /\ IsInjective(<<>>) /\ <<>> \in Seq(Events)
  BY DEF Range, IsInjective
<1>4. Range(chunk[f]) \subseteq Events
  BY <1>1 DEF Range
<1>5. \/ written' = written \cup Range(chunk[f]) /\ dropped' = dropped
      \/ dropped' = dropped \cup Range(chunk[f]) /\ written' = written
  BY DEF Inserted
<1>6. WriterTypeOK' /\ Phases'
  BY <1>1, <1>2, <1>3, <1>4, <1>5 DEF WriterTypeOK, Phases, Flushers
<1>7. Apart'
  <2>1. \A g \in Flushers : IsInjective(chunk'[g]) /\ Range(chunk'[g]) \subseteq Range(chunk[g])
    BY <1>1, <1>2, <1>3 DEF Apart
  <2>2. /\ Range(chunk'[f]) = {} /\ Range(chunk[f]) \cap Range(buf) = {}
        /\ \A g \in Flushers \ {f} : Range(chunk'[g]) \cap Range(chunk[f]) = {}
    BY <1>1, <1>2, <1>3 DEF Apart, Flushers
  <2> QED BY <1>1, <1>5, <2>1, <2>2 DEF Apart, Flushers
<1>8. EventsAccounted'
  <2>1. (UNION Held)' = UNION Held
    BY <1>1, <1>2, <1>3, <1>5, Places DEF Flushers
  <2>2. /\ Rows(f)' = 0 /\ Rows(f) \in Nat
        /\ \A g \in Flushers \ {f} : Rows(g)' = Rows(g)
    BY <1>1, <1>2, <1>3 DEF Rows
  <2>3. /\ Cardinality(written') + Cardinality(dropped')
             = Cardinality(written) + Cardinality(dropped) + Rows(f)
        /\ Cardinality(written') \in Nat /\ Cardinality(dropped') \in Nat
    <3>1. /\ Cardinality(written \cup Range(chunk[f])) = Cardinality(written) + Rows(f)
          /\ Cardinality(dropped \cup Range(chunk[f])) = Cardinality(dropped) + Rows(f)
      <4>1. /\ IsFiniteSet(written) /\ IsFiniteSet(dropped) /\ IsInjective(chunk[f])
            /\ Range(chunk[f]) \cap written = {} /\ Range(chunk[f]) \cap dropped = {}
        BY <1>1, CountersFinite DEF Apart
      <4> QED BY <1>1, <4>1, CountRows DEF Rows
    <3>2. CASE written' = written \cup Range(chunk[f]) /\ dropped' = dropped
      BY <1>1, <2>2, <3>1, <3>2, CountTypes
    <3>3. CASE dropped' = dropped \cup Range(chunk[f]) /\ written' = written
      BY <1>1, <2>2, <3>1, <3>3, CountTypes
    <3> QED BY <1>5, <3>2, <3>3
  <2>4. Total' = Total
    <3>1. /\ Rows("loop") \in Nat /\ Rows("close") \in Nat /\ Len(buf) \in Nat
          /\ Cardinality(written) \in Nat /\ Cardinality(dropped) \in Nat
          /\ Len(buf') = Len(buf)
      BY <1>1, CountTypes
    <3>2. /\ Rows("loop")' + Rows("close")' + Rows(f) = Rows("loop") + Rows("close")
          /\ Rows("loop")' \in Nat /\ Rows("close")' \in Nat
      <4>1. CASE f = "loop"
        BY <2>2, <3>1, <4>1 DEF Flushers
      <4>2. CASE f = "close"
        BY <2>2, <3>1, <4>2 DEF Flushers
      <4> QED BY <4>1, <4>2 DEF Flushers
    <3>3. PICK l, k, l1, k1, w, d, w1, d1, r, n \in Nat :
            /\ l = Rows("loop") /\ k = Rows("close") /\ n = Len(buf) /\ n = Len(buf')
            /\ l1 = Rows("loop")' /\ k1 = Rows("close")' /\ r = Rows(f)
            /\ w = Cardinality(written) /\ d = Cardinality(dropped)
            /\ w1 = Cardinality(written') /\ d1 = Cardinality(dropped')
      BY <2>2, <2>3, <3>1, <3>2, Zenon
    <3>4. l1 + k1 + r = l + k /\ w1 + d1 = w + d + r
      BY <2>3, <3>2, <3>3, Zenon
    <3>5. n + l1 + k1 + w1 + d1 = n + l + k + w + d
      BY <3>4
    <3>6. Total' = n + l1 + k1 + w1 + d1 /\ Total = n + l + k + w + d
      BY <3>3, Zenon DEF Total
    <3> QED BY <3>5, <3>6
  <2>5. flusher'["close"] = "ended" => buf' = <<>>
    BY <1>1, <1>2 DEF EventsAccounted, Flushers
  <2> QED BY <1>1, <2>1, <2>4, <2>5, Accounted
<1> QED BY <1>6, <1>7, <1>8 DEF WriterInv

\* What Close leaves in the buffer is counted as dropped.
LEMMA DropRestInv == WriterInv /\ DropRest => WriterInv'
<1> SUFFICES ASSUME WriterInv, DropRest PROVE WriterInv'
  OBVIOUS
<1>1. /\ WriterTypeOK /\ Apart /\ Phases /\ EventsAccounted /\ buf \in Seq(Events)
      /\ flusher["close"] = "rest" /\ flusher' = [flusher EXCEPT !["close"] = "ended"]
      /\ buf' = <<>> /\ dropped' = dropped \cup Range(buf)
      /\ UNCHANGED <<emitted, closed, woken, chunk, timeUp, written>>
  BY DEF WriterInv, WriterTypeOK, DropRest
<1>2. Range(<<>>) = {} /\ Len(<<>>) = 0 /\ IsInjective(<<>>) /\ <<>> \in Seq(Events)
  BY DEF Range, IsInjective
<1>3. Range(buf) \subseteq Events
  BY <1>1 DEF Range
<1>4. WriterTypeOK' /\ Phases'
  BY <1>1, <1>2, <1>3, WriterAssumption DEF WriterTypeOK, Phases, Flushers
<1>5. Apart'
  BY <1>1, <1>2 DEF Apart, Flushers
<1>6. EventsAccounted'
  <2>1. (UNION Held)' = UNION Held
    BY <1>1, <1>2, Places
  <2>2. Rows("loop")' = Rows("loop") /\ Rows("close")' = Rows("close")
    BY <1>1 DEF Rows
  <2>3. Cardinality(dropped') = Cardinality(dropped) + Len(buf)
    BY <1>1, CountersFinite, CountRows DEF Apart
  <2>4. Total' = Total
    BY <1>1, <1>2, <2>2, <2>3, CountTypes DEF Total
  <2> QED BY <1>1, <2>1, <2>4, Accounted
<1> QED BY <1>4, <1>5, <1>6 DEF WriterInv

\* Every step of the writer keeps the count: the steps above, and those that move no event.
LEMMA WriterStepInv == WriterInv /\ [WriterNext]_writerVars => WriterInv'
<1> SUFFICES ASSUME WriterInv, [WriterNext]_writerVars PROVE WriterInv'
  OBVIOUS
<1>1. WriterTypeOK /\ Phases /\ EventsAccounted
  BY DEF WriterInv
<1>2. ASSUME UNCHANGED <<emitted, buf, chunk, written, dropped>>, WriterTypeOK', Phases',
             flusher'["close"] = "ended" => flusher["close"] = "ended"
      PROVE  WriterInv'
  BY <1>1, <1>2, NothingMoves DEF EventsAccounted
<1>3. CASE LoopWakes
  BY <1>1, <1>2, <1>3 DEF LoopWakes, WriterTypeOK, Phases, Flushers
<1>4. CASE Close
  BY <1>1, <1>2, <1>4 DEF Close, WriterTypeOK, Phases, Flushers
<1>5. CASE TimeIsUp
  BY <1>1, <1>2, <1>5 DEF TimeIsUp, WriterTypeOK, Phases, Flushers
<1>6. CASE Waited
  BY <1>1, <1>2, <1>6 DEF Waited, WriterTypeOK, Phases, Flushers
<1>7. CASE UNCHANGED writerVars
  BY <1>1, <1>2, <1>7 DEF writerVars, WriterTypeOK, Phases
<1> QED
  BY <1>3, <1>4, <1>5, <1>6, <1>7, EmitInv, TakeChunkInv, InsertedInv, DropRestInv
     DEF WriterNext

-----------------------------------------------------------------------------

\* However the handlers, the loop and Close interleave, every event is in exactly
\* one place, and none is left in the buffer when Close has returned.
THEOREM NoEventLost == WriterSpec => []EventsAccounted
<1>1. WriterInv => EventsAccounted
  BY DEF WriterInv
<1> QED BY <1>1, WriterInitInv, WriterStepInv, PTL DEF WriterSpec

-----------------------------------------------------------------------------
(***************************************************************************)
(* The source lookups.  A track's count of pending lookups is exact, and   *)
(* only a track that a lookup missed cleanly is skipped.  What makes the   *)
(* invariant inductive is what the fields of a queued track say of its     *)
(* lookups (Tells): a checked track has a source, a clean miss or a lookup *)
(* under way, and one the quota refused is uncertain; and that, until the  *)
(* check that follows a mutation, its claims cover the playing track.      *)
(***************************************************************************)

Books == [pending : 0 .. MaxAttempts + 1, checked : BOOLEAN, uncertain : BOOLEAN,
          lookup : BOOLEAN, owed : BOOLEAN, attempts : 0 .. MaxAttempts]

\* Lookups at one stage and the answer of one lookup, by the names of their parts.
At(js, t, k, s) == js[<<t, k, s>>]
Said(ans, t, k) == ans[<<t, k>>]

\* The parts of the invariant are stated of arguments: the fields b and the sources
\* src of a track t, and the lookups js and answers ans of all, before or after a
\* mutation has claimed its window.
Missed(t, ans) == \E k \in Kinds : Said(ans, t, k) = "miss"

\* Lookups are counted by the attempts; a track without a claim has one left.
Counts(t, b, js) ==
    /\ Counted(js, t, "youtube") <= b.attempts
    /\ Counted(js, t, "spotify") <= 1 /\ At(js, t, "spotify", "refused") = 0
    /\ ~b.lookup => b.attempts < MaxAttempts

\* What the fields of a queued track say of its lookups.
Tells(t, src, b, js, ans) ==
    /\ b.pending = Counted(js, t, "youtube") + Counted(js, t, "spotify")
    /\ b.checked => matchers = {} \/ src # {} \/ Missed(t, ans) \/ b.uncertain \/ b.pending > 0
    /\ Said(ans, t, "youtube") = "quota" => b.uncertain \/ Counted(js, t, "youtube") > 0
    /\ \A k \in Kinds : At(js, t, k, "found") > 0 => src # {}

\* A track that is about to be skipped has no lookup and will not get one.
Final(t, queued, src, b, js, ans) ==
    /\ src = {} /\ Counted(js, t, "youtube") + Counted(js, t, "spotify") = 0
    /\ matchers = {} \/ Missed(t, ans)
    /\ Said(ans, t, "youtube") # "quota"
    /\ queued => (b.checked \/ matchers = {}) /\ (b.lookup \/ "youtube" \notin matchers)

\* Nothing has happened to a track that was not added.
Unused(t, js, ans) ==
    /\ Counted(js, t, "youtube") = 0 /\ Counted(js, t, "spotify") = 0
    /\ \A k \in Kinds : Said(ans, t, k) = "none"

\* The four together, for the tracks add added, the queue l and the tracks st found.
Sound(add, l, src, bk, js, st, ans) ==
    /\ \A t \in Songs : Counts(t, bk[t], js)
    /\ \A t \in Range(l) : Tells(t, src[t], bk[t], js, ans)
    /\ \A t \in st : Final(t, t \in Range(l), src[t], bk[t], js, ans)
    /\ \A t \in Songs \ add : Unused(t, js, ans)
    /\ st \subseteq add

\* Until the check that follows a mutation, the playing track has been looked up on
\* YouTube, or waits for the quota.
HeadClaimed ==
    unchecked /\ line # <<>> /\ "youtube" \in matchers \ sources[Head(line)] =>
        book[Head(line)].lookup \/ book[Head(line)].uncertain

LookupInv ==
    /\ LookupTypeOK /\ HeadClaimed
    /\ Sound(added, line, sources, book, jobs, stuck, answer)

-----------------------------------------------------------------------------
(* Counting lookups *)

\* The assumption, bound by bound.
LEMMA Bounds ==
    /\ Window \in Nat \ {0} /\ MaxAttempts \in Nat \ {0} /\ Admission \in Nat \ {0}
    /\ MaxTrips \in Nat
BY LookupAssumption

\* Every lookup at every stage has a number, and the counts are their sums.
LEMMA SlotFacts ==
    ASSUME NEW js \in [Slots -> Nat], NEW t \in Songs, NEW k \in Kinds
    PROVE  /\ \A s \in Stages : At(js, t, k, s) \in Nat /\ <<t, k, s>> \in Slots
           /\ Counted(js, t, k) = At(js, t, k, "claimed") + At(js, t, k, "running")
                                    + At(js, t, k, "found") + At(js, t, k, "refused")
<1>1. ASSUME NEW s \in Stages PROVE At(js, t, k, s) \in Nat /\ <<t, k, s>> \in Slots
  <2>1. <<t, k, s>> \in Slots
    BY DEF Slots
  <2> QED BY <2>1 DEF At
<1> QED BY <1>1 DEF Counted, At

\* Counts are natural numbers, and no less than any of their parts.
LEMMA CountedFacts ==
    ASSUME NEW js \in [Slots -> Nat], NEW t \in Songs, NEW k \in Kinds
    PROVE  /\ Counted(js, t, k) \in Nat
           /\ \A s \in Stages : At(js, t, k, s) <= Counted(js, t, k)
<1>1. /\ At(js, t, k, "claimed") \in Nat /\ At(js, t, k, "running") \in Nat
      /\ At(js, t, k, "found") \in Nat /\ At(js, t, k, "refused") \in Nat
  BY SlotFacts DEF Stages
<1>2. Counted(js, t, k) = At(js, t, k, "claimed") + At(js, t, k, "running")
                            + At(js, t, k, "found") + At(js, t, k, "refused")
  BY SlotFacts
<1> QED BY <1>1, <1>2 DEF Stages

\* Where two counts agree at every stage but one, they differ by what they differ there.
LEMMA CountedShift ==
    ASSUME NEW js \in [Slots -> Nat], NEW ks \in [Slots -> Nat],
           NEW t \in Songs, NEW k \in Kinds, NEW s \in Stages,
           \A r \in Stages \ {s} : At(ks, t, k, r) = At(js, t, k, r)
    PROVE  Counted(ks, t, k) - Counted(js, t, k) = At(ks, t, k, s) - At(js, t, k, s)
<1>1. /\ At(js, t, k, "claimed") \in Nat /\ At(js, t, k, "running") \in Nat
      /\ At(js, t, k, "found") \in Nat /\ At(js, t, k, "refused") \in Nat
      /\ At(ks, t, k, "claimed") \in Nat /\ At(ks, t, k, "running") \in Nat
      /\ At(ks, t, k, "found") \in Nat /\ At(ks, t, k, "refused") \in Nat
  BY SlotFacts DEF Stages
<1>2. /\ Counted(js, t, k) = At(js, t, k, "claimed") + At(js, t, k, "running")
                                + At(js, t, k, "found") + At(js, t, k, "refused")
      /\ Counted(ks, t, k) = At(ks, t, k, "claimed") + At(ks, t, k, "running")
                                + At(ks, t, k, "found") + At(ks, t, k, "refused")
  BY SlotFacts
<1> QED BY <1>1, <1>2 DEF Stages

\* A lookup that is put somewhere counts once more there.
LEMMA PutFacts ==
    ASSUME NEW js \in [Slots -> Nat], NEW t \in Songs, NEW k \in Kinds, NEW s \in Stages
    PROVE  /\ Put(js, t, k, s) \in [Slots -> Nat]
           /\ \A u \in Songs, m \in Kinds :
                 Counted(Put(js, t, k, s), u, m)
                   = Counted(js, u, m) + (IF u = t /\ m = k THEN 1 ELSE 0)
           /\ \A u \in Songs, m \in Kinds, r \in Stages :
                 At(Put(js, t, k, s), u, m, r)
                   = At(js, u, m, r) + (IF u = t /\ m = k /\ r = s THEN 1 ELSE 0)
<1> DEFINE ks == Put(js, t, k, s)
<1>1. ks \in [Slots -> Nat]
  <2>1. <<t, k, s>> \in Slots /\ js[<<t, k, s>>] \in Nat
    BY SlotFacts DEF At
  <2> QED BY <2>1 DEF Put
<1>2. ASSUME NEW u \in Songs, NEW m \in Kinds, NEW r \in Stages
      PROVE  At(ks, u, m, r) = At(js, u, m, r) + (IF u = t /\ m = k /\ r = s THEN 1 ELSE 0)
  <2>1. <<u, m, r>> \in Slots /\ At(js, u, m, r) \in Nat
    BY SlotFacts
  <2>2. CASE u = t /\ m = k /\ r = s
    BY <2>1, <2>2 DEF Put, At
  <2>3. CASE <<u, m, r>> # <<t, k, s>>
    <3>1. ks[<<u, m, r>>] = js[<<u, m, r>>]
      BY <2>1, <2>3 DEF Put
    <3> QED BY <2>1, <2>3, <3>1 DEF At
  <2> QED BY <2>2, <2>3
<1> HIDE DEF ks
<1>3. ASSUME NEW u \in Songs, NEW m \in Kinds
      PROVE  Counted(ks, u, m) = Counted(js, u, m) + (IF u = t /\ m = k THEN 1 ELSE 0)
  <2>1. ASSUME NEW r \in Stages \ {s} PROVE At(ks, u, m, r) = At(js, u, m, r)
    <3>1. At(js, u, m, r) \in Nat
      BY SlotFacts
    <3> QED BY <1>2, <3>1
  <2>2. /\ At(ks, u, m, s) = At(js, u, m, s) + (IF u = t /\ m = k THEN 1 ELSE 0)
        /\ At(js, u, m, s) \in Nat
    BY <1>2, SlotFacts
  <2>3. Counted(ks, u, m) - Counted(js, u, m) = At(ks, u, m, s) - At(js, u, m, s)
    BY <1>1, <2>1, CountedShift
  <2>4. Counted(ks, u, m) \in Nat /\ Counted(js, u, m) \in Nat
    BY <1>1, CountedFacts
  <2> QED BY <2>2, <2>3, <2>4
<1> QED BY <1>1, <1>2, <1>3 DEF ks

\* A lookup that is taken away counts once less.
LEMMA TakenFacts ==
    ASSUME NEW js \in [Slots -> Nat], NEW t \in Songs, NEW k \in Kinds, NEW s \in Stages,
           At(js, t, k, s) > 0
    PROVE  /\ Taken(js, t, k, s) \in [Slots -> Nat]
           /\ \A u \in Songs, m \in Kinds :
                 Counted(Taken(js, t, k, s), u, m)
                   = Counted(js, u, m) - (IF u = t /\ m = k THEN 1 ELSE 0)
           /\ \A u \in Songs, m \in Kinds, r \in Stages :
                 At(Taken(js, t, k, s), u, m, r)
                   = At(js, u, m, r) - (IF u = t /\ m = k /\ r = s THEN 1 ELSE 0)
<1> DEFINE ks == Taken(js, t, k, s)
<1>1. ks \in [Slots -> Nat]
  <2>1. <<t, k, s>> \in Slots /\ js[<<t, k, s>>] \in Nat /\ js[<<t, k, s>>] > 0
    BY SlotFacts DEF At
  <2>2. js[<<t, k, s>>] - 1 \in Nat
    BY <2>1
  <2> QED BY <2>1, <2>2 DEF Taken
<1>2. ASSUME NEW u \in Songs, NEW m \in Kinds, NEW r \in Stages
      PROVE  At(ks, u, m, r) = At(js, u, m, r) - (IF u = t /\ m = k /\ r = s THEN 1 ELSE 0)
  <2>1. <<u, m, r>> \in Slots /\ At(js, u, m, r) \in Nat
    BY SlotFacts
  <2>2. CASE u = t /\ m = k /\ r = s
    BY <2>1, <2>2 DEF Taken, At
  <2>3. CASE <<u, m, r>> # <<t, k, s>>
    <3>1. ks[<<u, m, r>>] = js[<<u, m, r>>]
      BY <2>1, <2>3 DEF Taken
    <3> QED BY <2>1, <2>3, <3>1 DEF At
  <2> QED BY <2>2, <2>3
<1> HIDE DEF ks
<1>3. ASSUME NEW u \in Songs, NEW m \in Kinds
      PROVE  Counted(ks, u, m) = Counted(js, u, m) - (IF u = t /\ m = k THEN 1 ELSE 0)
  <2>1. ASSUME NEW r \in Stages \ {s} PROVE At(ks, u, m, r) = At(js, u, m, r)
    <3>1. At(js, u, m, r) \in Nat
      BY SlotFacts
    <3> QED BY <1>2, <3>1
  <2>2. /\ At(ks, u, m, s) = At(js, u, m, s) - (IF u = t /\ m = k THEN 1 ELSE 0)
        /\ At(js, u, m, s) \in Nat
    BY <1>2, SlotFacts
  <2>3. Counted(ks, u, m) - Counted(js, u, m) = At(ks, u, m, s) - At(js, u, m, s)
    BY <1>1, <2>1, CountedShift
  <2>4. Counted(ks, u, m) \in Nat /\ Counted(js, u, m) \in Nat
    BY <1>1, CountedFacts
  <2> QED BY <2>2, <2>3, <2>4
<1> QED BY <1>1, <1>2, <1>3 DEF ks

\* Moving a lookup from a stage to another leaves the counts alone.
LEMMA MovedFacts ==
    ASSUME NEW js \in [Slots -> Nat], NEW t \in Songs, NEW k \in Kinds,
           NEW r \in Stages, NEW s \in Stages, At(js, t, k, r) > 0
    PROVE  LET ks == Put(Taken(js, t, k, r), t, k, s)
           IN  /\ ks \in [Slots -> Nat]
               /\ \A u \in Songs, m \in Kinds : Counted(ks, u, m) = Counted(js, u, m)
               /\ \A u \in Songs, m \in Kinds, q \in Stages :
                     At(ks, u, m, q) = At(js, u, m, q) - (IF u = t /\ m = k /\ q = r THEN 1 ELSE 0)
                                         + (IF u = t /\ m = k /\ q = s THEN 1 ELSE 0)
<1> DEFINE is == Taken(js, t, k, r)
           ks == Put(is, t, k, s)
<1>1. /\ is \in [Slots -> Nat]
      /\ \A u \in Songs, m \in Kinds :
            Counted(is, u, m) = Counted(js, u, m) - (IF u = t /\ m = k THEN 1 ELSE 0)
      /\ \A u \in Songs, m \in Kinds, q \in Stages :
            At(is, u, m, q) = At(js, u, m, q) - (IF u = t /\ m = k /\ q = r THEN 1 ELSE 0)
  BY TakenFacts
<1> HIDE DEF is
<1>2. /\ ks \in [Slots -> Nat]
      /\ \A u \in Songs, m \in Kinds :
            Counted(ks, u, m) = Counted(is, u, m) + (IF u = t /\ m = k THEN 1 ELSE 0)
      /\ \A u \in Songs, m \in Kinds, q \in Stages :
            At(ks, u, m, q) = At(is, u, m, q) + (IF u = t /\ m = k /\ q = s THEN 1 ELSE 0)
  BY <1>1, PutFacts
<1> HIDE DEF ks
<1>3. ASSUME NEW u \in Songs, NEW m \in Kinds
      PROVE  Counted(ks, u, m) = Counted(js, u, m)
  <2>1. Counted(js, u, m) \in Nat
    BY CountedFacts
  <2> QED BY <2>1, <1>1, <1>2
<1> QED BY <1>1, <1>2, <1>3 DEF ks, is

\* Counts bound the numbers of lookups at each stage.
LEMMA JobsBounded ==
    ASSUME NEW js \in [Slots -> Nat], NEW bk \in [Songs -> Books],
           \A t \in Songs : Counts(t, bk[t], js)
    PROVE  js \in [Slots -> 0 .. MaxAttempts]
<1> SUFFICES ASSUME NEW j \in Slots PROVE js[j] \in 0 .. MaxAttempts
  OBVIOUS
<1>0. PICK t \in Songs, k \in Kinds, s \in Stages : j = <<t, k, s>>
  BY DEF Slots
<1>1. js[j] \in Nat /\ Counted(js, t, k) \in Nat /\ js[j] <= Counted(js, t, k)
  BY <1>0, CountedFacts DEF At
<1>2. bk[t].attempts \in 0 .. MaxAttempts
  BY DEF Books
<1>3. Counted(js, t, k) <= MaxAttempts
  <2>1. Counts(t, bk[t], js)
    OBVIOUS
  <2>2. CASE k = "youtube"
    BY <1>1, <1>2, <2>1, <2>2, Bounds DEF Counts
  <2>3. CASE k = "spotify"
    BY <1>1, <2>1, <2>3, Bounds DEF Counts
  <2> QED BY <2>2, <2>3 DEF Kinds
<1>4. Counted(js, t, k) \in 0 .. MaxAttempts
  BY <1>1, <1>3, Bounds
<1> QED BY <1>0, <1>1, <1>4, Bounds

-----------------------------------------------------------------------------
(* What a mutation claims *)

\* A claim counts an attempt and a lookup, and leaves what is known of the track.
LEMMA ClaimFacts ==
    ASSUME NEW b \in Books, b.attempts < MaxAttempts, b.pending <= MaxAttempts
    PROVE  /\ Claim(b) \in Books
           /\ Claim(b).pending = b.pending + 1 /\ Claim(b).attempts = b.attempts + 1
           /\ Claim(b).lookup = TRUE /\ Claim(b).checked = b.checked
<1>1. /\ b.pending + 1 \in 0 .. MaxAttempts + 1 /\ b.attempts + 1 \in 0 .. MaxAttempts
      /\ (b.uncertain /\ ~(b.owed \/ b.attempts > 0)) \in BOOLEAN
  BY Bounds DEF Books
<1> QED BY <1>1 DEF Claim, Books

\* The fields of a track that a mutation does not claim.
Await(b, waits) == [b EXCEPT !.uncertain = @ \/ waits]

\* A track that waits only becomes uncertain.
LEMMA WaitFacts ==
    ASSUME NEW b \in Books, NEW waits
    PROVE  /\ Await(b, waits) \in Books
           /\ Await(b, waits).pending = b.pending /\ Await(b, waits).attempts = b.attempts
           /\ Await(b, waits).lookup = b.lookup /\ Await(b, waits).checked = b.checked
           /\ Await(b, waits).uncertain <=> b.uncertain \/ waits
<1>1. (b.uncertain \/ waits) \in BOOLEAN
  OBVIOUS
<1> QED BY <1>1 DEF Await, Books

\* The front of the queue is in the window, and the window in the queue.
LEMMA WindowFacts ==
    ASSUME NEW l \in Seq(Songs)
    PROVE  /\ InWindow(l) \subseteq Range(l)
           /\ l # <<>> => Head(l) \in InWindow(l)
<1> DEFINE n == IF Len(l) < Window THEN Len(l) ELSE Window
           w == SubSeq(l, 1, n)
<1>1. n \in 0 .. Len(l) /\ 1 \in 1 .. Len(l) + 1 /\ (l # <<>> => n >= 1)
  BY Bounds
<1> HIDE DEF n
<1>2. /\ w \in Seq(Songs) /\ Len(w) = IF 1 <= n THEN n ELSE 0
      /\ \A i \in 1 .. Len(w) : w[i] = l[1 + i - 1]
      /\ Range(w) \subseteq Range(l)
  <2>1. /\ w \in Seq(Songs) /\ Len(w) = IF 1 <= n THEN n - 1 + 1 ELSE 0
        /\ \A i \in 1 .. Len(w) : w[i] = l[1 + i - 1]
        /\ Range(w) \subseteq Range(l)
    BY <1>1, SubSeqFacts
  <2> QED BY <2>1, <1>1
<1> HIDE DEF w
<1>3. ASSUME l # <<>> PROVE Head(l) \in Range(w)
  <2>1. 1 \in 1 .. Len(w) /\ w[1] = l[1] /\ Head(l) = l[1]
    BY <1>1, <1>2, <1>3
  <2> QED BY <2>1, <1>2, InRange
<1> QED BY <1>2, <1>3 DEF InWindow, w, n

\* The lookups ks are the lookups js of a track t and n claims for YouTube more.
Grown(t, js, ks, n) ==
    /\ Counted(js, t, "youtube") \in Nat /\ Counted(js, t, "spotify") \in Nat
    /\ Counted(ks, t, "youtube") = Counted(js, t, "youtube") + n
    /\ Counted(ks, t, "spotify") = Counted(js, t, "spotify")
    /\ At(ks, t, "spotify", "refused") = At(js, t, "spotify", "refused")
    /\ \A k \in Kinds : At(ks, t, k, "found") = At(js, t, k, "found")

\* A track that a mutation claims keeps its part of the invariant.
LEMMA ClaimedTrack ==
    ASSUME NEW t, NEW src, NEW b \in Books, NEW js, NEW ks, NEW ans,
           Grown(t, js, ks, 1), Counts(t, b, js), Tells(t, src, b, js, ans), ~b.lookup
    PROVE  /\ Claim(b) \in Books /\ Claim(b).lookup
           /\ Counts(t, Claim(b), ks) /\ Tells(t, src, Claim(b), ks, ans)
<1> DEFINE c == Claim(b)
<1>1. /\ Counted(js, t, "youtube") \in Nat /\ Counted(js, t, "spotify") \in Nat
      /\ Counted(js, t, "youtube") <= b.attempts /\ Counted(js, t, "spotify") <= 1
      /\ b.attempts < MaxAttempts
      /\ b.pending = Counted(js, t, "youtube") + Counted(js, t, "spotify")
      /\ b.attempts \in 0 .. MaxAttempts
  BY DEF Grown, Counts, Tells, Books
<1>2. b.pending <= MaxAttempts
  BY <1>1, Bounds
<1>3. /\ c \in Books /\ c.pending = b.pending + 1 /\ c.attempts = b.attempts + 1
      /\ c.lookup = TRUE /\ c.checked = b.checked
  BY <1>1, <1>2, ClaimFacts
<1> HIDE DEF c
<1>4. Counts(t, c, ks)
  BY <1>1, <1>3, Bounds DEF Counts, Grown
<1>5. Tells(t, src, c, ks, ans)
  <2>1. c.pending = Counted(ks, t, "youtube") + Counted(ks, t, "spotify")
    BY <1>1, <1>3 DEF Grown
  <2>2. c.pending > 0 /\ Counted(ks, t, "youtube") > 0
    BY <1>1, <1>3 DEF Grown
  <2>3. \A k \in Kinds : At(ks, t, k, "found") > 0 => src # {}
    BY DEF Grown, Tells
  <2> QED BY <2>1, <2>2, <2>3 DEF Tells
<1> QED BY <1>3, <1>4, <1>5 DEF c

\* So does a track it does not claim, whether it waits for the quota or not.
LEMMA WaitingTrack ==
    ASSUME NEW t, NEW b \in Books, NEW c, NEW js, NEW ks,
           NEW waits, Grown(t, js, ks, 0), c = Await(b, waits)
    PROVE  /\ c \in Books
           /\ Counts(t, b, js) => Counts(t, c, ks)
           /\ \A src, ans : Tells(t, src, b, js, ans) => Tells(t, src, c, ks, ans)
           /\ \A queued, src, ans :
                 Final(t, queued, src, b, js, ans) => Final(t, queued, src, c, ks, ans)
           /\ c.lookup = b.lookup /\ (waits => c.uncertain)
<1>1. /\ c \in Books
      /\ c.pending = b.pending /\ c.attempts = b.attempts
      /\ c.lookup = b.lookup /\ c.checked = b.checked
      /\ c.uncertain <=> b.uncertain \/ waits
  BY WaitFacts
<1>2. /\ Counted(ks, t, "youtube") = Counted(js, t, "youtube")
      /\ Counted(ks, t, "spotify") = Counted(js, t, "spotify")
      /\ At(ks, t, "spotify", "refused") = At(js, t, "spotify", "refused")
      /\ \A k \in Kinds : At(ks, t, k, "found") = At(js, t, k, "found")
  BY DEF Grown
<1>3. Counts(t, b, js) => Counts(t, c, ks)
  BY <1>1, <1>2 DEF Counts
<1>4. ASSUME NEW src, NEW ans PROVE Tells(t, src, b, js, ans) => Tells(t, src, c, ks, ans)
  BY <1>1, <1>2 DEF Tells
<1>5. ASSUME NEW queued, NEW src, NEW ans
      PROVE  Final(t, queued, src, b, js, ans) => Final(t, queued, src, c, ks, ans)
  BY <1>1, <1>2 DEF Final
<1> QED BY <1>1, <1>3, <1>4, <1>5

\* The claims of a mutation keep the invariant of what its closure has made, claim
\* the playing track, and touch no track outside the queue.
LEMMA MutateFacts ==
    ASSUME matchers \subseteq Kinds,
           NEW l \in Seq(Songs), NEW src, NEW bk \in [Songs -> Books],
           NEW js \in [Slots -> Nat],
           NEW add, NEW st, NEW ans, Sound(add, l, src, bk, js, st, ans), st \subseteq Songs,
           Range(l) \subseteq add,
           Mutate(l, src, bk, js)
    PROVE  /\ line' = l /\ sources' = src
           /\ book' \in [Songs -> Books] /\ jobs' \in [Slots -> Nat]
           /\ Sound(add, l, src, book', jobs', st, ans)
           /\ l # <<>> /\ "youtube" \in matchers \ src[Head(l)] =>
                 book'[Head(l)].lookup \/ book'[Head(l)].uncertain
<1> DEFINE open == Unclaimed(l, src, bk)
           claims == {t \in open : ~Waits(bk[t])}
<1>1. /\ line' = l /\ sources' = src
      /\ book' = [t \in Songs |-> IF t \in claims THEN Claim(bk[t])
                                  ELSE [bk[t] EXCEPT !.uncertain = @ \/ t \in open]]
      /\ jobs' = [j \in Slots |-> IF j[2] = "youtube" /\ j[3] = "claimed" /\ j[1] \in claims
                                  THEN js[j] + 1 ELSE js[j]]
  BY DEF Mutate
<1>2. /\ open \subseteq Range(l) /\ claims \subseteq open
      /\ Range(l) \subseteq Songs
      /\ \A t \in open : "youtube" \in matchers \ src[t] /\ ~bk[t].lookup
  <2>1. InWindow(l) \subseteq Range(l)
    BY WindowFacts
  <2> QED BY <2>1 DEF Unclaimed, Range
<1>3. \A t \in InWindow(l) : "youtube" \in matchers \ src[t] /\ ~bk[t].lookup => t \in open
  BY DEF Unclaimed
<1> HIDE DEF open, claims
<1>4. /\ jobs' \in [Slots -> Nat]
      /\ \A t \in Songs, k \in Kinds, s \in Stages :
            At(jobs', t, k, s) = IF k = "youtube" /\ s = "claimed" /\ t \in claims
                                 THEN At(js, t, k, s) + 1 ELSE At(js, t, k, s)
  <2>1. jobs' \in [Slots -> Nat]
    BY <1>1
  <2>2. ASSUME NEW t \in Songs, NEW k \in Kinds, NEW s \in Stages
        PROVE At(jobs', t, k, s) = IF k = "youtube" /\ s = "claimed" /\ t \in claims
                                   THEN At(js, t, k, s) + 1 ELSE At(js, t, k, s)
    <3>1. <<t, k, s>> \in Slots
      BY SlotFacts
    <3> QED BY <1>1, <3>1 DEF At
  <2> QED BY <2>1, <2>2
<1>5. ASSUME NEW t \in Songs
      PROVE  Grown(t, js, jobs', IF t \in claims THEN 1 ELSE 0)
  <2>1. /\ "youtube" \in Kinds /\ "spotify" \in Kinds
        /\ "claimed" \in Stages /\ "found" \in Stages /\ "refused" \in Stages
    BY DEF Kinds, Stages
  <2>2. /\ Counted(js, t, "youtube") \in Nat /\ Counted(js, t, "spotify") \in Nat
        /\ Counted(jobs', t, "youtube") \in Nat /\ Counted(jobs', t, "spotify") \in Nat
        /\ At(js, t, "youtube", "claimed") \in Nat
    BY <1>4, <2>1, SlotFacts, CountedFacts
  <2>3. At(jobs', t, "youtube", "claimed")
          = At(js, t, "youtube", "claimed") + (IF t \in claims THEN 1 ELSE 0)
    BY <1>4, <2>1, <2>2
  <2>4. \A s \in Stages \ {"claimed"} : At(jobs', t, "youtube", s) = At(js, t, "youtube", s)
    BY <1>4, <2>1
  <2>5. \A s \in Stages : At(jobs', t, "spotify", s) = At(js, t, "spotify", s)
    BY <1>4, <2>1
  <2>6. Counted(jobs', t, "youtube") - Counted(js, t, "youtube")
          = At(jobs', t, "youtube", "claimed") - At(js, t, "youtube", "claimed")
    BY <1>4, <2>1, <2>4, CountedShift
  <2>7. Counted(jobs', t, "spotify") - Counted(js, t, "spotify")
          = At(jobs', t, "spotify", "claimed") - At(js, t, "spotify", "claimed")
    BY <1>4, <2>1, <2>5, CountedShift
  <2>8. /\ Counted(jobs', t, "youtube")
             = Counted(js, t, "youtube") + (IF t \in claims THEN 1 ELSE 0)
        /\ Counted(jobs', t, "spotify") = Counted(js, t, "spotify")
    <3>1. At(js, t, "spotify", "claimed") \in Nat
      BY <2>1, SlotFacts
    <3> QED BY <2>1, <2>2, <2>3, <2>5, <2>6, <2>7, <3>1
  <2>9. \A k \in Kinds : At(jobs', t, k, "found") = At(js, t, k, "found")
    BY <2>1, <2>4, <2>5 DEF Kinds
  <2> QED BY <2>1, <2>2, <2>5, <2>8, <2>9 DEF Grown
<1>6. ASSUME NEW t \in Songs
      PROVE  /\ book'[t] \in Books
             /\ Counts(t, book'[t], jobs')
             /\ t \in Range(l) => Tells(t, src[t], book'[t], jobs', ans)
             /\ t \in st => Final(t, t \in Range(l), src[t], book'[t], jobs', ans)
             /\ t \notin add => Unused(t, jobs', ans)
             /\ t \in open => book'[t].lookup \/ book'[t].uncertain
             /\ bk[t].lookup => book'[t].lookup
  <2>1. bk[t] \in Books
    OBVIOUS
  <2>2. /\ Counts(t, bk[t], js)
        /\ t \in Range(l) => Tells(t, src[t], bk[t], js, ans)
        /\ t \in st => Final(t, t \in Range(l), src[t], bk[t], js, ans)
        /\ t \notin add => Unused(t, js, ans)
    BY DEF Sound
  <2>3. CASE t \in claims
    <3>1. /\ t \in open /\ t \in Range(l) /\ ~bk[t].lookup /\ "youtube" \in matchers
          /\ t \in add
      BY <2>3, <1>2
    <3>2. book'[t] = Claim(bk[t])
      BY <1>1, <2>3
    <3>3. Grown(t, js, jobs', 1)
      BY <1>5, <2>3
    <3>4. /\ book'[t] \in Books /\ book'[t].lookup
          /\ Counts(t, book'[t], jobs') /\ Tells(t, src[t], book'[t], jobs', ans)
      BY <2>1, <2>2, <3>1, <3>2, <3>3, ClaimedTrack
    <3>5. t \notin st
      BY <2>2, <3>1 DEF Final
    <3> QED BY <3>1, <3>4, <3>5
  <2>4. CASE t \notin claims
    <3>1. book'[t] = [bk[t] EXCEPT !.uncertain = @ \/ t \in open]
      BY <1>1, <2>4
    <3>2. (t \in open) \in BOOLEAN /\ Grown(t, js, jobs', 0)
      BY <1>5, <2>4
    <3> DEFINE queued == t \in Range(l)
               waits == t \in open
    <3>3. /\ book'[t] \in Books
          /\ Counts(t, bk[t], js) => Counts(t, book'[t], jobs')
          /\ Tells(t, src[t], bk[t], js, ans) => Tells(t, src[t], book'[t], jobs', ans)
          /\ Final(t, queued, src[t], bk[t], js, ans)
               => Final(t, queued, src[t], book'[t], jobs', ans)
          /\ book'[t].lookup = bk[t].lookup /\ (waits => book'[t].uncertain)
      <4>1. waits \in BOOLEAN /\ Grown(t, js, jobs', 0)
        BY <3>2
      <4>2. book'[t] = Await(bk[t], waits)
        BY <3>1 DEF Await
      <4> HIDE DEF queued, waits
      <4>3. PICK before, after : before = bk[t] /\ after = book'[t]
        OBVIOUS
      <4>4. before \in Books /\ after = Await(before, waits)
        BY <2>1, <4>2, <4>3
      <4>5. /\ after \in Books
            /\ Counts(t, before, js) => Counts(t, after, jobs')
            /\ Tells(t, src[t], before, js, ans) => Tells(t, src[t], after, jobs', ans)
            /\ Final(t, queued, src[t], before, js, ans)
                 => Final(t, queued, src[t], after, jobs', ans)
            /\ after.lookup = before.lookup /\ (waits => after.uncertain)
        BY <4>1, <4>4, WaitingTrack
      <4> QED BY <4>3, <4>5
    <3>4. t \notin add => Unused(t, jobs', ans)
      <4>1. ASSUME t \notin add PROVE Counted(js, t, "youtube") = 0 /\ Counted(js, t, "spotify") = 0
        BY <2>2, <4>1 DEF Unused
      <4> QED BY <2>2, <3>2, <4>1 DEF Unused, Grown
    <3> QED BY <2>2, <3>3, <3>4
  <2> QED BY <2>3, <2>4
<1>7. book' \in [Songs -> Books]
  BY <1>1, <1>6
<1>8. Sound(add, l, src, book', jobs', st, ans)
  BY <1>2, <1>6 DEF Sound
<1>9. ASSUME l # <<>>, "youtube" \in matchers \ src[Head(l)]
      PROVE  book'[Head(l)].lookup \/ book'[Head(l)].uncertain
  <2>1. Head(l) \in InWindow(l) /\ Head(l) \in Songs
    BY <1>9, WindowFacts
  <2>2. CASE bk[Head(l)].lookup
    BY <1>6, <2>1, <2>2
  <2>3. CASE ~bk[Head(l)].lookup
    BY <1>3, <1>6, <1>9, <2>1, <2>3
  <2> QED BY <2>2, <2>3
<1> QED BY <1>1, <1>4, <1>7, <1>8, <1>9

-----------------------------------------------------------------------------
(* What a closure leaves of the invariant *)

\* The lookups ks are the lookups js, except for those of t.
Others(t, js, ks) == \A u \in Songs \ {t} : Grown(u, js, ks, 0)

\* It is enough that the counts and the slots of the other tracks are the same.
LEMMA OthersFacts ==
    ASSUME NEW js \in [Slots -> Nat], NEW ks, NEW t,
           \A u \in Songs \ {t}, m \in Kinds :
              /\ Counted(ks, u, m) = Counted(js, u, m)
              /\ \A r \in Stages : At(ks, u, m, r) = At(js, u, m, r)
    PROVE  Others(t, js, ks)
<1> SUFFICES ASSUME NEW u \in Songs \ {t} PROVE Grown(u, js, ks, 0)
  BY DEF Others
<1>1. /\ "youtube" \in Kinds /\ "spotify" \in Kinds
      /\ "found" \in Stages /\ "refused" \in Stages
  BY DEF Kinds, Stages
<1>2. Counted(js, u, "youtube") \in Nat /\ Counted(js, u, "spotify") \in Nat
  BY <1>1, CountedFacts
<1> QED BY <1>1, <1>2 DEF Grown

\* Grown by nothing, a track says what it said.
LEMMA SameTrack ==
    ASSUME NEW t, NEW b, NEW js, NEW ks, Grown(t, js, ks, 0)
    PROVE  /\ Counts(t, b, js) => Counts(t, b, ks)
           /\ \A src, ans : Tells(t, src, b, js, ans) => Tells(t, src, b, ks, ans)
           /\ \A queued, src, ans :
                 Final(t, queued, src, b, js, ans) => Final(t, queued, src, b, ks, ans)
           /\ \A ans : Unused(t, js, ans) => Unused(t, ks, ans)
<1>1. /\ Counted(ks, t, "youtube") = Counted(js, t, "youtube")
      /\ Counted(ks, t, "spotify") = Counted(js, t, "spotify")
      /\ At(ks, t, "spotify", "refused") = At(js, t, "spotify", "refused")
      /\ \A k \in Kinds : At(ks, t, k, "found") = At(js, t, k, "found")
  BY DEF Grown
<1>2. Counts(t, b, js) => Counts(t, b, ks)
  BY <1>1 DEF Counts
<1>3. ASSUME NEW src, NEW ans PROVE Tells(t, src, b, js, ans) => Tells(t, src, b, ks, ans)
  BY <1>1 DEF Tells
<1>4. ASSUME NEW queued, NEW src, NEW ans
      PROVE  Final(t, queued, src, b, js, ans) => Final(t, queued, src, b, ks, ans)
  BY <1>1 DEF Final
<1>5. ASSUME NEW ans PROVE Unused(t, js, ans) => Unused(t, ks, ans)
  BY <1>1 DEF Unused
<1> QED BY <1>2, <1>3, <1>4, <1>5

\* Only the answers of its own lookups matter to a track.
LEMMA SameAnswers ==
    ASSUME NEW t, NEW ans, NEW bns, \A k \in Kinds : Said(bns, t, k) = Said(ans, t, k)
    PROVE  /\ \A src, b, js : Tells(t, src, b, js, ans) => Tells(t, src, b, js, bns)
           /\ \A queued, src, b, js :
                 Final(t, queued, src, b, js, ans) => Final(t, queued, src, b, js, bns)
           /\ \A js : Unused(t, js, ans) => Unused(t, js, bns)
<1>1. "youtube" \in Kinds /\ (Missed(t, ans) => Missed(t, bns))
  BY DEF Kinds, Missed
<1>2. ASSUME NEW src, NEW b, NEW js, Tells(t, src, b, js, ans) PROVE Tells(t, src, b, js, bns)
  BY <1>1, <1>2 DEF Tells
<1>3. ASSUME NEW queued, NEW src, NEW b, NEW js, Final(t, queued, src, b, js, ans)
      PROVE  Final(t, queued, src, b, js, bns)
  BY <1>1, <1>3 DEF Final
<1>4. ASSUME NEW js, Unused(t, js, ans) PROVE Unused(t, js, bns)
  BY <1>4 DEF Unused
<1> QED BY <1>2, <1>3, <1>4

\* What a step leaves alone that touches only track t.
OnlyTrack(t, l, src, bk, js, st, ans, l2, src2, bk2, ks, st2, ans2) ==
    /\ Range(l2) \ {t} \subseteq Range(l) /\ Range(l2) \subseteq Songs
    /\ st2 \ {t} \subseteq st /\ Others(t, js, ks)
    /\ \A u \in Songs \ {t} : src2[u] = src[u] /\ bk2[u] = bk[u]
    /\ \A u \in Songs \ {t}, k \in Kinds : Said(ans2, u, k) = Said(ans, u, k)

\* A step that touches only track t keeps the invariant if t's part of it is kept.
LEMMA OneTrack ==
    ASSUME NEW t \in Songs,
           NEW add, NEW l, NEW src, NEW bk, NEW js, NEW st, NEW ans,
           NEW add2, NEW l2, NEW src2, NEW bk2, NEW ks, NEW st2, NEW ans2,
           Sound(add, l, src, bk, js, st, ans),
           OnlyTrack(t, l, src, bk, js, st, ans, l2, src2, bk2, ks, st2, ans2),
           add \subseteq add2, st2 \subseteq add2, add2 \subseteq Songs,
           Counts(t, bk2[t], ks),
           t \in Range(l2) => Tells(t, src2[t], bk2[t], ks, ans2),
           t \in st2 => Final(t, t \in Range(l2), src2[t], bk2[t], ks, ans2),
           t \notin add2 => Unused(t, ks, ans2)
    PROVE  Sound(add2, l2, src2, bk2, ks, st2, ans2)
<1>1. ASSUME NEW u \in Songs \ {t}
      PROVE  /\ Counts(u, bk2[u], ks)
             /\ u \in Range(l2) => Tells(u, src2[u], bk2[u], ks, ans2)
             /\ u \in st2 => Final(u, u \in Range(l2), src2[u], bk2[u], ks, ans2)
             /\ u \notin add2 => Unused(u, ks, ans2)
  <2>1. /\ Grown(u, js, ks, 0) /\ src2[u] = src[u] /\ bk2[u] = bk[u]
        /\ \A k \in Kinds : Said(ans2, u, k) = Said(ans, u, k)
    BY DEF OnlyTrack, Others
  <2>2. /\ Counts(u, bk[u], js)
        /\ u \in Range(l) => Tells(u, src[u], bk[u], js, ans)
        /\ u \in st => Final(u, u \in Range(l), src[u], bk[u], js, ans)
        /\ u \notin add => Unused(u, js, ans)
    BY DEF Sound
  <2>3. /\ Counts(u, bk[u], ks)
        /\ u \in Range(l) => Tells(u, src[u], bk[u], ks, ans)
        /\ u \in st => Final(u, u \in Range(l), src[u], bk[u], ks, ans)
        /\ u \notin add => Unused(u, ks, ans)
    BY <2>1, <2>2, SameTrack
  <2>4. /\ u \in Range(l) => Tells(u, src[u], bk[u], ks, ans2)
        /\ u \in st => Final(u, u \in Range(l), src[u], bk[u], ks, ans2)
        /\ u \notin add => Unused(u, ks, ans2)
    BY <2>1, <2>3, SameAnswers
  <2>5. u \in st2 => u \in st /\ (u \in Range(l2) => u \in Range(l))
    BY DEF OnlyTrack
  <2>6. u \in st2 => Final(u, u \in Range(l2), src[u], bk[u], ks, ans2)
    BY <2>4, <2>5 DEF Final
  <2>7. u \in Range(l2) => u \in Range(l)
    BY DEF OnlyTrack
  <2> QED BY <2>1, <2>3, <2>4, <2>6, <2>7
<1>2. ASSUME NEW u \in Songs PROVE Counts(u, bk2[u], ks)
  BY <1>1
<1>3. ASSUME NEW u \in Range(l2) PROVE Tells(u, src2[u], bk2[u], ks, ans2)
  BY <1>1 DEF OnlyTrack
<1>4. ASSUME NEW u \in st2 PROVE Final(u, u \in Range(l2), src2[u], bk2[u], ks, ans2)
  BY <1>1
<1>5. ASSUME NEW u \in Songs \ add2 PROVE Unused(u, ks, ans2)
  BY <1>1
<1> QED BY <1>2, <1>3, <1>4, <1>5 DEF Sound

\* Fewer tracks queued and fewer found: nothing else is said.
LEMMA FewerTracks ==
    ASSUME NEW add, NEW l, NEW src, NEW bk, NEW js, NEW st, NEW ans, NEW l2, NEW st2,
           Sound(add, l, src, bk, js, st, ans), Range(l2) \subseteq Range(l), st2 \subseteq st
    PROVE  Sound(add, l2, src, bk, js, st2, ans)
<1>1. ASSUME NEW u \in st2 PROVE Final(u, u \in Range(l2), src[u], bk[u], js, ans)
  <2>1. Final(u, u \in Range(l), src[u], bk[u], js, ans)
    BY DEF Sound
  <2> QED BY <2>1 DEF Final
<1>2. ASSUME NEW u \in Range(l2) PROVE Tells(u, src[u], bk[u], js, ans)
  BY DEF Sound
<1> QED BY <1>1, <1>2 DEF Sound

-----------------------------------------------------------------------------
(* The steps *)

\* The parts of the type that a mutation leaves alone.
Rest ==
    /\ exhausted \in BOOLEAN /\ wake \in BOOLEAN /\ unchecked \in BOOLEAN
    /\ stuck \subseteq Songs /\ skipped \subseteq Songs
    /\ answer \in [Lookups -> {"none", "found", "miss", "error", "quota"}]
    /\ trips \in 0 .. MaxTrips

\* The type invariant, taken apart.
LEMMA TypeParts ==
    LookupTypeOK <=>
        /\ matchers \subseteq Kinds /\ added \subseteq Songs
        /\ line \in Seq(added) /\ IsInjective(line)
        /\ sources \in [Songs -> SUBSET Kinds] /\ book \in [Songs -> Books]
        /\ jobs \in [Slots -> 0 .. MaxAttempts]
        /\ armed \in BOOLEAN /\ Rest
BY DEF LookupTypeOK, Books, Rest

\* What the invariant gives every step.
LEMMA InvParts ==
    ASSUME LookupInv
    PROVE  /\ matchers \subseteq Kinds /\ added \subseteq Songs /\ stuck \subseteq added
           /\ line \in Seq(added) /\ line \in Seq(Songs) /\ IsInjective(line)
           /\ Range(line) \subseteq added /\ Range(line) \subseteq Songs
           /\ sources \in [Songs -> SUBSET Kinds] /\ book \in [Songs -> Books]
           /\ jobs \in [Slots -> Nat] /\ armed \in BOOLEAN /\ Rest
           /\ Sound(added, line, sources, book, jobs, stuck, answer)
<1>1. /\ matchers \subseteq Kinds /\ added \subseteq Songs
      /\ line \in Seq(added) /\ IsInjective(line)
      /\ sources \in [Songs -> SUBSET Kinds] /\ book \in [Songs -> Books]
      /\ jobs \in [Slots -> 0 .. MaxAttempts] /\ armed \in BOOLEAN /\ Rest
  BY TypeParts DEF LookupInv
<1>2. line \in Seq(Songs)
  BY <1>1, SeqMonotone
<1>3. Range(line) \subseteq added /\ Range(line) \subseteq Songs
  BY <1>1 DEF Range
<1>4. jobs \in [Slots -> Nat]
  BY <1>1
<1>5. stuck \subseteq added
  BY DEF LookupInv, Sound
<1> QED BY <1>1, <1>2, <1>3, <1>4, <1>5 DEF LookupInv

\* The invariant of the state after a step, from its parts.
LEMMA InvPrime ==
    ASSUME matchers' = matchers, matchers \subseteq Kinds, added' \subseteq Songs,
           line' \in Seq(added'), IsInjective(line'),
           sources' \in [Songs -> SUBSET Kinds], book' \in [Songs -> Books],
           jobs' \in [Slots -> Nat], armed' \in BOOLEAN, Rest', HeadClaimed',
           Sound(added', line', sources', book', jobs', stuck', answer')
    PROVE  LookupInv'
<1>1. Sound(added, line, sources, book, jobs, stuck, answer)'
  BY DEF Sound, Counts, Tells, Final, Unused, Missed, Counted, At, Said
<1>2. jobs' \in [Slots -> 0 .. MaxAttempts]
  <2>1. \A t \in Songs : Counts(t, book'[t], jobs')
    BY DEF Sound
  <2> QED BY <2>1, JobsBounded
<1>3. LookupTypeOK'
  BY <1>2 DEF LookupTypeOK, Books, Rest
<1> QED BY <1>1, <1>3 DEF LookupInv

\* A mutation keeps the invariant if its closure does.
LEMMA MutateStep ==
    ASSUME matchers' = matchers, matchers \subseteq Kinds, added' \subseteq Songs,
           exhausted \in BOOLEAN, armed \in BOOLEAN, Rest',
           NEW l \in Seq(added'), IsInjective(l),
           NEW src \in [Songs -> SUBSET Kinds], NEW bk \in [Songs -> Books],
           NEW js \in [Slots -> Nat],
           Sound(added', l, src, bk, js, stuck', answer'),
           Mutate(l, src, bk, js)
    PROVE  LookupInv'
<1>1. l \in Seq(Songs) /\ Range(l) \subseteq added'
  BY SeqMonotone DEF Range
<1>2. stuck' \subseteq Songs
  BY DEF Rest
<1>3. /\ line' = l /\ sources' = src
      /\ book' \in [Songs -> Books] /\ jobs' \in [Slots -> Nat]
      /\ Sound(added', l, src, book', jobs', stuck', answer')
      /\ l # <<>> /\ "youtube" \in matchers \ src[Head(l)] =>
            book'[Head(l)].lookup \/ book'[Head(l)].uncertain
  BY <1>1, <1>2, MutateFacts
<1>4. armed' \in BOOLEAN
  BY DEF Mutate
<1>5. HeadClaimed'
  BY <1>3 DEF HeadClaimed
<1> QED BY <1>3, <1>4, <1>5, InvPrime

-----------------------------------------------------------------------------
(* One lookup *)

\* Putting, taking and moving lookups of t leave the other tracks alone.
LEMMA PutOthers ==
    ASSUME NEW js \in [Slots -> Nat], NEW t \in Songs, NEW k \in Kinds, NEW s \in Stages
    PROVE  Others(t, js, Put(js, t, k, s))
<1> DEFINE ks == Put(js, t, k, s)
<1>1. ASSUME NEW u \in Songs \ {t}, NEW m \in Kinds
      PROVE  Counted(ks, u, m) = Counted(js, u, m)
  <2>1. Counted(ks, u, m) = Counted(js, u, m) + 0 /\ Counted(js, u, m) \in Nat
    BY PutFacts, CountedFacts
  <2> QED BY <2>1
<1>2. ASSUME NEW u \in Songs \ {t}, NEW m \in Kinds, NEW r \in Stages
      PROVE  At(ks, u, m, r) = At(js, u, m, r)
  <2>1. At(ks, u, m, r) = At(js, u, m, r) + (IF u = t /\ m = k /\ r = s THEN 1 ELSE 0)
    BY PutFacts
  <2>2. At(js, u, m, r) \in Nat
    BY SlotFacts
  <2> QED BY <2>1, <2>2
<1> QED BY <1>1, <1>2, OthersFacts

\* The same, for a lookup that is taken away.
LEMMA TakenOthers ==
    ASSUME NEW js \in [Slots -> Nat], NEW t \in Songs, NEW k \in Kinds, NEW s \in Stages,
           At(js, t, k, s) > 0
    PROVE  Others(t, js, Taken(js, t, k, s))
<1> DEFINE ks == Taken(js, t, k, s)
<1>1. ASSUME NEW u \in Songs \ {t}, NEW m \in Kinds
      PROVE  Counted(ks, u, m) = Counted(js, u, m)
  <2>1. Counted(ks, u, m) = Counted(js, u, m) - 0 /\ Counted(js, u, m) \in Nat
    BY TakenFacts, CountedFacts
  <2> QED BY <2>1
<1>2. ASSUME NEW u \in Songs \ {t}, NEW m \in Kinds, NEW r \in Stages
      PROVE  At(ks, u, m, r) = At(js, u, m, r)
  <2>1. At(ks, u, m, r) = At(js, u, m, r) - (IF u = t /\ m = k /\ r = s THEN 1 ELSE 0)
    BY TakenFacts
  <2>2. At(js, u, m, r) \in Nat
    BY SlotFacts
  <2> QED BY <2>1, <2>2
<1> QED BY <1>1, <1>2, OthersFacts

\* A lookup under way means that its track is not about to be skipped and was added.
LEMMA Underway ==
    ASSUME LookupInv, NEW t \in Songs, NEW k \in Kinds, NEW s \in Stages, At(jobs, t, k, s) > 0
    PROVE  /\ t \in added \ stuck
           /\ Counted(jobs, t, k) > 0 /\ (s = "refused" => k = "youtube")
<1>1. /\ stuck \subseteq added /\ jobs \in [Slots -> Nat]
      /\ Sound(added, line, sources, book, jobs, stuck, answer)
  BY InvParts
<1>2. Counted(jobs, t, k) \in Nat /\ At(jobs, t, k, s) \in Nat /\ At(jobs, t, k, s) <= Counted(jobs, t, k)
  BY <1>1, SlotFacts, CountedFacts
<1>3. Counted(jobs, t, "youtube") \in Nat /\ Counted(jobs, t, "spotify") \in Nat
  BY <1>1, CountedFacts DEF Kinds
<1>4. t \in added
  <2>1. t \notin added => Unused(t, jobs, answer)
    BY <1>1 DEF Sound
  <2> QED BY <1>2, <2>1 DEF Unused, Kinds
<1>5. t \notin stuck
  <2>1. t \in stuck => Final(t, t \in Range(line), sources[t], book[t], jobs, answer)
    BY <1>1 DEF Sound
  <2> QED BY <1>2, <1>3, <2>1 DEF Final, Kinds
<1>6. s = "refused" => k = "youtube"
  <2>1. Counts(t, book[t], jobs)
    BY <1>1 DEF Sound
  <2> QED BY <2>1 DEF Counts, Kinds
<1> QED BY <1>2, <1>4, <1>5, <1>6

\* A lookup that moves to a later stage keeps the invariant; it counts as found only
\* for a track that has a source.
LEMMA MovedSound ==
    ASSUME LookupInv, NEW src, NEW t \in Songs, NEW k \in Kinds, NEW r \in Stages, NEW s \in Stages,
           At(jobs, t, k, r) > 0, s = "refused" => k = "youtube",
           t \in Range(line) => (s = "found" => src[t] # {}),
           Sound(added, line, src, book, jobs, stuck, answer)
    PROVE  LET ks == Put(Taken(jobs, t, k, r), t, k, s)
           IN  ks \in [Slots -> Nat] /\ Sound(added, line, src, book, ks, stuck, answer)
<1> DEFINE ks == Put(Taken(jobs, t, k, r), t, k, s)
<1>1. jobs \in [Slots -> Nat] /\ stuck \subseteq added /\ added \subseteq Songs /\ Range(line) \subseteq Songs
  BY InvParts
<1>2. /\ ks \in [Slots -> Nat]
      /\ \A u \in Songs, m \in Kinds : Counted(ks, u, m) = Counted(jobs, u, m)
      /\ \A u \in Songs, m \in Kinds, q \in Stages :
            At(ks, u, m, q) = At(jobs, u, m, q) - (IF u = t /\ m = k /\ q = r THEN 1 ELSE 0)
                                + (IF u = t /\ m = k /\ q = s THEN 1 ELSE 0)
  BY <1>1, MovedFacts
<1> HIDE DEF ks
<1>3. ASSUME NEW u \in Songs, NEW m \in Kinds, NEW q \in Stages
      PROVE  /\ At(ks, u, m, q) \in Nat /\ At(jobs, u, m, q) \in Nat
             /\ u # t => At(ks, u, m, q) = At(jobs, u, m, q)
             /\ ~(m = k /\ q = s) => At(ks, u, m, q) <= At(jobs, u, m, q)
  <2>1. At(ks, u, m, q) \in Nat /\ At(jobs, u, m, q) \in Nat
    BY <1>1, <1>2, SlotFacts
  <2> QED BY <1>2, <2>1
<1>4. Others(t, jobs, ks)
  BY <1>1, <1>2, <1>3, OthersFacts
<1>5. t \in added \ stuck
  BY Underway
<1>6. /\ "youtube" \in Kinds /\ "spotify" \in Kinds /\ "found" \in Stages /\ "refused" \in Stages
  BY DEF Kinds, Stages
<1>7. Counts(t, book[t], ks)
  <2>1. Counts(t, book[t], jobs)
    BY DEF Sound
  <2>2. At(ks, t, "spotify", "refused") = 0
    <3>1. /\ At(ks, t, "spotify", "refused") <= At(jobs, t, "spotify", "refused")
          /\ At(ks, t, "spotify", "refused") \in Nat
      BY <1>3, <1>6
    <3> QED BY <2>1, <3>1 DEF Counts
  <2> QED BY <1>2, <1>6, <2>1, <2>2 DEF Counts
<1>8. ASSUME t \in Range(line) PROVE Tells(t, src[t], book[t], ks, answer)
  <2>1. Tells(t, src[t], book[t], jobs, answer)
    BY <1>8 DEF Sound
  <2>2. ASSUME NEW m \in Kinds, At(ks, t, m, "found") > 0 PROVE src[t] # {}
    <3>1. CASE m = k /\ s = "found"
      BY <1>8, <3>1
    <3>2. CASE ~(m = k /\ "found" = s)
      <4>1. At(jobs, t, m, "found") > 0
        BY <1>3, <1>6, <2>2, <3>2
      <4> QED BY <2>1, <4>1 DEF Tells
    <3> QED BY <3>1, <3>2
  <2>3. /\ Counted(ks, t, "youtube") = Counted(jobs, t, "youtube")
        /\ Counted(ks, t, "spotify") = Counted(jobs, t, "spotify")
    BY <1>2, <1>6
  <2> QED BY <2>1, <2>2, <2>3 DEF Tells
<1>9. Sound(added, line, src, book, ks, stuck, answer)
  <2>1. OnlyTrack(t, line, src, book, jobs, stuck, answer, line, src, book, ks, stuck, answer)
    BY <1>1, <1>4 DEF OnlyTrack
  <2> QED BY <1>1, <1>5, <1>7, <1>8, <2>1, OneTrack
<1> QED BY <1>2, <1>9 DEF ks

-----------------------------------------------------------------------------
(* A lookup settles *)

\* What the fields of a track say once one of its lookups has settled.
LEMMA SettledFacts ==
    ASSUME NEW b \in Books, NEW o
    PROVE  /\ Settled(b, o) \in Books
           /\ Settled(b, o).pending = IF b.pending > 0 THEN b.pending - 1 ELSE 0
           /\ Settled(b, o).attempts = IF o = "quota" /\ exhausted /\ b.attempts > 0
                                       THEN b.attempts - 1
                                       ELSE b.attempts
           /\ ~Settled(b, o).lookup =>
                 ~b.lookup \/ b.attempts < MaxAttempts \/ (o = "quota" /\ exhausted)
           /\ Settled(b, o).uncertain <=> (b.uncertain \/ o \in {"error", "quota"})
<1> DEFINE p == IF b.pending > 0 THEN b.pending - 1 ELSE 0
           a == IF b.attempts > 0 THEN b.attempts - 1 ELSE 0
           r == b.lookup /\ ~RetryAllowed(b)
           done == [b EXCEPT !.pending = p]
<1>1. /\ b.pending \in 0 .. MaxAttempts + 1 /\ b.attempts \in 0 .. MaxAttempts
      /\ b.lookup \in BOOLEAN /\ b.uncertain \in BOOLEAN
  BY DEF Books
<1>2. /\ p \in 0 .. MaxAttempts + 1 /\ a \in 0 .. MaxAttempts /\ r \in BOOLEAN
      /\ (a = IF b.attempts > 0 THEN b.attempts - 1 ELSE b.attempts)
  BY <1>1, Bounds
<1>3. ~r => ~b.lookup \/ b.attempts < MaxAttempts
  BY DEF RetryAllowed
<1> HIDE DEF p, a, r
<1>4. CASE o = "quota" /\ exhausted
  <2>1. Settled(b, o) = [done EXCEPT !.uncertain = TRUE, !.lookup = FALSE, !.owed = TRUE,
                                     !.attempts = a]
    BY <1>4 DEF Settled, a, p
  <2> QED BY <1>2, <1>4, <2>1 DEF Books, p
<1>5. CASE (o = "error" \/ (o = "quota" /\ ~exhausted)) /\ ~(o = "quota" /\ exhausted)
  <2>1. Settled(b, o) = [done EXCEPT !.uncertain = TRUE, !.lookup = r]
    BY <1>5 DEF Settled, r, p
  <2> QED BY <1>2, <1>3, <1>5, <2>1 DEF Books, p
<1>6. CASE ~(o = "error" \/ o = "quota")
  <2>1. Settled(b, o) = [done EXCEPT !.checked = TRUE]
    BY <1>6 DEF Settled, p
  <2> QED BY <1>2, <1>6, <2>1 DEF Books, p
<1> QED BY <1>4, <1>5, <1>6

\* The lookups ks are the lookups js of a track t but for one of kind k.
Fewer(t, k, js, ks) ==
    /\ Counted(js, t, "youtube") \in Nat /\ Counted(js, t, "spotify") \in Nat
    /\ Counted(js, t, k) > 0
    /\ Counted(ks, t, "youtube") = Counted(js, t, "youtube") - (IF k = "youtube" THEN 1 ELSE 0)
    /\ Counted(ks, t, "spotify") = Counted(js, t, "spotify") - (IF k = "spotify" THEN 1 ELSE 0)
    /\ At(ks, t, "spotify", "refused") = 0
    /\ \A m \in Kinds : At(ks, t, m, "found") > 0 => At(js, t, m, "found") > 0

\* The answers bns are the answers ans but for the one of kind k, which is o: a match
\* only for a lookup that has found one, the quota's only for YouTube.
Replied(t, k, o, js, ans, bns) ==
    /\ Said(bns, t, k) = o /\ \A m \in Kinds \ {k} : Said(bns, t, m) = Said(ans, t, m)
    /\ o = "quota" => k = "youtube"
    /\ o = "found" => At(js, t, k, "found") > 0
    /\ o \in {"found", "miss", "error", "quota"}

\* The track of a lookup that settles keeps its part of the invariant.
LEMMA SettledTrack ==
    ASSUME NEW t, NEW k \in Kinds, NEW o, NEW src, NEW b \in Books,
           NEW js, NEW ks, NEW ans, NEW bns,
           Fewer(t, k, js, ks), Replied(t, k, o, js, ans, bns),
           Counts(t, b, js), Tells(t, src, b, js, ans)
    PROVE  Counts(t, Settled(b, o), ks) /\ Tells(t, src, Settled(b, o), ks, bns)
<1> DEFINE c == Settled(b, o)
<1>1. /\ Counted(js, t, "youtube") \in Nat /\ Counted(js, t, "spotify") \in Nat
      /\ Counted(js, t, k) > 0
      /\ Counted(ks, t, "youtube") = Counted(js, t, "youtube") - (IF k = "youtube" THEN 1 ELSE 0)
      /\ Counted(ks, t, "spotify") = Counted(js, t, "spotify") - (IF k = "spotify" THEN 1 ELSE 0)
      /\ At(ks, t, "spotify", "refused") = 0
      /\ \A m \in Kinds : At(ks, t, m, "found") > 0 => At(js, t, m, "found") > 0
  BY DEF Fewer
<1>2. /\ Said(bns, t, k) = o /\ \A m \in Kinds \ {k} : Said(bns, t, m) = Said(ans, t, m)
      /\ o = "quota" => k = "youtube"
      /\ o = "found" => At(js, t, k, "found") > 0
      /\ o \in {"found", "miss", "error", "quota"}
  BY DEF Replied
<1>3. b.attempts \in 0 .. MaxAttempts /\ b.pending \in 0 .. MaxAttempts + 1
  BY DEF Books
<1>4. /\ c.pending = IF b.pending > 0 THEN b.pending - 1 ELSE 0
      /\ c.attempts = IF o = "quota" /\ exhausted /\ b.attempts > 0
                      THEN b.attempts - 1 ELSE b.attempts
      /\ ~c.lookup => ~b.lookup \/ b.attempts < MaxAttempts \/ (o = "quota" /\ exhausted)
      /\ c.uncertain <=> (b.uncertain \/ o \in {"error", "quota"})
  BY SettledFacts
<1> HIDE DEF c
<1>5. Counts(t, c, ks)
  <2>1. Counted(ks, t, "youtube") <= c.attempts
    BY <1>1, <1>2, <1>3, <1>4, Bounds DEF Counts
  <2>2. Counted(ks, t, "spotify") <= 1
    BY <1>1, <1>2 DEF Counts, Kinds
  <2>3. ~c.lookup => c.attempts < MaxAttempts
    BY <1>1, <1>2, <1>3, <1>4, Bounds DEF Counts, Kinds
  <2> QED BY <1>1, <2>1, <2>2, <2>3 DEF Counts
<1>6. Tells(t, src, c, ks, bns)
  <2>1. c.pending = Counted(ks, t, "youtube") + Counted(ks, t, "spotify")
    <3>1. b.pending = Counted(js, t, "youtube") + Counted(js, t, "spotify")
      BY <1>1, <1>2 DEF Tells
    <3> QED BY <1>1, <1>3, <1>4, <3>1 DEF Kinds
  <2>2. \A m \in Kinds : At(ks, t, m, "found") > 0 => src # {}
    BY <1>1, <1>2 DEF Tells
  <2>3. CASE o \in {"error", "quota"}
    BY <1>1, <1>2, <1>4, <2>1, <2>2, <2>3 DEF Tells
  <2>4. CASE o \in {"found", "miss"}
    <3>1. src # {} \/ Missed(t, bns)
      BY <1>1, <1>2, <2>4 DEF Tells, Missed
    <3>2. Said(bns, t, "youtube") = "quota" =>
             k # "youtube" /\ Said(ans, t, "youtube") = "quota"
      BY <1>1, <1>2, <2>4 DEF Kinds
    <3>3. Said(bns, t, "youtube") = "quota" => c.uncertain \/ Counted(ks, t, "youtube") > 0
      BY <1>1, <1>2, <1>4, <3>2 DEF Tells, Kinds
    <3> QED BY <2>1, <2>2, <3>1, <3>3 DEF Tells
  <2> QED BY <1>2, <2>3, <2>4
<1> QED BY <1>5, <1>6 DEF c

\* A lookup that settles, or a launch that is dropped, keeps the invariant.
LEMMA SettleStep ==
    ASSUME LookupInv, NEW t \in Songs, NEW k \in Kinds, NEW s \in Stages,
           NEW o \in {"found", "miss", "error", "quota"},
           o = "quota" => s = "refused", o = "found" => s = "found",
           Settle(t, k, s, o), UNCHANGED <<exhausted, trips>>
    PROVE  LookupInv'
<1> DEFINE queued == t \in Range(line)
           ks == Taken(jobs, t, k, s)
           bk == IF queued THEN [book EXCEPT ![t] = Settled(@, o)] ELSE book
<1>1. /\ At(jobs, t, k, s) > 0
      /\ Mutate(line, sources, bk, ks)
      /\ answer' = IF queued THEN [answer EXCEPT ![<<t, k>>] = o] ELSE answer
      /\ unchecked' = TRUE
      /\ UNCHANGED <<matchers, added, wake, stuck, skipped, exhausted, trips>>
  BY DEF Settle, At
<1>2. /\ matchers \subseteq Kinds /\ added \subseteq Songs /\ stuck \subseteq added
      /\ line \in Seq(added) /\ IsInjective(line) /\ Range(line) \subseteq Songs
      /\ sources \in [Songs -> SUBSET Kinds] /\ book \in [Songs -> Books]
      /\ jobs \in [Slots -> Nat] /\ armed \in BOOLEAN /\ Rest
      /\ Sound(added, line, sources, book, jobs, stuck, answer)
  BY InvParts
<1>3. /\ ks \in [Slots -> Nat]
      /\ \A u \in Songs, m \in Kinds :
            Counted(ks, u, m) = Counted(jobs, u, m) - (IF u = t /\ m = k THEN 1 ELSE 0)
      /\ \A u \in Songs, m \in Kinds, r \in Stages :
            At(ks, u, m, r) = At(jobs, u, m, r) - (IF u = t /\ m = k /\ r = s THEN 1 ELSE 0)
  BY <1>1, <1>2, TakenFacts
<1>4. Others(t, jobs, ks)
  BY <1>1, <1>2, TakenOthers
<1> HIDE DEF ks
<1>5. /\ t \in added \ stuck /\ Counted(jobs, t, k) > 0 /\ (s = "refused" => k = "youtube")
  BY <1>1, Underway
<1>6. bk \in [Songs -> Books]
  BY <1>2, SettledFacts
<1>7. /\ answer' \in [Lookups -> {"none", "found", "miss", "error", "quota"}]
      /\ \A u \in Songs, m \in Kinds : ~(queued /\ u = t /\ m = k) => Said(answer', u, m) = Said(answer, u, m)
      /\ queued => Said(answer', t, k) = o
  <2>1. answer \in [Lookups -> {"none", "found", "miss", "error", "quota"}]
    BY <1>2 DEF Rest
  <2>2. answer' \in [Lookups -> {"none", "found", "miss", "error", "quota"}]
    BY <1>1, <2>1
  <2>3. ASSUME NEW u \in Songs, NEW m \in Kinds, ~(queued /\ u = t /\ m = k)
        PROVE  Said(answer', u, m) = Said(answer, u, m)
    <3>1. <<u, m>> \in Lookups /\ (<<u, m>> # <<t, k>> \/ ~queued)
      BY <2>3 DEF Lookups
    <3> QED BY <1>1, <2>1, <3>1 DEF Said
  <2>4. <<t, k>> \in Lookups
    BY DEF Lookups
  <2> QED BY <1>1, <2>1, <2>2, <2>3, <2>4 DEF Said
<1>8. /\ "youtube" \in Kinds /\ "spotify" \in Kinds /\ "found" \in Stages /\ "refused" \in Stages
  BY DEF Kinds, Stages
<1>9. ASSUME NEW m \in Kinds, NEW r \in Stages
      PROVE  /\ At(ks, t, m, r) \in Nat /\ At(jobs, t, m, r) \in Nat
             /\ At(ks, t, m, r) <= At(jobs, t, m, r)
  <2>1. At(ks, t, m, r) \in Nat /\ At(jobs, t, m, r) \in Nat
    BY <1>2, <1>3, SlotFacts
  <2> QED BY <1>3, <2>1
<1>10. /\ Counted(jobs, t, "youtube") \in Nat /\ Counted(jobs, t, "spotify") \in Nat
       /\ Counted(ks, t, "youtube") \in Nat /\ Counted(ks, t, "spotify") \in Nat
       /\ Counted(ks, t, "youtube") = Counted(jobs, t, "youtube") - (IF k = "youtube" THEN 1 ELSE 0)
       /\ Counted(ks, t, "spotify") = Counted(jobs, t, "spotify") - (IF k = "spotify" THEN 1 ELSE 0)
  BY <1>2, <1>3, <1>8, CountedFacts
<1>11. At(ks, t, "spotify", "refused") = 0 /\ Counts(t, book[t], jobs)
  <2>1. Counts(t, book[t], jobs)
    BY <1>2 DEF Sound
  <2>2. /\ At(ks, t, "spotify", "refused") \in Nat
        /\ At(ks, t, "spotify", "refused") <= At(jobs, t, "spotify", "refused")
    BY <1>8, <1>9
  <2> QED BY <2>1, <2>2 DEF Counts
<1>12. \A m \in Kinds : At(ks, t, m, "found") > 0 => At(jobs, t, m, "found") > 0
  BY <1>8, <1>9
<1>13. Counts(t, bk[t], ks) /\ (queued => Tells(t, sources[t], bk[t], ks, answer'))
  <2>1. CASE queued
    <3>1. Tells(t, sources[t], book[t], jobs, answer)
      BY <1>2, <2>1 DEF Sound
    <3>2. /\ Said(answer', t, k) = o
          /\ \A m \in Kinds \ {k} : Said(answer', t, m) = Said(answer, t, m)
      BY <1>7, <2>1
    <3>3. bk[t] = Settled(book[t], o) /\ book[t] \in Books
      BY <1>2, <2>1
    <3>4. Fewer(t, k, jobs, ks)
      BY <1>5, <1>10, <1>11, <1>12 DEF Fewer
    <3>5. Replied(t, k, o, jobs, answer, answer')
      BY <1>1, <1>5, <3>2 DEF Replied
    <3> HIDE DEF bk, queued
    <3>6. Counts(t, Settled(book[t], o), ks) /\ Tells(t, sources[t], Settled(book[t], o), ks, answer')
      BY <1>11, <3>1, <3>3, <3>4, <3>5, SettledTrack
    <3> QED BY <3>3, <3>6
  <2>2. CASE ~queued
    <3>1. bk[t] = book[t]
      BY <2>2
    <3>2. Counted(ks, t, "youtube") <= Counted(jobs, t, "youtube")
          /\ Counted(ks, t, "spotify") <= Counted(jobs, t, "spotify")
      BY <1>10
    <3>3. book[t].attempts \in 0 .. MaxAttempts
      BY <1>2 DEF Books
    <3> QED BY <1>10, <1>11, <2>2, <3>1, <3>2, <3>3, Bounds DEF Counts
  <2> QED BY <2>1, <2>2
<1>14. \A u \in Songs \ {t} : bk[u] = book[u]
  BY <1>2
<1>15. \A u \in Songs \ {t}, m \in Kinds : Said(answer', u, m) = Said(answer, u, m)
  BY <1>7
<1> HIDE DEF bk
<1>16. Sound(added, line, sources, bk, ks, stuck, answer')
  <2>1. OnlyTrack(t, line, sources, book, jobs, stuck, answer, line, sources, bk, ks, stuck, answer')
    BY <1>2, <1>4, <1>14, <1>15 DEF OnlyTrack
  <2> QED BY <1>2, <1>5, <1>13, <2>1, OneTrack
<1>17. /\ Rest' /\ added' = added /\ stuck' = stuck /\ matchers' = matchers
       /\ exhausted \in BOOLEAN
  BY <1>1, <1>2, <1>7 DEF Rest
<1> QED BY <1>1, <1>2, <1>3, <1>6, <1>16, <1>17, MutateStep

-----------------------------------------------------------------------------
(* A track is added or looked up again *)

\* The count of the lookups a track is due on Spotify, and its fields.
LEMMA BookkeepingFacts ==
    ASSUME NEW b \in Books, NEW src
    PROVE  /\ Cardinality(Eager(src)) = IF Eager(src) = {} THEN 0 ELSE 1
           /\ Bookkeeping(b, src) \in Books
           /\ Bookkeeping(b, src).pending = Cardinality(Eager(src))
           /\ Bookkeeping(b, src).checked = (matchers = {})
           /\ Bookkeeping(b, src).uncertain = b.uncertain
           /\ Bookkeeping(b, src).lookup = FALSE /\ Bookkeeping(b, src).attempts = 0
<1> DEFINE n == Cardinality(Eager(src))
           f == matchers = {}
<1>1. n = IF Eager(src) = {} THEN 0 ELSE 1
  <2>1. CASE Eager(src) = {}
    BY <2>1, FS_EmptySet
  <2>2. CASE Eager(src) = {"spotify"}
    BY <2>2, FS_Singleton
  <2> QED BY <2>1, <2>2 DEF Eager
<1>2. n \in 0 .. MaxAttempts + 1 /\ 0 \in 0 .. MaxAttempts /\ f \in BOOLEAN
  BY <1>1, Bounds
<1>3. Bookkeeping(b, src) = [b EXCEPT !.pending = n, !.checked = f,
                                      !.lookup = FALSE, !.owed = FALSE, !.attempts = 0]
  BY DEF Bookkeeping
<1> HIDE DEF n, f
<1>4. /\ Bookkeeping(b, src) \in Books
      /\ Bookkeeping(b, src).pending = n /\ Bookkeeping(b, src).checked = f
      /\ Bookkeeping(b, src).uncertain = b.uncertain
      /\ Bookkeeping(b, src).lookup = FALSE /\ Bookkeeping(b, src).attempts = 0
  BY <1>2, <1>3 DEF Books
<1> QED BY <1>1, <1>4 DEF n, f

\* A track without lookups gets the one it is due on Spotify.
LEMMA LaunchedFacts ==
    ASSUME NEW js \in [Slots -> Nat], NEW t \in Songs, NEW src,
           Counted(js, t, "youtube") = 0, Counted(js, t, "spotify") = 0
    PROVE  /\ Launched(js, t, src) \in [Slots -> Nat] /\ Others(t, js, Launched(js, t, src))
           /\ Counted(Launched(js, t, src), t, "youtube") = 0
           /\ Counted(Launched(js, t, src), t, "spotify") = IF Eager(src) = {} THEN 0 ELSE 1
           /\ At(Launched(js, t, src), t, "spotify", "refused") = 0
           /\ \A k \in Kinds : At(Launched(js, t, src), t, k, "found") = 0
<1>1. /\ "youtube" \in Kinds /\ "spotify" \in Kinds /\ "claimed" \in Stages
      /\ "found" \in Stages /\ "refused" \in Stages
  BY DEF Kinds, Stages
<1>2. ASSUME NEW k \in Kinds, NEW s \in Stages PROVE At(js, t, k, s) = 0
  <2>1. Counted(js, t, k) = 0
    BY DEF Kinds
  <2>2. At(js, t, k, s) \in Nat /\ At(js, t, k, s) <= Counted(js, t, k)
    BY SlotFacts, CountedFacts
  <2> QED BY <2>1, <2>2
<1>3. CASE Eager(src) = {}
  <2>1. Launched(js, t, src) = js
    BY <1>3 DEF Launched
  <2>2. Others(t, js, js)
    BY OthersFacts
  <2> QED BY <1>1, <1>2, <1>3, <2>1, <2>2
<1>4. CASE Eager(src) # {}
  <2> DEFINE ks == Launched(js, t, src)
  <2>1. ks = Put(js, t, "spotify", "claimed")
    BY <1>4 DEF Launched
  <2> HIDE DEF ks
  <2>2. ks \in [Slots -> Nat] /\ Others(t, js, ks)
    BY <1>1, <2>1, PutFacts, PutOthers
  <2>3. ASSUME NEW k \in Kinds
        PROVE  Counted(ks, t, k) = Counted(js, t, k) + (IF t = t /\ k = "spotify" THEN 1 ELSE 0)
    BY <1>1, <2>1, PutFacts
  <2>4. ASSUME NEW k \in Kinds, NEW s \in Stages \ {"claimed"} PROVE At(ks, t, k, s) = 0
    <3>1. At(ks, t, k, s)
            = At(js, t, k, s) + (IF t = t /\ k = "spotify" /\ s = "claimed" THEN 1 ELSE 0)
      BY <1>1, <2>1, PutFacts
    <3> QED BY <1>2, <3>1
  <2>5. Counted(ks, t, "youtube") = 0 /\ Counted(ks, t, "spotify") = 1
    BY <1>1, <2>3
  <2> QED BY <1>1, <1>4, <2>2, <2>4, <2>5 DEF ks
<1> QED BY <1>3, <1>4

\* A track that starts over keeps its part of the invariant, if nothing is due to it
\* and the quota has not refused it.
LEMMA FreshTrack ==
    ASSUME NEW js \in [Slots -> Nat], NEW t \in Songs, NEW src, NEW b \in Books, NEW ans,
           Counted(js, t, "youtube") = 0, Counted(js, t, "spotify") = 0,
           Said(ans, t, "youtube") # "quota"
    PROVE  LET ks == Launched(js, t, src)
           IN  /\ Counts(t, Bookkeeping(b, src), ks)
               /\ Tells(t, src, Bookkeeping(b, src), ks, ans)
<1> DEFINE ks == Launched(js, t, src)
           c == Bookkeeping(b, src)
<1>1. /\ Counted(ks, t, "youtube") = 0
      /\ Counted(ks, t, "spotify") = IF Eager(src) = {} THEN 0 ELSE 1
      /\ At(ks, t, "spotify", "refused") = 0
      /\ \A k \in Kinds : At(ks, t, k, "found") = 0
  BY LaunchedFacts
<1>2. /\ c.pending = IF Eager(src) = {} THEN 0 ELSE 1
      /\ c.checked = (matchers = {}) /\ c.attempts = 0
  BY BookkeepingFacts
<1> HIDE DEF ks, c
<1>3. Counts(t, c, ks)
  BY <1>1, <1>2, Bounds DEF Counts
<1>4. Tells(t, src, c, ks, ans)
  <2>1. c.pending = Counted(ks, t, "youtube") + Counted(ks, t, "spotify")
    BY <1>1, <1>2
  <2>2. c.checked => matchers = {}
    BY <1>2
  <2>3. \A k \in Kinds : ~(At(ks, t, k, "found") > 0)
    BY <1>1
  <2> QED BY <2>1, <2>2, <2>3 DEF Tells
<1> QED BY <1>3, <1>4 DEF ks, c

\* Adding a track keeps the invariant.
LEMMA AddStep ==
    ASSUME LookupInv, NEW t \in Songs, NEW src \in SUBSET Kinds, Add(t, src)
    PROVE  LookupInv'
<1> DEFINE l == Append(line, t)
           ss == [sources EXCEPT ![t] = src]
           bk == [book EXCEPT ![t] = Bookkeeping(NewBook, src)]
           ks == Launched(jobs, t, src)
<1>1. /\ t \notin added /\ added' = added \cup {t} /\ Mutate(l, ss, bk, ks)
      /\ unchecked' = TRUE
      /\ UNCHANGED <<matchers, exhausted, wake, stuck, skipped, answer, trips>>
  BY DEF Add
<1>2. /\ matchers \subseteq Kinds /\ added \subseteq Songs /\ stuck \subseteq added
      /\ line \in Seq(added) /\ IsInjective(line)
      /\ Range(line) \subseteq added /\ Range(line) \subseteq Songs
      /\ sources \in [Songs -> SUBSET Kinds] /\ book \in [Songs -> Books]
      /\ jobs \in [Slots -> Nat] /\ armed \in BOOLEAN /\ Rest
      /\ Sound(added, line, sources, book, jobs, stuck, answer)
  BY InvParts
<1>3. /\ Counted(jobs, t, "youtube") = 0 /\ Counted(jobs, t, "spotify") = 0
      /\ Said(answer, t, "youtube") = "none"
  <2>1. Unused(t, jobs, answer)
    BY <1>1, <1>2 DEF Sound
  <2> QED BY <2>1 DEF Unused, Kinds
<1>4. NewBook \in Books
  BY Bounds DEF NewBook, Books
<1>5. ks \in [Slots -> Nat] /\ Others(t, jobs, ks)
  BY <1>2, <1>3, LaunchedFacts
<1>6. ss \in [Songs -> SUBSET Kinds] /\ bk \in [Songs -> Books]
  BY <1>2, <1>4, BookkeepingFacts
<1>7. /\ l \in Seq(added') /\ Range(l) = Range(line) \cup {t} /\ IsInjective(l)
  <2>1. line \in Seq(added') /\ t \in added' /\ t \notin Range(line)
    BY <1>1, <1>2, SeqMonotone
  <2> QED BY <1>2, <2>1, AppendFacts
<1>8. Counts(t, bk[t], ks) /\ Tells(t, ss[t], bk[t], ks, answer)
  <2>1. bk[t] = Bookkeeping(NewBook, src) /\ ss[t] = src
    BY <1>2
  <2>2. Counts(t, Bookkeeping(NewBook, src), ks) /\ Tells(t, src, Bookkeeping(NewBook, src), ks, answer)
    BY <1>2, <1>3, <1>4, FreshTrack
  <2> QED BY <2>1, <2>2
<1>9. /\ added \subseteq added' /\ added' \subseteq Songs /\ t \in added' /\ t \notin stuck
      /\ stuck \subseteq Songs /\ stuck \subseteq added'
      /\ Range(l) \ {t} \subseteq Range(line) /\ Range(l) \subseteq Songs
  BY <1>1, <1>2, <1>7
<1>10. \A u \in Songs \ {t} : ss[u] = sources[u] /\ bk[u] = book[u]
  BY <1>2
<1> HIDE DEF l, ss, bk, ks
<1>11. Sound(added', l, ss, bk, ks, stuck, answer)
  <2>1. OnlyTrack(t, line, sources, book, jobs, stuck, answer, l, ss, bk, ks, stuck, answer)
    BY <1>5, <1>9, <1>10 DEF OnlyTrack
  <2> QED BY <1>2, <1>8, <1>9, <2>1, OneTrack
<1>12. /\ Rest' /\ stuck' = stuck /\ answer' = answer /\ matchers' = matchers
       /\ exhausted \in BOOLEAN
  BY <1>1, <1>2 DEF Rest
<1> QED BY <1>1, <1>2, <1>5, <1>6, <1>7, <1>9, <1>11, <1>12, MutateStep

-----------------------------------------------------------------------------
(* The other steps *)

\* The invariant that every step starts from, with what a mutation needs of it.
Ready ==
    /\ matchers \subseteq Kinds /\ added \subseteq Songs /\ stuck \subseteq added
    /\ line \in Seq(added) /\ line \in Seq(Songs) /\ IsInjective(line)
    /\ Range(line) \subseteq added /\ Range(line) \subseteq Songs
    /\ sources \in [Songs -> SUBSET Kinds] /\ book \in [Songs -> Books]
    /\ jobs \in [Slots -> Nat] /\ armed \in BOOLEAN /\ exhausted \in BOOLEAN /\ Rest
    /\ Sound(added, line, sources, book, jobs, stuck, answer)

\* The invariant gives every step that.
LEMMA InvReady ==
    ASSUME LookupInv
    PROVE  Ready
BY InvParts DEF Ready, Rest

\* A mutation of the queue alone, to one with no other tracks, keeps the invariant.
LEMMA QueueStep ==
    ASSUME LookupInv, NEW l \in Seq(added), IsInjective(l), Range(l) \subseteq Range(line),
           Mutate(l, sources, book, jobs), stuck' \subseteq stuck, skipped' \subseteq Songs,
           unchecked' = TRUE, wake' \in BOOLEAN,
           UNCHANGED <<matchers, added, exhausted, answer, trips>>
    PROVE  LookupInv'
<1>1. Ready
  BY InvReady
<1>2. Sound(added, l, sources, book, jobs, stuck', answer)
  BY <1>1, FewerTracks DEF Ready
<1>3. Rest' /\ added' = added /\ answer' = answer /\ matchers' = matchers
  BY <1>1 DEF Rest, Ready
<1> QED BY <1>1, <1>2, <1>3, MutateStep DEF Ready

\* A step that leaves the queue, the sources and the fields alone.
LEMMA LookupsStep ==
    ASSUME LookupInv, jobs' \in [Slots -> Nat],
           Sound(added, line, sources, book, jobs', stuck', answer),
           stuck' \subseteq Songs, wake' \in BOOLEAN, armed' \in BOOLEAN, exhausted' \in BOOLEAN,
           unchecked' = unchecked \/ unchecked' = FALSE, trips' \in 0 .. MaxTrips,
           UNCHANGED <<matchers, added, line, sources, book, skipped, answer>>
    PROVE  LookupInv'
<1>1. Ready
  BY InvReady
<1>2. /\ matchers' = matchers /\ added' = added /\ line' = line /\ sources' = sources
      /\ book' = book /\ answer' = answer /\ skipped' = skipped
  OBVIOUS
<1>3. Rest'
  BY <1>1, <1>2 DEF Rest, Ready
<1>4. HeadClaimed'
  BY <1>2 DEF HeadClaimed, LookupInv
<1> QED BY <1>1, <1>2, <1>3, <1>4, InvPrime DEF Ready

\* What a page's call makes of the queue has no track twice and none that is new.
LEMMA CallsKeepTracks ==
    ASSUME line \in Seq(added), IsInjective(line), NEW l \in Requeued
    PROVE  l \in Seq(added) /\ IsInjective(l) /\ Range(l) \subseteq Range(line)
<1>1. ASSUME NEW i \in 1 .. Len(line)
      PROVE  /\ RemoveAt(line, i) \in Seq(added) /\ Len(RemoveAt(line, i)) = Len(line) - 1
             /\ IsInjective(RemoveAt(line, i))
             /\ Range(RemoveAt(line, i)) = Range(line) \ {line[i]}
             /\ line[i] \in added /\ line[i] \in Range(line)
  BY <1>1, RemoveOneFacts, InRange
<1>2. CASE l \in {RemoveAt(line, i) : i \in DOMAIN line}
  BY <1>1, <1>2
<1>3. CASE l \in {<<line[i]>> \o RemoveAt(RemoveAt(line, i), 1) : i \in 2 .. Len(line)}
  <2>1. PICK i \in 2 .. Len(line) : l = <<line[i]>> \o RemoveAt(RemoveAt(line, i), 1)
    BY <1>3
  <2> DEFINE r == RemoveAt(line, i)
             w == RemoveAt(r, 1)
             h == <<line[i]>>
  <2>2. /\ r \in Seq(added) /\ IsInjective(r) /\ 1 \in 1 .. Len(r)
        /\ Range(r) = Range(line) \ {line[i]} /\ line[i] \in added /\ line[i] \in Range(line)
    BY <2>1, <1>1
  <2> HIDE DEF r
  <2>3. w \in Seq(added) /\ IsInjective(w) /\ Range(w) \subseteq Range(r)
    BY <2>2, RemoveOneFacts
  <2>4. h \in Seq(added) /\ IsInjective(h) /\ Range(h) = {line[i]}
    BY <2>2 DEF IsInjective, Range
  <2>5. l = h \o w
    BY <2>1 DEF r
  <2> HIDE DEF w, h
  <2>6. l \in Seq(added) /\ IsInjective(l) /\ Range(l) = Range(h) \cup Range(w)
    BY <2>2, <2>3, <2>4, <2>5, ConcatFacts
  <2> QED BY <2>2, <2>3, <2>4, <2>6
<1>4. CASE l \in {InsertAt(RemoveAt(line, i), j, line[i]) : i, j \in 2 .. Len(line)}
  <2>1. PICK i \in 2 .. Len(line), j \in 2 .. Len(line) : l = InsertAt(RemoveAt(line, i), j, line[i])
    BY <1>4
  <2> DEFINE r == RemoveAt(line, i)
             t == line[i]
  <2>2. i \in 1 .. Len(line)
    BY <2>1
  <2>3. /\ r \in Seq(added) /\ Len(r) = Len(line) - 1 /\ IsInjective(r)
        /\ Range(r) = Range(line) \ {t} /\ t \in added /\ t \in Range(line)
    BY <2>2, <1>1
  <2>4. l = InsertAt(r, j, t)
    BY <2>1
  <2> HIDE DEF r, t
  <2>5. j \in 1 .. Len(r) + 1
    BY <2>1, <2>3
  <2>6. l \in Seq(added) /\ Range(l) = Range(r) \cup {t}
    BY <2>3, <2>4, <2>5, InsertFacts
  <2>7. t \notin Range(r)
    BY <2>3
  <2>8. IsInjective(l)
    BY <2>3, <2>4, <2>5, <2>7, InsertFacts
  <2> QED BY <2>3, <2>6, <2>8
<1>5. CASE l \in {SubSeq(line, 1, 1) : i \in DOMAIN line}
  <2>1. l = <<line[1]>> /\ 1 \in 1 .. Len(line)
    BY <1>5
  <2> QED BY <2>1, <1>1 DEF IsInjective, Range
<1> QED BY <1>2, <1>3, <1>4, <1>5 DEF Requeued

\* A page's call changes the queue, or touches the room.
LEMMA RequeueStep ==
    ASSUME LookupInv, NEW l \in Requeued, Requeue(l)
    PROVE  LookupInv'
<1>1. Ready
  BY InvReady
<1>2. l \in Seq(added) /\ IsInjective(l) /\ Range(l) \subseteq Range(line)
  BY <1>1, CallsKeepTracks DEF Ready
<1>3. wake \in BOOLEAN /\ skipped \subseteq Songs
  BY <1>1 DEF Ready, Rest
<1> QED BY <1>2, <1>3, QueueStep DEF Requeue

\* Any other mutation starts the lookups that are due, and each one is counted.
LEMMA TouchStep ==
    ASSUME LookupInv, Touch
    PROVE  LookupInv'
<1>1. Ready
  BY InvReady
<1>2. wake \in BOOLEAN /\ skipped \subseteq Songs
  BY <1>1 DEF Ready, Rest
<1> QED BY <1>1, <1>2, QueueStep DEF Touch, Requeue, Ready

\* A launch runs, or is dropped.
LEMMA LaunchStep ==
    ASSUME LookupInv, NEW t \in Songs, NEW k \in Kinds, Launch(t, k)
    PROVE  LookupInv'
<1>1. Ready
  BY InvReady
<1>2. "claimed" \in Stages /\ "running" \in Stages
  BY DEF Stages
<1>3. CASE DropLaunch(t, k)
  BY <1>2, <1>3, SettleStep DEF DropLaunch
<1>4. CASE ~DropLaunch(t, k)
  <2>1. /\ At(jobs, t, k, "claimed") > 0
        /\ jobs' = Put(Taken(jobs, t, k, "claimed"), t, k, "running")
        /\ UNCHANGED <<matchers, added, line, sources, book, exhausted, armed, wake, unchecked,
                       stuck, skipped, answer, trips>>
    BY <1>4 DEF Launch, At
  <2>2. jobs' \in [Slots -> Nat] /\ Sound(added, line, sources, book, jobs', stuck, answer)
    BY <1>1, <1>2, <2>1, MovedSound DEF Ready
  <2> QED BY <1>1, <2>1, <2>2, LookupsStep DEF Ready, Rest
<1> QED BY <1>3, <1>4

\* The quota refuses a lookup.
LEMMA RefusedStep ==
    ASSUME LookupInv, NEW t \in Songs, Refused(t)
    PROVE  LookupInv'
<1>1. Ready
  BY InvReady
<1>2. "youtube" \in Kinds /\ "running" \in Stages /\ "refused" \in Stages
  BY DEF Kinds, Stages
<1>3. /\ At(jobs, t, "youtube", "running") > 0
      /\ jobs' = Put(Taken(jobs, t, "youtube", "running"), t, "youtube", "refused")
      /\ exhausted' = TRUE
      /\ UNCHANGED <<matchers, added, line, sources, book, armed, wake, unchecked, stuck, skipped, answer>>
  BY DEF Refused, At
<1>4. trips' \in 0 .. MaxTrips
  BY <1>1, Bounds DEF Refused, Trip, Ready, Rest
<1>5. jobs' \in [Slots -> Nat] /\ Sound(added, line, sources, book, jobs', stuck, answer)
  BY <1>1, <1>2, <1>3, MovedSound DEF Ready
<1> QED BY <1>1, <1>3, <1>4, <1>5, LookupsStep DEF Ready, Rest

\* A source more for a track that is not about to be skipped.
LEMMA SourceSound ==
    ASSUME LookupInv, NEW t \in Songs, t \notin stuck, NEW k \in Kinds
    PROVE  LET ss == [sources EXCEPT ![t] = @ \cup {k}]
           IN  /\ ss \in [Songs -> SUBSET Kinds] /\ ss[t] # {}
               /\ Sound(added, line, ss, book, jobs, stuck, answer)
<1> DEFINE ss == [sources EXCEPT ![t] = @ \cup {k}]
<1>1. Ready
  BY InvReady
<1>2. /\ ss \in [Songs -> SUBSET Kinds] /\ ss[t] # {}
      /\ \A u \in Songs \ {t} : ss[u] = sources[u]
  BY <1>1 DEF Ready
<1> HIDE DEF ss
<1>3. Others(t, jobs, jobs)
  BY <1>1, OthersFacts DEF Ready
<1>4. OnlyTrack(t, line, sources, book, jobs, stuck, answer, line, ss, book, jobs, stuck, answer)
  BY <1>1, <1>2, <1>3 DEF OnlyTrack, Ready
<1>5. Counts(t, book[t], jobs) /\ (t \notin added => Unused(t, jobs, answer))
  BY <1>1 DEF Ready, Sound
<1>6. ASSUME t \in Range(line) PROVE Tells(t, ss[t], book[t], jobs, answer)
  <2>1. Tells(t, sources[t], book[t], jobs, answer)
    BY <1>1, <1>6 DEF Ready, Sound
  <2> QED BY <1>2, <2>1 DEF Tells
<1>7. Sound(added, line, ss, book, jobs, stuck, answer)
  BY <1>1, <1>4, <1>5, <1>6, OneTrack DEF Ready
<1> QED BY <1>2, <1>7 DEF ss

\* A lookup finds a source.
LEMMA FoundStep ==
    ASSUME LookupInv, NEW t \in Songs, NEW k \in Kinds, Found(t, k)
    PROVE  LookupInv'
<1> DEFINE ks == Put(Taken(jobs, t, k, "running"), t, k, "found")
           ss == [sources EXCEPT ![t] = @ \cup {k}]
<1>1. Ready
  BY InvReady
<1>2. "running" \in Stages /\ "found" \in Stages
  BY DEF Stages
<1>3. /\ At(jobs, t, k, "running") > 0
      /\ \/ /\ t \in Range(line) /\ Mutate(line, ss, book, ks) /\ unchecked' = TRUE
         \/ /\ t \notin Range(line) /\ jobs' = ks
            /\ UNCHANGED <<line, sources, book, armed, unchecked>>
      /\ UNCHANGED <<matchers, added, exhausted, wake, stuck, skipped, answer, trips>>
  BY DEF Found, At
<1>4. t \notin stuck
  BY <1>2, <1>3, Underway
<1>5. CASE t \in Range(line)
  <2>1. /\ ss \in [Songs -> SUBSET Kinds] /\ ss[t] # {}
        /\ Sound(added, line, ss, book, jobs, stuck, answer)
    BY <1>4, SourceSound
  <2> HIDE DEF ss
  <2>2. ks \in [Slots -> Nat] /\ Sound(added, line, ss, book, ks, stuck, answer)
    BY <1>2, <1>3, <2>1, MovedSound
  <2>3. Rest' /\ added' = added /\ stuck' = stuck /\ answer' = answer /\ matchers' = matchers
    BY <1>1, <1>3, <1>5 DEF Rest, Ready
  <2>4. Mutate(line, ss, book, ks)
    BY <1>3, <1>5
  <2> HIDE DEF ks
  <2> QED BY <1>1, <2>1, <2>2, <2>3, <2>4, MutateStep DEF Ready
<1>6. CASE t \notin Range(line)
  <2>1. ks \in [Slots -> Nat] /\ Sound(added, line, sources, book, ks, stuck, answer)
    BY <1>1, <1>2, <1>3, <1>6, MovedSound DEF Ready
  <2>2. jobs' = ks /\ UNCHANGED <<line, sources, book, armed, unchecked>>
    BY <1>3, <1>6
  <2> HIDE DEF ks
  <2> QED BY <1>1, <1>3, <2>1, <2>2, LookupsStep DEF Ready, Rest
<1> QED BY <1>5, <1>6

\* A lookup ends in one of four ways.
LEMMA LookupEndsStep ==
    ASSUME LookupInv, NEW t \in Songs, NEW k \in Kinds, LookupEnds(t, k)
    PROVE  LookupInv'
<1>1. "found" \in Stages /\ "running" \in Stages /\ "refused" \in Stages
  BY DEF Stages
<1>2. UNCHANGED <<exhausted, trips>>
  BY DEF LookupEnds
<1>3. CASE Settle(t, k, "found", "found")
  BY <1>1, <1>2, <1>3, SettleStep
<1>4. CASE Settle(t, k, "running", "miss")
  BY <1>1, <1>2, <1>4, SettleStep
<1>5. CASE Settle(t, k, "running", "error")
  BY <1>1, <1>2, <1>5, SettleStep
<1>6. CASE Settle(t, k, "refused", "quota")
  BY <1>1, <1>2, <1>6, SettleStep
<1> QED BY <1>3, <1>4, <1>5, <1>6 DEF LookupEnds

\* The quota resets, and its timer wakes.
LEMMA QuotaResetsStep ==
    ASSUME LookupInv, QuotaResets
    PROVE  LookupInv'
<1>1. Ready
  BY InvReady
<1> QED BY <1>1, LookupsStep DEF QuotaResets, Ready, Rest

\* A quota reset mutates the room, which starts what is due, or arms the next timer.
LEMMA OnQuotaResetStep ==
    ASSUME LookupInv, OnQuotaReset
    PROVE  LookupInv'
<1>1. Ready
  BY InvReady
<1>2. wake \in BOOLEAN /\ skipped \subseteq Songs /\ trips \in 0 .. MaxTrips
  BY <1>1 DEF Ready, Rest
<1>3. CASE exhausted
  BY <1>1, <1>2, <1>3, LookupsStep DEF OnQuotaReset, Ready, Rest
<1>4. CASE ~exhausted
  BY <1>1, <1>2, <1>4, QueueStep DEF OnQuotaReset, Ready
<1> QED BY <1>3, <1>4

\* A round of autoSkipSourceless finds a track to skip, looks one up again, or neither.
LEMMA CheckStep ==
    ASSUME LookupInv, Check
    PROVE  LookupInv'
<1> DEFINE t == Head(line)
           src == sources[t]
           bk == [book EXCEPT ![t] = Bookkeeping(@, src)]
           ks == Launched(jobs, t, src)
<1>1. Ready
  BY InvReady
<1>2. /\ unchecked /\ unchecked' = FALSE
      /\ UNCHANGED <<matchers, added, exhausted, wake, skipped, answer, trips>>
  BY DEF Check
<1>3. CASE line = <<>> \/ ~Sourceless(t)
  <2>1. UNCHANGED <<line, sources, book, jobs, armed, stuck>>
    BY <1>3 DEF Check
  <2> QED BY <1>1, <1>2, <2>1, LookupsStep DEF Ready, Rest
<1>4. CASE line # <<>> /\ Sourceless(t)
  <2>1. t \in Range(line) /\ t \in Songs /\ t \in added
    <3>1. 1 \in 1 .. Len(line) /\ line[1] = t
      BY <1>1, <1>4 DEF Ready
    <3> QED BY <1>1, <3>1, InRange DEF Ready
  <2>2. src = {} /\ book[t].pending = 0 /\ ~book[t].uncertain
    BY <1>4 DEF Sourceless
  <2>3. /\ Counts(t, book[t], jobs) /\ Tells(t, src, book[t], jobs, answer)
        /\ t \in stuck => Final(t, TRUE, src, book[t], jobs, answer)
    <3>1. Final(t, t \in Range(line), src, book[t], jobs, answer)
            => Final(t, TRUE, src, book[t], jobs, answer)
      BY <2>1 DEF Final
    <3> QED BY <1>1, <2>1, <3>1 DEF Ready, Sound
  <2>4. Counted(jobs, t, "youtube") = 0 /\ Counted(jobs, t, "spotify") = 0
    <3>1. Counted(jobs, t, "youtube") \in Nat /\ Counted(jobs, t, "spotify") \in Nat
      BY <1>1, <2>1, CountedFacts DEF Ready, Kinds
    <3>2. 0 = Counted(jobs, t, "youtube") + Counted(jobs, t, "spotify")
      BY <2>2, <2>3 DEF Tells
    <3> QED BY <3>1, <3>2
  <2>5. Said(answer, t, "youtube") # "quota"
    BY <2>2, <2>3, <2>4 DEF Tells
  <2>6. CASE book[t].checked \/ matchers = {}
    <3>1. stuck' = stuck \cup {t} /\ UNCHANGED <<line, sources, book, jobs, armed>>
      BY <1>4, <2>6 DEF Check
    <3>2. Final(t, t \in Range(line), src, book[t], jobs, answer)
      <4>1. matchers = {} \/ Missed(t, answer)
        BY <2>2, <2>3, <2>6 DEF Tells
      <4>2. book[t].lookup \/ "youtube" \notin matchers
        BY <1>2, <1>4, <2>2 DEF LookupInv, HeadClaimed
      <4> QED BY <2>2, <2>4, <2>5, <2>6, <4>1, <4>2 DEF Final
    <3>3. Others(t, jobs, jobs)
      BY <1>1, OthersFacts DEF Ready
    <3>4. OnlyTrack(t, line, sources, book, jobs, stuck, answer,
                line, sources, book, jobs, stuck', answer)
      BY <1>1, <3>1, <3>3 DEF OnlyTrack, Ready
    <3>5. stuck' \subseteq added
      BY <1>1, <2>1, <3>1 DEF Ready
    <3> HIDE DEF t, src
    <3>6. Sound(added, line, sources, book, jobs, stuck', answer)
      BY <1>1, <2>1, <2>3, <3>2, <3>4, <3>5, OneTrack DEF Ready, src
    <3> QED BY <1>1, <1>2, <3>1, <3>5, <3>6, LookupsStep DEF Ready, Rest
  <2>7. CASE ~(book[t].checked \/ matchers = {})
    <3>1. /\ Mutate(line, sources, bk, ks) /\ UNCHANGED stuck
      BY <1>4, <2>7 DEF Check
    <3>2. t \notin stuck
      BY <2>3, <2>7 DEF Final
    <3>3. ks \in [Slots -> Nat] /\ Others(t, jobs, ks)
      BY <1>1, <2>1, <2>4, LaunchedFacts DEF Ready
    <3>4. bk \in [Songs -> Books] /\ bk[t] = Bookkeeping(book[t], src) /\ book[t] \in Books
      BY <1>1, <2>1, BookkeepingFacts DEF Ready
    <3>5. Counts(t, bk[t], ks) /\ Tells(t, src, bk[t], ks, answer)
      BY <1>1, <2>1, <2>4, <2>5, <3>4, FreshTrack DEF Ready
    <3>6. \A u \in Songs \ {t} : bk[u] = book[u]
      BY <1>1 DEF Ready
    <3> HIDE DEF bk, ks, t
    <3>7. OnlyTrack(t, line, sources, book, jobs, stuck, answer,
                line, sources, bk, ks, stuck, answer)
      BY <1>1, <3>3, <3>6 DEF OnlyTrack, Ready
    <3>8. Sound(added, line, sources, bk, ks, stuck, answer)
      BY <1>1, <2>1, <3>2, <3>5, <3>7, OneTrack DEF Ready
    <3>9. Rest' /\ added' = added /\ stuck' = stuck /\ answer' = answer /\ matchers' = matchers
      BY <1>1, <1>2, <3>1 DEF Rest, Ready
    <3> QED BY <1>1, <3>1, <3>3, <3>4, <3>8, <3>9, MutateStep DEF Ready
  <2> QED BY <2>6, <2>7
<1> QED BY <1>3, <1>4

\* The skip of a track that was found.
LEMMA SkipStep ==
    ASSUME LookupInv, NEW t \in Songs, SkipUnplayed(t)
    PROVE  LookupInv'
<1> DEFINE plays == line # <<>> /\ Head(line) = t
           l == IF plays THEN Tail(line) ELSE line
<1>1. Ready
  BY InvReady
<1>2. /\ Mutate(l, sources, book, jobs) /\ stuck' \subseteq stuck
      /\ skipped' \in {skipped, skipped \cup {t}} /\ unchecked' = TRUE
      /\ UNCHANGED <<matchers, added, exhausted, wake, answer, trips>>
  BY DEF SkipUnplayed
<1>3. l \in Seq(added) /\ IsInjective(l) /\ Range(l) \subseteq Range(line)
  <2>1. line \in Seq(added) /\ IsInjective(line)
    BY <1>1 DEF Ready
  <2>2. CASE plays
    <3>1. /\ Tail(line) \in Seq(added) /\ Len(Tail(line)) = Len(line) - 1
          /\ \A i \in 1 .. Len(Tail(line)) :
                Tail(line)[i] = line[i + 1] /\ i + 1 \in 1 .. Len(line)
      BY <2>1, <2>2
    <3>2. IsInjective(Tail(line))
      BY <2>1, <3>1 DEF IsInjective
    <3>3. Range(Tail(line)) \subseteq Range(line)
      BY <2>1, <3>1 DEF Range
    <3> QED BY <2>2, <3>1, <3>2, <3>3
  <2>3. CASE ~plays
    BY <2>1, <2>3
  <2> QED BY <2>2, <2>3
<1>4. wake \in BOOLEAN /\ skipped' \subseteq Songs
  BY <1>1, <1>2 DEF Ready, Rest
<1> HIDE DEF l, plays
<1> QED BY <1>2, <1>3, <1>4, QueueStep

\* Without lookups and with new fields, every track starts over.
LEMMA NewProcess ==
    ASSUME NEW bk, NEW js, NEW ans, NEW add, NEW l, NEW src, NEW st,
           bk = [t \in Songs |-> NewBook], js = [j \in Slots |-> 0],
           ans = [m \in Lookups |-> "none"], st = {}, Range(l) \subseteq Songs
    PROVE  /\ bk \in [Songs -> Books] /\ js \in [Slots -> Nat]
           /\ ans \in [Lookups -> {"none", "found", "miss", "error", "quota"}]
           /\ Sound(add, l, src, bk, js, st, ans)
<1>1. NewBook \in Books
  BY Bounds DEF NewBook, Books
<1>2. bk \in [Songs -> Books] /\ js \in [Slots -> Nat]
      /\ ans \in [Lookups -> {"none", "found", "miss", "error", "quota"}]
  BY <1>1
<1>3. /\ "youtube" \in Kinds /\ "spotify" \in Kinds /\ "refused" \in Stages
      /\ "claimed" \in Stages /\ "running" \in Stages /\ "found" \in Stages
  BY DEF Kinds, Stages
<1>4. ASSUME NEW t \in Songs, NEW k \in Kinds
      PROVE  /\ \A s \in Stages : At(js, t, k, s) = 0
             /\ Said(ans, t, k) = "none"
  <2>1. ASSUME NEW s \in Stages PROVE At(js, t, k, s) = 0
    <3>1. <<t, k, s>> \in Slots
      BY DEF Slots
    <3> QED BY <3>1 DEF At
  <2>2. Said(ans, t, k) = "none"
    <3>1. <<t, k>> \in Lookups
      BY DEF Lookups
    <3> QED BY <3>1 DEF Said
  <2> QED BY <2>1, <2>2
<1>5. ASSUME NEW t \in Songs, NEW k \in Kinds PROVE Counted(js, t, k) = 0
  <2>1. Counted(js, t, k) = At(js, t, k, "claimed") + At(js, t, k, "running")
                              + At(js, t, k, "found") + At(js, t, k, "refused")
    BY <1>2, SlotFacts
  <2> QED BY <1>3, <1>4, <2>1
<1>6. ASSUME NEW t \in Songs
      PROVE  /\ Counts(t, bk[t], js) /\ Tells(t, src[t], bk[t], js, ans) /\ Unused(t, js, ans)
  <2>1. bk[t].pending = 0 /\ ~bk[t].checked /\ bk[t].attempts = 0
    BY DEF NewBook
  <2>2. Counted(js, t, "youtube") = 0 /\ Counted(js, t, "spotify") = 0
    BY <1>3, <1>5
  <2>3. /\ At(js, t, "spotify", "refused") = 0 /\ Said(ans, t, "youtube") = "none"
        /\ \A k \in Kinds : At(js, t, k, "found") = 0 /\ Said(ans, t, k) = "none"
    BY <1>3, <1>4
  <2>4. Counts(t, bk[t], js)
    BY <2>1, <2>2, <2>3, Bounds DEF Counts
  <2>5. Tells(t, src[t], bk[t], js, ans)
    BY <2>1, <2>2, <2>3 DEF Tells
  <2>6. Unused(t, js, ans)
    BY <2>2, <2>3 DEF Unused
  <2> QED BY <2>4, <2>5, <2>6
<1> QED BY <1>2, <1>6 DEF Sound

\* A new process.
LEMMA RestartStep ==
    ASSUME LookupInv, RestartLookups
    PROVE  LookupInv'
<1>1. Ready
  BY InvReady
<1>2. /\ trips' \in 0 .. MaxTrips
      /\ book' = [t \in Songs |-> NewBook] /\ jobs' = [j \in Slots |-> 0]
      /\ exhausted' = FALSE /\ armed' = FALSE /\ wake' = FALSE /\ unchecked' = FALSE
      /\ stuck' = {} /\ answer' = [l \in Lookups |-> "none"]
      /\ matchers' = matchers /\ added' = added /\ line' = line /\ sources' = sources
      /\ skipped' = skipped
  BY <1>1, Bounds DEF RestartLookups, Trip, Ready, Rest
<1>3. /\ book' \in [Songs -> Books] /\ jobs' \in [Slots -> Nat]
      /\ answer' \in [Lookups -> {"none", "found", "miss", "error", "quota"}]
      /\ Sound(added', line', sources', book', jobs', stuck', answer')
  BY <1>1, <1>2, NewProcess DEF Ready
<1>4. Rest' /\ HeadClaimed'
  BY <1>1, <1>2, <1>3 DEF Rest, Ready, HeadClaimed
<1> QED BY <1>1, <1>2, <1>3, <1>4, InvPrime DEF Ready

-----------------------------------------------------------------------------
(* The theorems *)

\* The invariant holds at the start.
LEMMA LookupInitInv ==
    ASSUME LookupInit
    PROVE  LookupInv
<1>1. /\ book \in [Songs -> Books] /\ jobs \in [Slots -> Nat]
      /\ answer \in [Lookups -> {"none", "found", "miss", "error", "quota"}]
      /\ Sound(added, line, sources, book, jobs, stuck, answer)
  BY EmptyFacts, NewProcess DEF LookupInit
<1>2. jobs \in [Slots -> 0 .. MaxAttempts]
  BY Bounds DEF LookupInit
<1>3. /\ line \in Seq(added) /\ IsInjective(line) /\ sources \in [Songs -> SUBSET Kinds]
      /\ trips \in 0 .. MaxTrips
  BY EmptyFacts, Bounds DEF LookupInit
<1>4. LookupTypeOK
  BY <1>1, <1>2, <1>3 DEF LookupInit, LookupTypeOK, Books
<1>5. HeadClaimed
  BY DEF LookupInit, HeadClaimed
<1> QED BY <1>1, <1>4, <1>5 DEF LookupInv

\* Every step keeps it.
LEMMA LookupNextInv ==
    ASSUME LookupInv, [LookupNext]_lookupVars
    PROVE  LookupInv'
<1>1. ASSUME NEW t \in Songs, NEW src \in {{}} \cup {{k} : k \in Kinds}, Add(t, src)
      PROVE  LookupInv'
  BY <1>1, AddStep
<1>2. ASSUME NEW t \in Songs, NEW k \in Kinds, Launch(t, k) \/ Found(t, k) \/ LookupEnds(t, k)
      PROVE  LookupInv'
  BY <1>2, LaunchStep, FoundStep, LookupEndsStep
<1>3. ASSUME NEW t \in Songs, Refused(t) \/ SkipUnplayed(t)
      PROVE  LookupInv'
  BY <1>3, RefusedStep, SkipStep
<1>4. ASSUME NEW l \in Requeued, Requeue(l)
      PROVE  LookupInv'
  BY <1>4, RequeueStep
<1>5. CASE Touch
  BY <1>5, TouchStep
<1>6. CASE QuotaResets
  BY <1>6, QuotaResetsStep
<1>7. CASE OnQuotaReset
  BY <1>7, OnQuotaResetStep
<1>8. CASE Check
  BY <1>8, CheckStep
<1>9. CASE RestartLookups
  BY <1>9, RestartStep
<1>10. CASE UNCHANGED lookupVars
  <2>1. Ready
    BY InvReady
  <2>2. /\ jobs' = jobs /\ stuck' = stuck /\ wake' = wake /\ armed' = armed
        /\ exhausted' = exhausted /\ unchecked' = unchecked /\ trips' = trips
        /\ UNCHANGED <<matchers, added, line, sources, book, skipped, answer>>
    BY <1>10 DEF lookupVars
  <2> QED BY <2>1, <2>2, LookupsStep DEF Ready, Rest
<1> QED BY <1>1, <1>2, <1>3, <1>4, <1>5, <1>6, <1>7, <1>8, <1>9, <1>10 DEF LookupNext

\* The inductive invariant holds in every state of the lookups.
LEMMA LookupInvariance == LookupSpec => []LookupInv
<1>1. LookupInit => LookupInv
  BY LookupInitInv
<1>2. LookupInv /\ [LookupNext]_lookupVars => LookupInv'
  BY LookupNextInv
<1> QED BY <1>1, <1>2, PTL DEF LookupSpec

\* The fields of the tracks, the lookups and the answers keep to their types; the
\* attempts of a track and the lookups it has at any stage never pass youtubeMaxAttempts.
THEOREM LookupTypes == LookupSpec => []LookupTypeOK
<1>1. LookupInv => LookupTypeOK
  BY DEF LookupInv
<1> QED BY <1>1, LookupInvariance, PTL

\* EnrichPending of a queued track is the number of its lookups in flight.
THEOREM PendingIsExact == LookupSpec => []PendingCountsLookups
<1>1. LookupInv => PendingCountsLookups
  BY DEF LookupInv, Sound, Tells, PendingCountsLookups, InFlight
<1> QED BY <1>1, LookupInvariance, PTL

\* autoSkipSourceless only ever finds a track without a source and without a lookup
\* in flight, which a lookup has missed cleanly and the quota has not refused.
THEOREM SkipsAreDeserved == LookupSpec => []SkipsOnlyMissed
<1>1. ASSUME LookupInv PROVE SkipsOnlyMissed
  <2>1. ASSUME NEW t \in stuck
        PROVE  /\ sources[t] = {} /\ InFlight(t) = 0
               /\ matchers = {} \/ \E k \in Kinds : answer[<<t, k>>] = "miss"
               /\ answer[<<t, "youtube">>] # "quota"
    <3>1. Final(t, t \in Range(line), sources[t], book[t], jobs, answer)
      BY <1>1 DEF LookupInv, Sound
    <3> QED BY <3>1 DEF Final, Missed, Said, InFlight
  <2> QED BY <2>1 DEF SkipsOnlyMissed
<1> QED BY <1>1, LookupInvariance, PTL

-----------------------------------------------------------------------------
(***************************************************************************)
(* The end of a track.  A room leaves a track only for a reason            *)
(* (LeavesOnlyHeard): every call carries its reason with it, for the track *)
(* it names is in heard or misnamed from the moment the call is made, and  *)
(* the server compares that name with what plays.                          *)
(***************************************************************************)

USE EndAssumption DEF Played, Nothing

\* What is told of a track anywhere has happened to it: the reasons behind the
\* calls under way, behind a broken player and behind an expired clock.
ReasonsHeard ==
    /\ \A c \in calls : c.track \in heard \cup misnamed /\ (c.waits => c.left > 0)
    /\ \A p \in Pages : /\ player[p] = "broken" => loaded[p] \in heard
                        /\ player[p] = "plays" => loaded[p] \in Played
    /\ over \subseteq heard

EndInv == EndTypeOK /\ ReasonsHeard /\ LeavesOnlyHeard

Calls == [page : Pages, track : Played, left : 0 .. AdvanceRetries, waits : BOOLEAN]

\* A new call is a call.
LEMMA CallIsCall ==
    ASSUME NEW p \in Pages, NEW t \in Played, NEW n \in 0 .. AdvanceRetries
    PROVE  /\ Call(p, t, n) \in Calls
           /\ Call(p, t, n).track = t /\ ~Call(p, t, n).waits
BY DEF Call, Calls

\* The server moves on by one track at most, and only off the track a call names.
LEMMA AdvanceByOne ==
    ASSUME EndInv, NEW c \in calls, AdvanceAfter(c)
    PROVE  /\ playing' \in 1 .. Nothing
           /\ playing' # playing => playing' = playing + 1 /\ playing \in heard \cup misnamed
BY DEF EndInv, EndTypeOK, ReasonsHeard, AdvanceAfter, StillPlays

\* As long as nothing heard is forgotten, what has been left stays heard.
LEMMA StaysHeard ==
    ASSUME EndInv, heard \subseteq heard', misnamed \subseteq misnamed',
           \/ playing' = playing
           \/ playing' = playing + 1 /\ playing \in heard \cup misnamed
    PROVE  LeavesOnlyHeard'
BY DEF EndInv, EndTypeOK, LeavesOnlyHeard

\* Nobody has reported the end of a track yet.
LEMMA EndInitInv == EndInit => EndInv
BY DEF EndInit, EndInv, EndTypeOK, ReasonsHeard, LeavesOnlyHeard

\* A step leaves a track only for a reason that was heard.
LEMMA EndStepInv == EndInv /\ [EndNext]_endVars => EndInv'
<1> SUFFICES ASSUME EndInv, [EndNext]_endVars PROVE EndInv'
    OBVIOUS
<1> USE DEF Calls
<1>0. EndTypeOK /\ ReasonsHeard /\ LeavesOnlyHeard
    BY DEF EndInv
<1>1. CASE ClockRunsOut
    <2>1. EndTypeOK' /\ ReasonsHeard'
        BY <1>0, <1>1 DEF ClockRunsOut, EndTypeOK, ReasonsHeard, pageVarsOfEnd
    <2>2. LeavesOnlyHeard'
        BY <1>1, StaysHeard DEF ClockRunsOut
    <2> QED BY <2>1, <2>2 DEF EndInv
<1>2. CASE \E p \in Pages : PageStep(p) \/ HostSkips(p)
    <2> PICK p \in Pages : PageStep(p) \/ HostSkips(p)
        BY <1>2
    <2>0. playing' = playing /\ heard \subseteq heard' /\ misnamed \subseteq misnamed'
        BY DEF PageStep, HostSkips, Told, Load, Starts, Ends, Unplayable, SkipUnplayable,
               HandlePastEnd, TenSecondsLater
    <2>1. LeavesOnlyHeard'
        BY <2>0, StaysHeard
    <2>2. CASE Told(p)
        BY <1>0, <2>1, <2>2 DEF Told, EndInv, EndTypeOK, ReasonsHeard
    <2>3. CASE Load(p)
        BY <1>0, <2>1, <2>3 DEF Load, EndInv, EndTypeOK, ReasonsHeard
    <2>4. CASE Starts(p)
        BY <1>0, <2>1, <2>4 DEF Starts, EndInv, EndTypeOK, ReasonsHeard
    <2>5. CASE Ends(p)
        <3> DEFINE named == {shown[p]} \cup (IF p \in YouTubePages THEN {loaded[p]} ELSE {})
                   new == {Call(p, t, AdvanceRetries) : t \in named \cap Played}
        <3>1. /\ calls' = calls \cup new
              /\ heard' = heard \cup {loaded[p]}
              /\ misnamed' = misnamed \cup ((named \ {loaded[p]}) \cap Played)
              /\ player' = [player EXCEPT ![p] = "ended"]
              /\ UNCHANGED <<playing, shown, loaded, played, asked, gaveUp, over, lost, endFaults>>
            BY <2>5 DEF Ends
        <3>2. \A c \in new : c \in Calls /\ c.track \in named \cap Played /\ ~c.waits
            <4> TAKE c \in new
            <4>1. PICK t \in named \cap Played : c = Call(p, t, AdvanceRetries)
                OBVIOUS
            <4>2. AdvanceRetries \in 0 .. AdvanceRetries
                BY EndAssumption
            <4> QED BY <4>1, <4>2, CallIsCall
        <3> HIDE DEF new
        <3>3. named \cap Played \subseteq heard' \cup misnamed'
            BY <3>1
        <3>4. misnamed' \subseteq Played
            BY <1>0, <3>1 DEF EndTypeOK
        <3>5. heard' \subseteq Played
            BY <1>0, <3>1, <2>5 DEF EndTypeOK, ReasonsHeard, Ends
        <3>6. EndTypeOK'
            BY <1>0, <3>1, <3>2, <3>4, <3>5 DEF EndTypeOK
        <3>7. ReasonsHeard'
            BY <1>0, <3>1, <3>2, <3>3 DEF ReasonsHeard, EndTypeOK
        <3> QED BY <2>1, <3>6, <3>7 DEF EndInv
    <2>6. CASE Unplayable(p)
        BY <1>0, <2>1, <2>6 DEF Unplayable, EndInv, EndTypeOK, ReasonsHeard
    <2>7. CASE SkipUnplayable(p)
        <3>1. /\ shown[p] \in heard \cap Played
              /\ calls' = calls \cup {Call(p, shown[p], 0)}
              /\ gaveUp' = [gaveUp EXCEPT ![p] = @ \cup {shown[p]}]
              /\ UNCHANGED <<playing, shown, loaded, player, played, asked, over, heard, misnamed,
                             lost, endFaults>>
            BY <1>0, <2>7 DEF SkipUnplayable, ToSkip, ReasonsHeard, EndTypeOK
        <3>2. Call(p, shown[p], 0) \in Calls /\ Call(p, shown[p], 0).track = shown[p]
              /\ ~Call(p, shown[p], 0).waits
            BY <3>1, CallIsCall
        <3>3. EndTypeOK' /\ ReasonsHeard'
            BY <1>0, <3>1, <3>2 DEF EndTypeOK, ReasonsHeard
        <3> QED BY <2>1, <3>3 DEF EndInv
    <2>8. CASE HandlePastEnd(p)
        <3>1. /\ shown[p] \in heard \cap Played
              /\ calls' = calls \cup {Call(p, shown[p], 0)}
              /\ asked' = [asked EXCEPT ![p] = shown[p]]
              /\ UNCHANGED <<playing, shown, loaded, player, played, gaveUp, over, heard, misnamed,
                             lost, endFaults>>
            BY <1>0, <2>8 DEF HandlePastEnd, ReasonsHeard, EndTypeOK
        <3>2. Call(p, shown[p], 0) \in Calls /\ Call(p, shown[p], 0).track = shown[p]
              /\ ~Call(p, shown[p], 0).waits
            BY <3>1, CallIsCall
        <3>3. EndTypeOK' /\ ReasonsHeard'
            BY <1>0, <3>1, <3>2 DEF EndTypeOK, ReasonsHeard
        <3> QED BY <2>1, <3>3 DEF EndInv
    <2>9. CASE TenSecondsLater(p)
        BY <1>0, <2>1, <2>9 DEF TenSecondsLater, EndInv, EndTypeOK, ReasonsHeard
    <2>10. CASE HostSkips(p)
        <3>1. /\ shown[p] \in Played
              /\ calls' = calls \cup {Call(p, shown[p], 0)}
              /\ heard' = heard \cup {shown[p]}
              /\ endFaults' = endFaults + 1 /\ endFaults < MaxEndFaults
              /\ UNCHANGED <<playing, shown, loaded, player, played, asked, gaveUp, over, misnamed,
                             lost>>
            BY <2>10 DEF HostSkips, pageVarsOfEnd
        <3>2. Call(p, shown[p], 0) \in Calls /\ Call(p, shown[p], 0).track = shown[p]
              /\ ~Call(p, shown[p], 0).waits
            BY <3>1, CallIsCall
        <3>3. EndTypeOK' /\ ReasonsHeard'
            BY <1>0, <3>1, <3>2 DEF EndTypeOK, ReasonsHeard
        <3> QED BY <2>1, <3>3 DEF EndInv
    <2> QED BY <2>2, <2>3, <2>4, <2>5, <2>6, <2>7, <2>8, <2>9, <2>10 DEF PageStep
<1>3. CASE \E c \in calls : Answered(c) \/ CallFails(c) \/ TriesAgain(c)
    <2> PICK c \in calls : Answered(c) \/ CallFails(c) \/ TriesAgain(c)
        BY <1>3
    <2>0. c \in Calls /\ c.track \in heard \cup misnamed /\ (c.waits => c.left > 0)
        BY <1>0 DEF EndTypeOK, ReasonsHeard
    <2>1. CASE Answered(c)
        <3>1. LeavesOnlyHeard' /\ playing' \in 1 .. Nothing
            BY <2>1, AdvanceByOne, StaysHeard DEF Answered
        <3> QED BY <1>0, <2>1, <3>1 DEF Answered, EndInv, EndTypeOK, ReasonsHeard, pageVarsOfEnd
    <2>2. CASE CallFails(c)
        <3>1. LeavesOnlyHeard' /\ playing' \in 1 .. Nothing
            BY <1>0, <2>2, AdvanceByOne, StaysHeard DEF CallFails, EndTypeOK
        <3> DEFINE again == [c EXCEPT !.waits = TRUE]
        <3>2. again \in Calls /\ again.track = c.track /\ again.left = c.left
            BY <2>0
        <3>3. /\ calls' \subseteq calls \cup {again}
              /\ again \in calls' \ calls => c.left > 0
              /\ lost' = lost \cup {c.track}
              /\ endFaults' = endFaults + 1 /\ endFaults < MaxEndFaults
              /\ UNCHANGED <<shown, loaded, player, played, asked, gaveUp, over, heard, misnamed>>
            BY <2>0, <2>2 DEF CallFails, pageVarsOfEnd
        <3> HIDE DEF again
        <3>4. EndTypeOK'
            BY <1>0, <2>0, <3>1, <3>2, <3>3 DEF EndTypeOK
        <3>5. ReasonsHeard'
            BY <1>0, <2>0, <3>2, <3>3 DEF ReasonsHeard
        <3> QED BY <3>1, <3>4, <3>5 DEF EndInv
    <2>3. CASE TriesAgain(c)
        <3> DEFINE next == Call(c.page, c.track, c.left - 1)
        <3>1. next \in Calls /\ next.track = c.track /\ ~next.waits
            <4>1. c.page \in Pages /\ c.track \in Played /\ c.left - 1 \in 0 .. AdvanceRetries
                BY <2>0, <2>3 DEF TriesAgain
            <4> QED BY <4>1, CallIsCall
        <3>2. /\ calls' \subseteq calls \cup {next}
              /\ UNCHANGED <<playing, shown, loaded, player, played, asked, gaveUp, over, heard,
                             misnamed, lost, endFaults>>
            BY <2>3 DEF TriesAgain, pageVarsOfEnd
        <3> HIDE DEF next
        <3>3. EndTypeOK' /\ ReasonsHeard'
            BY <1>0, <2>0, <3>1, <3>2 DEF EndTypeOK, ReasonsHeard
        <3>4. LeavesOnlyHeard'
            BY <1>0, <3>2 DEF LeavesOnlyHeard
        <3> QED BY <3>3, <3>4 DEF EndInv
    <2> QED BY <2>1, <2>2, <2>3
<1>4. CASE UNCHANGED endVars
    BY <1>0, <1>4 DEF endVars, pageVarsOfEnd, EndInv, EndTypeOK, ReasonsHeard, LeavesOnlyHeard
<1> QED BY <1>1, <1>2, <1>3, <1>4 DEF EndNext

\* However many pages, retries and clicks ask for it, the room leaves a track only
\* after it was finished, unplayable, over or skipped, or named at another one's end;
\* and the pages' and the server's data stay in their types.
THEOREM RoomLeavesOnlyHeard == EndSpec => [](EndTypeOK /\ LeavesOnlyHeard)
<1>1. EndInit => EndInv
    BY EndInitInv
<1>2. EndInv /\ [EndNext]_endVars => EndInv'
    BY EndStepInv
<1>3. EndInv => EndTypeOK /\ LeavesOnlyHeard
    BY DEF EndInv
<1> QED BY <1>1, <1>2, <1>3, PTL DEF EndSpec

-----------------------------------------------------------------------------
(* The three side by side *)

\* A step of the room's background is a step of one part and nothing for the others.
LEMMA BackgroundPartsMove ==
    [BackgroundNext]_backgroundVars =>
        [EndNext]_endVars /\ [LookupNext]_lookupVars /\ [WriterNext]_writerVars
BY DEF BackgroundNext, backgroundVars

\* What a room does by itself is its ends of tracks (advanceAfterReport), its lookups
\* (launchEnrich) and its events (Writer) side by side: what holds of each holds here.
THEOREM BackgroundIsItsParts == BackgroundSpec => EndSpec /\ LookupSpec /\ WriterSpec
<1>1. BackgroundInit => EndInit /\ LookupInit /\ WriterInit
  BY DEF BackgroundInit
<1> QED BY <1>1, BackgroundPartsMove, PTL DEF BackgroundSpec, EndSpec, LookupSpec, WriterSpec

\* Whichever part moves, all three keep to their types.
THEOREM BackgroundTypes == BackgroundSpec => []BackgroundTypeOK
<1>1. WriterInv => WriterTypeOK
  BY DEF WriterInv
<1>2. WriterSpec => []WriterTypeOK
  BY <1>1, WriterInitInv, WriterStepInv, PTL DEF WriterSpec
<1>3. EndTypeOK /\ LookupTypeOK /\ WriterTypeOK => BackgroundTypeOK
  BY DEF BackgroundTypeOK
<1> QED BY <1>2, <1>3, BackgroundIsItsParts, RoomLeavesOnlyHeard, LookupTypes, PTL

===============================================================================
