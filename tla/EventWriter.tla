------------------------------- MODULE EventWriter -------------------------------
(***************************************************************************)
(* The buffer of product events (package events): handlers emit, a flush   *)
(* loop inserts in chunks on a ticker or a wake, and Close ends the loop   *)
(* and flushes once more, within a timeout.  The lock is held for the      *)
(* buffer only, so both flushers and the handlers interleave between a     *)
(* chunk's removal and the end of its insert.                              *)
(***************************************************************************)
EXTENDS SequencesExt

CONSTANTS
    MaxEvents,   \* bound on emitted events
    Capacity,
    FlushSize,
    InsertChunk  \* insertChunk

ASSUME WriterAssumption ==
    MaxEvents \in Nat /\ {Capacity, FlushSize, InsertChunk} \subseteq Nat \ {0}

VARIABLES
    emitted,   \* events so far; an event is named by its number
    buf,
    closed,
    woken,     \* the one-place wake channel is full
    flusher,   \* flusher[f]: what the loop, or Close, is doing
    chunk,     \* chunk[f]: the rows it has taken out and not inserted yet
    timeUp,    \* the context of Close has expired
    written, dropped \* what the counters say, event by event

writerVars == <<emitted, buf, closed, woken, flusher, chunk, timeUp, written, dropped>>

Flushers == {"loop", "close"}
Events == 1 .. MaxEvents

WriterTypeOK ==
    /\ emitted \in 0 .. MaxEvents
    /\ buf \in Seq(Events) /\ Len(buf) <= Capacity
    /\ {closed, woken, timeUp} \subseteq BOOLEAN
    /\ flusher \in [Flushers -> {"idle", "waits", "flush", "insert", "rest", "ended"}]
    /\ chunk \in [Flushers -> Seq(Events)]
    /\ {written, dropped} \subseteq SUBSET Events

KeepsBuffering == Len(buf) >= Capacity
TurnedAway == closed \/ Len(buf) >= Capacity

\* Emit: dropped after Close and when the buffer is full; wakes the loop.
Emit ==
    /\ emitted < MaxEvents /\ emitted' = emitted + 1
    /\ IF TurnedAway
       THEN dropped' = dropped \cup {emitted'} /\ UNCHANGED <<buf, woken>>
       ELSE /\ buf' = Append(buf, emitted')
            /\ woken' = (woken \/ Len(buf') >= FlushSize)
            /\ UNCHANGED dropped
    /\ UNCHANGED <<closed, flusher, chunk, timeUp, written>>

\* The select of the loop: the ticker or a wake starts a flush, stop ends it.
LoopWakes ==
    /\ flusher["loop"] = "idle"
    /\ \/ flusher' = [flusher EXCEPT !["loop"] = "flush"] /\ woken' \in {woken, FALSE}
       \/ closed /\ flusher' = [flusher EXCEPT !["loop"] = "ended"] /\ UNCHANGED woken
    /\ UNCHANGED <<emitted, buf, closed, chunk, timeUp, written, dropped>>

After(f) == IF f = "loop" THEN "idle" ELSE "rest"
Least(n) == IF n < InsertChunk THEN n ELSE InsertChunk

\* One round of Flush, under the lock: a chunk is taken out, or Flush returns.
TakeChunk(f) ==
    /\ flusher[f] = "flush"
    /\ IF buf = <<>> \/ (f = "close" /\ timeUp)
       THEN flusher' = [flusher EXCEPT ![f] = After(f)] /\ UNCHANGED <<buf, chunk>>
       ELSE LET n == Least(Len(buf)) IN
            /\ chunk' = [chunk EXCEPT ![f] = SubSeq(buf, 1, n)]
            /\ buf' = SubSeq(buf, n + 1, Len(buf))
            /\ flusher' = [flusher EXCEPT ![f] = "insert"]
    /\ UNCHANGED <<emitted, closed, woken, timeUp, written, dropped>>

\* "a failed chunk is dropped and counted", a panic and a timeout included.
Inserted(f) ==
    /\ flusher[f] = "insert"
    /\ \/ written' = written \cup Range(chunk[f]) /\ UNCHANGED dropped
       \/ dropped' = dropped \cup Range(chunk[f]) /\ UNCHANGED written
    /\ chunk' = [chunk EXCEPT ![f] = <<>>]
    /\ flusher' = [flusher EXCEPT ![f] = "flush"]
    /\ UNCHANGED <<emitted, buf, closed, woken, timeUp>>

\* Close; a second call returns at once.
Close ==
    /\ ~closed /\ closed' = TRUE
    /\ flusher' = [flusher EXCEPT !["close"] = "waits"]
    /\ UNCHANGED <<emitted, buf, woken, chunk, timeUp, written, dropped>>

TimeIsUp ==
    /\ closed /\ flusher["close"] # "ended" /\ ~timeUp
    /\ timeUp' = TRUE
    /\ UNCHANGED <<emitted, buf, closed, woken, flusher, chunk, written, dropped>>

Waited ==
    /\ flusher["close"] = "waits"
    /\ flusher["loop"] = "ended" \/ timeUp
    /\ flusher' = [flusher EXCEPT !["close"] = "flush"]
    /\ UNCHANGED <<emitted, buf, closed, woken, chunk, timeUp, written, dropped>>

\* What the last flush has left is dropped and counted.
DropRest ==
    /\ flusher["close"] = "rest"
    /\ flusher' = [flusher EXCEPT !["close"] = "ended"]
    /\ buf' = <<>> /\ dropped' = dropped \cup Range(buf)
    /\ UNCHANGED <<emitted, closed, woken, chunk, timeUp, written>>

WriterInit ==
    /\ emitted = 0 /\ buf = <<>> /\ closed = FALSE /\ woken = FALSE
    /\ flusher = [f \in Flushers |-> "idle"] /\ chunk = [f \in Flushers |-> <<>>]
    /\ timeUp = FALSE /\ written = {} /\ dropped = {}

WriterNext ==
    \/ Emit \/ LoopWakes \/ Close \/ TimeIsUp \/ Waited \/ DropRest
    \/ \E f \in Flushers : TakeChunk(f) \/ Inserted(f)

WriterSpec == WriterInit /\ [][WriterNext]_writerVars

-----------------------------------------------------------------------------
(* Properties *)

Held == {Range(buf), Range(chunk["loop"]), Range(chunk["close"]), written, dropped}

\* Emit races the loop and Close: an event is buffered, in one flusher's hands,
\* written, or counted as dropped, and only one of these; when Close has returned
\* nothing is left behind in the buffer.
EventsAccounted ==
    /\ UNION Held = 1 .. emitted
    /\ Len(buf) + Len(chunk["loop"]) + Len(chunk["close"])
         + Cardinality(written) + Cardinality(dropped) = emitted
    /\ flusher["close"] = "ended" => buf = <<>>

===============================================================================
