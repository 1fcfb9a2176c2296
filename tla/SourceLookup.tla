------------------------------ MODULE SourceLookup ------------------------------
(***************************************************************************)
(* How a room finds playable sources for its tracks, and skips a playing   *)
(* track that has none.  A Spotify lookup is counted when a track is       *)
(* added; a YouTube lookup is claimed, in the mutation that brings the     *)
(* track into the window at the front of the queue.  Lookups run outside   *)
(* the room lock and settle in mutations of their own, by then perhaps     *)
(* after the quota, the track or the process has gone.  Every mutation     *)
(* ends with autoSkipSourceless.  The playing track is the head.           *)
(***************************************************************************)
EXTENDS SequencesExt

CONSTANTS
    Songs,        \* tracks, each added once
    Window,       \* youtubeMatchWindow
    MaxAttempts,  \* youtubeMaxAttempts
    Admission,    \* enrichMaxPending
    MaxTrips      \* bound on exhausted quotas and restarts together

ASSUME LookupAssumption ==
    {Window, MaxAttempts, Admission} \subseteq Nat \ {0} /\ MaxTrips \in Nat

VARIABLES
    matchers,   \* the matchers that are configured
    added,      \* tracks added so far: every addition has an id of its own
    line,       \* Queue, the playing track first
    sources,    \* sources[t]
    book,       \* book[t]: the enrichment fields of TrackRef
    jobs,       \* jobs[<<t, k, s>>]: lookups of kind k for track t at stage s
    exhausted,  \* the breaker of the YouTube quota is open
    armed,      \* quotaWake has a timer
    wake,       \* onQuotaReset is about to run
    unchecked,  \* a mutation's autoSkipSourceless is still to run
    stuck,      \* tracks autoSkipSourceless has found and is about to skip
    skipped,    \* tracks it has skipped
    answer,     \* answer[<<t, k>>]: outcome of the last lookup settled for a queued t
    trips

lookupVars == <<matchers, added, line, sources, book, jobs, exhausted, armed, wake, unchecked, stuck,
                skipped, answer, trips>>

Kinds == {"youtube", "spotify"}
Lookups == Songs \X Kinds
Stages == {"claimed", "running", "found", "refused"}
Slots == Songs \X Kinds \X Stages
NewBook == [pending |-> 0, checked |-> FALSE, uncertain |-> FALSE,
            lookup |-> FALSE, owed |-> FALSE, attempts |-> 0]

\* Lookups of track t that have been counted and not settled.
Counted(js, t, k) ==
    js[<<t, k, "claimed">>] + js[<<t, k, "running">>] + js[<<t, k, "found">>] + js[<<t, k, "refused">>]
InFlight(t) == Counted(jobs, t, "youtube") + Counted(jobs, t, "spotify")
Admitted == SumFunctionOnSet(jobs, Songs \X Kinds \X (Stages \ {"claimed"}))

LookupTypeOK ==
    /\ matchers \subseteq Kinds
    /\ added \subseteq Songs
    /\ line \in Seq(added) /\ IsInjective(line)
    /\ sources \in [Songs -> SUBSET Kinds]
    /\ book \in [Songs -> [pending : 0 .. MaxAttempts + 1, checked : BOOLEAN, uncertain : BOOLEAN,
                           lookup : BOOLEAN, owed : BOOLEAN, attempts : 0 .. MaxAttempts]]
    /\ jobs \in [Slots -> 0 .. MaxAttempts]
    /\ {exhausted, armed, wake, unchecked} \subseteq BOOLEAN
    /\ {stuck, skipped} \subseteq SUBSET Songs
    /\ answer \in [Lookups -> {"none", "found", "miss", "error", "quota"}]
    /\ trips \in 0 .. MaxTrips

Trip == trips < MaxTrips /\ trips' = trips + 1

-----------------------------------------------------------------------------
(* A mutation *)

Put(js, t, k, s) == [js EXCEPT ![<<t, k, s>>] = @ + 1]
Taken(js, t, k, s) == [js EXCEPT ![<<t, k, s>>] = @ - 1]

InWindow(l) == Range(SubSeq(l, 1, IF Len(l) < Window THEN Len(l) ELSE Window))

\* Tracks markYouTubeWindowLocked looks at and has no lookup for.
Unclaimed(l, src, bk) ==
    {t \in InWindow(l) : /\ "youtube" \in matchers \ src[t] /\ ~bk[t].lookup}

NeverWaits(b) == FALSE

\* "already refused by the quota: wait for the reset"
Waits(b) == exhausted /\ b.owed

Claim(b) == LET again == b.owed \/ b.attempts > 0 IN
    [b EXCEPT !.uncertain = @ /\ ~again, !.owed = FALSE,
              !.lookup = TRUE, !.attempts = @ + 1, !.pending = @ + 1]

\* The end of mutateRoom, after the closure has made the queue l, the sources src
\* and the fields bk, and has left the lookups js.
Mutate(l, src, bk, js) ==
    LET open == Unclaimed(l, src, bk)
        claims == {t \in open : ~Waits(bk[t])}
    IN
    /\ line' = l /\ sources' = src
    /\ book' = [t \in Songs |-> IF t \in claims THEN Claim(bk[t])
                                ELSE [bk[t] EXCEPT !.uncertain = @ \/ t \in open]]
    /\ jobs' = [j \in Slots |-> IF j[2] = "youtube" /\ j[3] = "claimed" /\ j[1] \in claims
                                THEN js[j] + 1 ELSE js[j]]
    /\ armed' = (armed \/ exhausted)

-----------------------------------------------------------------------------
(* Calls of the pages *)

\* enrichBookkeeping of a track without a source of its own on Spotify.
Eager(src) == {"spotify"} \cap (matchers \ src)
Bookkeeping(b, src) ==
    [b EXCEPT !.pending = Cardinality(Eager(src)), !.checked = (matchers = {}),
              !.lookup = FALSE, !.owed = FALSE, !.attempts = 0]
Launched(js, t, src) == IF Eager(src) = {} THEN js ELSE Put(js, t, "spotify", "claimed")

\* queue.add, history.readd, playlist.import and the radio refill.
Add(t, src) ==
    /\ t \notin added /\ added' = added \cup {t}
    /\ Mutate(Append(line, t), [sources EXCEPT ![t] = src],
              [book EXCEPT ![t] = Bookkeeping(NewBook, src)], Launched(jobs, t, src))
    /\ unchecked' = TRUE
    /\ UNCHANGED <<matchers, exhausted, wake, stuck, skipped, answer, trips>>

\* A mutation that makes the queue l.
Requeue(l) ==
    /\ Mutate(l, sources, book, jobs)
    /\ unchecked' = TRUE
    /\ UNCHANGED <<matchers, added, exhausted, wake, stuck, skipped, answer, trips>>

\* An advance or a removal takes a track out, a jump puts an upcoming one in the place
\* of the playing one, queue.clear leaves the playing one, queue.reorder moves another.
Requeued ==
    {RemoveAt(line, i) : i \in DOMAIN line}
        \cup {<<line[i]>> \o RemoveAt(RemoveAt(line, i), 1) : i \in 2 .. Len(line)}
        \cup {InsertAt(RemoveAt(line, i), j, line[i]) : i, j \in 2 .. Len(line)}
        \cup {SubSeq(line, 1, 1) : i \in DOMAIN line}

\* Any other mutation, as a page's rejoin.
Touch == Requeue(line)

-----------------------------------------------------------------------------
(* Lookups *)

RetryAlways(b) == b.lookup
RetryAllowed(b) == b.lookup /\ b.attempts < MaxAttempts

\* enrichSettle of a lookup that ended as o, in the fields of its track.
Settled(b, o) ==
    LET done == [b EXCEPT !.pending = IF @ > 0 THEN @ - 1 ELSE 0] IN
    CASE o = "quota" /\ exhausted ->
           [done EXCEPT !.uncertain = TRUE, !.lookup = FALSE, !.owed = TRUE,
                        !.attempts = IF @ > 0 THEN @ - 1 ELSE 0]
      [] o = "error" \/ (o = "quota" /\ ~exhausted) ->
           [done EXCEPT !.uncertain = TRUE, !.lookup = @ /\ ~RetryAllowed(b)]
      [] OTHER -> [done EXCEPT !.checked = TRUE]

Settle(t, k, s, o) ==
    /\ jobs[<<t, k, s>>] > 0
    /\ LET queued == t \in Range(line) IN
         /\ Mutate(line, sources,
                   IF queued THEN [book EXCEPT ![t] = Settled(@, o)] ELSE book,
                   Taken(jobs, t, k, s))
         /\ answer' = IF queued THEN [answer EXCEPT ![<<t, k>>] = o] ELSE answer
    /\ unchecked' = TRUE
    /\ UNCHANGED <<matchers, added, wake, stuck, skipped>>

DropOnly(t, k) ==
    /\ jobs[<<t, k, "claimed">>] > 0
    /\ jobs' = Taken(jobs, t, k, "claimed")
    /\ UNCHANGED <<matchers, added, line, sources, book, exhausted, armed, wake, unchecked, stuck,
                   skipped, answer, trips>>

\* A dropped launch settles like a lookup that failed.
DropLaunch(t, k) == Settle(t, k, "claimed", "error") /\ UNCHANGED <<exhausted, trips>>

\* launchEnrich: admission never waits.
Launch(t, k) ==
    /\ jobs[<<t, k, "claimed">>] > 0
    /\ \/ /\ Admitted < Admission
          /\ jobs' = Put(Taken(jobs, t, k, "claimed"), t, k, "running")
          /\ UNCHANGED <<matchers, added, line, sources, book, exhausted, armed, wake, unchecked,
                         stuck, skipped, answer, trips>>
       \/ Admitted >= Admission /\ DropLaunch(t, k)

\* A match: SetYouTubeSource or SetSpotifySource, then the lookup settles.
Found(t, k) ==
    /\ jobs[<<t, k, "running">>] > 0
    /\ LET js == Put(Taken(jobs, t, k, "running"), t, k, "found") IN
       IF t \in Range(line)
       THEN Mutate(line, [sources EXCEPT ![t] = @ \cup {k}], book, js) /\ unchecked' = TRUE
       ELSE jobs' = js /\ UNCHANGED <<line, sources, book, armed, unchecked>>
    /\ UNCHANGED <<matchers, added, exhausted, wake, stuck, skipped, answer, trips>>

\* The quota refuses the search, and the breaker opens if it was not open yet.
Refused(t) ==
    /\ jobs[<<t, "youtube", "running">>] > 0
    /\ IF exhausted THEN UNCHANGED trips ELSE Trip
    /\ exhausted' = TRUE
    /\ jobs' = Put(Taken(jobs, t, "youtube", "running"), t, "youtube", "refused")
    /\ UNCHANGED <<matchers, added, line, sources, book, armed, wake, unchecked, stuck, skipped, answer>>

LookupEnds(t, k) ==
    /\ \/ Settle(t, k, "found", "found")
       \/ Settle(t, k, "running", "miss")
       \/ Settle(t, k, "running", "error")
       \/ Settle(t, k, "refused", "quota")
    /\ UNCHANGED <<exhausted, trips>>

-----------------------------------------------------------------------------
(* The quota's reset *)

QuotaResets ==
    /\ exhausted
    /\ exhausted' = FALSE
    /\ wake' = (wake \/ armed) /\ armed' = FALSE
    /\ UNCHANGED <<matchers, added, line, sources, book, jobs, unchecked, stuck, skipped, answer, trips>>

\* onQuotaReset: arms the next timer if the breaker has opened again.
OnQuotaReset ==
    /\ wake /\ wake' = FALSE
    /\ IF exhausted
       THEN armed' = TRUE /\ UNCHANGED <<line, sources, book, jobs, unchecked>>
       ELSE Mutate(line, sources, book, jobs) /\ unchecked' = TRUE
    /\ UNCHANGED <<matchers, added, exhausted, stuck, skipped, answer, trips>>

-----------------------------------------------------------------------------
(* autoSkipSourceless *)

NoSourceOnly(t) == sources[t] = {}

\* "no source on any service and no lookup left in flight"
Sourceless(t) == sources[t] = {} /\ book[t].pending = 0 /\ ~book[t].uncertain

\* One round, up to the release of the room lock.  A track of unknown state is
\* looked up first (its window is claimed in a second section, which finds nothing
\* of its own: with a YouTube matcher the mutation before has claimed the head).
Check ==
    /\ unchecked /\ unchecked' = FALSE
    /\ IF line # <<>> /\ Sourceless(Head(line))
       THEN LET t == Head(line) IN
            IF book[t].checked \/ matchers = {}
            THEN stuck' = stuck \cup {t} /\ UNCHANGED <<line, sources, book, jobs, armed>>
            ELSE /\ Mutate(line, sources, [book EXCEPT ![t] = Bookkeeping(@, sources[t])],
                           Launched(jobs, t, sources[t]))
                 /\ UNCHANGED stuck
       ELSE UNCHANGED <<line, sources, book, jobs, armed, stuck>>
    /\ UNCHANGED <<matchers, added, exhausted, wake, skipped, answer, trips>>

\* advanceAfter with SkipUnplayed, which only skips what still plays; the next round.
SkipUnplayed(t) ==
    /\ t \in stuck /\ stuck' = stuck \ {t}
    /\ LET plays == line # <<>> /\ Head(line) = t IN
         /\ Mutate(IF plays THEN Tail(line) ELSE line, sources, book, jobs)
         /\ skipped' = IF plays THEN skipped \cup {t} ELSE skipped
    /\ unchecked' = TRUE
    /\ UNCHANGED <<matchers, added, exhausted, wake, answer, trips>>

\* A new process: the bookkeeping is not stored, the lookups are gone.
RestartLookups ==
    /\ Trip
    /\ book' = [t \in Songs |-> NewBook]
    /\ jobs' = [j \in Slots |-> 0]
    /\ exhausted' = FALSE /\ armed' = FALSE /\ wake' = FALSE /\ unchecked' = FALSE
    /\ stuck' = {}
    /\ answer' = [l \in Lookups |-> "none"]
    /\ UNCHANGED <<matchers, added, line, sources, skipped>>

-----------------------------------------------------------------------------
LookupInit ==
    /\ matchers \in SUBSET Kinds
    /\ added = {} /\ line = <<>> /\ sources = [t \in Songs |-> {}]
    /\ book = [t \in Songs |-> NewBook] /\ jobs = [j \in Slots |-> 0]
    /\ exhausted = FALSE /\ armed = FALSE /\ wake = FALSE
    /\ unchecked = FALSE /\ stuck = {} /\ skipped = {}
    /\ answer = [l \in Lookups |-> "none"] /\ trips = 0

LookupNext ==
    \/ \E t \in Songs : \/ \E src \in {{}} \cup {{k} : k \in Kinds} : Add(t, src)
                        \/ \E k \in Kinds : Launch(t, k) \/ Found(t, k) \/ LookupEnds(t, k)
                        \/ Refused(t) \/ SkipUnplayed(t)
    \/ \E l \in Requeued : Requeue(l)
    \/ Touch \/ QuotaResets \/ OnQuotaReset \/ Check \/ RestartLookups

\* Goroutines run, lookups end within their ten seconds, and pages come back
\* to a room that has something to play.
LookupFairness ==
    /\ WF_lookupVars(\E t \in Songs, k \in Kinds : Launch(t, k) \/ Found(t, k) \/ LookupEnds(t, k))
    /\ WF_lookupVars(Check) /\ WF_lookupVars(\E t \in Songs : SkipUnplayed(t))
    /\ WF_lookupVars(line # <<>> /\ Touch)

LookupSpec == LookupInit /\ [][LookupNext]_lookupVars /\ LookupFairness

-----------------------------------------------------------------------------
(* Properties *)

\* "EnrichPending counts source lookups still in flight for this track": launches
\* dropped at the bound, quota refusals, re-claims and removals included.  A count
\* that stays up keeps a silent track playing; one too low skips it too early.
PendingCountsLookups == \A t \in Range(line) : book[t].pending = InFlight(t)

\* A track is skipped as unplayable only without a source, with no lookup of it under
\* way, and, where there is a matcher, after a lookup by this process that missed
\* cleanly; YouTube's quota never makes it go.
SkipsOnlyMissed ==
    \A t \in stuck :
        /\ sources[t] = {} /\ InFlight(t) = 0
        /\ matchers = {} \/ \E k \in Kinds : answer[<<t, k>>] = "miss"
        /\ answer[<<t, "youtube">>] # "quota"

\* roles.go of enrichDone: "certain is false when the lookup errored rather
\* than cleanly missing, which blocks the auto skip for that track: an outage must
\* not drain a queue."
OutageKeepsTracks == \A t \in stuck : \A k \in Kinds : answer[<<t, k>>] # "error"

\* A failed lookup is retried three times, one refused by the quota after the reset:
\* once the room and the quota are quiet, the lookups come to an end.
LookupsEnd == <>[](\A j \in Slots : jobs[j] = 0)

===============================================================================
