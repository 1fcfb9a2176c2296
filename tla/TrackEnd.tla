-------------------------------- MODULE TrackEnd --------------------------------
(***************************************************************************)
(* How the pages of a room move it from one track to the next.  Every page *)
(* plays the track for itself; nobody tells the server that a track is     *)
(* over but the pages, all of them, each with retries of its own, and the  *)
(* drift loop once more when the clock says that the end is past.  All     *)
(* these calls name a track, and the server moves on only if that track    *)
(* still plays.  The transport plays throughout; tracks are numbered in    *)
(* the order of the queue.                                                 *)
(***************************************************************************)
EXTENDS Naturals

CONSTANTS
    Pages,
    Controllers,   \* pages whose calls the server accepts
    YouTubePages,  \* pages with an ENDED event beside the position poll
    NTracks,
    Broken,        \* tracks no embed plays (YouTube errors 100, 101, 150)
    AdvanceRetries,
    MaxEndFaults   \* bound on failed calls and pressed skips together

ASSUME EndAssumption ==
    /\ Controllers \subseteq Pages /\ YouTubePages \subseteq Pages
    /\ {NTracks, AdvanceRetries, MaxEndFaults} \subseteq Nat
    /\ Broken \subseteq 1 .. NTracks

VARIABLES
    playing,   \* NowPlayingID of the server; NTracks + 1 is nothing
    shown,     \* shown[p]: nowPlayingId of the page's store
    loaded,    \* loaded[p]: the track its player was told to play, or 0
    player,    \* player[p]: "loading", "plays", "ended" or "broken"
    played,    \* playedRef: the track the player has been seen PLAYING for, or 0
    asked,     \* advancedRef: the track of a past-end call not ten seconds ago, or 0
    gaveUp,    \* skipped: tracks the page has asked to skip as unplayable
    calls,     \* calls that name a track: [page, track, left, waits]
    over,      \* tracks whose clock is past the end
    heard,     \* tracks that a player finished or could not play, that are over, or that a host skipped
    misnamed,  \* tracks named at the end of another one
    lost,      \* tracks a failed call was about
    endFaults

pageVarsOfEnd == <<shown, loaded, player, played, asked, gaveUp>>
endVars == <<playing, pageVarsOfEnd, calls, over, heard, misnamed, lost, endFaults>>

Played == 1 .. NTracks
Nothing == NTracks + 1

EndTypeOK ==
    /\ playing \in 1 .. Nothing
    /\ shown \in [Pages -> 1 .. Nothing]
    /\ {loaded, played, asked} \subseteq [Pages -> 0 .. NTracks]
    /\ player \in [Pages -> {"loading", "plays", "ended", "broken"}]
    /\ gaveUp \in [Pages -> SUBSET Played]
    /\ calls \subseteq [page : Pages, track : Played, left : 0 .. AdvanceRetries, waits : BOOLEAN]
    /\ {over, heard, misnamed, lost} \subseteq SUBSET Played
    /\ endFaults \in 0 .. MaxEndFaults

Call(p, t, left) == [page |-> p, track |-> t, left |-> left, waits |-> FALSE]

-----------------------------------------------------------------------------
(* The server *)

AnyTrack(t) == playing # Nothing
TrackBefore(t) == playing = t + 1

\* AdvanceAfter and SkipUnplayed: nothing happens unless track t plays.
StillPlays(t) == playing = t

AdvanceAfter(c) ==
    playing' = IF c.page \in Controllers /\ StillPlays(c.track) THEN playing + 1 ELSE playing

\* The catalogue's duration, and the grace, have gone by.
ClockRunsOut ==
    /\ playing # Nothing /\ playing \notin over
    /\ over' = over \cup {playing} /\ heard' = heard \cup {playing}
    /\ UNCHANGED <<playing, pageVarsOfEnd, calls, misnamed, lost, endFaults>>

Answered(c) ==
    /\ ~c.waits
    /\ AdvanceAfter(c)
    /\ calls' = calls \ {c}
    /\ UNCHANGED <<pageVarsOfEnd, over, heard, misnamed, lost, endFaults>>

\* A lost call or a lost reply; advanceWithRetry waits before it tries again.
CallFails(c) ==
    /\ ~c.waits /\ endFaults < MaxEndFaults
    /\ endFaults' = endFaults + 1 /\ lost' = lost \cup {c.track}
    /\ AdvanceAfter(c) \/ UNCHANGED playing
    /\ calls' = (calls \ {c}) \cup (IF c.left = 0 THEN {} ELSE {[c EXCEPT !.waits = TRUE]})
    /\ UNCHANGED <<pageVarsOfEnd, over, heard, misnamed>>

\* "the room moved on by itself", or another attempt.
TriesAgain(c) ==
    /\ c.waits
    /\ calls' = (calls \ {c}) \cup (IF shown[c.page] = c.track
                                    THEN {Call(c.page, c.track, c.left - 1)} ELSE {})
    /\ UNCHANGED <<playing, pageVarsOfEnd, over, heard, misnamed, lost, endFaults>>

-----------------------------------------------------------------------------
(* A page and its player *)

\* A publication, or the reply of a rejoin after a few were missed.
Told(p) ==
    /\ \E t \in shown[p] + 1 .. playing : shown' = [shown EXCEPT ![p] = t]
    /\ UNCHANGED <<playing, loaded, player, played, asked, gaveUp, calls, over, heard, misnamed, lost, endFaults>>

\* The load effect runs after the store has changed; a player may take longer.
Load(p) ==
    /\ shown[p] \in Played /\ loaded[p] # shown[p]
    /\ loaded' = [loaded EXCEPT ![p] = shown[p]]
    /\ player' = [player EXCEPT ![p] = "loading"]
    /\ UNCHANGED <<playing, shown, played, asked, gaveUp, calls, over, heard, misnamed, lost, endFaults>>

\* PLAYING, noted by the next drift check for the track the store names.
Starts(p) ==
    /\ player[p] = "loading" /\ loaded[p] \in Played \ Broken
    /\ player' = [player EXCEPT ![p] = "plays"]
    /\ played' = [played EXCEPT ![p] = IF shown[p] \in Played THEN shown[p] ELSE @]
    /\ UNCHANGED <<playing, shown, loaded, asked, gaveUp, calls, over, heard, misnamed, lost, endFaults>>

\* The end of what the player plays: onEnded names the track of the store, the
\* ENDED event that of the last load.
Ends(p) ==
    /\ player[p] = "plays"
    /\ player' = [player EXCEPT ![p] = "ended"]
    /\ heard' = heard \cup {loaded[p]}
    /\ LET named == {shown[p]} \cup (IF p \in YouTubePages THEN {loaded[p]} ELSE {}) IN
         /\ calls' = calls \cup {Call(p, t, AdvanceRetries) : t \in named \cap Played}
         /\ misnamed' = misnamed \cup ((named \ {loaded[p]}) \cap Played)
    /\ UNCHANGED <<playing, shown, loaded, played, asked, gaveUp, over, lost, endFaults>>

\* onError: the failed card, and two seconds later a skip.
Unplayable(p) ==
    /\ player[p] = "loading" /\ loaded[p] \in Broken
    /\ player' = [player EXCEPT ![p] = "broken"]
    /\ heard' = heard \cup {loaded[p]}
    /\ UNCHANGED <<playing, shown, loaded, played, asked, gaveUp, calls, over, misnamed, lost, endFaults>>

\* useSkipUnplayable: once for each track, and not after the track has changed.
ToSkip(p) == loaded[p] = shown[p] /\ shown[p] \notin gaveUp[p]

SkipUnplayable(p) ==
    /\ p \in Controllers
    /\ player[p] = "broken" /\ ToSkip(p)
    /\ gaveUp' = [gaveUp EXCEPT ![p] = @ \cup {shown[p]}]
    /\ calls' = calls \cup {Call(p, shown[p], 0)}
    /\ UNCHANGED <<playing, shown, loaded, player, played, asked, over, heard, misnamed, lost, endFaults>>

\* handlePastEnd, of a page that can control and whose player has played the track.
HandlePastEnd(p) ==
    /\ p \in Controllers
    /\ shown[p] \in over /\ played[p] = shown[p] /\ asked[p] # shown[p]
    /\ asked' = [asked EXCEPT ![p] = shown[p]]
    /\ calls' = calls \cup {Call(p, shown[p], 0)}
    /\ UNCHANGED <<playing, shown, loaded, player, played, gaveUp, over, heard, misnamed, lost, endFaults>>

\* ADVANCE_RETRY_MS have gone by since the last past-end call.
TenSecondsLater(p) ==
    /\ asked[p] # 0
    /\ asked' = [asked EXCEPT ![p] = 0]
    /\ UNCHANGED <<playing, shown, loaded, player, played, gaveUp, calls, over, heard, misnamed, lost, endFaults>>

\* The skip button, pressed again and again.
HostSkips(p) ==
    /\ p \in Controllers /\ shown[p] \in Played
    /\ endFaults < MaxEndFaults /\ endFaults' = endFaults + 1
    /\ calls' = calls \cup {Call(p, shown[p], 0)}
    /\ heard' = heard \cup {shown[p]}
    /\ UNCHANGED <<playing, pageVarsOfEnd, over, misnamed, lost>>

-----------------------------------------------------------------------------
EndInit ==
    /\ playing \in {1, Nothing} /\ shown = [p \in Pages |-> playing]
    /\ loaded = [p \in Pages |-> 0] /\ player = [p \in Pages |-> "ended"]
    /\ played = [p \in Pages |-> 0] /\ asked = [p \in Pages |-> 0]
    /\ gaveUp = [p \in Pages |-> {}]
    /\ calls = {} /\ over = {} /\ heard = {t \in Played : t < playing} /\ misnamed = {}
    /\ lost = {} /\ endFaults = 0

PageStep(p) ==
    \/ Told(p) \/ Load(p) \/ Starts(p) \/ Ends(p)
    \/ Unplayable(p) \/ SkipUnplayable(p) \/ HandlePastEnd(p) \/ TenSecondsLater(p)

EndNext ==
    \/ ClockRunsOut
    \/ \E p \in Pages : PageStep(p) \/ HostSkips(p)
    \/ \E c \in calls : Answered(c) \/ CallFails(c) \/ TriesAgain(c)

\* Timers run, calls are answered, publications reach the pages, which load what
\* they are told; nobody has to press a button, and no player has to play to its end.
EndFairness ==
    /\ WF_endVars(ClockRunsOut)
    /\ WF_endVars(\E c \in calls : Answered(c) \/ TriesAgain(c))
    /\ \A p \in Pages :
         /\ WF_endVars(Told(p) \/ Load(p) \/ Starts(p) \/ Unplayable(p) \/ SkipUnplayable(p))
         /\ WF_endVars(HandlePastEnd(p)) /\ WF_endVars(TenSecondsLater(p))

EndSpec == EndInit /\ [][EndNext]_endVars /\ EndFairness

-----------------------------------------------------------------------------
(* Properties *)

\* "the server dedups through AdvanceAfter": however many pages, retries, past-end
\* checks and clicks ask for it, the room leaves a track only after that track was
\* played to its end or could not be played somewhere, its time was over, or a host
\* skipped it; except for a track that was named at the end of another one, by a page
\* whose player was behind its store.
LeavesOnlyHeard == \A t \in Played : t < playing => t \in heard \cup misnamed

\* "A track-end advance that fails is retried instead of dropped": with a controller's
\* page open the room plays its queue to the end, unless it stays on a track that cannot
\* be played and whose only skip call failed.
NeverStuck == <>(playing = Nothing \/ playing \in Broken \cap lost)

===============================================================================
