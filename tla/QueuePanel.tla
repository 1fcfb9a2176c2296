------------------------------- MODULE QueuePanel -------------------------------
(***************************************************************************)
(* The queue of one page as the person works it: removals with a four      *)
(* second window to undo them, and votes.  The panel acts on the state it  *)
(* was last told; the room moves meanwhile.  Every click of "Remover"      *)
(* opens window w with a timer of its own; timersRef names the one window  *)
(* that Undo and a change of the playing track can reach.  queue.vote is a *)
(* toggle on the server, and the page keeps its own idea of the votes      *)
(* (myVotes, in sessionStorage) because voter keys do not tell it.         *)
(***************************************************************************)
EXTENDS Naturals

CONSTANTS
    Tracks,
    NoTrack,
    MaxWindows,    \* bound on removals asked for
    MaxToggles,    \* bound on votes asked for
    MaxPanelFaults \* bound on failed calls, drops and reloads together

ASSUME PanelAssumption ==
    /\ NoTrack \notin Tracks
    /\ {MaxWindows, MaxToggles, MaxPanelFaults} \subseteq Nat

VARIABLES
    queued, playing,  \* the room: its tracks and the playing one
    counted,          \* tracks for which the server counts this person's vote
    shownQueue, shownPlaying, \* the page's state
    windows,          \* windows opened so far
    target,           \* target[w]: track of window w
    undoTimer,            \* undoTimer[w]: "none", "armed", "sent" (queue.remove called) or "over"
    timersRef,        \* timersRef[t]: window that Undo reaches, or 0
    removing,         \* removingIds: rows that show "Removida", with Undo
    revived,          \* tracks whose row was restored while queue.remove was under way
    orphans,          \* windows of a panel that was closed: their refs and rows are gone
    toggles,          \* votes asked for so far
    votes,            \* queue.vote calls under way: [n, track, press, done]
    myVotes,          \* the pressed buttons
    muddled,          \* tracks whose vote calls overlapped, or lost their reply or the vote
    panelFaults

roomVars == <<queued, playing, counted>>
shownVars == <<shownQueue, shownPlaying>>
windowVars == <<windows, target, undoTimer, timersRef, removing, revived, orphans>>
voteVars == <<toggles, votes, myVotes, muddled>>
panelVars == <<roomVars, shownVars, windowVars, voteVars, panelFaults>>

Windows == 1 .. MaxWindows
Rows == shownQueue \ {shownPlaying}      \* the playing track has no row

PanelTypeOK ==
    /\ queued \subseteq Tracks /\ playing \in queued \cup {NoTrack}
    /\ shownQueue \subseteq Tracks /\ shownPlaying \in shownQueue \cup {NoTrack}
    /\ {counted, removing, revived, myVotes, muddled} \subseteq SUBSET Tracks
    /\ windows \in 0 .. MaxWindows
    /\ target \in [Windows -> Tracks \cup {NoTrack}]
    /\ undoTimer \in [Windows -> {"none", "armed", "sent", "over"}]
    /\ timersRef \in [Tracks -> 0 .. windows] /\ orphans \subseteq Windows
    /\ toggles \in 0 .. MaxToggles
    /\ votes \subseteq [n : 1 .. MaxToggles, track : Tracks, press : BOOLEAN, done : BOOLEAN]
    /\ panelFaults \in 0 .. MaxPanelFaults

PanelFault == panelFaults < MaxPanelFaults /\ panelFaults' = panelFaults + 1

\* The cleanup every path shares: handle and row of track t are forgotten.
Forget(t) == timersRef' = [timersRef EXCEPT ![t] = 0] /\ removing' = removing \ {t}

\* The cleanup of a timer: that of a closed panel holds the refs of that panel.
Cleanup(w) == IF w \in orphans THEN UNCHANGED <<timersRef, removing>> ELSE Forget(target[w])

\* clearTimeout: stops an armed undoTimer, and does nothing for one that has fired.
Stop(w) == undoTimer' = [v \in Windows |-> IF v = w /\ undoTimer[v] = "armed" THEN "over" ELSE undoTimer[v]]

Revive(t) ==
    IF \E w \in Windows \ orphans : target[w] = t /\ undoTimer[w] = "sent"
    THEN revived \cup {t} ELSE revived

-----------------------------------------------------------------------------
(* The room *)

\* Somebody starts a track, the playing one ends, or it is removed: the one
\* that played leaves the queue, and its votes with it.
PlayNext(t) ==
    /\ playing # NoTrack \/ t # NoTrack
    /\ t \in (queued \ {playing}) \cup {NoTrack}
    /\ t = NoTrack => queued = {playing}
    /\ queued' = queued \ {playing}
    /\ playing' = t
    /\ counted' = counted \ {playing}

\* Somebody else removes an upcoming track, or clears the queue.
DropTrack(t) ==
    /\ t \in queued \ {playing}
    /\ queued' = queued \ {t} /\ counted' = counted \ {t}
    /\ UNCHANGED playing

RoomMovesOn ==
    /\ \/ \E t \in Tracks \cup {NoTrack} : PlayNext(t)
       \/ \E t \in Tracks : DropTrack(t)
    /\ UNCHANGED <<shownVars, windowVars, voteVars, panelFaults>>

\* The subscription to the store of QueuePanel: a track that starts to play
\* while its handle is kept loses its pending removal.
CancelOnPlay ==
    LET t == playing IN
    IF t # NoTrack /\ t # shownPlaying /\ timersRef[t] # 0
    THEN /\ Stop(timersRef[t]) /\ Forget(t)
         /\ revived' = Revive(t)
    ELSE UNCHANGED <<undoTimer, timersRef, removing, revived>>

\* A room.state publication, or the reply of a rejoin.
StateArrives ==
    /\ shownVars # <<queued, playing>>
    /\ shownQueue' = queued /\ shownPlaying' = playing
    /\ CancelOnPlay
    /\ UNCHANGED <<roomVars, windows, target, orphans, voteVars, panelFaults>>

-----------------------------------------------------------------------------
(* handleRemove, its undoTimer, and Undo *)

NeverIgnored(t) == FALSE

\* "Second click while an undo window is open ... ignore it."
Ignored(t) == t \in removing

HandleRemove(t) ==
    /\ t \in Rows /\ ~Ignored(t)
    /\ windows < MaxWindows
    /\ windows' = windows + 1
    /\ target' = [target EXCEPT ![windows'] = t]
    /\ undoTimer' = [undoTimer EXCEPT ![windows'] = "armed"]
    /\ timersRef' = [timersRef EXCEPT ![t] = windows']
    /\ removing' = removing \cup {t}
    /\ UNCHANGED <<roomVars, shownVars, revived, orphans, voteVars, panelFaults>>

\* The timer of window w, with its last-moment guard against the now-playing race.
UndoWindowEnds(w) ==
    /\ undoTimer[w] = "armed"
    /\ IF shownPlaying = target[w]
       THEN /\ undoTimer' = [undoTimer EXCEPT ![w] = "over"] /\ Cleanup(w)
       ELSE /\ undoTimer' = [undoTimer EXCEPT ![w] = "sent"] /\ UNCHANGED <<timersRef, removing>>
    /\ UNCHANGED <<roomVars, shownVars, windows, target, revived, orphans, voteVars, panelFaults>>

\* queue.remove at the server, and its reply; "track not found" is a success.
\* The state it publishes reaches the page on its own.
RemoveReplied(w) ==
    /\ undoTimer[w] = "sent"
    /\ undoTimer' = [undoTimer EXCEPT ![w] = "over"] /\ Cleanup(w)
    /\ \/ target[w] = playing /\ \E t \in Tracks \cup {NoTrack} : PlayNext(t)
       \/ /\ target[w] # playing
          /\ queued' = queued \ {target[w]} /\ counted' = counted \ {target[w]}
          /\ UNCHANGED playing
    /\ UNCHANGED <<shownVars, windows, target, revived, orphans, voteVars, panelFaults>>

RemoveFails(w) ==
    /\ undoTimer[w] = "sent" /\ PanelFault
    /\ undoTimer' = [undoTimer EXCEPT ![w] = "over"] /\ Cleanup(w)
    /\ UNCHANGED <<roomVars, shownVars, windows, target, revived, orphans, voteVars>>

\* Undo stops the window timersRef names.  While the call is under way the row
\* still offers it, and the call goes on.
HandleUndo(t) ==
    /\ t \in removing /\ t \in Rows
    /\ Forget(t)
    /\ Stop(timersRef[t])
    /\ revived' = Revive(t)
    /\ UNCHANGED <<roomVars, shownVars, windows, target, orphans, voteVars, panelFaults>>

-----------------------------------------------------------------------------
(* handleVote *)

\* The wanted state of the button is read before the call is awaited.
HandleVote(t) ==
    /\ t \in Rows /\ t \notin removing
    /\ toggles < MaxToggles
    /\ toggles' = toggles + 1
    /\ votes' = votes \cup {[n |-> toggles', track |-> t, press |-> t \notin myVotes, done |-> FALSE]}
    /\ muddled' = IF \E v \in votes : v.track = t THEN muddled \cup {t} ELSE muddled
    /\ UNCHANGED <<roomVars, shownVars, windowVars, myVotes, panelFaults>>

Toggle(t) == counted' = IF t \in counted THEN counted \ {t} ELSE counted \cup {t}

\* ToggleVote of a track in the queue, the playing one included; calls of one
\* connection are handled in order.  A refusal ends the call.
VoteCounted(v) ==
    /\ ~v.done /\ \A o \in votes : o.n < v.n => o.done
    /\ IF v.track \in queued
       THEN Toggle(v.track) /\ votes' = (votes \ {v}) \cup {[v EXCEPT !.done = TRUE]}
       ELSE votes' = votes \ {v} /\ UNCHANGED counted
    /\ UNCHANGED <<queued, playing, shownVars, windowVars, toggles, myVotes, muddled, panelFaults>>

\* markVoted, which also stores the set.
MarkVoted(t, press) == IF press THEN myVotes \cup {t} ELSE myVotes \ {t}

VoteReplied(v) ==
    /\ v.done /\ \A o \in votes : v.n <= o.n
    /\ votes' = votes \ {v}
    /\ myVotes' = MarkVoted(v.track, v.press)
    /\ UNCHANGED <<roomVars, shownVars, windowVars, toggles, muddled, panelFaults>>

-----------------------------------------------------------------------------
(* Drops, reloads, and the panel closed and opened again *)

\* The calls under way end in an error; those the server had counted stay counted.
CallsLost(pruned) ==
    /\ votes' = {}
    /\ muddled' = muddled \cup {v.track : v \in votes} \cup pruned

\* The connection drops: the server forgets the votes of a guest (PruneGuestVotes)
\* and keeps those of an account.
PanelDrop(guest) ==
    /\ PanelFault
    /\ CallsLost(IF guest THEN counted ELSE {})
    /\ counted' = IF guest THEN {} ELSE counted
    /\ undoTimer' = [w \in Windows |-> IF undoTimer[w] = "sent" THEN "over" ELSE undoTimer[w]]
    /\ LET cut == {target[w] : w \in {v \in Windows \ orphans : undoTimer[v] = "sent"}} IN
         /\ timersRef' = [t \in Tracks |-> IF t \in cut THEN 0 ELSE timersRef[t]]
         /\ removing' = removing \ cut
    /\ UNCHANGED <<queued, playing, shownVars, windows, target, revived, orphans, toggles, myVotes>>

NothingRestored(stored) == {}

\* restoreMyVotes, of what markVoted has stored.
Restored(stored) == stored

\* A reload ends every timer; sessionStorage brings the pressed buttons back.
Reload ==
    /\ PanelFault
    /\ CallsLost({})
    /\ myVotes' = Restored(myVotes)
    /\ undoTimer' = [w \in Windows |-> IF undoTimer[w] = "none" THEN "none" ELSE "over"]
    /\ timersRef' = [t \in Tracks |-> 0] /\ removing' = {} /\ revived' = {}
    /\ shownQueue' = queued /\ shownPlaying' = playing
    /\ UNCHANGED <<roomVars, windows, target, orphans, toggles>>

\* The panel leaves the screen, for another panel or another layout, and comes back
\* with fresh refs and rows.  Nothing clears its timers: they run on without them.
Remount ==
    /\ orphans' = orphans \cup {w \in Windows : undoTimer[w] \in {"armed", "sent"}}
    /\ timersRef' = [t \in Tracks |-> 0] /\ removing' = {} /\ revived' = {}
    /\ UNCHANGED <<roomVars, shownVars, windows, target, undoTimer, voteVars, panelFaults>>

-----------------------------------------------------------------------------
PanelInit ==
    /\ queued = Tracks /\ playing = NoTrack /\ counted = {}
    /\ shownQueue = queued /\ shownPlaying = playing
    /\ windows = 0 /\ target = [w \in Windows |-> NoTrack]
    /\ undoTimer = [w \in Windows |-> "none"] /\ timersRef = [t \in Tracks |-> 0]
    /\ removing = {} /\ revived = {} /\ orphans = {}
    /\ toggles = 0 /\ votes = {} /\ myVotes = {} /\ muddled = {}
    /\ panelFaults = 0

PanelNext ==
    \/ RoomMovesOn \/ StateArrives
    \/ \E t \in Tracks : HandleRemove(t) \/ HandleUndo(t) \/ HandleVote(t)
    \/ \E w \in Windows : UndoWindowEnds(w) \/ RemoveReplied(w) \/ RemoveFails(w)
    \/ \E v \in votes : VoteCounted(v) \/ VoteReplied(v)
    \/ \E guest \in BOOLEAN : PanelDrop(guest)
    \/ Reload \/ Remount

PanelSpec == PanelInit /\ [][PanelNext]_panelVars

-----------------------------------------------------------------------------
(* Properties *)

\* "Second click while an undo window is open would schedule a duplicate timer that
\* bypasses Undo; ignore it" (handleRemove): Undo, and the start of the track, reach
\* every timer the panel on the screen has armed, through its row and its handle,
\* however the room moves, calls fail and the panel or the page is opened again; except
\* for a track whose row was restored while its queue.remove was under way.  A timer of
\* a panel that was closed is beyond both: only its own last-moment guard is left.
UndoReachesTimers ==
    \A w \in Windows \ orphans :
        undoTimer[w] = "armed" => \/ timersRef[target[w]] = w /\ target[w] \in removing
                                 \/ target[w] \in revived

\* myVotes: "the button showed unpressed while the server still counted the vote, and
\* the next click REMOVED it".  With no vote under way the pressed buttons of queued
\* tracks are the votes the server counts, across reloads and drops, except where
\* calls overlapped, lost their reply, or the vote went with a guest's connection.
PressedIsCounted == votes = {} => (myVotes \ muddled) \cap queued = counted \ muddled

===============================================================================
