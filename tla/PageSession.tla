------------------------------ MODULE PageSession ------------------------------
(***************************************************************************)
(* The connection of one browser tab: joinRoom and what outlives it.  Each *)
(* call of joinRoom waits for a token, for the connection and for the      *)
(* room.join reply; the tab can open another room meanwhile, and nothing   *)
(* cancels the older call.  The module-level variables of realtime.ts      *)
(* (centrifuge, activeRoom, desiredPlatform, sentPlatform, platformReady)  *)
(* and the store are shared by all calls.  Call j creates client j.  The   *)
(* room's state, which the replies and publications bring, is RoomSync's.  *)
(***************************************************************************)
EXTENDS SequencesExt

CONSTANTS
    Rooms,
    NoRoom,
    Services,      \* listening services
    NoService,
    MaxJoins,      \* bound on calls of joinRoom
    MaxSets,       \* bound on set_platform calls under way when the person chooses again
    MaxSessionFaults \* bound on refusals, failed calls, drops and kicks together

ASSUME SessionAssumption ==
    /\ {MaxJoins, MaxSets, MaxSessionFaults} \subseteq Nat
    /\ NoRoom \notin Rooms /\ NoService \notin Services

VARIABLES
    joins,     \* calls of joinRoom so far
    goal,      \* goal[j]: room of call j, channel of client j
    step,      \* step[j]: what call j waits for
    link,      \* link[j]: transport of client j
    current,   \* the module variable centrifuge: the newest client, or 0
    active,    \* activeRoom
    ready,     \* platformReady
    rejoin,    \* the room.join of the 'connected' handler under way, or NoRoom
    desired,   \* desiredPlatform
    timer,     \* room of the armed debounce timer, or NoRoom
    told,      \* what the server shows for the current connection
    claimed,   \* sentPlatform
    outbox,    \* member.set_platform calls under way, in order
    kicked, connected, \* of the store
    mishap,    \* a call of this connection failed
    overlapped,\* a joinRoom was called while another one was running
    sessionFaults

platformVars == <<ready, desired, timer, told, claimed, outbox>>
tabVars == <<joins, goal, step, link, current, active, rejoin, kicked, connected, overlapped>>
sessionVars == <<tabVars, platformVars, mishap, sessionFaults>>

Calls == 1 .. MaxJoins
Wish(r, s) == [room |-> r, service |-> s]
NoWish == Wish(NoRoom, NoService)
Alive == {"connecting", "up"}
Running == {"token", "connecting", "calling"}

TabTypes ==
    /\ joins \in 0 .. MaxJoins /\ current \in 0 .. joins
    /\ goal \in [Calls -> Rooms \cup {NoRoom}]
    /\ step \in [Calls -> Running \cup {"none", "settling", "done", "failed"}]
    /\ link \in [Calls -> Alive \cup {"none", "down"}]
    /\ active \in Rooms \cup {NoRoom} /\ rejoin \in Rooms \cup {NoRoom}
    /\ kicked \in BOOLEAN /\ connected \in BOOLEAN /\ overlapped \in BOOLEAN

PlatformTypes ==
    /\ timer \in Rooms \cup {NoRoom} /\ ready \in BOOLEAN
    /\ desired \in [room : Rooms \cup {NoRoom}, service : Services \cup {NoService}]
    /\ told \in Services \cup {NoService} /\ claimed \in Services \cup {NoService}
    /\ outbox \in Seq(Services)

SessionTypeOK ==
    /\ TabTypes /\ PlatformTypes
    /\ mishap \in BOOLEAN /\ sessionFaults \in 0 .. MaxSessionFaults

SessionFault == sessionFaults < MaxSessionFaults /\ sessionFaults' = sessionFaults + 1
Up == current # 0 /\ link[current] = "up"

\* applyDesiredPlatform after platformReady has become `settled` and sentPlatform `sent`.
Apply(r, settled, sent) ==
    IF /\ desired.room = r /\ settled /\ current # 0 /\ active = r
       /\ ~kicked /\ connected /\ sent # desired.service
    THEN claimed' = desired.service /\ outbox' = Append(outbox, desired.service)
    ELSE claimed' = sent /\ UNCHANGED outbox

\* A lost connection rejects the calls on it: the rejoin is given up, and an
\* undelivered platform may be sent again.
RejectCalls ==
    /\ rejoin' = NoRoom
    /\ outbox' = <<>>
    /\ claimed' = IF claimed \in Range(outbox) THEN NoService ELSE claimed

\* The join that waits for a reply on the newest client fails with it.
Cut(c) == IF c = current /\ step[c] = "calling" THEN "failed" ELSE step[c]

-----------------------------------------------------------------------------
(* joinRoom *)

KeepActive == active
ClearActive == NoRoom

\* A room page mounts and joins, or the banner retries: up to the first await.
Begin(r) ==
    /\ joins < MaxJoins
    /\ joins' = joins + 1
    /\ goal' = [goal EXCEPT ![joins'] = r]
    /\ step' = [step EXCEPT ![joins'] = "token"]
    /\ active' = ClearActive
    /\ ready' = FALSE /\ claimed' = NoService /\ timer' = NoRoom
    /\ desired' = IF desired.room = r THEN desired ELSE NoWish
    /\ overlapped' = (overlapped \/ \E j \in Calls : step[j] \in Running)
    /\ UNCHANGED <<link, current, rejoin, told, outbox, kicked, connected, mishap,
                   sessionFaults>>

\* The token request failed while room auth is on.
TokenFails(j) ==
    /\ step[j] = "token" /\ SessionFault
    /\ step' = [step EXCEPT ![j] = "failed"]
    /\ UNCHANGED <<joins, goal, link, current, active, rejoin, kicked, connected, overlapped,
                   platformVars, mishap>>

LeaveClient(links) == links

\* centrifuge?.disconnect() of whatever client is the newest one.
CloseClient(links) == [c \in Calls |-> IF c = current THEN "down" ELSE links[c]]

\* The previous client is disconnected and a new one takes its place.
Install(j) ==
    /\ step[j] = "token"
    /\ link' = [CloseClient(link) EXCEPT ![j] = "connecting"]
    /\ current' = j
    /\ step' = [c \in Calls |-> IF c = j THEN "connecting" ELSE Cut(c)]
    /\ RejectCalls
    /\ kicked' = FALSE
    /\ connected' = (connected /\ ~(current # 0 /\ link[current] \in Alive))
    /\ UNCHANGED <<joins, goal, active, overlapped, ready, desired, timer, told, mishap, sessionFaults>>

ClaimedBefore == claimed

\* A new session server-side: the platform has to be sent again.
ClaimedAnew == IF active # NoRoom THEN NoService ELSE claimed

\* 'connected': ends the wait of the join, or re-joins the active room.
Connects(j) ==
    /\ link[j] = "connecting"
    /\ link' = [link EXCEPT ![j] = "up"]
    /\ connected' = TRUE /\ told' = NoService /\ mishap' = FALSE
    /\ rejoin' = active
    /\ claimed' = ClaimedAnew
    /\ step' = [step EXCEPT ![j] = IF @ = "connecting" THEN "calling" ELSE @]
    /\ UNCHANGED <<joins, goal, current, active, overlapped, kicked, ready, desired, timer, outbox,
                   sessionFaults>>

WaitsForever(j) == FALSE
Waits(j) == step[j] = "connecting"

\* The ten seconds are over: the join fails and stops "this client".
TimesOut(j) ==
    /\ Waits(j)
    /\ link' = CloseClient(link)
    /\ step' = [c \in Calls |-> IF c = j THEN "failed" ELSE Cut(c)]
    /\ RejectCalls
    /\ connected' = FALSE
    /\ UNCHANGED <<joins, goal, current, active, overlapped, kicked, ready, desired, timer, told,
                   mishap, sessionFaults>>

JoinReply(j) ==
    /\ step[j] = "calling" /\ link[j] = "up"
    /\ step' = [step EXCEPT ![j] = "settling"]
    /\ active' = goal[j]
    /\ UNCHANGED <<joins, goal, link, current, rejoin, kicked, connected, overlapped, platformVars,
                   mishap, sessionFaults>>

\* A refused room.join leaves the client connected.
JoinRefused(j) ==
    /\ step[j] = "calling" /\ SessionFault
    /\ step' = [step EXCEPT ![j] = "failed"]
    /\ UNCHANGED <<joins, goal, link, current, active, rejoin, kicked, connected, overlapped,
                   platformVars, mishap>>

\* The rebind attempt has settled, one way or the other.
Settles(j) ==
    /\ step[j] = "settling"
    /\ step' = [step EXCEPT ![j] = "done"]
    /\ ready' = TRUE
    /\ Apply(goal[j], TRUE, claimed)
    /\ UNCHANGED <<joins, goal, link, current, active, rejoin, kicked, connected, overlapped,
                   desired, timer, told, mishap, sessionFaults>>

-----------------------------------------------------------------------------
(* The life of a connection *)

\* The reply of the room.join that followed a reconnect.
RejoinReply ==
    /\ Up /\ rejoin # NoRoom
    /\ rejoin' = NoRoom
    /\ Apply(rejoin, ready, claimed)
    /\ UNCHANGED <<joins, goal, step, link, current, active, kicked, connected, overlapped, ready,
                   desired, timer, told, mishap, sessionFaults>>

RejoinFails ==
    /\ Up /\ rejoin # NoRoom /\ SessionFault
    /\ rejoin' = NoRoom
    /\ mishap' = TRUE
    /\ UNCHANGED <<joins, goal, step, link, current, active, kicked, connected, overlapped,
                   platformVars>>

\* The transport drops; the client reconnects on its own.  The store keeps
\* "connected" meanwhile.
Lost ==
    /\ Up /\ SessionFault
    /\ link' = [link EXCEPT ![current] = "connecting"]
    /\ step' = [c \in Calls |-> Cut(c)]
    /\ RejectCalls
    /\ UNCHANGED <<joins, goal, current, active, kicked, connected, overlapped, ready, desired, timer,
                   told, mishap>>

\* A terminal code: of a kick (4500), of a session the server refuses (103), or another
\* one.  Only the refusal fails a join that is connecting; else it waits out its time.
Terminal(code) ==
    /\ current # 0 /\ link[current] \in Alive /\ SessionFault
    /\ code = "kicked" => Up
    /\ link' = CloseClient(link)
    /\ step' = [c \in Calls |->
         IF c = current /\ step[c] = "connecting" /\ code = "refused" THEN "failed" ELSE Cut(c)]
    /\ RejectCalls
    /\ kicked' = (kicked \/ code = "kicked") /\ connected' = FALSE
    /\ UNCHANGED <<joins, goal, current, active, overlapped, ready, desired, timer, told, mishap>>

\* resyncRoom, when the tab is shown again or the network is back.
Resync ==
    /\ active # NoRoom /\ current # 0 /\ link[current] \notin Alive
    /\ link' = [link EXCEPT ![current] = "connecting"]
    /\ UNCHANGED <<joins, goal, step, current, active, rejoin, kicked, connected, overlapped,
                   platformVars, mishap, sessionFaults>>

-----------------------------------------------------------------------------
(* The listening service *)

\* updatePlatform: the page of the newest join has joined; the timer starts anew.
Want(s) ==
    /\ joins # 0 /\ step[joins] \in {"settling", "done"}
    /\ Len(outbox) < MaxSets
    /\ desired' = Wish(goal[joins], s)
    /\ timer' = goal[joins]
    /\ desired' # desired
    /\ UNCHANGED <<tabVars, ready, told, claimed, outbox, mishap, sessionFaults>>

TimerFires ==
    /\ timer # NoRoom
    /\ timer' = NoRoom
    /\ Apply(timer, ready, claimed)
    /\ UNCHANGED <<tabVars, ready, desired, told, mishap, sessionFaults>>

PlatformSet ==
    /\ Up /\ outbox # <<>>
    /\ told' = Head(outbox) /\ outbox' = Tail(outbox)
    /\ UNCHANGED <<tabVars, ready, desired, timer, claimed, mishap, sessionFaults>>

\* "Not delivered: allow a later attempt".
Unclaimed(s) == IF claimed = s THEN NoService ELSE claimed

PlatformRefused ==
    /\ Up /\ outbox # <<>> /\ SessionFault
    /\ claimed' = Unclaimed(Head(outbox)) /\ outbox' = Tail(outbox)
    /\ mishap' = TRUE
    /\ UNCHANGED <<tabVars, ready, desired, timer, told>>

-----------------------------------------------------------------------------
SessionInit ==
    /\ joins = 0 /\ current = 0
    /\ goal = [j \in Calls |-> NoRoom] /\ step = [j \in Calls |-> "none"]
    /\ link = [j \in Calls |-> "none"]
    /\ active = NoRoom /\ rejoin = NoRoom /\ timer = NoRoom
    /\ ready = FALSE /\ kicked = FALSE /\ connected = FALSE
    /\ desired = NoWish /\ told = NoService /\ claimed = NoService
    /\ outbox = <<>>
    /\ mishap = FALSE /\ overlapped = FALSE
    /\ sessionFaults = 0

SessionNext ==
    \/ \E r \in Rooms : Begin(r)
    \/ \E j \in Calls : \/ TokenFails(j) \/ Install(j) \/ Connects(j) \/ TimesOut(j)
                        \/ JoinReply(j) \/ JoinRefused(j) \/ Settles(j)
    \/ RejoinReply \/ RejoinFails \/ Lost
    \/ \E code \in {"kicked", "refused", "other"} : Terminal(code)
    \/ Resync
    \/ \E s \in Services : Want(s)
    \/ TimerFires \/ PlatformSet \/ PlatformRefused

\* Requests are answered or time out; the ten second timer runs whatever happens.
SessionFairness ==
    \A j \in Calls : /\ WF_sessionVars(TokenFails(j) \/ Install(j))
                     /\ WF_sessionVars(TimesOut(j) \/ Connects(j))
                     /\ WF_sessionVars(JoinReply(j) \/ JoinRefused(j))
                     /\ WF_sessionVars(Settles(j))

SessionSpec == SessionInit /\ [][SessionNext]_sessionVars /\ SessionFairness

-----------------------------------------------------------------------------
(* Properties *)

\* "disconnecting it prevents ghost presence and a double room.join" (joinRoom):
\* however calls of joinRoom overlap, fail and are retried, the tab holds one
\* living connection at most, and it is the one the module variable names.
OneConnection == \A j \in Calls : link[j] \in Alive => j = current

\* "clear the previous activeRoom so the reconnect resync cannot re-join (and
\* adopt the state of) a room the user has navigated away from": as long as no
\* join was started while another one ran, a reconnect re-joins the room of
\* its own connection.
RejoinsOwnRoom == rejoin # NoRoom /\ ~overlapped => rejoin = goal[current]

\* At rest the server shows the service the person wants, however changes, drops
\* and joins were ordered, unless a call of this connection failed.
AtRest ==
    /\ Up /\ outbox = <<>> /\ timer = NoRoom /\ rejoin = NoRoom
    /\ \A j \in Calls : step[j] \notin Running \cup {"settling"}

PlatformArrives ==
    AtRest /\ active # NoRoom /\ desired.room = active /\ ~kicked /\ ~mishap
      => told = desired.service

\* "without this the join UI hung forever": every joinRoom comes to an end.
JoinEnds == \A j \in Calls : step[j] \in Running ~> step[j] \notin Running

===============================================================================
