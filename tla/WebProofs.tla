------------------------------- MODULE WebProofs -------------------------------
(***************************************************************************)
(* What a page does beside its feed, for any number of joins, rooms,       *)
(* tracks, removals, votes and failures.  The tab's connection: one living *)
(* client at most, reconnects that re-join the room of their own client.   *)
(* The queue panel: no timer of the panel on the screen is out of Undo's   *)
(* reach, and the pressed buttons are the votes the server counts.  And    *)
(* the whole page: a behaviour of it is one of each of its parts.          *)
(***************************************************************************)
EXTENDS MCWeb, PageFeedProofs

-----------------------------------------------------------------------------
(* The tab's connection *)

\* What the types leave open: a wish has both parts or none, and a call that has
\* begun has a number and a room.
Wishes == desired = NoWish \/ desired \in [room : Rooms, service : Services]
Goals == \A j \in Calls : step[j] # "none" => goal[j] \in Rooms /\ j <= joins
SessionTypes == SessionTypeOK /\ Wishes /\ Goals

\* While joins follow one another, one at most is running, and as long as it runs
\* the tab has no active room; an active room is the room of the newest client.
JoinsInTurn ==
    ~overlapped =>
        /\ \A i, j \in Calls : step[i] \in Running /\ step[j] \in Running => i = j
        /\ active # NoRoom =>
               /\ \A j \in Calls : step[j] \notin Running
               /\ current \in Calls /\ active = goal[current]
        /\ rejoin # NoRoom => current \in Calls

SessionInv == SessionTypes /\ OneConnection /\ JoinsInTurn /\ RejoinsOwnRoom

StepValues == Running \cup {"none", "settling", "done", "failed"}
LinkValues == Alive \cup {"none", "down"}

\* A wish that is applied is sent on, or nothing is.
LEMMA ApplyTypes ==
    ASSUME SessionTypes, NEW r \in Rooms, NEW b, NEW s \in Services \cup {NoService},
           Apply(r, b, s)
    PROVE  claimed' \in Services \cup {NoService} /\ outbox' \in Seq(Services)
<1>1. CASE desired.room = r
    <2>1. desired.service \in Services
        BY <1>1, SessionAssumption DEF SessionTypes, Wishes, NoWish, Wish
    <2>2. outbox \in Seq(Services) /\ claimed \in Services \cup {NoService}
        BY DEF SessionTypes, SessionTypeOK, PlatformTypes
    <2>3. Append(outbox, desired.service) \in Seq(Services)
        BY <2>1, <2>2
    <2> QED BY <2>1, <2>2, <2>3 DEF Apply
<1>2. CASE desired.room # r
    BY <1>2 DEF Apply, SessionTypes, SessionTypeOK, PlatformTypes
<1> QED BY <1>1, <1>2

\* Rejected calls leave nothing to answer.
LEMMA RejectTypes ==
    ASSUME SessionTypes, RejectCalls
    PROVE  /\ rejoin' = NoRoom /\ outbox' \in Seq(Services)
           /\ claimed' \in Services \cup {NoService}
BY DEF RejectCalls, SessionTypes, SessionTypeOK, PlatformTypes

\* The step of a call that is cut keeps its type; nothing starts to run.
LEMMA CutTypes ==
    ASSUME SessionTypes, NEW c \in Calls
    PROVE  /\ Cut(c) \in StepValues
           /\ Cut(c) \in Running => step[c] \in Running
           /\ Cut(c) # "none" => step[c] # "none"
BY DEF Cut, SessionTypes, SessionTypeOK, TabTypes, StepValues, Running

\* Closing the newest client starts nothing.
LEMMA CloseTypes ==
    ASSUME SessionTypes
    PROVE  /\ CloseClient(link) \in [Calls -> LinkValues]
           /\ \A c \in Calls : CloseClient(link)[c] \in Alive => c # current /\ link[c] \in Alive
BY DEF CloseClient, SessionTypes, SessionTypeOK, TabTypes, LinkValues, Alive

\* A page that was just opened has no client and no call.
LEMMA SessionInitInv == SessionInit => SessionInv
<1> SUFFICES ASSUME SessionInit PROVE SessionInv
    OBVIOUS
<1> USE SessionAssumption DEF SessionInit, SessionTypeOK
<1>1. TabTypes
    <2>1. joins = 0 /\ current = 0 /\ MaxJoins \in Nat
        OBVIOUS
    <2>2. joins \in 0 .. MaxJoins /\ current \in 0 .. joins
        BY <2>1
    <2> QED BY <2>2 DEF TabTypes, Alive, Running
<1>2. PlatformTypes
    <2>1. outbox \in Seq(Services)
        OBVIOUS
    <2> QED BY <2>1 DEF PlatformTypes, NoWish, Wish
<1>3. SessionTypes
    <2>1. mishap \in BOOLEAN
        OBVIOUS
    <2>2. sessionFaults \in 0 .. MaxSessionFaults
        OBVIOUS
    <2> QED BY <1>1, <1>2, <2>1, <2>2 DEF SessionTypes, Wishes, NoWish, Goals
<1>4. OneConnection /\ JoinsInTurn /\ RejoinsOwnRoom
    BY DEF OneConnection, JoinsInTurn, RejoinsOwnRoom, Alive, Running
<1> QED BY <1>3, <1>4 DEF SessionInv

-----------------------------------------------------------------------------
(* Types *)

\* Joins, links and what the store says of them.
LEMMA TabTypesStep ==
    ASSUME SessionTypes, [SessionNext]_sessionVars
    PROVE  TabTypes' /\ Goals'
<1>1. ASSUME UNCHANGED tabVars PROVE TabTypes' /\ Goals'
    BY <1>1 DEF tabVars, SessionTypes, SessionTypeOK, TabTypes, Goals
<1>2. ASSUME NEW r \in Rooms, Begin(r) PROVE TabTypes' /\ Goals'
    <2>1. joins' \in Calls /\ current \in 0 .. joins'
        BY <1>2, SessionAssumption DEF Begin, SessionTypes, SessionTypeOK, TabTypes, Calls
    <2>2. overlapped' \in BOOLEAN
        BY <1>2 DEF Begin
    <2> QED
        BY <1>2, <2>1, <2>2, SessionAssumption DEF Begin, ClearActive, SessionTypes,
            SessionTypeOK, TabTypes, Goals, Running, Calls
<1>3. ASSUME NEW j \in Calls, TokenFails(j) PROVE TabTypes' /\ Goals'
    BY <1>3, SessionAssumption DEF TokenFails, SessionTypes, SessionTypeOK, TabTypes, Goals,
        Running, Alive
<1>4. ASSUME NEW j \in Calls, Install(j) PROVE TabTypes' /\ Goals'
    <2>1. connected' \in BOOLEAN
        BY <1>4 DEF Install
    <2>2. link' \in [Calls -> LinkValues]
        BY <1>4, CloseTypes DEF Install, LinkValues, Alive
    <2>3. step' \in [Calls -> StepValues] /\ Goals'
        BY <1>4, CutTypes DEF Install, StepValues, Running, SessionTypes, Goals
    <2>4. rejoin' = NoRoom
        BY <1>4, RejectTypes DEF Install
    <2>5. current' \in 0 .. joins'
        BY <1>4 DEF Install, SessionTypes, Goals, Calls
    <2> QED
        BY <1>4, <2>1, <2>2, <2>3, <2>4, <2>5 DEF Install, StepValues, LinkValues, SessionTypes,
            SessionTypeOK, TabTypes
<1>5. ASSUME NEW j \in Calls, Connects(j) PROVE TabTypes' /\ Goals'
    BY <1>5, SessionAssumption DEF Connects, SessionTypes, SessionTypeOK, TabTypes, Goals,
        Running, Alive
<1>6. ASSUME NEW j \in Calls, TimesOut(j) PROVE TabTypes' /\ Goals'
    <2>1. step' \in [Calls -> StepValues] /\ Goals'
        BY <1>6, CutTypes DEF TimesOut, Waits, StepValues, Running, SessionTypes, Goals
    <2>2. rejoin' = NoRoom
        BY <1>6, RejectTypes DEF TimesOut
    <2> QED
        BY <1>6, <2>1, <2>2, CloseTypes DEF TimesOut, StepValues, LinkValues, SessionTypes,
            SessionTypeOK, TabTypes
<1>7. ASSUME NEW j \in Calls, JoinReply(j) PROVE TabTypes' /\ Goals'
    BY <1>7, SessionAssumption DEF JoinReply, SessionTypes, SessionTypeOK, TabTypes, Goals,
        Running, Alive
<1>8. ASSUME NEW j \in Calls, JoinRefused(j) PROVE TabTypes' /\ Goals'
    BY <1>8, SessionAssumption DEF JoinRefused, SessionTypes, SessionTypeOK, TabTypes, Goals,
        Running, Alive
<1>9. ASSUME NEW j \in Calls, Settles(j) PROVE TabTypes' /\ Goals'
    BY <1>9, SessionAssumption DEF Settles, SessionTypes, SessionTypeOK, TabTypes, Goals,
        Running, Alive
<1>10. ASSUME RejoinReply PROVE TabTypes' /\ Goals'
    BY <1>10, SessionAssumption DEF RejoinReply, SessionTypes, SessionTypeOK, TabTypes, Goals,
        Running, Alive
<1>11. ASSUME RejoinFails PROVE TabTypes' /\ Goals'
    BY <1>11, SessionAssumption DEF RejoinFails, SessionTypes, SessionTypeOK, TabTypes, Goals,
        Running, Alive
<1>12. ASSUME Lost PROVE TabTypes' /\ Goals'
    BY <1>12, SessionAssumption, CutTypes, RejectTypes DEF Lost, StepValues, SessionTypes,
        SessionTypeOK, TabTypes, Goals, Running, Alive
<1>13. ASSUME NEW code \in {"kicked", "refused", "other"}, Terminal(code) PROVE TabTypes' /\ Goals'
    BY <1>13, SessionAssumption, CutTypes, CloseTypes, RejectTypes DEF Terminal, StepValues,
        LinkValues, SessionTypes, SessionTypeOK, TabTypes, Goals, Running, Alive
<1>14. ASSUME Resync PROVE TabTypes' /\ Goals'
    BY <1>14, SessionAssumption DEF Resync, SessionTypes, SessionTypeOK, TabTypes, Goals,
        Running, Alive
<1>15. ASSUME NEW s \in Services, Want(s)
       PROVE  TabTypes' /\ Goals'
    BY <1>1, <1>15 DEF Want
<1>16. ASSUME TimerFires \/ PlatformSet \/ PlatformRefused \/ UNCHANGED sessionVars
       PROVE  TabTypes' /\ Goals'
    BY <1>1, <1>16 DEF TimerFires, PlatformSet, PlatformRefused, sessionVars
<1> QED
    BY <1>1, <1>2, <1>3, <1>4, <1>5, <1>6, <1>7, <1>8, <1>9, <1>10, <1>11, <1>12, <1>13, <1>14,
        <1>15, <1>16 DEF SessionNext

\* Wishes, claims and what has been sent.
LEMMA PlatformTypesStep ==
    ASSUME SessionTypes, [SessionNext]_sessionVars
    PROVE  PlatformTypes' /\ Wishes'
<1>1. ASSUME UNCHANGED platformVars PROVE PlatformTypes' /\ Wishes'
    BY <1>1 DEF platformVars, SessionTypes, SessionTypeOK, PlatformTypes, Wishes
<1>2. ASSUME NEW r \in Rooms, Begin(r) PROVE PlatformTypes' /\ Wishes'
    BY <1>2, SessionAssumption DEF Begin, NoWish, Wish, SessionTypes, SessionTypeOK,
        PlatformTypes, Wishes
<1>3. ASSUME NEW j \in Calls, Install(j) PROVE PlatformTypes' /\ Wishes'
    BY <1>3, SessionAssumption, RejectTypes DEF Install, SessionTypes, SessionTypeOK,
        PlatformTypes, Wishes
<1>4. ASSUME NEW j \in Calls, Connects(j) PROVE PlatformTypes' /\ Wishes'
    BY <1>4, SessionAssumption DEF Connects, ClaimedAnew, SessionTypes, SessionTypeOK,
        PlatformTypes, Wishes
<1>5. ASSUME NEW j \in Calls, TimesOut(j) PROVE PlatformTypes' /\ Wishes'
    BY <1>5, SessionAssumption, RejectTypes DEF TimesOut, SessionTypes, SessionTypeOK,
        PlatformTypes, Wishes
<1>6. ASSUME NEW j \in Calls, Settles(j) PROVE PlatformTypes' /\ Wishes'
    BY <1>6, SessionAssumption, ApplyTypes DEF Settles, Goals, SessionTypes, SessionTypeOK,
        PlatformTypes, Wishes
<1>7. ASSUME RejoinReply PROVE PlatformTypes' /\ Wishes'
    BY <1>7, SessionAssumption, ApplyTypes DEF RejoinReply, TabTypes, SessionTypes,
        SessionTypeOK, PlatformTypes, Wishes
<1>8. ASSUME Lost PROVE PlatformTypes' /\ Wishes'
    BY <1>8, SessionAssumption, RejectTypes DEF Lost, SessionTypes, SessionTypeOK,
        PlatformTypes, Wishes
<1>9. ASSUME NEW code \in {"kicked", "refused", "other"}, Terminal(code) PROVE PlatformTypes' /\ Wishes'
    BY <1>9, SessionAssumption, RejectTypes DEF Terminal, SessionTypes, SessionTypeOK,
        PlatformTypes, Wishes
<1>10. ASSUME NEW s \in Services, Want(s) PROVE PlatformTypes' /\ Wishes'
    BY <1>10, SessionAssumption DEF Want, Wish, Goals, TabTypes, Calls, tabVars, SessionTypes,
        SessionTypeOK, PlatformTypes, Wishes
<1>11. ASSUME TimerFires PROVE PlatformTypes' /\ Wishes'
    BY <1>11, SessionAssumption, ApplyTypes DEF TimerFires, SessionTypes, SessionTypeOK,
        PlatformTypes, Wishes
<1>12. ASSUME PlatformSet PROVE PlatformTypes' /\ Wishes'
    BY <1>12, SessionAssumption DEF PlatformSet, SessionTypes, SessionTypeOK, PlatformTypes,
        Wishes
<1>13. ASSUME PlatformRefused PROVE PlatformTypes' /\ Wishes'
    BY <1>13, SessionAssumption DEF PlatformRefused, Unclaimed, SessionTypes, SessionTypeOK,
        PlatformTypes, Wishes
<1>14. ASSUME NEW j \in Calls, TokenFails(j) \/ JoinReply(j) \/ JoinRefused(j)
       PROVE  PlatformTypes' /\ Wishes'
    BY <1>1, <1>14 DEF TokenFails, JoinReply, JoinRefused
<1>15. ASSUME RejoinFails \/ Resync \/ UNCHANGED sessionVars
       PROVE  PlatformTypes' /\ Wishes'
    BY <1>1, <1>15 DEF RejoinFails, Resync, sessionVars
<1> QED
    BY <1>1, <1>2, <1>3, <1>4, <1>5, <1>6, <1>7, <1>8, <1>9, <1>10, <1>11, <1>12, <1>13, <1>14,
        <1>15 DEF SessionNext

\* The count of failures, and whether this connection has had one.
LEMMA FaultTypesStep ==
    ASSUME SessionTypes, [SessionNext]_sessionVars
    PROVE  mishap' \in BOOLEAN /\ sessionFaults' \in 0 .. MaxSessionFaults
<1> DEFINE Goal == mishap' \in BOOLEAN /\ sessionFaults' \in 0 .. MaxSessionFaults
<1>1. mishap \in BOOLEAN /\ sessionFaults \in 0 .. MaxSessionFaults
    BY DEF SessionTypes, SessionTypeOK
<1>2. SessionFault => sessionFaults' \in 0 .. MaxSessionFaults
    BY <1>1, SessionAssumption DEF SessionFault
<1>3. ASSUME NEW r \in Rooms, Begin(r) PROVE Goal
    BY <1>1, <1>3 DEF Begin
<1>4. ASSUME NEW j \in Calls, TokenFails(j) \/ Install(j) \/ Connects(j) \/ TimesOut(j) \/
               JoinReply(j) \/ JoinRefused(j) \/ Settles(j)
       PROVE  Goal
    BY <1>1, <1>2, <1>4 DEF TokenFails, Install, Connects, TimesOut, JoinReply, JoinRefused,
        Settles
<1>5. ASSUME NEW code \in {"kicked", "refused", "other"}, Terminal(code) PROVE Goal
    BY <1>1, <1>2, <1>5 DEF Terminal
<1>6. ASSUME NEW s \in Services, Want(s) PROVE Goal
    BY <1>1, <1>6 DEF Want
<1>7. ASSUME RejoinReply \/ RejoinFails \/ Lost \/ Resync \/ TimerFires \/ PlatformSet
               \/ PlatformRefused \/ UNCHANGED sessionVars
       PROVE  Goal
    BY <1>1, <1>2, <1>7 DEF RejoinReply, RejoinFails, Lost, Resync, TimerFires, PlatformSet,
        PlatformRefused, sessionVars
<1> QED
    BY <1>3, <1>4, <1>5, <1>6, <1>7 DEF SessionNext

-----------------------------------------------------------------------------
(* One living connection, and the room it re-joins *)

\* Only Install makes another client alive, and it closes the one there was.
LEMMA OneConnectionStep ==
    ASSUME SessionTypes, OneConnection, [SessionNext]_sessionVars
    PROVE  OneConnection'
<1>1. ASSUME UNCHANGED <<link, current>> PROVE OneConnection'
    BY <1>1 DEF OneConnection
<1>2. ASSUME NEW j \in Calls, Install(j) PROVE OneConnection'
    BY <1>2, CloseTypes DEF Install, OneConnection
<1>3. ASSUME NEW j \in Calls, Connects(j) PROVE OneConnection'
    BY <1>3 DEF Connects, OneConnection, Alive, SessionTypes, SessionTypeOK, TabTypes
<1>4. ASSUME NEW j \in Calls, TimesOut(j) PROVE OneConnection'
    BY <1>4, CloseTypes DEF TimesOut, OneConnection
<1>5. ASSUME NEW code \in {"kicked", "refused", "other"}, Terminal(code) PROVE OneConnection'
    BY <1>5, CloseTypes DEF Terminal, OneConnection
<1>6. ASSUME Lost \/ Resync PROVE OneConnection'
    BY <1>6 DEF Lost, Resync, OneConnection, SessionTypes, SessionTypeOK, TabTypes
<1>7. ASSUME NEW r \in Rooms, Begin(r) PROVE OneConnection'
    BY <1>1, <1>7 DEF Begin, tabVars
<1>8. ASSUME NEW j \in Calls, TokenFails(j) \/ JoinReply(j) \/ JoinRefused(j) \/ Settles(j)
       PROVE  OneConnection'
    BY <1>1, <1>8 DEF TokenFails, JoinReply, JoinRefused, Settles
<1>9. ASSUME NEW s \in Services, Want(s) PROVE OneConnection'
    BY <1>1, <1>9 DEF Want, tabVars
<1>10. ASSUME RejoinReply \/ RejoinFails \/ TimerFires \/ PlatformSet \/ PlatformRefused
               \/ UNCHANGED sessionVars
       PROVE  OneConnection'
    BY <1>1, <1>10 DEF RejoinReply, RejoinFails, TimerFires, PlatformSet, PlatformRefused,
        sessionVars, tabVars
<1> QED
    BY <1>2, <1>3, <1>4, <1>5, <1>6, <1>7, <1>8, <1>9, <1>10 DEF SessionNext

\* A step that starts no call, and leaves what the tab holds alone, or gives the
\* rejoin up, keeps the order of joins.
LEMMA CallsOnlyEnd ==
    ASSUME SessionTypes, JoinsInTurn, RejoinsOwnRoom,
           \A c \in Calls : step'[c] \in Running => step[c] \in Running,
           UNCHANGED <<goal, current, active, overlapped>>, rejoin' \in {rejoin, NoRoom}
    PROVE  JoinsInTurn' /\ RejoinsOwnRoom'
BY DEF JoinsInTurn, RejoinsOwnRoom

\* What a reconnect re-joins follows from which join was the last to succeed.
LEMMA JoinsInTurnStep ==
    ASSUME SessionInv, [SessionNext]_sessionVars
    PROVE  JoinsInTurn' /\ RejoinsOwnRoom'
<1>0. SessionTypes /\ OneConnection /\ JoinsInTurn /\ RejoinsOwnRoom
    BY DEF SessionInv
<1>1. /\ joins \in 0 .. MaxJoins /\ current \in 0 .. joins /\ MaxJoins \in Nat
      /\ step \in [Calls -> StepValues] /\ goal \in [Calls -> Rooms \cup {NoRoom}]
    BY <1>0, SessionAssumption DEF SessionTypes, SessionTypeOK, TabTypes, StepValues
<1>2. ASSUME NEW r \in Rooms, Begin(r) PROVE JoinsInTurn' /\ RejoinsOwnRoom'
    <2>1. /\ joins' \in Calls /\ joins' # current
          /\ goal' = [goal EXCEPT ![joins'] = r] /\ step' = [step EXCEPT ![joins'] = "token"]
          /\ active' = NoRoom /\ UNCHANGED <<current, rejoin>>
        BY <1>1, <1>2 DEF Begin, ClearActive, Calls
    <2>2. ~overlapped' => ~overlapped /\ \A j \in Calls : step[j] \notin Running
        BY <1>2 DEF Begin
    <2>3. ~overlapped' => \A j \in Calls : step'[j] \in Running => j = joins'
        BY <1>1, <2>1, <2>2
    <2>4. current \in Calls => goal'[current] = goal[current]
        BY <1>1, <2>1
    <2>5. JoinsInTurn'
        BY <1>0, <2>1, <2>2, <2>3 DEF JoinsInTurn
    <2>6. RejoinsOwnRoom'
        BY <1>0, <2>1, <2>2, <2>4 DEF JoinsInTurn, RejoinsOwnRoom
    <2> QED BY <2>5, <2>6
<1>3. ASSUME NEW j \in Calls, Install(j) PROVE JoinsInTurn' /\ RejoinsOwnRoom'
    <2>1. \A c \in Calls : step'[c] \in Running => c = j \/ step[c] \in Running
        BY <1>0, <1>3, CutTypes DEF Install
    <2>2. step[j] \in Running /\ UNCHANGED <<active, overlapped>> /\ rejoin' = NoRoom
        BY <1>0, <1>3, RejectTypes DEF Install, Running
    <2> QED BY <1>0, <2>1, <2>2 DEF JoinsInTurn, RejoinsOwnRoom
<1>4. ASSUME NEW j \in Calls, Connects(j) PROVE JoinsInTurn' /\ RejoinsOwnRoom'
    <2>1. j = current
        BY <1>0, <1>4 DEF Connects, OneConnection, Alive
    <2>2. \A c \in Calls : step'[c] \in Running => step[c] \in Running
        BY <1>1, <1>4 DEF Connects, Running
    <2>3. rejoin' = active /\ UNCHANGED <<goal, current, active, overlapped>>
        BY <1>4 DEF Connects
    <2> QED BY <1>0, <2>1, <2>2, <2>3 DEF JoinsInTurn, RejoinsOwnRoom
<1>5. ASSUME NEW j \in Calls, TimesOut(j) PROVE JoinsInTurn' /\ RejoinsOwnRoom'
    <2>1. \A c \in Calls : step'[c] \in Running => step[c] \in Running
        BY <1>0, <1>5, CutTypes DEF TimesOut, Running
    <2> QED BY <1>0, <1>5, <2>1, CallsOnlyEnd, RejectTypes DEF TimesOut
<1>6. ASSUME NEW j \in Calls, JoinReply(j) PROVE JoinsInTurn' /\ RejoinsOwnRoom'
    <2>1. j = current
        BY <1>0, <1>6 DEF JoinReply, OneConnection, Alive
    <2>2. step[j] \in Running /\ \A c \in Calls : step'[c] \in Running => c # j /\ step[c] \in Running
        BY <1>1, <1>6 DEF JoinReply, Running
    <2>3. active' = goal[current] /\ UNCHANGED <<goal, current, rejoin, overlapped>>
        BY <1>6, <2>1 DEF JoinReply
    <2> QED BY <1>0, <2>1, <2>2, <2>3 DEF JoinsInTurn, RejoinsOwnRoom
<1>7. ASSUME NEW j \in Calls, TokenFails(j) \/ JoinRefused(j) \/ Settles(j)
       PROVE  JoinsInTurn' /\ RejoinsOwnRoom'
    <2>1. \A c \in Calls : step'[c] \in Running => step[c] \in Running
        BY <1>1, <1>7 DEF TokenFails, JoinRefused, Settles, Running
    <2> QED BY <1>0, <1>7, <2>1, CallsOnlyEnd DEF TokenFails, JoinRefused, Settles
<1>8. ASSUME RejoinReply \/ RejoinFails PROVE JoinsInTurn' /\ RejoinsOwnRoom'
    BY <1>0, <1>8, CallsOnlyEnd DEF RejoinReply, RejoinFails
<1>9. ASSUME Lost PROVE JoinsInTurn' /\ RejoinsOwnRoom'
    <2>1. \A c \in Calls : step'[c] \in Running => step[c] \in Running
        BY <1>0, <1>9, CutTypes DEF Lost
    <2> QED BY <1>0, <1>9, <2>1, CallsOnlyEnd, RejectTypes DEF Lost
<1>10. ASSUME NEW code \in {"kicked", "refused", "other"}, Terminal(code) PROVE JoinsInTurn' /\ RejoinsOwnRoom'
    <2>1. \A c \in Calls : step'[c] \in Running => step[c] \in Running
        BY <1>0, <1>10, CutTypes DEF Terminal, Running
    <2> QED BY <1>0, <1>10, <2>1, CallsOnlyEnd, RejectTypes DEF Terminal
<1>11. ASSUME Resync PROVE JoinsInTurn' /\ RejoinsOwnRoom'
    BY <1>0, <1>11, CallsOnlyEnd DEF Resync
<1>12. ASSUME UNCHANGED tabVars PROVE JoinsInTurn' /\ RejoinsOwnRoom'
    BY <1>0, <1>12, CallsOnlyEnd DEF tabVars
<1>13. ASSUME NEW s \in Services, Want(s) PROVE JoinsInTurn' /\ RejoinsOwnRoom'
    BY <1>12, <1>13 DEF Want
<1>14. ASSUME TimerFires \/ PlatformSet \/ PlatformRefused \/ UNCHANGED sessionVars
       PROVE  JoinsInTurn' /\ RejoinsOwnRoom'
    BY <1>12, <1>14 DEF TimerFires, PlatformSet, PlatformRefused, sessionVars
<1> QED
    BY <1>2, <1>3, <1>4, <1>5, <1>6, <1>7, <1>8, <1>9, <1>10, <1>11, <1>13, <1>14
    DEF SessionNext

\* The invariant of the connection is inductive.
LEMMA SessionInvStep == SessionInv /\ [SessionNext]_sessionVars => SessionInv'
<1> SUFFICES ASSUME SessionInv, [SessionNext]_sessionVars PROVE SessionInv'
    OBVIOUS
<1>1. SessionTypes /\ OneConnection
    BY DEF SessionInv
<1>2. SessionTypes'
    BY <1>1, TabTypesStep, PlatformTypesStep, FaultTypesStep
    DEF SessionTypes, SessionTypeOK
<1> QED BY <1>1, <1>2, OneConnectionStep, JoinsInTurnStep DEF SessionInv

\* However calls of joinRoom overlap, fail and are retried, the tab holds one living
\* connection at most, the newest (joinRoom disconnects the previous client).
THEOREM OneClientLives == SessionSpec => []OneConnection
<1>1. SessionInv => OneConnection
    BY DEF SessionInv
<1> QED BY <1>1, SessionInitInv, SessionInvStep, PTL DEF SessionSpec

\* A reconnect re-joins the room of its own connection as long as joins do not
\* overlap (joinRoom clears activeRoom, the 'connected' handler reads it); and the
\* session's data stay in their types.
THEOREM ReconnectRejoinsOwnRoom == SessionSpec => [](SessionTypeOK /\ RejoinsOwnRoom)
<1>1. SessionInv => SessionTypeOK /\ RejoinsOwnRoom
    BY DEF SessionInv, SessionTypes
<1> QED BY <1>1, SessionInitInv, SessionInvStep, PTL DEF SessionSpec

-----------------------------------------------------------------------------
(* The listening service *)

\* A join to room r has been answered and has not settled yet.
SettlesFor(r) == \E j \in Calls : step[j] = "settling" /\ goal[j] = r

\* What each part of the state knows of a wish that is not delivered yet: the timer is
\* the wish's, and an active room either may be told or is about to be; while the
\* connection is up, the wish is claimed or something under way will claim it, and
\* what is claimed was told, or is the last of the calls under way.
UpIsConnected == Up => connected
TimerIsForWish == timer # NoRoom => timer = desired.room
ActiveSettles == active # NoRoom => ready \/ SettlesFor(active)
ClaimNeedsRoom == active = NoRoom => claimed = NoService
WishIsClaimed ==
    Up /\ active # NoRoom /\ desired.room = active /\ ~kicked /\ ~mishap =>
        \/ claimed = desired.service
        \/ timer = active \/ rejoin = active \/ SettlesFor(active)
ClaimIsSent ==
    Up /\ ~mishap /\ claimed # NoService =>
        IF outbox = <<>> THEN told = claimed ELSE outbox[Len(outbox)] = claimed

PlatformInv ==
    /\ UpIsConnected /\ TimerIsForWish /\ ActiveSettles
    /\ ClaimNeedsRoom /\ WishIsClaimed /\ ClaimIsSent

\* applyDesiredPlatform claims the wish and sends it, or changes nothing; it claims the
\* wish of the active room whenever the tab is connected and the join has settled.
LEMMA ApplyEffect ==
    ASSUME SessionTypes, NEW r \in Rooms, NEW b, Apply(r, b, claimed)
    PROVE  /\ \/ UNCHANGED <<claimed, outbox>>
              \/ /\ claimed' = desired.service /\ active = r
                 /\ outbox' = Append(outbox, desired.service)
           /\ /\ b /\ desired.room = r /\ active = r /\ current # 0 /\ ~kicked /\ connected
              => claimed' = desired.service
BY DEF Apply

\* What is sent last, is last.
LEMMA LastSent ==
    ASSUME SessionTypes, NEW x, outbox' = Append(outbox, x)
    PROVE  outbox' # <<>> /\ outbox'[Len(outbox')] = x
BY DEF SessionTypes, SessionTypeOK, PlatformTypes

\* An application of the wish keeps what is claimed in step with what was sent.
LEMMA ApplyKeepsClaim ==
    ASSUME SessionTypes, PlatformInv, NEW r \in Rooms, NEW b, Apply(r, b, claimed),
           UNCHANGED <<link, current, active, told, mishap>>
    PROVE  ClaimNeedsRoom' /\ ClaimIsSent'
<1>1. CASE UNCHANGED <<claimed, outbox>>
    BY <1>1 DEF PlatformInv, ClaimNeedsRoom, ClaimIsSent, Up
<1>2. CASE /\ claimed' = desired.service /\ active = r
           /\ outbox' = Append(outbox, desired.service)
    <2>1. active' # NoRoom
        BY <1>2, SessionAssumption
    <2>2. ClaimIsSent'
        BY <1>2, LastSent DEF ClaimIsSent
    <2> QED BY <2>1, <2>2 DEF ClaimNeedsRoom
<1> QED BY <1>1, <1>2, ApplyEffect

\* Without a connection that is up, little is asked of the tab.
LEMMA DownKeeps ==
    ASSUME SessionTypes, PlatformInv, ~Up', claimed' \in {claimed, NoService},
           \A c \in Calls : step[c] = "settling" => step'[c] = "settling",
           UNCHANGED <<goal, active, ready, desired, timer>>
    PROVE  PlatformInv'
<1>1. ActiveSettles'
    BY DEF PlatformInv, ActiveSettles, SettlesFor
<1> QED
    BY <1>1 DEF PlatformInv, UpIsConnected, TimerIsForWish, ClaimNeedsRoom, WishIsClaimed,
        ClaimIsSent

\* Steps that leave the connection, the room and the platform alone.
LEMMA QuietKeeps ==
    ASSUME SessionTypes, PlatformInv,
           \A c \in Calls : step[c] = "settling" => step'[c] = "settling",
           UNCHANGED <<goal, link, current, active, rejoin, kicked, connected, platformVars, mishap>>
    PROVE  PlatformInv'
<1>1. ActiveSettles' /\ WishIsClaimed'
    BY DEF PlatformInv, ActiveSettles, WishIsClaimed, SettlesFor, Up, platformVars
<1> QED
    BY <1>1 DEF PlatformInv, UpIsConnected, TimerIsForWish, ClaimNeedsRoom, ClaimIsSent, Up,
        platformVars

\* A call that fails on this connection excuses what it left undone.
LEMMA MishapKeeps ==
    ASSUME PlatformInv, mishap' = TRUE, claimed' \in {claimed, NoService},
           UNCHANGED <<goal, step, link, current, active, connected, ready, desired, timer>>
    PROVE  PlatformInv'
<1>1. ActiveSettles'
    BY DEF PlatformInv, ActiveSettles, SettlesFor
<1> QED
    BY <1>1 DEF PlatformInv, UpIsConnected, TimerIsForWish, ClaimNeedsRoom, WishIsClaimed,
        ClaimIsSent, Up

\* Every step of the tab keeps track of the wish.
LEMMA PlatformStep ==
    ASSUME SessionInv, PlatformInv, [SessionNext]_sessionVars
    PROVE  PlatformInv'
<1>0. SessionTypes /\ OneConnection
    BY DEF SessionInv
<1>1. /\ joins \in 0 .. MaxJoins /\ current \in 0 .. joins /\ MaxJoins \in Nat
      /\ step \in [Calls -> StepValues] /\ goal \in [Calls -> Rooms \cup {NoRoom}]
      /\ link \in [Calls -> LinkValues]
      /\ \A j \in Calls : step[j] # "none" => goal[j] \in Rooms /\ j <= joins
    BY <1>0, SessionAssumption
    DEF SessionTypes, SessionTypeOK, TabTypes, StepValues, LinkValues, Goals
<1>2. current # 0 => current \in Calls
    BY <1>1 DEF Calls
<1>3. \A c \in Calls : step[c] = "settling" => Cut(c) = "settling"
    BY DEF Cut
<1>4. RejectCalls => claimed' \in {claimed, NoService} /\ outbox' = <<>>
    BY DEF RejectCalls
<1>5. current # 0 => CloseClient(link)[current] = "down"
    BY <1>2 DEF CloseClient
<1>6. ASSUME NEW r \in Rooms, Begin(r) PROVE PlatformInv'
    <2>1. active' = NoRoom /\ claimed' = NoService /\ timer' = NoRoom
          /\ UNCHANGED <<link, current, connected>>
        BY <1>6 DEF Begin, ClearActive
    <2> QED
        BY <2>1 DEF PlatformInv, UpIsConnected, TimerIsForWish, ActiveSettles, ClaimNeedsRoom,
            WishIsClaimed, ClaimIsSent, Up
<1>7. ASSUME NEW j \in Calls, TokenFails(j) PROVE PlatformInv'
    <2>1. \A c \in Calls : step[c] = "settling" => step'[c] = "settling"
        BY <1>1, <1>7 DEF TokenFails
    <2> QED BY <1>0, <1>7, <2>1, QuietKeeps DEF TokenFails
<1>8. ASSUME NEW j \in Calls, Install(j) PROVE PlatformInv'
    <2>1. ~Up'
        <3>1. link' = [CloseClient(link) EXCEPT ![j] = "connecting"] /\ current' = j
            BY <1>8 DEF Install
        <3>2. link'[j] = "connecting"
            BY <3>1 DEF CloseClient
        <3> QED BY <3>1, <3>2 DEF Up
    <2>2. \A c \in Calls : step[c] = "settling" => step'[c] = "settling"
        BY <1>3, <1>8 DEF Install
    <2> QED BY <1>0, <1>4, <1>8, <2>1, <2>2, DownKeeps DEF Install
<1>9. ASSUME NEW j \in Calls, Connects(j) PROVE PlatformInv'
    <2>1. connected' = TRUE /\ rejoin' = active /\ claimed' = NoService
        BY <1>9 DEF Connects, ClaimedAnew, PlatformInv, ClaimNeedsRoom
    <2>2. UNCHANGED <<goal, active, ready, desired, timer>>
        BY <1>9 DEF Connects
    <2>3. \A c \in Calls : step[c] = "settling" => step'[c] = "settling"
        BY <1>1, <1>9 DEF Connects
    <2>4. ActiveSettles'
        BY <2>2, <2>3 DEF PlatformInv, ActiveSettles, SettlesFor
    <2> QED
        BY <2>1, <2>2, <2>4 DEF PlatformInv, UpIsConnected, TimerIsForWish, ClaimNeedsRoom,
            WishIsClaimed, ClaimIsSent
<1>10. ASSUME NEW j \in Calls, TimesOut(j) PROVE PlatformInv'
    <2>1. ~Up'
        BY <1>5, <1>10 DEF TimesOut, Up
    <2>2. \A c \in Calls : step[c] = "settling" => step'[c] = "settling"
        BY <1>3, <1>10 DEF TimesOut, Waits
    <2> QED BY <1>0, <1>4, <1>10, <2>1, <2>2, DownKeeps DEF TimesOut
<1>11. ASSUME NEW j \in Calls, JoinReply(j) PROVE PlatformInv'
    <2>1. active' = goal[j] /\ goal' = goal /\ step'[j] = "settling" /\ goal[j] \in Rooms
        BY <1>1, <1>11 DEF JoinReply
    <2>2. SettlesFor(active)' /\ active' # NoRoom
        BY <2>1, SessionAssumption DEF SettlesFor
    <2> QED
        BY <1>11, <2>2 DEF JoinReply, platformVars, PlatformInv, UpIsConnected, TimerIsForWish,
            ActiveSettles, ClaimNeedsRoom, WishIsClaimed, ClaimIsSent, Up
<1>12. ASSUME NEW j \in Calls, JoinRefused(j) PROVE PlatformInv'
    <2>1. \A c \in Calls : step[c] = "settling" => step'[c] = "settling"
        BY <1>1, <1>12 DEF JoinRefused
    <2> QED BY <1>0, <1>12, <2>1, QuietKeeps DEF JoinRefused
<1>13. ASSUME NEW j \in Calls, Settles(j) PROVE PlatformInv'
    <2>1. /\ goal[j] \in Rooms /\ ready' = TRUE /\ Apply(goal[j], TRUE, claimed)
          /\ UNCHANGED <<goal, link, current, active, rejoin, kicked, connected, desired, timer,
                         told, mishap>>
        BY <1>1, <1>13 DEF Settles
    <2>2. ClaimNeedsRoom' /\ ClaimIsSent'
        BY <1>0, <2>1, ApplyKeepsClaim
    <2>3. WishIsClaimed'
        <3> SUFFICES ASSUME Up, active # NoRoom, desired.room = active, ~kicked, ~mishap,
                            timer # active, rejoin # active, claimed' # desired.service
                     PROVE  \E k \in Calls : step'[k] = "settling" /\ goal[k] = active
            BY <2>1 DEF WishIsClaimed, SettlesFor, Up
        <3>1. connected /\ current # 0
            BY DEF PlatformInv, UpIsConnected, Up
        <3>2. goal[j] # active
            BY <1>0, <2>1, <3>1, ApplyEffect
        <3>3. claimed # desired.service
            BY <1>0, <2>1, ApplyEffect
        <3>4. PICK k \in Calls : step[k] = "settling" /\ goal[k] = active
            BY <3>3 DEF PlatformInv, WishIsClaimed, SettlesFor
        <3>5. step'[k] = "settling"
            BY <1>1, <1>13, <3>2, <3>4 DEF Settles
        <3> QED BY <3>4, <3>5
    <2> QED
        BY <2>1, <2>2, <2>3 DEF PlatformInv, UpIsConnected, TimerIsForWish, ActiveSettles, Up
<1>14. ASSUME RejoinReply PROVE PlatformInv'
    <2>1. /\ rejoin \in Rooms /\ rejoin' = NoRoom /\ Apply(rejoin, ready, claimed)
          /\ UNCHANGED <<goal, step, link, current, active, kicked, connected, ready, desired,
                         timer, told, mishap>>
        BY <1>0, <1>14 DEF RejoinReply, SessionTypes, SessionTypeOK, TabTypes
    <2>2. ClaimNeedsRoom' /\ ClaimIsSent'
        BY <1>0, <2>1, ApplyKeepsClaim
    <2>3. WishIsClaimed'
        <3> SUFFICES ASSUME Up, active # NoRoom, desired.room = active, ~kicked, ~mishap,
                            timer # active, claimed' # desired.service
                     PROVE  SettlesFor(active)
            BY <2>1 DEF WishIsClaimed, SettlesFor, Up
        <3>1. connected /\ current # 0
            BY DEF PlatformInv, UpIsConnected, Up
        <3>2. rejoin = active => ~ready
            BY <1>0, <2>1, <3>1, ApplyEffect
        <3>3. claimed # desired.service
            BY <1>0, <2>1, ApplyEffect
        <3> QED BY <3>2, <3>3 DEF PlatformInv, WishIsClaimed, ActiveSettles
    <2> QED
        BY <2>1, <2>2, <2>3 DEF PlatformInv, UpIsConnected, TimerIsForWish, ActiveSettles,
            SettlesFor, Up
<1>15. ASSUME RejoinFails PROVE PlatformInv'
    BY <1>15, MishapKeeps DEF RejoinFails, platformVars
<1>16. ASSUME Lost PROVE PlatformInv'
    <2>1. ~Up'
        BY <1>1, <1>2, <1>16 DEF Lost, Up
    <2>2. \A c \in Calls : step[c] = "settling" => step'[c] = "settling"
        BY <1>3, <1>16 DEF Lost
    <2> QED BY <1>0, <1>4, <1>16, <2>1, <2>2, DownKeeps DEF Lost
<1>17. ASSUME NEW code \in {"kicked", "refused", "other"}, Terminal(code) PROVE PlatformInv'
    <2>1. ~Up'
        BY <1>5, <1>17 DEF Terminal, Up
    <2>2. \A c \in Calls : step[c] = "settling" => step'[c] = "settling"
        BY <1>3, <1>17 DEF Terminal
    <2> QED BY <1>0, <1>4, <1>17, <2>1, <2>2, DownKeeps DEF Terminal
<1>18. ASSUME Resync PROVE PlatformInv'
    <2>1. ~Up'
        BY <1>1, <1>2, <1>18 DEF Resync, Up
    <2> QED BY <1>0, <1>18, <2>1, DownKeeps DEF Resync, platformVars
<1>19. ASSUME NEW s \in Services, Want(s) PROVE PlatformInv'
    <2>1. /\ timer' = goal[joins] /\ desired' = Wish(goal[joins], s)
          /\ UNCHANGED <<goal, step, link, current, active, rejoin, kicked, connected, ready, told,
                         claimed, outbox, mishap>>
        BY <1>19 DEF Want, tabVars
    <2>2. TimerIsForWish' /\ WishIsClaimed'
        BY <2>1 DEF TimerIsForWish, WishIsClaimed, Wish
    <2> QED
        BY <2>1, <2>2 DEF PlatformInv, UpIsConnected, ActiveSettles, ClaimNeedsRoom, ClaimIsSent,
            SettlesFor, Up
<1>20. ASSUME TimerFires PROVE PlatformInv'
    <2>1. /\ timer \in Rooms /\ timer' = NoRoom /\ Apply(timer, ready, claimed)
          /\ UNCHANGED <<goal, step, link, current, active, rejoin, kicked, connected, ready,
                         desired, told, mishap>>
        BY <1>0, <1>20 DEF TimerFires, tabVars, SessionTypes, SessionTypeOK, PlatformTypes
    <2>2. ClaimNeedsRoom' /\ ClaimIsSent'
        BY <1>0, <2>1, ApplyKeepsClaim
    <2>3. WishIsClaimed'
        <3> SUFFICES ASSUME Up, active # NoRoom, desired.room = active, ~kicked, ~mishap,
                            rejoin # active, claimed' # desired.service
                     PROVE  SettlesFor(active)
            BY <2>1 DEF WishIsClaimed, SettlesFor, Up
        <3>1. connected /\ current # 0
            BY DEF PlatformInv, UpIsConnected, Up
        <3>2. timer = active => ~ready
            BY <1>0, <2>1, <3>1, ApplyEffect
        <3>3. claimed # desired.service
            BY <1>0, <2>1, ApplyEffect
        <3> QED BY <3>2, <3>3 DEF PlatformInv, WishIsClaimed, ActiveSettles
    <2> QED
        BY <2>1, <2>2, <2>3 DEF PlatformInv, UpIsConnected, TimerIsForWish, ActiveSettles,
            SettlesFor, Up
<1>21. ASSUME PlatformSet PROVE PlatformInv'
    <2>1. /\ outbox \in Seq(Services) /\ outbox # <<>>
          /\ told' = Head(outbox) /\ outbox' = Tail(outbox)
          /\ UNCHANGED <<goal, step, link, current, active, rejoin, kicked, connected, ready,
                         desired, timer, claimed, mishap>>
        BY <1>0, <1>21 DEF PlatformSet, tabVars, SessionTypes, SessionTypeOK, PlatformTypes
    <2>2. IF outbox' = <<>> THEN told' = outbox[Len(outbox)]
          ELSE outbox'[Len(outbox')] = outbox[Len(outbox)]
        <3>1. /\ Len(outbox) \in Nat /\ Len(outbox) # 0 /\ Len(outbox') = Len(outbox) - 1
              /\ told' = outbox[1] /\ \A i \in 1 .. Len(outbox) - 1 : outbox'[i] = outbox[i + 1]
            BY <2>1
        <3>2. CASE Len(outbox) = 1
            BY <2>1, <3>1, <3>2
        <3>3. CASE Len(outbox) # 1
            <4>1. outbox' # <<>> /\ Len(outbox) - 1 \in 1 .. Len(outbox) - 1
                BY <3>1, <3>3
            <4> QED BY <3>1, <4>1
        <3> QED BY <3>2, <3>3
    <2>3. ClaimIsSent'
        BY <2>1, <2>2 DEF PlatformInv, ClaimIsSent, Up
    <2> QED
        BY <2>1, <2>3 DEF PlatformInv, UpIsConnected, TimerIsForWish, ActiveSettles,
            ClaimNeedsRoom, WishIsClaimed, SettlesFor, Up
<1>22. ASSUME PlatformRefused PROVE PlatformInv'
    BY <1>22, MishapKeeps DEF PlatformRefused, Unclaimed, tabVars
<1>23. ASSUME UNCHANGED sessionVars PROVE PlatformInv'
    BY <1>0, <1>23, QuietKeeps DEF sessionVars, tabVars
<1> QED
    BY <1>6, <1>7, <1>8, <1>9, <1>10, <1>11, <1>12, <1>13, <1>14, <1>15, <1>16, <1>17, <1>18,
        <1>19, <1>20, <1>21, <1>22, <1>23 DEF SessionNext

\* At rest the server shows the service the person wants (applyDesiredPlatform), however
\* changes, drops and joins were ordered, unless a call of this connection failed.
THEOREM WishArrives == SessionSpec => []PlatformArrives
<1>1. SessionInit => PlatformInv
    <2>1. SessionInit => ~Up
        BY DEF SessionInit, Up
    <2> QED
        BY <2>1 DEF SessionInit, PlatformInv, UpIsConnected, TimerIsForWish, ActiveSettles,
            ClaimNeedsRoom, WishIsClaimed, ClaimIsSent
<1>2. SessionInv /\ PlatformInv => PlatformArrives
    <2> SUFFICES ASSUME SessionInv, PlatformInv, AtRest, active # NoRoom, desired.room = active,
                        ~kicked, ~mishap
                 PROVE  told = desired.service
        BY DEF PlatformArrives
    <2>1. ~SettlesFor(active) /\ Up /\ outbox = <<>> /\ timer = NoRoom /\ rejoin = NoRoom
        BY DEF AtRest, SettlesFor
    <2>2. claimed = desired.service
        BY <2>1 DEF PlatformInv, WishIsClaimed
    <2>3. desired.service \in Services
        BY SessionAssumption DEF SessionInv, SessionTypes, Wishes, NoWish, Wish
    <2> QED BY <2>1, <2>2, <2>3, SessionAssumption DEF PlatformInv, ClaimIsSent
<1> QED BY <1>1, <1>2, SessionInitInv, SessionInvStep, PlatformStep, PTL DEF SessionSpec

-----------------------------------------------------------------------------
(* The queue panel *)

\* A window that was opened has a track.
WindowsHaveTracks == \A w \in Windows : undoTimer[w] # "none" => target[w] \in Tracks

\* Why Undo reaches an armed timer: a queue.remove under way keeps its handle and its
\* row as well, so a reply can only take away its own; a window of a panel that was
\* closed touches neither.
WindowReached(w) ==
    \/ timersRef[target[w]] = w /\ target[w] \in removing
    \/ target[w] \in revived
WindowsReached == \A w \in Windows \ orphans : undoTimer[w] \in {"armed", "sent"} => WindowReached(w)

\* For a track whose calls are not muddled, the button and the count say the same as
\* long as no call for it is under way, or the call has not been counted; and the one
\* call there can be leaves both at what it asked for.
Agreed(t) == t \in queued => (t \in myVotes <=> t \in counted)
CallFits(v) ==
    IF v.done THEN v.track \in queued => (v.press <=> v.track \in counted)
    ELSE Agreed(v.track) /\ (v.press <=> v.track \notin myVotes)
VotesFit ==
    /\ counted \subseteq queued
    /\ \A t \in Tracks \ muddled : (\A v \in votes : v.track # t) => Agreed(t)
    /\ \A v \in votes : v.track \notin muddled =>
           CallFits(v) /\ \A w \in votes : w.track = v.track => w = v

PanelInv == PanelTypeOK /\ WindowsHaveTracks /\ WindowsReached /\ VotesFit

UndoTypes ==
    /\ windows \in 0 .. MaxWindows
    /\ target \in [Windows -> Tracks \cup {NoTrack}]
    /\ undoTimer \in [Windows -> {"none", "armed", "sent", "over"}]
    /\ timersRef \in [Tracks -> 0 .. windows]
    /\ removing \in SUBSET Tracks /\ revived \in SUBSET Tracks /\ orphans \subseteq Windows
    /\ WindowsHaveTracks

RoomTypes == queued \subseteq Tracks /\ playing \in queued \cup {NoTrack} /\ counted \subseteq Tracks
ShownTypes == shownQueue \subseteq Tracks /\ shownPlaying \in shownQueue \cup {NoTrack}
VoteTypes ==
    /\ toggles \in 0 .. MaxToggles /\ myVotes \subseteq Tracks /\ muddled \subseteq Tracks
    /\ votes \subseteq [n : 1 .. MaxToggles, track : Tracks, press : BOOLEAN, done : BOOLEAN]

\* The parts of the types, each of which a few actions disturb.
LEMMA Parts ==
    (PanelTypeOK /\ WindowsHaveTracks)
      <=> (UndoTypes /\ RoomTypes /\ ShownTypes /\ VoteTypes /\ panelFaults \in 0 .. MaxPanelFaults)
BY DEF PanelTypeOK, UndoTypes, RoomTypes, ShownTypes, VoteTypes

\* A panel that was just opened has no window, no timer and no vote.
LEMMA PanelInitInv == PanelInit => PanelInv
<1> SUFFICES ASSUME PanelInit PROVE PanelInv
    OBVIOUS
<1>1. UndoTypes
    BY PanelAssumption DEF PanelInit, UndoTypes, WindowsHaveTracks
<1>2. RoomTypes /\ ShownTypes
    BY DEF PanelInit, RoomTypes, ShownTypes
<1>3. VoteTypes
    BY PanelAssumption DEF PanelInit, VoteTypes
<1>4. panelFaults \in 0 .. MaxPanelFaults
    BY PanelAssumption DEF PanelInit
<1>5. WindowsReached
    BY DEF PanelInit, WindowsReached
<1>6. VotesFit
    BY DEF PanelInit, VotesFit, Agreed
<1> QED BY <1>1, <1>2, <1>3, <1>4, <1>5, <1>6, Parts DEF PanelInv

-----------------------------------------------------------------------------
(* What the panel's own steps do to the windows *)

\* Forgetting a track whose handle names one window, or none that is open.
LEMMA ForgetKeeps ==
    ASSUME UndoTypes, WindowsReached, NEW t \in Tracks, Forget(t),
           UNCHANGED <<windows, target, orphans>>,
           revived \subseteq revived', revived' \subseteq Tracks,
           undoTimer' \in [Windows -> {"none", "armed", "sent", "over"}],
           \A w \in Windows \ orphans : undoTimer'[w] \in {"armed", "sent"} =>
               /\ undoTimer[w] \in {"armed", "sent"}
               /\ target[w] = t => timersRef[t] # w \/ t \in revived',
           \A w \in Windows : undoTimer[w] = "none" => undoTimer'[w] = "none"
    PROVE  UndoTypes' /\ WindowsReached'
<1>1. UndoTypes'
    BY DEF UndoTypes, WindowsHaveTracks, Forget
<1>2. ASSUME NEW w \in Windows \ orphans, undoTimer'[w] \in {"armed", "sent"}
      PROVE  WindowReached(w)'
    <2>1. undoTimer[w] \in {"armed", "sent"} /\ WindowReached(w)
        BY <1>2 DEF WindowsReached
    <2>2. CASE target[w] = t
        BY <1>2, <2>1, <2>2 DEF WindowReached
    <2>3. CASE target[w] # t
        BY <2>1, <2>3 DEF WindowReached, Forget, UndoTypes, WindowsHaveTracks
    <2> QED BY <2>2, <2>3
<1> QED BY <1>1, <1>2 DEF WindowsReached

\* Undo, and the start of a track: the window the handle names is stopped, and a
\* track whose removal is under way counts as revived.
LEMMA StopKeeps ==
    ASSUME UndoTypes, WindowsReached, NEW t \in Tracks, Forget(t), Stop(timersRef[t]),
           UNCHANGED <<windows, target, orphans>>, revived' = Revive(t)
    PROVE  UndoTypes' /\ WindowsReached'
<1>1. undoTimer' \in [Windows -> {"none", "armed", "sent", "over"}]
    BY DEF Stop, UndoTypes
<1>2. revived \subseteq revived' /\ revived' \subseteq Tracks
    BY DEF Revive, UndoTypes
<1>3. ASSUME NEW w \in Windows \ orphans, undoTimer'[w] \in {"armed", "sent"}
      PROVE  /\ undoTimer[w] \in {"armed", "sent"}
             /\ target[w] = t => timersRef[t] # w \/ t \in revived'
    <2>1. undoTimer[w] = undoTimer'[w] /\ (timersRef[t] = w => undoTimer[w] # "armed")
        BY <1>3 DEF Stop
    <2>2. undoTimer[w] = "sent" /\ target[w] = t => t \in revived'
        BY DEF Revive
    <2> QED BY <1>3, <2>1, <2>2
<1>4. \A w \in Windows : undoTimer[w] = "none" => undoTimer'[w] = "none"
    BY DEF Stop
<1> QED BY <1>1, <1>2, <1>3, <1>4, ForgetKeeps

\* The end of window w, with its cleanup.
LEMMA OverKeeps ==
    ASSUME UndoTypes, WindowsReached, NEW w \in Windows, undoTimer[w] \in {"armed", "sent"},
           undoTimer' = [undoTimer EXCEPT ![w] = "over"], Cleanup(w),
           UNCHANGED <<windows, target, revived, orphans>>
    PROVE  UndoTypes' /\ WindowsReached'
<1>1. target[w] \in Tracks
    BY DEF UndoTypes, WindowsHaveTracks
<1>2. undoTimer' \in [Windows -> {"none", "armed", "sent", "over"}]
    BY DEF UndoTypes
<1>3. ASSUME NEW v \in Windows
      PROVE  /\ undoTimer'[v] \in {"armed", "sent"} => v # w /\ undoTimer'[v] = undoTimer[v]
             /\ undoTimer[v] = "none" => undoTimer'[v] = "none"
    BY DEF UndoTypes
<1>4. CASE w \in orphans
    <2>1. UNCHANGED <<windows, target, revived, orphans, timersRef, removing>>
        BY <1>4 DEF Cleanup
    <2>2. UndoTypes'
        BY <1>2, <1>3, <2>1 DEF UndoTypes, WindowsHaveTracks
    <2> QED BY <1>3, <2>1, <2>2 DEF WindowsReached, WindowReached
<1>5. CASE w \notin orphans
    <2>1. Forget(target[w]) /\ WindowReached(w)
        BY <1>5 DEF Cleanup, WindowsReached
    <2>2. ASSUME NEW v \in Windows \ orphans, undoTimer'[v] \in {"armed", "sent"}
          PROVE  /\ undoTimer[v] \in {"armed", "sent"}
                 /\ target[v] = target[w] => timersRef[target[w]] # v \/ target[w] \in revived'
        BY <1>3, <2>1, <2>2 DEF WindowReached
    <2>3. revived \subseteq revived' /\ revived' \subseteq Tracks
        BY DEF UndoTypes
    <2> QED BY <1>1, <1>2, <1>3, <2>1, <2>2, <2>3, ForgetKeeps
<1> QED BY <1>4, <1>5

-----------------------------------------------------------------------------

\* A step of the panel keeps its timers and the reach of Undo.
LEMMA WindowsStep ==
    ASSUME PanelInv, [PanelNext]_panelVars
    PROVE  UndoTypes' /\ WindowsReached'
<1>0. UndoTypes /\ WindowsReached /\ ShownTypes /\ RoomTypes
    BY Parts DEF PanelInv
<1>1. ASSUME UNCHANGED windowVars PROVE UndoTypes' /\ WindowsReached'
    BY <1>0, <1>1 DEF windowVars, UndoTypes, WindowsHaveTracks, WindowsReached, WindowReached
<1>2. ASSUME RoomMovesOn PROVE UndoTypes' /\ WindowsReached'
    BY <1>1, <1>2 DEF RoomMovesOn
<1>3. ASSUME StateArrives PROVE UndoTypes' /\ WindowsReached'
    <2>1. CASE UNCHANGED <<undoTimer, timersRef, removing, revived>>
        BY <1>1, <1>3, <2>1 DEF StateArrives, windowVars
    <2>2. CASE ~UNCHANGED <<undoTimer, timersRef, removing, revived>>
        <3>1. /\ playing # NoTrack /\ Stop(timersRef[playing]) /\ Forget(playing)
              /\ revived' = Revive(playing) /\ UNCHANGED <<windows, target, orphans>>
            BY <1>3, <2>2 DEF StateArrives, CancelOnPlay
        <3>2. playing \in Tracks
            BY <1>0, <3>1 DEF RoomTypes
        <3> QED BY <1>0, <3>1, <3>2, StopKeeps
    <2> QED BY <2>1, <2>2
<1>4. ASSUME NEW t \in Tracks, HandleRemove(t) PROVE UndoTypes' /\ WindowsReached'
    <2>1. windows' \in Windows /\ windows' = windows + 1 /\ windows \in 0 .. MaxWindows
        BY <1>0, <1>4, PanelAssumption DEF HandleRemove, UndoTypes, Windows
    <2>2. UndoTypes'
        <3>1. timersRef' \in [Tracks -> 0 .. windows']
            BY <1>0, <1>4, <2>1 DEF HandleRemove, UndoTypes
        <3> QED BY <1>0, <1>4, <2>1, <3>1 DEF HandleRemove, UndoTypes, WindowsHaveTracks, Windows
    <2>3. ASSUME NEW w \in Windows \ orphans, undoTimer'[w] \in {"armed", "sent"}
          PROVE  WindowReached(w)'
        <3>1. CASE w = windows'
            BY <1>0, <1>4, <2>1, <3>1 DEF HandleRemove, UndoTypes, WindowReached
        <3>2. CASE w # windows'
            <4>1. undoTimer[w] \in {"armed", "sent"} /\ WindowReached(w) /\ target'[w] = target[w]
                BY <1>0, <1>4, <2>3, <3>2 DEF HandleRemove, UndoTypes, WindowsReached
            <4>2. target[w] \in Tracks
                BY <1>0, <4>1 DEF UndoTypes, WindowsHaveTracks
            <4>3. CASE target[w] = t
                BY <1>4, <4>1, <4>3 DEF HandleRemove, Ignored, WindowReached
            <4>4. CASE target[w] # t
                BY <1>0, <1>4, <4>1, <4>2, <4>4 DEF HandleRemove, UndoTypes, WindowReached
            <4> QED BY <4>3, <4>4
        <3> QED BY <3>1, <3>2
    <2>4. orphans' = orphans
        BY <1>4 DEF HandleRemove
    <2> QED BY <2>2, <2>3, <2>4 DEF WindowsReached
<1>5. ASSUME NEW t \in Tracks, HandleUndo(t) PROVE UndoTypes' /\ WindowsReached'
    BY <1>0, <1>5, StopKeeps DEF HandleUndo
<1>6. ASSUME NEW t \in Tracks, HandleVote(t) PROVE UndoTypes' /\ WindowsReached'
    BY <1>1, <1>6 DEF HandleVote
<1>7. ASSUME NEW w \in Windows, UndoWindowEnds(w) PROVE UndoTypes' /\ WindowsReached'
    <2>1. CASE shownPlaying = target[w]
        BY <1>0, <1>7, <2>1, OverKeeps DEF UndoWindowEnds
    <2>2. CASE shownPlaying # target[w]
        BY <1>0, <1>7, <2>2 DEF UndoWindowEnds, UndoTypes, WindowsHaveTracks, WindowsReached,
            WindowReached
    <2> QED BY <2>1, <2>2
<1>8. ASSUME NEW w \in Windows, RemoveReplied(w) \/ RemoveFails(w)
      PROVE  UndoTypes' /\ WindowsReached'
    BY <1>0, <1>8, OverKeeps DEF RemoveReplied, RemoveFails
<1>9. ASSUME NEW v \in votes, VoteCounted(v) \/ VoteReplied(v)
      PROVE  UndoTypes' /\ WindowsReached'
    BY <1>1, <1>9 DEF VoteCounted, VoteReplied
<1>10. ASSUME NEW guest \in BOOLEAN, PanelDrop(guest) PROVE UndoTypes' /\ WindowsReached'
    <2> DEFINE cut == {target[w] : w \in {v \in Windows \ orphans : undoTimer[v] = "sent"}}
    <2>1. /\ undoTimer' = [w \in Windows |-> IF undoTimer[w] = "sent" THEN "over" ELSE undoTimer[w]]
          /\ timersRef' = [t \in Tracks |-> IF t \in cut THEN 0 ELSE timersRef[t]]
          /\ removing' = removing \ cut
          /\ UNCHANGED <<windows, target, revived, orphans>>
        BY <1>10 DEF PanelDrop
    <2>2. \A w \in Windows \ orphans : undoTimer'[w] \in {"armed", "sent"} =>
              /\ undoTimer[w] = "armed" /\ WindowReached(w)
              /\ target[w] \in cut => target[w] \in revived
        <3> SUFFICES ASSUME NEW w \in Windows \ orphans, undoTimer'[w] \in {"armed", "sent"}
                     PROVE  /\ undoTimer[w] = "armed" /\ WindowReached(w)
                            /\ target[w] \in cut => target[w] \in revived
            OBVIOUS
        <3>1. undoTimer[w] = "armed" /\ WindowReached(w)
            BY <1>0, <2>1 DEF WindowsReached
        <3>2. ASSUME target[w] \in cut PROVE target[w] \in revived
            <4>1. PICK v \in Windows \ orphans : undoTimer[v] = "sent" /\ target[v] = target[w]
                BY <3>2
            <4>2. WindowReached(v) /\ v # w
                BY <1>0, <3>1, <4>1 DEF WindowsReached
            <4> QED BY <3>1, <4>1, <4>2 DEF WindowReached
        <3> QED BY <3>1, <3>2
    <2> HIDE DEF cut
    <2>3. UndoTypes'
        BY <1>0, <2>1 DEF UndoTypes, WindowsHaveTracks
    <2>4. WindowsReached'
        BY <1>0, <2>1, <2>2 DEF WindowsReached, WindowReached, UndoTypes, WindowsHaveTracks
    <2> QED BY <2>3, <2>4
<1>11. ASSUME Reload PROVE UndoTypes' /\ WindowsReached'
    BY <1>0, <1>11 DEF Reload, UndoTypes, WindowsHaveTracks, WindowsReached
<1>12. ASSUME Remount PROVE UndoTypes' /\ WindowsReached'
    <2>1. \A w \in Windows \ orphans' : undoTimer'[w] \notin {"armed", "sent"}
        BY <1>12 DEF Remount
    <2>2. UndoTypes'
        BY <1>0, <1>12 DEF Remount, UndoTypes, WindowsHaveTracks
    <2> QED BY <2>1, <2>2 DEF WindowsReached
<1>13. ASSUME UNCHANGED panelVars PROVE UndoTypes' /\ WindowsReached'
    BY <1>1, <1>13 DEF panelVars
<1> QED
    BY <1>2, <1>3, <1>4, <1>5, <1>6, <1>7, <1>8, <1>9, <1>10, <1>11, <1>12, <1>13 DEF PanelNext

-----------------------------------------------------------------------------
(* The other types *)

\* Starting the next track keeps the types of the room.
LEMMA PlayNextTypes ==
    ASSUME RoomTypes, NEW t \in Tracks \cup {NoTrack}, PlayNext(t)
    PROVE  RoomTypes'
BY DEF RoomTypes, PlayNext

\* A step keeps the types of the room and of the queue that is shown.
LEMMA RoomTypesStep ==
    ASSUME PanelInv, [PanelNext]_panelVars
    PROVE  RoomTypes' /\ ShownTypes'
<1> DEFINE Goal == RoomTypes' /\ ShownTypes'
<1>0. RoomTypes /\ ShownTypes /\ VoteTypes
    BY Parts DEF PanelInv
<1>1. ASSUME UNCHANGED <<roomVars, shownVars>> PROVE Goal
    BY <1>0, <1>1 DEF roomVars, shownVars, RoomTypes, ShownTypes
<1>2. UNCHANGED shownVars => ShownTypes'
    BY <1>0 DEF shownVars, ShownTypes
<1>3. ASSUME RoomMovesOn PROVE Goal
    <2>1. CASE \E t \in Tracks \cup {NoTrack} : PlayNext(t)
        BY <1>0, <1>2, <1>3, <2>1, PlayNextTypes DEF RoomMovesOn
    <2>2. CASE \E t \in Tracks : DropTrack(t)
        BY <1>0, <1>2, <1>3, <2>2 DEF RoomMovesOn, DropTrack, RoomTypes
    <2> QED BY <1>3, <2>1, <2>2 DEF RoomMovesOn
<1>4. ASSUME StateArrives PROVE Goal
    BY <1>0, <1>4 DEF StateArrives, roomVars, RoomTypes, ShownTypes
<1>5. ASSUME NEW t \in Tracks, HandleRemove(t) \/ HandleUndo(t) \/ HandleVote(t) PROVE Goal
    BY <1>1, <1>5 DEF HandleRemove, HandleUndo, HandleVote
<1>6. ASSUME NEW w \in Windows, UndoWindowEnds(w) \/ RemoveFails(w) PROVE Goal
    BY <1>1, <1>6 DEF UndoWindowEnds, RemoveFails
<1>7. ASSUME NEW w \in Windows, RemoveReplied(w) PROVE Goal
    <2>1. CASE \E t \in Tracks \cup {NoTrack} : PlayNext(t)
        BY <1>0, <1>2, <1>7, <2>1, PlayNextTypes DEF RemoveReplied
    <2>2. CASE /\ target[w] # playing
               /\ queued' = queued \ {target[w]} /\ counted' = counted \ {target[w]}
               /\ UNCHANGED playing
        BY <1>0, <1>2, <1>7, <2>2 DEF RemoveReplied, RoomTypes
    <2> QED BY <1>7, <2>1, <2>2 DEF RemoveReplied
<1>8. ASSUME NEW v \in votes, VoteCounted(v) PROVE Goal
    BY <1>0, <1>2, <1>8 DEF VoteCounted, Toggle, RoomTypes, VoteTypes
<1>9. ASSUME NEW v \in votes, VoteReplied(v) PROVE Goal
    BY <1>1, <1>9 DEF VoteReplied
<1>10. ASSUME NEW guest \in BOOLEAN, PanelDrop(guest) PROVE Goal
    BY <1>0, <1>2, <1>10 DEF PanelDrop, RoomTypes
<1>11. ASSUME Reload PROVE Goal
    BY <1>0, <1>11 DEF Reload, roomVars, RoomTypes, ShownTypes
<1>12. ASSUME Remount \/ UNCHANGED panelVars PROVE Goal
    BY <1>1, <1>12 DEF Remount, panelVars
<1> QED
    BY <1>3, <1>4, <1>5, <1>6, <1>7, <1>8, <1>9, <1>10, <1>11, <1>12 DEF PanelNext

\* A step keeps the types of the votes and of the calls about them.
LEMMA VoteTypesStep ==
    ASSUME PanelInv, [PanelNext]_panelVars
    PROVE  VoteTypes' /\ panelFaults' \in 0 .. MaxPanelFaults
<1> DEFINE Goal == VoteTypes' /\ panelFaults' \in 0 .. MaxPanelFaults
<1>0. RoomTypes /\ ShownTypes /\ VoteTypes /\ panelFaults \in 0 .. MaxPanelFaults
    BY Parts DEF PanelInv
<1>1. UNCHANGED voteVars => VoteTypes'
    BY <1>0 DEF voteVars, VoteTypes
<1>2. PanelFault => panelFaults' \in 0 .. MaxPanelFaults
    BY <1>0, PanelAssumption DEF PanelFault
<1>3. ASSUME RoomMovesOn \/ StateArrives PROVE Goal
    BY <1>0, <1>1, <1>3 DEF RoomMovesOn, StateArrives
<1>4. ASSUME NEW t \in Tracks, HandleRemove(t) \/ HandleUndo(t) PROVE Goal
    BY <1>0, <1>1, <1>4 DEF HandleRemove, HandleUndo
<1>5. ASSUME NEW t \in Tracks, HandleVote(t) PROVE Goal
    <2>1. toggles' \in 1 .. MaxToggles
        BY <1>0, <1>5, PanelAssumption DEF HandleVote, VoteTypes
    <2>2. muddled' \subseteq Tracks
        BY <1>0, <1>5 DEF HandleVote, VoteTypes
    <2>3. ASSUME NEW b \in BOOLEAN
          PROVE  [n |-> toggles', track |-> t, press |-> b, done |-> FALSE]
                   \in [n : 1 .. MaxToggles, track : Tracks, press : BOOLEAN, done : BOOLEAN]
        BY <2>1
    <2>4. votes' \subseteq [n : 1 .. MaxToggles, track : Tracks, press : BOOLEAN, done : BOOLEAN]
        <3> DEFINE vote == [n |-> toggles', track |-> t, press |-> t \notin myVotes, done |-> FALSE]
                   Votes == [n : 1 .. MaxToggles, track : Tracks, press : BOOLEAN, done : BOOLEAN]
        <3>1. votes' = votes \cup {vote}
            BY <1>5 DEF HandleVote
        <3>2. (t \notin myVotes) \in BOOLEAN
            OBVIOUS
        <3>3. vote \in Votes
            BY <2>3, <3>2, Zenon
        <3>4. votes \subseteq Votes
            BY <1>0 DEF VoteTypes
        <3> HIDE DEF vote, Votes
        <3>5. votes' \subseteq Votes
            BY <3>1, <3>3, <3>4
        <3> QED BY <3>5 DEF Votes
    <2> QED BY <1>0, <1>5, <2>1, <2>2, <2>4 DEF HandleVote, VoteTypes
<1>6. ASSUME NEW w \in Windows, UndoWindowEnds(w) \/ RemoveReplied(w) \/ RemoveFails(w) PROVE Goal
    BY <1>0, <1>1, <1>2, <1>6 DEF UndoWindowEnds, RemoveReplied, RemoveFails
<1>7. ASSUME NEW v \in votes, VoteCounted(v) PROVE Goal
    <2>1. v \in [n : 1 .. MaxToggles, track : Tracks, press : BOOLEAN, done : BOOLEAN]
        BY <1>0 DEF VoteTypes
    <2>2. [v EXCEPT !.done = TRUE]
            \in [n : 1 .. MaxToggles, track : Tracks, press : BOOLEAN, done : BOOLEAN]
        BY <2>1
    <2>3. votes' \subseteq votes \cup {[v EXCEPT !.done = TRUE]}
        BY <1>7 DEF VoteCounted
    <2> QED BY <1>0, <1>7, <2>2, <2>3 DEF VoteCounted, VoteTypes
<1>8. ASSUME NEW v \in votes, VoteReplied(v) PROVE Goal
    BY <1>0, <1>8 DEF VoteReplied, MarkVoted, VoteTypes
<1>9. ASSUME NEW guest \in BOOLEAN, PanelDrop(guest) PROVE Goal
    BY <1>0, <1>2, <1>9 DEF PanelDrop, CallsLost, VoteTypes, RoomTypes
<1>10. ASSUME Reload PROVE Goal
    BY <1>0, <1>2, <1>10 DEF Reload, CallsLost, Restored, VoteTypes
<1>11. ASSUME Remount \/ UNCHANGED panelVars PROVE Goal
    BY <1>0, <1>1, <1>11 DEF Remount, panelVars
<1> QED
    BY <1>3, <1>4, <1>5, <1>6, <1>7, <1>8, <1>9, <1>10, <1>11 DEF PanelNext

-----------------------------------------------------------------------------
(* The votes *)

\* Tracks leave the queue with their votes; none comes back.
LEMMA LeavingKeepsVotes ==
    ASSUME VotesFit, NEW gone, queued' = queued \ gone, counted' = counted \ gone,
           UNCHANGED <<votes, myVotes, muddled>>
    PROVE  VotesFit'
BY DEF VotesFit, CallFits, Agreed

\* Losing every call under way leaves the tracks that no call was about.
LEMMA LosingKeepsVotes ==
    ASSUME VotesFit, VoteTypes, NEW pruned, CallsLost(pruned), myVotes' = myVotes,
           queued' = queued, counted' = counted \ pruned
    PROVE  VotesFit'
<1>1. counted' \subseteq queued' /\ votes' = {}
    BY DEF VotesFit, CallsLost
<1>2. ASSUME NEW t \in Tracks, t \notin muddled' PROVE Agreed(t)'
    <2>1. t \notin muddled /\ t \notin pruned /\ \A v \in votes : v.track # t
        BY <1>2 DEF CallsLost
    <2> QED BY <2>1 DEF VotesFit, Agreed
<1> QED BY <1>1, <1>2 DEF VotesFit

\* Every step of the page and of the room keeps the votes in order.
LEMMA VotesStep ==
    ASSUME PanelInv, [PanelNext]_panelVars
    PROVE  VotesFit'
<1>0. VotesFit /\ VoteTypes /\ RoomTypes
    BY Parts DEF PanelInv
<1>1. ASSUME UNCHANGED <<queued, counted, votes, myVotes, muddled>> PROVE VotesFit'
    BY <1>0, <1>1 DEF VotesFit, CallFits, Agreed
<1>2. ASSUME NEW t \in Tracks \cup {NoTrack}, PlayNext(t), UNCHANGED voteVars PROVE VotesFit'
    <2>1. /\ queued' = queued \ {playing} /\ counted' = counted \ {playing}
          /\ UNCHANGED <<votes, myVotes, muddled>>
        BY <1>2 DEF PlayNext, voteVars
    <2> QED BY <1>0, <2>1, LeavingKeepsVotes
<1>3. ASSUME NEW t \in Tracks, queued' = queued \ {t}, counted' = counted \ {t},
             UNCHANGED voteVars
      PROVE  VotesFit'
    <2>1. UNCHANGED <<votes, myVotes, muddled>>
        BY <1>3 DEF voteVars
    <2> QED BY <1>0, <1>3, <2>1, LeavingKeepsVotes
<1>4. ASSUME RoomMovesOn PROVE VotesFit'
    BY <1>2, <1>3, <1>4 DEF RoomMovesOn, DropTrack
<1>5. ASSUME StateArrives PROVE VotesFit'
    BY <1>1, <1>5 DEF StateArrives, roomVars, voteVars
<1>6. ASSUME NEW t \in Tracks, HandleRemove(t) \/ HandleUndo(t) PROVE VotesFit'
    BY <1>1, <1>6 DEF HandleRemove, HandleUndo, roomVars, voteVars
<1>7. ASSUME NEW t \in Tracks, HandleVote(t) PROVE VotesFit'
    <2> DEFINE vote == [n |-> toggles', track |-> t, press |-> t \notin myVotes, done |-> FALSE]
    <2>1. /\ votes' = votes \cup {vote} /\ UNCHANGED <<queued, counted, myVotes>>
          /\ muddled' = IF \E v \in votes : v.track = t THEN muddled \cup {t} ELSE muddled
        BY <1>7 DEF HandleVote, roomVars
    <2>2. vote.track = t /\ vote.done = FALSE /\ (vote.press <=> t \notin myVotes)
        OBVIOUS
    <2> HIDE DEF vote
    <2>3. muddled \subseteq muddled' /\ (t \notin muddled' => \A v \in votes : v.track # t)
        BY <2>1
    <2>4. t \notin muddled' => Agreed(t)
        BY <1>0, <2>3 DEF VotesFit
    <2>5. t \notin muddled' => CallFits(vote)
        BY <2>2, <2>4 DEF CallFits
    <2>6. ASSUME NEW v \in votes', v.track \notin muddled'
          PROVE  CallFits(v) /\ \A w \in votes' : w.track = v.track => w = v
        BY <1>0, <2>1, <2>2, <2>3, <2>5, <2>6 DEF VotesFit
    <2>7. ASSUME NEW u \in Tracks \ muddled', \A v \in votes' : v.track # u PROVE Agreed(u)
        BY <1>0, <2>1, <2>3, <2>7 DEF VotesFit
    <2> QED BY <1>0, <2>1, <2>6, <2>7 DEF VotesFit, CallFits, Agreed
<1>8. ASSUME NEW w \in Windows, UndoWindowEnds(w) \/ RemoveFails(w) PROVE VotesFit'
    BY <1>1, <1>8 DEF UndoWindowEnds, RemoveFails, roomVars, voteVars
<1>9. ASSUME NEW w \in Windows, RemoveReplied(w) PROVE VotesFit'
    <2>1. CASE \E t \in Tracks \cup {NoTrack} : PlayNext(t)
        BY <1>2, <1>9, <2>1 DEF RemoveReplied
    <2>2. CASE queued' = queued \ {target[w]} /\ counted' = counted \ {target[w]}
        <3>1. UNCHANGED <<votes, myVotes, muddled>>
            BY <1>9 DEF RemoveReplied, voteVars
        <3> QED BY <1>0, <2>2, <3>1, LeavingKeepsVotes
    <2> QED BY <1>9, <2>1, <2>2 DEF RemoveReplied
<1>10. ASSUME NEW v \in votes, VoteCounted(v) PROVE VotesFit'
    <2>1. ~v.done /\ UNCHANGED <<queued, myVotes, muddled>>
        BY <1>10 DEF VoteCounted
    <2>2. CASE v.track \notin queued
        <3>1. votes' = votes \ {v} /\ counted' = counted
            BY <1>10, <2>2 DEF VoteCounted
        <3> QED BY <1>0, <2>1, <2>2, <3>1 DEF VotesFit, CallFits, Agreed
    <2>3. CASE v.track \in queued
        <3> DEFINE reported == [v EXCEPT !.done = TRUE]
        <3>1. /\ votes' = (votes \ {v}) \cup {reported}
              /\ counted' = IF v.track \in counted THEN counted \ {v.track}
                            ELSE counted \cup {v.track}
            BY <1>10, <2>3 DEF VoteCounted, Toggle
        <3>2. v \in [n : 1 .. MaxToggles, track : Tracks, press : BOOLEAN, done : BOOLEAN]
            BY <1>0 DEF VoteTypes
        <3>3. reported.track = v.track /\ reported.press = v.press /\ reported.done = TRUE
            BY <3>2
        <3> HIDE DEF reported
        <3>4. \A t : t # v.track => (t \in counted' <=> t \in counted)
            BY <3>1
        <3>5. v.track \in counted' <=> v.track \notin counted
            BY <3>1
        <3>6. v.track \notin muddled =>
                  /\ v.press <=> v.track \in counted'
                  /\ \A w \in votes : w.track = v.track => w = v
            BY <1>0, <2>1, <2>3, <3>5 DEF VotesFit, CallFits, Agreed
        <3>7. ASSUME NEW w \in votes', w.track \notin muddled
              PROVE  CallFits(w)' /\ \A u \in votes' : u.track = w.track => u = w
            <4>1. CASE w = reported
                BY <2>1, <3>1, <3>3, <3>6, <3>7, <4>1 DEF CallFits
            <4>2. CASE w # reported
                <5>1. w \in votes /\ w # v /\ w.track # v.track
                    BY <3>1, <3>6, <3>7, <4>2
                <5>2. CallFits(w) /\ \A u \in votes : u.track = w.track => u = w
                    BY <1>0, <3>7, <5>1 DEF VotesFit
                <5> QED BY <2>1, <3>1, <3>3, <3>4, <5>1, <5>2 DEF CallFits, Agreed
            <4> QED BY <4>1, <4>2
        <3>8. ASSUME NEW t \in Tracks \ muddled, \A w \in votes' : w.track # t PROVE Agreed(t)'
            <4>1. t # v.track /\ \A w \in votes : w.track # t
                BY <3>1, <3>3, <3>8
            <4> QED BY <1>0, <2>1, <3>4, <3>8, <4>1 DEF VotesFit, Agreed
        <3>9. counted' \subseteq queued
            BY <1>0, <2>3, <3>1 DEF VotesFit
        <3> QED BY <2>1, <3>7, <3>8, <3>9 DEF VotesFit
    <2> QED BY <2>2, <2>3
<1>11. ASSUME NEW v \in votes, VoteReplied(v) PROVE VotesFit'
    <2>1. /\ v.done /\ votes' = votes \ {v} /\ UNCHANGED <<queued, counted, muddled>>
          /\ myVotes' = IF v.press THEN myVotes \cup {v.track} ELSE myVotes \ {v.track}
        BY <1>11 DEF VoteReplied, MarkVoted, roomVars
    <2>2. v.track \in myVotes' <=> v.press
        BY <2>1
    <2>3. \A t : t # v.track => (t \in myVotes' <=> t \in myVotes)
        BY <2>1
    <2>4. ASSUME NEW w \in votes', w.track \notin muddled
          PROVE  CallFits(w)' /\ \A u \in votes' : u.track = w.track => u = w
        <3>1. w \in votes /\ w # v /\ w.track # v.track
            BY <1>0, <2>1, <2>4 DEF VotesFit
        <3> QED BY <1>0, <2>1, <2>3, <2>4, <3>1 DEF VotesFit, CallFits, Agreed
    <2>5. ASSUME NEW t \in Tracks \ muddled, \A w \in votes' : w.track # t PROVE Agreed(t)'
        <3>1. CASE t = v.track
            BY <1>0, <2>1, <2>2, <3>1 DEF VotesFit, CallFits, Agreed
        <3>2. CASE t # v.track
            BY <1>0, <2>1, <2>3, <2>5, <3>2 DEF VotesFit, Agreed
        <3> QED BY <3>1, <3>2
    <2> QED BY <1>0, <2>1, <2>4, <2>5 DEF VotesFit
<1>12. ASSUME NEW guest \in BOOLEAN, PanelDrop(guest) PROVE VotesFit'
    <2> DEFINE pruned == IF guest THEN counted ELSE {}
    <2>1. CallsLost(pruned) /\ counted' = counted \ pruned /\ UNCHANGED <<queued, myVotes>>
        BY <1>12 DEF PanelDrop
    <2> QED BY <1>0, <2>1, LosingKeepsVotes
<1>13. ASSUME Reload PROVE VotesFit'
    <2>1. CallsLost({}) /\ counted' = counted \ {} /\ UNCHANGED <<queued, myVotes>>
        BY <1>13 DEF Reload, Restored, roomVars
    <2> QED BY <1>0, <2>1, LosingKeepsVotes
<1>14. ASSUME Remount \/ UNCHANGED panelVars PROVE VotesFit'
    BY <1>1, <1>14 DEF Remount, panelVars, roomVars, voteVars
<1> QED
    BY <1>4, <1>5, <1>6, <1>7, <1>8, <1>9, <1>10, <1>11, <1>12, <1>13, <1>14 DEF PanelNext

\* The panel's invariant is inductive.
LEMMA PanelInvStep == PanelInv /\ [PanelNext]_panelVars => PanelInv'
<1> SUFFICES ASSUME PanelInv, [PanelNext]_panelVars PROVE PanelInv'
    OBVIOUS
<1>1. (UndoTypes /\ RoomTypes /\ ShownTypes /\ VoteTypes /\ panelFaults \in 0 .. MaxPanelFaults)'
    BY WindowsStep, RoomTypesStep, VoteTypesStep
<1>2. (PanelTypeOK /\ WindowsHaveTracks)'
    BY <1>1 DEF PanelTypeOK, UndoTypes, RoomTypes, ShownTypes, VoteTypes
<1> QED BY <1>2, WindowsStep, VotesStep DEF PanelInv

\* Undo, and the start of the track, reach every armed timer of the panel on the screen
\* (handleRemove), however many removals are asked for and however they interleave with
\* states, replies, drops, reloads and panels that are closed and opened again with their
\* timers running; and the panel's data stay in their types.
THEOREM TimersStayInReach == PanelSpec => [](PanelTypeOK /\ UndoReachesTimers)
<1>1. PanelInv => PanelTypeOK /\ UndoReachesTimers
    BY DEF PanelInv, WindowsReached, WindowReached, UndoReachesTimers
<1> QED BY <1>1, PanelInitInv, PanelInvStep, PTL DEF PanelSpec

\* With no vote under way, the pressed buttons of queued tracks are the votes the server
\* counts (handleVote, markVoted, restoreMyVotes), across reloads and drops, except where
\* calls overlapped, lost their reply, or the vote went with a guest's connection.
THEOREM ButtonsTellVotes == PanelSpec => []PressedIsCounted
<1>1. PanelInv => PressedIsCounted
    <2> SUFFICES ASSUME PanelInv, votes = {}, NEW t \in Tracks, t \notin muddled
                 PROVE  t \in myVotes /\ t \in queued <=> t \in counted
        BY DEF PanelInv, PanelTypeOK, PressedIsCounted
    <2>1. Agreed(t) /\ counted \subseteq queued
        BY DEF PanelInv, VotesFit
    <2> QED BY <2>1 DEF Agreed
<1> QED BY <1>1, PanelInitInv, PanelInvStep, PTL DEF PanelSpec

-----------------------------------------------------------------------------
(* The whole page *)

\* While one part of the page moves the others stand still.
LEMMA PartsMove ==
    [WebNext]_webVars =>
        [FeedNext]_feedVars /\ [SessionNext]_sessionVars /\ [PanelNext]_panelVars
BY DEF WebNext, webVars

\* A page is its feed, its connection and its queue panel side by side (client.tsx,
\* realtime.ts, QueuePanel.tsx): what holds of each part holds of the page.
THEOREM PageIsItsParts == WebSpec => FeedSpec /\ SessionSpec /\ PanelSpec
<1>1. WebInit => FeedInit /\ SessionInit /\ PanelInit
    BY DEF WebInit
<1> QED BY <1>1, PartsMove, PTL DEF WebSpec, FeedSpec, SessionSpec, PanelSpec

\* Every variable of the page keeps its type, and its lists their caps.
THEOREM PageTypes == WebSpec => []WebTypeOK
<1>1. FeedTypeOK /\ SessionTypeOK /\ PanelTypeOK => WebTypeOK
    BY DEF WebTypeOK
<1> QED BY <1>1, PageIsItsParts, LinesStayUnique, ReconnectRejoinsOwnRoom, TimersStayInReach, PTL

================================================================================
