------------------------------- MODULE PageFeed -------------------------------
(***************************************************************************)
(* What a room's page makes of the feed that is not versioned: chat lines, *)
(* the roster and the platform overlay (the character overlay is kept the  *)
(* same way).  The server changes its copy first and publishes afterwards, *)
(* outside any lock; the page asks for copies when it connects and applies *)
(* publications as they come.  Nothing of this is recovered by the         *)
(* transport: what is published while the page is off never reaches it,    *)
(* and the answer to a question may be applied after publications that     *)
(* are newer than it.  The page's own connection is left out.              *)
(***************************************************************************)
EXTENDS SequencesExt

CONSTANTS
    Others,      \* the other connections of the room, each used once
    Platforms,   \* listening services
    NoPlatform,
    MaxLines,    \* bound on chat lines sent
    RingCap,     \* maxChatHistory
    ChatCap,     \* MAX_CHAT_MESSAGES
    MaxFeedFaults \* bound on drops, failed calls, failed publications, restarts

ASSUME FeedAssumption ==
    /\ {MaxLines, MaxFeedFaults} \subseteq Nat
    /\ {RingCap, ChatCap} \subseteq Nat \ {0} /\ RingCap <= ChatCap   \* 50 and 100
    /\ NoPlatform \notin Platforms

VARIABLES
    ring,      \* Room.chat: the last RingCap lines, [id, deleted]
    sent,      \* lines sent so far; a line is named by its number
    place,     \* place[m]: where connection m is in its one visit
    chosen,    \* chosen[m]: platformStore of the server
    pending,   \* changes made and not yet published
    online,    \* the page's connection is up and subscribed
    entered,   \* activeRoom is set: the initial room.join was answered
    asks,      \* questions of this connection the server has not read yet
    answers,   \* answers on their way
    hadChat,   \* the page showed lines when it reconnected
    chat,      \* store.chat
    connections, \* store.connections
    overrides, \* store.platformOverrides
    failed,    \* questions of this connection that failed
    removed,   \* lines a host has deleted
    early,     \* lines whose chat.delete was lost or came before a copy of the line
    skipped,   \* lines the page may lack until it reconnects
    outdated,  \* connections whose newer override was published while the page was off
    jumped,    \* connections that came or went before an older presence answer
    feedFaults

serverVars == <<ring, sent, place, chosen>>
pageVars == <<chat, connections, overrides>>
historyVars == <<failed, removed, early, skipped, outdated, jumped>>
feedVars == <<serverVars, pageVars, historyVars, pending, online, entered, asks, answers,
              hadChat, feedFaults>>

Notice == 0     \* the page's own line about a history that is gone
Lines == 1 .. MaxLines
Overlay == [Others -> Platforms \cup {NoPlatform}]
NoOverrides == [m \in Others |-> NoPlatform]
Kinds == {"presence", "platforms", "seed", "merge"}

Entry(id) == [id |-> id, deleted |-> FALSE]
LineSent(l) == [kind |-> "message", line |-> l, who |-> {}, platform |-> NoPlatform]
LineDeleted(l) == [kind |-> "delete", line |-> l, who |-> {}, platform |-> NoPlatform]
Came(m) == [kind |-> "join", line |-> Notice, who |-> {m}, platform |-> NoPlatform]
Went(m) == [kind |-> "leave", line |-> Notice, who |-> {m}, platform |-> NoPlatform]
Chose(m, p) == [kind |-> "platform", line |-> Notice, who |-> {m}, platform |-> p]
Publications ==
    {LineSent(l) : l \in Lines} \cup {LineDeleted(l) : l \in Lines}
      \cup {Came(m) : m \in Others} \cup {Went(m) : m \in Others}
      \cup {Chose(m, p) : m \in Others, p \in Platforms}

Answer(kind, lines, who, map) == [kind |-> kind, lines |-> lines, who |-> who, map |-> map]

FeedTypeOK ==
    /\ ring \in Seq([id : Lines, deleted : BOOLEAN]) /\ Len(ring) <= RingCap
    /\ sent \in 0 .. MaxLines
    /\ place \in [Others -> {"away", "present", "gone"}]
    /\ chosen \in Overlay
    /\ pending \subseteq Publications
    /\ {online, entered, hadChat} \subseteq BOOLEAN
    /\ asks \subseteq Kinds
    /\ \A a \in answers : /\ a.kind \in Kinds /\ a.lines \in Seq(Lines)
                          /\ a.who \subseteq Others /\ a.map \in Overlay
    /\ chat \in Seq(Lines \cup {Notice}) /\ Len(chat) <= ChatCap
    /\ connections \subseteq Others
    /\ overrides \in Overlay
    /\ failed \subseteq Kinds
    /\ {removed, early, skipped} \subseteq SUBSET Lines
    /\ {outdated, jumped} \subseteq SUBSET Others
    /\ feedFaults \in 0 .. MaxFeedFaults

FeedFault == feedFaults < MaxFeedFaults /\ feedFaults' = feedFaults + 1
Latest(list, cap) == SubSeq(list, IF Len(list) > cap THEN Len(list) - cap + 1 ELSE 1, Len(list))
Present == {m \in Others : place[m] = "present"}

\* Array.filter: the elements of list that are wanted, in order.
Kept(list, wanted) ==
    LET kept[i \in 0 .. Len(list)] ==
            IF i = 0 THEN <<>>
            ELSE IF list[i] \in wanted THEN Append(kept[i - 1], list[i]) ELSE kept[i - 1]
    IN kept[Len(list)]

-----------------------------------------------------------------------------
(* The room, changed by the other pages *)

Quietly == UNCHANGED <<pageVars, failed, early, skipped, outdated, jumped, online, entered,
                       asks, answers, hadChat, feedFaults>>

\* chat.send, and the system lines of the server.
SendLine ==
    /\ sent < MaxLines
    /\ sent' = sent + 1
    /\ ring' = Latest(Append(ring, Entry(sent')), RingCap)
    /\ pending' = pending \cup {LineSent(sent')}
    /\ UNCHANGED <<place, chosen, removed>> /\ Quietly

\* chat.delete: the slot is kept.  A line that has left the ring is not found.
DeleteLine(i) ==
    /\ ring' = [ring EXCEPT ![i].deleted = TRUE]
    /\ ~ring[i].deleted
    /\ pending' = pending \cup {LineDeleted(ring[i].id)}
    /\ removed' = removed \cup {ring[i].id}
    /\ UNCHANGED <<sent, place, chosen>> /\ Quietly

\* One connection's commands are handled one after the other, each to its end.
Settled(m) == \A p \in pending : p.who # {m}

Enter(m) ==
    /\ place[m] = "away"
    /\ place' = [place EXCEPT ![m] = "present"]
    /\ pending' = pending \cup {Came(m)}
    /\ UNCHANGED <<ring, sent, chosen, removed>> /\ Quietly

ChoosePlatform(m, p) ==
    /\ place[m] = "present" /\ Settled(m) /\ chosen[m] # p
    /\ chosen' = [chosen EXCEPT ![m] = p]
    /\ pending' = pending \cup {Chose(m, p)}
    /\ UNCHANGED <<ring, sent, place, removed>> /\ Quietly

Exit(m) ==
    /\ place[m] = "present" /\ Settled(m)
    /\ place' = [place EXCEPT ![m] = "gone"]
    /\ chosen' = [chosen EXCEPT ![m] = NoPlatform]
    /\ pending' = pending \cup {Went(m)}
    /\ UNCHANGED <<ring, sent, removed>> /\ Quietly

-----------------------------------------------------------------------------
(* Publications at the page *)

AlwaysAdd(list, l) == Latest(Append(list, l), ChatCap)

\* addChatMessage: dedupe by id, cap.
AddChatMessage(list, l) ==
    IF l # Notice /\ l \in Range(list) THEN list ELSE Latest(Append(list, l), ChatCap)

KeepChatMessage(list, l) == list

\* removeChatMessage
RemoveChatMessage(list, l) == Kept(list, Range(list) \ {l})

HistoryOutstanding == \/ {"seed", "merge"} \cap asks # {}
                      \/ \E a \in answers : a.kind \in {"seed", "merge"}
SeedOutstanding == "seed" \in asks \/ \E a \in answers : a.kind = "seed"

\* Lines that the page's cap takes from the front of its list.
PushedOut == Lines \cap (Range(chat) \ Range(chat'))

OnMessage(p) ==
    /\ p.kind = "message"
    /\ chat' = AddChatMessage(chat, p.line)
    /\ skipped' = skipped \cup PushedOut \cup (IF SeedOutstanding THEN {p.line} ELSE {})
    /\ UNCHANGED <<connections, overrides, failed, removed, early, outdated, jumped>>

OnDelete(p) ==
    /\ p.kind = "delete"
    /\ chat' = RemoveChatMessage(chat, p.line)
    /\ early' = IF HistoryOutstanding \/ LineSent(p.line) \in pending
                THEN early \cup {p.line} ELSE early
    /\ UNCHANGED <<connections, overrides, failed, removed, skipped, outdated, jumped>>

Jump(m) == IF "presence" \in asks \/ \E a \in answers : a.kind = "presence"
           THEN jumped \cup {m} ELSE jumped \ {m}

OnJoin(p) ==
    /\ p.kind = "join"
    /\ \E m \in p.who : connections' = connections \cup {m} /\ jumped' = Jump(m)
    /\ UNCHANGED <<chat, overrides, failed, removed, early, skipped, outdated>>

\* removeMember forgets the connection's overrides with it.
DropOverride(map, m) == [map EXCEPT ![m] = NoPlatform]

OnLeave(p) ==
    /\ p.kind = "leave"
    /\ \E m \in p.who : /\ connections' = connections \ {m}
                        /\ overrides' = DropOverride(overrides, m)
                        /\ jumped' = Jump(m)
    /\ UNCHANGED <<chat, failed, removed, early, skipped, outdated>>

OnPlatform(p) ==
    /\ p.kind = "platform"
    /\ \E m \in p.who : /\ overrides' = [overrides EXCEPT ![m] = p.platform]
                        /\ outdated' = outdated \ {m}
    /\ UNCHANGED <<chat, connections, failed, removed, early, skipped, jumped>>

Reaches(p) == OnMessage(p) \/ OnDelete(p) \/ OnJoin(p) \/ OnLeave(p) \/ OnPlatform(p)

\* What the page misses when publication p does not reach it.
Misses(p) ==
    /\ early' = IF p.kind = "delete" THEN early \cup {p.line} ELSE early
    /\ skipped' = IF p.kind = "message" THEN skipped \cup {p.line} ELSE skipped
    /\ outdated' = IF p.kind = "platform" THEN outdated \cup p.who ELSE outdated
    /\ jumped' = IF p.kind \in {"join", "leave"} THEN jumped \cup p.who ELSE jumped
    /\ UNCHANGED <<pageVars, failed, removed>>

\* Concurrent calls publish in any order; a page that is off gets nothing.
Publish(p) ==
    /\ pending' = pending \ {p}
    /\ IF online THEN Reaches(p) ELSE Misses(p)
    /\ UNCHANGED <<serverVars, online, entered, asks, answers, hadChat, feedFaults>>

\* A failed publication is reported to its caller; the change stays.
PublicationFails(p) ==
    /\ FeedFault
    /\ pending' = pending \ {p}
    /\ Misses(p)
    /\ UNCHANGED <<serverVars, online, entered, asks, answers, hadChat>>

-----------------------------------------------------------------------------
(* Questions and answers *)

\* What the server finds when it reads a question.  fetchChatHistory leaves the
\* tombstoned slots out; member.platforms names the members only.
Reading(kind) ==
    Answer(kind,
           IF kind \in {"seed", "merge"}
           THEN LET live == Kept(ring, {e \in Range(ring) : ~e.deleted})
                IN [i \in 1 .. Len(live) |-> live[i].id]
           ELSE <<>>,
           IF kind = "presence" THEN Present ELSE {},
           IF kind = "platforms" THEN chosen ELSE NoOverrides)

Read(kind) ==
    /\ kind \in asks
    /\ asks' = asks \ {kind}
    /\ answers' = answers \cup {Reading(kind)}
    /\ UNCHANGED <<serverVars, pageVars, historyVars, pending, online, entered, hadChat, feedFaults>>

\* A failed question is dropped; the page shows what it has.
AskFails(kind) ==
    /\ kind \in asks
    /\ FeedFault
    /\ asks' = asks \ {kind}
    /\ failed' = failed \cup {kind}
    /\ UNCHANGED <<serverVars, pageVars, removed, early, skipped, outdated, jumped, pending,
                   online, entered, answers, hadChat>>

Answered(a) == /\ answers' = answers \ {a}
               /\ UNCHANGED <<serverVars, pending, online, entered, hadChat, feedFaults,
                              failed, removed, early, jumped>>

RosterAdded(own, seed) == own \cup seed

\* setMembers replaces the roster.
Roster(own, seed) == seed

\* The presence answer; then the platforms are asked for.
TakePresence(a) ==
    /\ a.kind = "presence"
    /\ connections' = Roster(connections, a.who)
    /\ asks' = asks \cup {"platforms"}
    /\ outdated' = {m \in outdated : overrides[m] # NoPlatform}
    /\ Answered(a) /\ UNCHANGED <<chat, overrides, skipped>>

\* setPlatformOverrides: what the page already holds wins over the seed.
SeedUnder(own, seed) == [m \in Others |-> IF own[m] # NoPlatform THEN own[m] ELSE seed[m]]

TakePlatforms(a) ==
    /\ a.kind = "platforms"
    /\ overrides' = SeedUnder(overrides, a.map)
    /\ Answered(a) /\ UNCHANGED <<chat, connections, asks, skipped, outdated>>

\* The history of the first join: setChat replaces the list.
TakeSeed(a) ==
    /\ a.kind = "seed"
    /\ chat' = a.lines
    /\ Answered(a) /\ UNCHANGED <<connections, overrides, asks, skipped, outdated>>

MergeNothing(list, lines) == list

\* The history after a reconnect is added line by line; an empty one, where
\* there were lines, leaves a notice instead.
MergeHistory(list, lines) ==
    IF hadChat /\ lines = <<>> THEN AddChatMessage(list, Notice)
    ELSE LET merged[i \in 0 .. Len(lines)] ==
                 IF i = 0 THEN list ELSE AddChatMessage(merged[i - 1], lines[i])
         IN merged[Len(lines)]

TakeMerge(a) ==
    /\ a.kind = "merge"
    /\ chat' = MergeHistory(chat, a.lines)
    /\ skipped' = skipped \cup PushedOut
    /\ Answered(a) /\ UNCHANGED <<connections, overrides, asks, outdated>>

Take(a) == TakePresence(a) \/ TakePlatforms(a) \/ TakeSeed(a) \/ TakeMerge(a)

-----------------------------------------------------------------------------
(* The connection *)

\* joinRoom, of a first join or a retry: lines and overlays of the last one go.
Join ==
    /\ ~online
    /\ online' = TRUE /\ entered' = FALSE /\ hadChat' = FALSE
    /\ asks' = {"presence"} /\ failed' = {}
    /\ chat' = <<>> /\ overrides' = NoOverrides
    /\ early' = {l \in early : LineSent(l) \in pending}
    /\ skipped' = {} /\ outdated' = {} /\ jumped' = {}
    /\ UNCHANGED <<serverVars, pending, answers, connections, removed, feedFaults>>

\* The reply of the initial room.join.
Joined ==
    /\ online /\ ~entered
    /\ entered' = TRUE
    /\ asks' = asks \cup {"seed"}
    /\ skipped' = {}
    /\ UNCHANGED <<serverVars, pageVars, failed, removed, early, outdated, jumped, pending,
                   online, answers, hadChat, feedFaults>>

\* What a new connection asks for: an active page also merges the history.
FirstQuestions == {"presence"} \cup (IF entered THEN {"merge"} ELSE {})

\* centrifuge reconnects on its own: 'connected', then 'subscribed'.
Reconnect ==
    /\ ~online
    /\ online' = TRUE
    /\ asks' = FirstQuestions /\ failed' = {}
    /\ hadChat' = (entered /\ \E l \in Lines : l \in Range(chat))
    /\ skipped' = IF entered THEN {} ELSE skipped
    /\ jumped' = {}
    /\ UNCHANGED <<serverVars, pageVars, removed, early, outdated, pending, entered, answers,
                   feedFaults>>

\* Questions and answers of a lost connection are lost with it.
Disconnected == online' = FALSE /\ asks' = {} /\ answers' = {}

Drop ==
    /\ online /\ FeedFault
    /\ Disconnected
    /\ UNCHANGED <<serverVars, pageVars, historyVars, pending, entered, hadChat>>

\* A new process: nothing of the feed is stored.
Restart ==
    /\ FeedFault
    /\ Disconnected
    /\ ring' = <<>>
    /\ place' = [m \in Others |-> IF place[m] = "present" THEN "gone" ELSE place[m]]
    /\ chosen' = NoOverrides
    /\ pending' = {}
    /\ early' = early \cup {l \in Lines : LineDeleted(l) \in pending}
    /\ UNCHANGED <<sent, pageVars, failed, removed, skipped, outdated, jumped, entered, hadChat>>

-----------------------------------------------------------------------------
FeedInit ==
    /\ ring = <<>> /\ sent = 0
    /\ place = [m \in Others |-> "away"] /\ chosen = NoOverrides
    /\ pending = {} /\ asks = {} /\ answers = {}
    /\ online = FALSE /\ entered = FALSE /\ hadChat = FALSE
    /\ chat = <<>> /\ connections = {} /\ overrides = NoOverrides
    /\ failed = {} /\ removed = {} /\ early = {} /\ skipped = {}
    /\ outdated = {} /\ jumped = {}
    /\ feedFaults = 0

FeedNext ==
    \/ SendLine \/ \E i \in DOMAIN ring : DeleteLine(i)
    \/ \E m \in Others : Enter(m) \/ Exit(m) \/ \E p \in Platforms : ChoosePlatform(m, p)
    \/ \E p \in pending : Publish(p) \/ PublicationFails(p)
    \/ \E kind \in asks : Read(kind) \/ AskFails(kind)
    \/ \E a \in answers : Take(a)
    \/ Join \/ Joined \/ Reconnect \/ Drop \/ Restart

FeedSpec == FeedInit /\ [][FeedNext]_feedVars

-----------------------------------------------------------------------------
(* Properties *)

\* Nothing is on its way, in either direction.
Calm == online /\ entered /\ pending = {} /\ asks = {} /\ answers = {}

\* "dedupe by id so live publications and history refetches can overlap safely":
\* whatever brings a line again, the page shows it once.
NoLineTwice == \A i, j \in DOMAIN chat : chat[i] = chat[j] /\ chat[i] # Notice => i = j

\* Once calm, a page whose history question was answered shows every line the
\* server keeps, those of its absence included, except lines whose publication
\* failed, that came while the answer to its first history was on its way, or that
\* its own cap took away again since it connected.
ChatCatchesUp ==
    Calm /\ {"seed", "merge"} \cap failed = {} =>
        \A i \in DOMAIN ring : ring[i].deleted \/ ring[i].id \in Range(chat) \cup skipped

\* Once calm, a deleted line is shown only if its deletion was published while
\* the page was off, or overtook an older copy of the line.
DeletionReaches == Calm => Range(chat) \cap removed \subseteq early

\* Once calm, the roster is the room's, except for connections that came or went
\* while an older presence answer was on its way; and everyone present is shown with
\* the service they chose last, except those whose choice changed behind an older one
\* that the page still holds.
RosterConverges ==
    Calm /\ "presence" \notin failed =>
        /\ connections \ jumped = Present \ jumped
        /\ "platforms" \notin failed =>
               \A m \in Present \ outdated : overrides[m] = chosen[m]

===============================================================================
