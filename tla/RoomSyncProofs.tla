---------------------------- MODULE RoomSyncProofs ----------------------------
(***************************************************************************)
(* Proofs about RoomSync.  The invariant SyncInv says where the newest     *)
(* state, Top, is: nothing anywhere is newer than Top and no other state   *)
(* has its version (Behind, VersionNamesState); the room is in the row or  *)
(* about to be saved (SavePending); it is shown, on its way, or about to   *)
(* be published, for every page that has joined (PagePending).  Carry      *)
(* covers every step for the order of states, WorkerStep every step of a   *)
(* call that leaves the room as it is.                                     *)
(***************************************************************************)
EXTENDS RoomSync, TLAPS

\* The newest state there is: the room, or what a loader will make of the row.
Top == IF room # NoState THEN room ELSE IF row # NoState THEN row ELSE Fresh

\* s is no newer than that, and no other state of the same version.
UpTo(s) == s = NoState \/ s = Top \/ s.version < Top.version

\* Which calls hold a state, and which; calls past the load have a room to work
\* on, since a lost memory ends every call.
Phases ==
    /\ \A w \in Workers :
         /\ calls[w].state = NoState <=> calls[w].pc \in {"idle", "mutate"}
         /\ calls[w].pc = "create" => calls[w].state = Fresh
         /\ room = NoState => /\ calls[w].pc \in {"idle", "mutate", "create", "insert"}
                              /\ calls[w].state \in {NoState, Top}
         /\ calls[w].caller # NoClient => Subscribed(calls[w].caller)
    /\ room = NoState => \A c \in Clients : link[c] # "joined"

\* Nothing is newer than Top: row and calls never, pages until a state is lost.
Behind ==
    /\ UpTo(row) /\ \A w \in Workers : UpTo(calls[w].state)
    /\ ~lost => \A c \in Clients : UpTo(shown[c]) /\ \A s \in Range(inbox[c]) : UpTo(s)

\* The room is in the row, or a call is about to save it, or that save has failed.
SavePending ==
    room # NoState =>
        row = room \/ unsaved \/ \E w \in Workers : calls[w].pc = "save" /\ calls[w].state = room

\* The room is shown by c's page, on its way there, about to be published, or its
\* publication has failed.
Reaches(c) ==
    \/ shown[c] = room \/ unsent \/ room \in Range(inbox[c])
    \/ \E w \in Workers : calls[w].pc \in {"save", "publish"} /\ calls[w].state = room

\* So it is for every page that has joined, and for one whose reply is older than
\* the room.
PagePending ==
    ~lost =>
      /\ \A c \in Clients : link[c] = "joined" => Reaches(c)
      /\ \A w \in Workers :
           calls[w].pc \in {"save", "publish", "reply"} /\ calls[w].caller # NoClient
             => calls[w].state = room \/ Reaches(calls[w].caller)

SyncInv ==
    TypeOK /\ Phases /\ Behind /\ VersionNamesState /\ SavePending /\ PagePending

USE RoomSyncAssumption

-----------------------------------------------------------------------------
(* States and their order *)

\* The marker is no state, and a new room is one.
LEMMA StateFacts ==
    /\ Fresh \in States /\ Fresh.version = 0 /\ NoState \notin States
    /\ \A s \in States : s.version \in Nat
BY DEF States, State, Fresh

\* The newest state is a state.
LEMMA TopFacts ==
    TypeOK => /\ Top \in States /\ Top # NoState
              /\ room # NoState => Top = room
              /\ room = NoState /\ row # NoState => Top = row
              /\ room = NoState /\ row = NoState => Top = Fresh
BY StateFacts DEF TypeOK, MaybeState, Top

\* Where a state can be.
LEMMA Places ==
    \A s : s \in Everywhere <=>
      /\ s # NoState
      /\ \/ s = room \/ s = row
         \/ \E c \in Clients : s = shown[c] \/ s \in Range(inbox[c])
         \/ \E w \in Workers : s = calls[w].state
BY DEF Everywhere

\* What stays no newer than Top does so when Top grows.
LEMMA Rises ==
    ASSUME NEW T \in States, NEW U \in States, U = T \/ U.version > T.version,
           NEW s \in MaybeState, s = NoState \/ s = T \/ s.version < T.version
    PROVE  s = NoState \/ s = U \/ s.version < U.version
BY StateFacts DEF MaybeState

\* The elements of a sequence are what stands at its places.
LEMMA InRange ==
    ASSUME NEW S, NEW s \in Seq(S), NEW i \in 1 .. Len(s)
    PROVE  s[i] \in Range(s)
BY DEF Range

\* The elements of a queue of states are states; taking one in or out.
LEMMA InboxFacts ==
    ASSUME NEW q \in Seq(States)
    PROVE  /\ Range(q) \subseteq States
           /\ \A s \in States : /\ Append(q, s) \in Seq(States)
                                /\ Range(Append(q, s)) = Range(q) \cup {s}
           /\ q # <<>> => /\ Tail(q) \in Seq(States) /\ Head(q) \in States
                          /\ Range(q) = Range(Tail(q)) \cup {Head(q)}
<1>1. Range(q) \subseteq States
  BY DEF Range
<1>2. ASSUME NEW s \in States
      PROVE  /\ Append(q, s) \in Seq(States)
             /\ Range(Append(q, s)) = Range(q) \cup {s}
  <2>1. /\ Append(q, s) \in Seq(States) /\ Len(Append(q, s)) = Len(q) + 1
        /\ Append(q, s)[Len(q) + 1] = s
        /\ \A i \in 1 .. Len(q) : Append(q, s)[i] = q[i]
    OBVIOUS
  <2>2. Range(Append(q, s)) \subseteq Range(q) \cup {s}
    BY <2>1 DEF Range
  <2>3. Range(q) \cup {s} \subseteq Range(Append(q, s))
    BY <2>1 DEF Range
  <2> QED BY <2>1, <2>2, <2>3
<1>3. ASSUME q # <<>>
      PROVE  /\ Tail(q) \in Seq(States) /\ Head(q) \in States
             /\ Range(q) = Range(Tail(q)) \cup {Head(q)}
  <2>1. /\ Tail(q) \in Seq(States) /\ Head(q) = q[1] /\ Len(Tail(q)) = Len(q) - 1
        /\ \A i \in 1 .. Len(Tail(q)) : Tail(q)[i] = q[i + 1]
        /\ Len(q) >= 1
    BY <1>3
  <2>2. ASSUME NEW i \in 1 .. Len(q) PROVE q[i] \in Range(Tail(q)) \cup {Head(q)}
    <3>1. CASE i = 1
      BY <2>1, <3>1
    <3>2. CASE i # 1
      <4>1. i - 1 \in 1 .. Len(Tail(q)) /\ Tail(q)[i - 1] = q[i]
        BY <2>1, <3>2
      <4>2. Tail(q)[i - 1] \in Range(Tail(q))
        BY <2>1, <4>1, InRange
      <4> QED BY <4>1, <4>2
    <3> QED BY <3>1, <3>2
  <2>3. Range(Tail(q)) \cup {Head(q)} \subseteq Range(q)
    <3>1. ASSUME NEW i \in 1 .. Len(Tail(q)) PROVE Tail(q)[i] \in Range(q)
      BY <2>1 DEF Range
    <3> QED BY <2>1, <3>1 DEF Range
  <2>4. Range(q) \subseteq Range(Tail(q)) \cup {Head(q)}
    BY <2>2 DEF Range
  <2> QED BY <2>1, <2>3, <2>4
<1> QED BY <1>1, <1>2, <1>3

\* The states a step may hand on: the room's, the row's and the calls'.
Core == {NoState, room, row} \cup {calls[w].state : w \in Workers}

\* A step that hands on what there was, or makes one newer state, keeps the order.
LEMMA Carry ==
    ASSUME SyncInv, TypeOK', Top' = Top \/ Top'.version > Top.version, lost => lost',
           row' \in Core \cup {Top'},
           \A w \in Workers : calls'[w].state \in Core \cup {Top'},
           \A c \in Clients : shown'[c] \in Core \cup {shown[c]} \cup Range(inbox[c]),
           \A c \in Clients : Range(inbox'[c]) \subseteq Core \cup Range(inbox[c])
    PROVE  Behind' /\ VersionNamesState'
<1>1. /\ TypeOK /\ Behind /\ VersionNamesState
      /\ Top \in States /\ Top' \in States /\ Top' # NoState
      /\ NoState \in MaybeState /\ Top' \in MaybeState
  <2>1. Top' \in States /\ Top' # NoState
    BY StateFacts DEF TypeOK, MaybeState, Top
  <2> QED BY <2>1, TopFacts DEF SyncInv, MaybeState
<1>2. \A s \in Core : s \in MaybeState /\ UpTo(s)
  <2>1. room \in MaybeState /\ row \in MaybeState
        /\ \A w \in Workers : calls[w].state \in MaybeState
    BY <1>1 DEF TypeOK
  <2>2. UpTo(room)
    BY <1>1, TopFacts DEF UpTo
  <2> QED BY <1>1, <2>1, <2>2 DEF Core, Behind, UpTo
<1>3. ASSUME NEW s \in MaybeState, UpTo(s) \/ s = Top'
      PROVE  s = NoState \/ s = Top' \/ s.version < Top'.version
  BY <1>1, <1>3, Rises DEF UpTo
<1>4. \A s \in Core \cup {Top'} : s = NoState \/ s = Top' \/ s.version < Top'.version
  BY <1>1, <1>2, <1>3
<1>5. ASSUME ~lost, NEW c \in Clients
      PROVE  \A s \in {shown[c]} \cup Range(inbox[c]) : s \in MaybeState /\ UpTo(s)
  <2>1. shown[c] \in MaybeState /\ inbox[c] \in Seq(States)
    BY <1>1 DEF TypeOK
  <2>2. Range(inbox[c]) \subseteq MaybeState
    BY <2>1, InboxFacts DEF MaybeState
  <2> QED BY <1>1, <1>5, <2>1, <2>2 DEF Behind
<1>6. ASSUME ~lost, NEW c \in Clients, NEW s \in Core \cup {shown[c]} \cup Range(inbox[c])
      PROVE  s = NoState \/ s = Top' \/ s.version < Top'.version
  BY <1>2, <1>3, <1>5, <1>6
<1>7. Behind'
  BY <1>4, <1>6 DEF Behind, UpTo
<1>8. VersionNamesState'
  <2> SUFFICES ASSUME ~lost', NEW s \in Everywhere', NEW t \in Everywhere',
                      s.version = t.version
               PROVE  s = t
    BY DEF VersionNamesState
  <2>1. \A r \in Everywhere' : r \in Everywhere \cup {Top'} /\ r # NoState
    <3>1. \A r : r \in Everywhere' =>
            /\ r # NoState
            /\ \/ r = room' \/ r = row'
               \/ \E c \in Clients : r = shown'[c] \/ r \in Range(inbox'[c])
               \/ \E w \in Workers : r = calls'[w].state
      BY DEF Everywhere
    <3>2. room' = NoState \/ room' = Top'
      BY DEF Top
    <3>3. \A r \in Core : r = NoState \/ r \in Everywhere
      BY DEF Core, Everywhere
    <3>4. \A c \in Clients : \A r \in {shown[c]} \cup Range(inbox[c]) : r = NoState \/ r \in Everywhere
      BY DEF Everywhere
    <3> QED BY <3>1, <3>2, <3>3, <3>4
  <2>2. \A r \in Everywhere : r \in States /\ UpTo(r) /\ r # NoState
    <3>1. \A r \in Everywhere : /\ r # NoState
            /\ \/ r \in Core
               \/ \E c \in Clients : r \in {shown[c]} \cup Range(inbox[c])
      BY DEF Everywhere, Core
    <3>2. \A r \in Everywhere : r \in MaybeState /\ UpTo(r)
      BY <1>2, <1>5, <3>1
    <3> QED BY <3>1, <3>2 DEF MaybeState
  <2>3. ASSUME NEW r \in Everywhere, r.version = Top'.version PROVE r = Top'
    <3>1. r \in States /\ (r = Top' \/ r.version < Top'.version)
      BY <1>3, <2>2 DEF MaybeState
    <3> QED BY <1>1, <2>3, <3>1, StateFacts
  <2>4. CASE s \in Everywhere /\ t \in Everywhere
    BY <1>1, <2>4 DEF VersionNamesState
  <2> QED BY <2>1, <2>3, <2>4
<1> QED BY <1>7, <1>8

-----------------------------------------------------------------------------
(* Pending saves and publications *)

\* What a save or a failure does to the room's own save.
LEMMA SaveStays ==
    ASSUME SavePending, room' = room, room # NoState /\ row = room => row' = room, unsaved => unsaved',
           \A w \in Workers : calls[w].pc = "save" /\ calls[w].state = room =>
             \/ calls'[w].pc = "save" /\ calls'[w].state = room
             \/ row' = room \/ unsaved'
    PROVE  SavePending'
BY DEF SavePending

\* The room goes on reaching a page it was going to reach.
LEMMA ReachStays ==
    ASSUME NEW c, Reaches(c), room' = room, shown'[c] = shown[c], unsent => unsent',
           Range(inbox[c]) \subseteq Range(inbox'[c]),
           \A w \in Workers : calls[w].pc \in {"save", "publish"} /\ calls[w].state = room =>
             \/ calls'[w].pc \in {"save", "publish"} /\ calls'[w].state = room
             \/ unsent' \/ room \in Range(inbox'[c])
    PROVE  Reaches(c)'
BY DEF Reaches

\* All pages: those that join are reached, and so are the callers that wait.
LEMMA PageStays ==
    ASSUME SyncInv, TypeOK', Phases', room' = room, ~lost' => ~lost,
           \A c \in Clients : Reaches(c) /\ Subscribed(c)' => Reaches(c)',
           \A c \in Clients : link'[c] = "joined" => link[c] = "joined" \/ Reaches(c)',
           \A w \in Workers :
             calls'[w].pc \in {"save", "publish", "reply"} /\ calls'[w].caller # NoClient =>
               \/ calls'[w].state = room
               \/ /\ calls[w].pc \in {"save", "publish", "reply"}
                  /\ calls'[w].caller = calls[w].caller /\ calls'[w].state = calls[w].state
    PROVE  PagePending'
<1> SUFFICES ASSUME ~lost' PROVE PagePending'
  BY DEF PagePending
<1>1. PagePending /\ ~lost
  BY DEF SyncInv
<1>2. ASSUME NEW c \in Clients, link'[c] = "joined" PROVE Reaches(c)'
  BY <1>1, <1>2 DEF PagePending, Subscribed
<1>3. ASSUME NEW w \in Workers, calls'[w].pc \in {"save", "publish", "reply"},
             calls'[w].caller # NoClient
      PROVE  calls'[w].state = room' \/ \E c \in Clients : c = calls'[w].caller /\ Reaches(c)'
  <2>1. calls'[w].caller \in Clients
    BY <1>3 DEF TypeOK
  <2>2. PICK c \in Clients : c = calls'[w].caller
    BY <2>1
  <2>3. Subscribed(c)'
    BY <1>3, <2>2 DEF Phases, Subscribed
  <2>4. Reaches(c) => Reaches(c)'
    BY <2>3
  <2>5. calls'[w].state = room' \/ Reaches(c)'
    BY <1>1, <1>3, <2>2, <2>4 DEF PagePending
  <2> QED BY <2>2, <2>5
<1> QED BY <1>2, <1>3 DEF PagePending, Reaches

-----------------------------------------------------------------------------
(* The steps *)

\* A step of w's call changes w's call only.
LEMMA BecomeFacts ==
    ASSUME TypeOK, NEW w \in Workers, NEW call, Become(w, call)
    PROVE  /\ calls'[w] = call
           /\ \A x \in Workers \ {w} : calls'[x] = calls[x]
BY DEF TypeOK, Become

\* A step of one call that leaves the room, and Top, as they are.
LEMMA WorkerStep ==
    ASSUME SyncInv, TypeOK', NEW w \in Workers, NEW call, Become(w, call),
           UNCHANGED <<room, shown, lost>>, Top' = Top,
           row' \in Core, room # NoState /\ row = room => row' = room,
           call.state \in Core \cup {Top},
           call.state = NoState <=> call.pc \in {"idle", "mutate"},
           call.pc = "create" => call.state = Fresh,
           room = NoState => /\ call.pc \in {"idle", "mutate", "create", "insert"}
                             /\ call.state \in {NoState, Top},
           call.caller # NoClient => call.caller = calls[w].caller \/ link'[call.caller] \notin {"off", "closed"},
           \A c \in Clients : Subscribed(c) => Subscribed(c)',
           \A c \in Clients : link'[c] = "joined" =>
             link[c] = "joined" \/ (room # NoState /\ (~lost => Reaches(c)')),
           \A c \in Clients : /\ Range(inbox[c]) \subseteq Range(inbox'[c])
                              /\ Range(inbox'[c]) \subseteq Core \cup Range(inbox[c]),
           unsaved => unsaved', unsent => unsent',
           calls[w].pc = "save" /\ calls[w].state = room => row' = room \/ unsaved',
           calls[w].pc \in {"save", "publish"} /\ calls[w].state = room =>
             \/ call.pc = "publish" /\ call.state = room
             \/ unsent' \/ \A c \in Clients : Subscribed(c)' => room \in Range(inbox'[c]),
           call.pc \in {"save", "publish", "reply"} /\ call.caller # NoClient =>
             \/ call.state = room
             \/ /\ calls[w].pc \in {"save", "publish", "reply"}
                /\ call.caller = calls[w].caller /\ call.state = calls[w].state
    PROVE  SyncInv'
<1>1. /\ TypeOK /\ Phases /\ SavePending /\ PagePending
      /\ calls'[w] = call /\ \A x \in Workers \ {w} : calls'[x] = calls[x]
  BY BecomeFacts DEF SyncInv
<1>2. Phases'
  <2>1. ASSUME NEW x \in Workers
        PROVE  /\ calls'[x].state = NoState <=> calls'[x].pc \in {"idle", "mutate"}
               /\ calls'[x].pc = "create" => calls'[x].state = Fresh
               /\ room' = NoState =>
                    /\ calls'[x].pc \in {"idle", "mutate", "create", "insert"}
                    /\ calls'[x].state \in {NoState, Top'}
    BY <1>1 DEF Phases
  <2>2. ASSUME NEW x \in Workers, calls'[x].caller # NoClient
        PROVE  link'[calls'[x].caller] \notin {"off", "closed"}
    <3>1. calls'[x].caller \in Clients
      BY <2>2 DEF TypeOK
    <3> QED BY <1>1, <2>2, <3>1 DEF Phases, Subscribed
  <2>3. room' = NoState => \A c \in Clients : link'[c] # "joined"
    BY <1>1 DEF Phases
  <2> QED BY <2>1, <2>2, <2>3 DEF Phases, Subscribed
<1>3. Behind' /\ VersionNamesState'
  <2>1. \A x \in Workers : calls'[x].state \in Core \cup {Top'}
    BY <1>1 DEF Core
  <2> QED BY <2>1, Carry
<1>4. SavePending'
  BY <1>1, SaveStays
<1>5. PagePending'
  <2>1. ASSUME NEW c \in Clients, Reaches(c), Subscribed(c)' PROVE Reaches(c)'
    <3>1. \A x \in Workers : calls[x].pc \in {"save", "publish"} /\ calls[x].state = room =>
            \/ calls'[x].pc \in {"save", "publish"} /\ calls'[x].state = room
            \/ unsent' \/ room \in Range(inbox'[c])
      BY <1>1, <2>1
    <3> QED BY <2>1, <3>1, ReachStays
  <2>2. CASE lost
    BY <2>2 DEF PagePending
  <2>3. CASE ~lost
    <3>1. \A x \in Workers :
            calls'[x].pc \in {"save", "publish", "reply"} /\ calls'[x].caller # NoClient =>
              \/ calls'[x].state = room
              \/ /\ calls[x].pc \in {"save", "publish", "reply"}
                 /\ calls'[x].caller = calls[x].caller /\ calls'[x].state = calls[x].state
      BY <1>1
    <3> QED BY <1>2, <2>1, <2>3, <3>1, PageStays
  <2> QED BY <2>2, <2>3
<1> QED BY <1>2, <1>3, <1>4, <1>5 DEF SyncInv

-----------------------------------------------------------------------------
(* Types *)

Cases == {"idle", "mutate", "create", "insert", "save", "publish", "reply"}
CallType == [pc : Cases, state : MaybeState, caller : Clients \cup {NoClient}]

\* A call that is replaced by another one keeps the type of all calls.
LEMMA BecomeTypes ==
    ASSUME TypeOK, NEW w \in Workers, NEW call \in CallType, Become(w, call)
    PROVE  calls' \in [Workers -> CallType]
BY DEF TypeOK, Become, CallType, Cases

\* What the steps make of the parts of a call is a call.
LEMMA CallTypes ==
    /\ \A pc \in Cases, s \in MaybeState, c \in Clients \cup {NoClient} :
         /\ Call(pc, s, c) \in CallType
         /\ Call(pc, s, c).pc = pc /\ Call(pc, s, c).state = s /\ Call(pc, s, c).caller = c
    /\ Idle \in CallType /\ NoState \in MaybeState /\ Fresh \in MaybeState
    /\ Idle.pc = "idle" /\ Idle.state = NoState /\ Idle.caller = NoClient
BY StateFacts DEF Call, CallType, Cases, Idle, MaybeState

\* A call that moves on to its next phase keeps its state and its caller.
LEMMA PhaseTypes ==
    ASSUME TypeOK, NEW w \in Workers, NEW pc \in Cases
    PROVE  /\ [calls[w] EXCEPT !.pc = pc] \in CallType
           /\ [calls[w] EXCEPT !.pc = pc].pc = pc
           /\ [calls[w] EXCEPT !.pc = pc].state = calls[w].state
           /\ [calls[w] EXCEPT !.pc = pc].caller = calls[w].caller
           /\ calls[w] \in CallType /\ calls[w].state \in MaybeState
           /\ calls[w].caller \in Clients \cup {NoClient}
<1>1. calls[w] \in CallType
  BY DEF TypeOK, CallType, Cases
<1> QED BY <1>1 DEF CallType

\* A fault is counted up to its bound.
LEMMA FaultTypes == ASSUME TypeOK, Fault PROVE faults' \in 0 .. MaxFaults
BY DEF TypeOK, Fault

\* How the joins of pages ended, after some were left without an answer.
LEMMA PageTypes ==
    ASSUME TypeOK, NEW C, Unanswered(C)
    PROVE  page' \in [Clients -> {"entering", "entered", "failed"}]
BY DEF TypeOK, Unanswered

\* Calls that lost their caller are calls.
LEMMA AbandonTypes ==
    ASSUME TypeOK, NEW c \in Clients, Abandon(c)
    PROVE  calls' \in [Workers ->
             [pc : {"idle", "mutate", "create", "insert", "save", "publish", "reply"},
              state : MaybeState, caller : Clients \cup {NoClient}]]
<1>1. \A w \in Workers : calls[w] \in
         [pc : {"idle", "mutate", "create", "insert", "save", "publish", "reply"},
          state : MaybeState, caller : Clients \cup {NoClient}]
  BY DEF TypeOK
<1>2. \A w \in Workers : [calls[w] EXCEPT !.caller = NoClient] \in
         [pc : {"idle", "mutate", "create", "insert", "save", "publish", "reply"},
          state : MaybeState, caller : Clients \cup {NoClient}]
  BY <1>1
<1> QED BY <1>1, <1>2 DEF Abandon

\* A step of a call keeps the types.
LEMMA TypeOfCalls ==
    ASSUME TypeOK, NEW w \in Workers, Phases,
           StartMutation(w) \/ Step(w) \/ \E c \in Clients : StartJoin(w, c)
    PROVE  TypeOK'
<1>a. /\ \A pc \in Cases : [calls[w] EXCEPT !.pc = pc] \in CallType
      /\ calls[w].state \in MaybeState /\ calls[w].caller \in Clients \cup {NoClient}
      /\ NoState \in MaybeState /\ Fresh \in MaybeState /\ Idle \in CallType
      /\ {"idle", "mutate", "create", "insert", "save", "publish", "reply"} = Cases
      /\ room \in MaybeState /\ row \in MaybeState
      /\ {unsaved, unsent, lost} \subseteq BOOLEAN
  <2>1. /\ \A pc \in Cases : [calls[w] EXCEPT !.pc = pc] \in CallType
        /\ calls[w].state \in MaybeState /\ calls[w].caller \in Clients \cup {NoClient}
    <3>1. "idle" \in Cases
      BY DEF Cases
    <3> QED BY <3>1, PhaseTypes
  <2>2. NoState \in MaybeState /\ Fresh \in MaybeState /\ Idle \in CallType
    BY CallTypes
  <2>3. {"idle", "mutate", "create", "insert", "save", "publish", "reply"} = Cases
    BY DEF Cases
  <2>4. room \in MaybeState /\ row \in MaybeState /\ {unsaved, unsent, lost} \subseteq BOOLEAN
    BY DEF TypeOK
  <2> QED BY <2>1, <2>2, <2>3, <2>4
<1>b. \A pc \in Cases, s \in MaybeState, c \in Clients \cup {NoClient} : Call(pc, s, c) \in CallType
  BY CallTypes
<1>c. ASSUME NEW call \in CallType, Become(w, call)
      PROVE  calls' \in [Workers ->
         [pc : {"idle", "mutate", "create", "insert", "save", "publish", "reply"},
          state : MaybeState, caller : Clients \cup {NoClient}]]
  BY <1>c, BecomeTypes DEF CallType, Cases
<1>1. CASE StartMutation(w)
  <2>1. Call("mutate", NoState, NoClient) \in CallType
    BY <1>a, <1>b
  <2> QED BY <1>1, <1>c, <2>1 DEF StartMutation, TypeOK
<1>2. ASSUME NEW c \in Clients, StartJoin(w, c) PROVE TypeOK'
  <2>1. Call("mutate", NoState, c) \in CallType
    BY <1>a, <1>b
  <2> QED BY <1>2, <1>c, <2>1 DEF StartJoin, TypeOK
<1>3. CASE Load(w)
  <2>1. \E call \in CallType : Become(w, call)
    BY <1>3, <1>a, <1>b DEF Load
  <2> QED BY <1>3, <1>c, <2>1 DEF Load, TypeOK
<1>4. CASE LoadFails(w)
  <2>1. link' \in [Clients -> {"off", "connected", "joining", "joined", "refused", "closed"}]
    BY <1>4 DEF LoadFails, TypeOK
  <2>2. page' \in [Clients -> {"entering", "entered", "failed"}]
    BY <1>4, PageTypes DEF LoadFails
  <2> QED BY <1>4, <1>a, <1>c, <2>1, <2>2, FaultTypes DEF LoadFails, TypeOK
<1>5. CASE SaveFresh(w)
  <2>1. \E call \in CallType : Become(w, call)
    BY <1>5, <1>a DEF SaveFresh
  <2>2. row' \in MaybeState /\ faults' \in 0 .. MaxFaults
    BY <1>5, <1>a, FaultTypes DEF SaveFresh, Upsert, TypeOK
  <2> QED BY <1>5, <1>c, <2>1, <2>2 DEF SaveFresh, TypeOK
<1>6. CASE Insert(w)
  <2>1. \E call \in CallType : Become(w, call)
    BY <1>6, <1>a, <1>b DEF Insert
  <2>2. room' \in MaybeState /\ {unsaved', unsent', lost'} \subseteq BOOLEAN
    BY <1>6, <1>a DEF Insert, InsertOnce
  <2> QED BY <1>6, <1>c, <2>1, <2>2 DEF Insert, TypeOK
<1>7. CASE Commit(w)
  <2>1. room' \in MaybeState /\ commits' \in Nat
    BY <1>7 DEF Commit, Bumped, State, States, MaybeState, TypeOK
  <2>2. \E call \in CallType : Become(w, call)
    <3>1. Call("save", room', calls[w].caller) \in CallType
      BY <1>a, <1>b, <2>1
    <3> QED BY <1>7, <3>1 DEF Commit
  <2> QED BY <1>7, <1>c, <2>1, <2>2 DEF Commit, TypeOK
<1>8. CASE NoChange(w)
  <2>1. \E call \in CallType : Become(w, call)
    BY <1>8, <1>a, <1>b DEF NoChange
  <2> QED BY <1>8, <1>c, <2>1 DEF NoChange, TypeOK
<1>9. CASE Save(w)
  <2>1. \E call \in CallType : Become(w, call)
    BY <1>9, <1>a DEF Save
  <2>2. row' \in MaybeState
    BY <1>9, <1>a DEF Save, Upsert
  <2> QED BY <1>9, <1>c, <2>1, <2>2 DEF Save, TypeOK
<1>10. CASE SaveFails(w)
  <2>1. \E call \in CallType : Become(w, call)
    BY <1>10, <1>a DEF SaveFails
  <2> QED BY <1>10, <1>a, <1>c, <2>1, FaultTypes DEF SaveFails, TypeOK
<1>11. CASE Publish(w)
  <2>1. \E call \in CallType : Become(w, call)
    BY <1>11, <1>a DEF Publish
  <2>2. calls[w].state \in States
    BY <1>11, <1>a DEF Publish, Phases, MaybeState
  <2>3. inbox' \in [Clients -> Seq(States)]
    BY <1>11, <2>2 DEF Publish, TypeOK
  <2> QED BY <1>11, <1>c, <2>1, <2>3 DEF Publish, TypeOK
<1>12. CASE PublishFails(w)
  <2>1. \E call \in CallType : Become(w, call)
    BY <1>12, <1>a DEF PublishFails
  <2> QED BY <1>12, <1>a, <1>c, <2>1, FaultTypes DEF PublishFails, TypeOK
<1>13. CASE Reply(w)
  <2>1. calls[w].pc = "reply"
    BY <1>13 DEF Reply
  <2>2. calls[w].state \in States
    <3>1. calls[w].state # NoState
      BY <2>1 DEF Phases
    <3> QED BY <1>a, <3>1 DEF MaybeState
  <2>3. /\ link' \in [Clients -> {"off", "connected", "joining", "joined", "refused", "closed"}]
        /\ page' \in [Clients -> {"entering", "entered", "failed"}]
        /\ inbox' \in [Clients -> Seq(States)]
    <3>1. CASE calls[w].caller = NoClient
      BY <1>13, <3>1 DEF Reply, TypeOK
    <3>2. CASE calls[w].caller # NoClient
      <4>1. PICK c \in Clients : c = calls[w].caller
        BY <1>a, <3>2
      <4>2. /\ link' = [link EXCEPT ![c] = "joined"]
            /\ page' = [page EXCEPT ![c] = "entered"]
            /\ inbox' = [inbox EXCEPT ![c] = Append(inbox[c], calls[w].state)]
        BY <1>13, <3>2, <4>1 DEF Reply
      <4>3. Append(inbox[c], calls[w].state) \in Seq(States)
        BY <2>2, InboxFacts DEF TypeOK
      <4> QED BY <4>2, <4>3 DEF TypeOK
    <3> QED BY <3>1, <3>2
  <2> QED BY <1>13, <1>a, <1>c, <2>3 DEF Reply, TypeOK
<1> QED BY <1>1, <1>2, <1>3, <1>4, <1>5, <1>6, <1>7, <1>8, <1>9, <1>10, <1>11, <1>12, <1>13
       DEF Step

\* A step of a page, or the loss of the memory, keeps the types.
LEMMA TypeOfRest ==
    ASSUME TypeOK,
           Evict \/ Crash \/ \E c \in Clients :
           Connect(c) \/ Deliver(c) \/ Drop(c) \/ TimesOut(c) \/ Reopen(c)
    PROVE  TypeOK'
<1>1. ASSUME NEW c \in Clients, Connect(c) PROVE TypeOK'
  BY <1>1 DEF Connect, TypeOK
<1>2. ASSUME NEW c \in Clients, Deliver(c) PROVE TypeOK'
  <2>1. Tail(inbox[c]) \in Seq(States) /\ Head(inbox[c]) \in States
    BY <1>2, InboxFacts DEF Deliver, TypeOK
  <2>2. inbox' \in [Clients -> Seq(States)] /\ shown' \in [Clients -> MaybeState]
    BY <1>2, <2>1 DEF Deliver, Guarded, TypeOK, MaybeState
  <2> QED BY <1>2, <2>2 DEF Deliver, TypeOK
<1>3. ASSUME NEW c \in Clients, Drop(c) \/ TimesOut(c) \/ Reopen(c) PROVE TypeOK'
  <2>1. calls' \in [Workers -> [pc : {"idle", "mutate", "create", "insert", "save", "publish", "reply"},
              state : MaybeState, caller : Clients \cup {NoClient}]]
    BY <1>3, AbandonTypes DEF Drop, TimesOut, Reopen
  <2>2. shown' \in [Clients -> MaybeState]
    BY <1>3, StateFacts DEF Drop, TimesOut, Reopen, TypeOK, MaybeState
  <2>3. inbox' \in [Clients -> Seq(States)]
    <3>1. inbox \in [Clients -> Seq(States)] /\ <<>> \in Seq(States)
      BY DEF TypeOK
    <3>2. inbox' = inbox \/ inbox' = [inbox EXCEPT ![c] = <<>>]
      BY <1>3 DEF Drop, TimesOut, Reopen
    <3> QED BY <3>1, <3>2
  <2>4. link' \in [Clients -> {"off", "connected", "joining", "joined", "refused", "closed"}]
    <3>1. \E after \in {"off", "closed", "refused"} : link' = [link EXCEPT ![c] = after]
      BY <1>3 DEF Drop, TimesOut, Reopen
    <3> QED BY <3>1 DEF TypeOK
  <2>5. page' \in [Clients -> {"entering", "entered", "failed"}]
    <3>1. CASE Reopen(c)
      BY <3>1 DEF Reopen, TypeOK
    <3> QED BY <1>3, <3>1, PageTypes DEF Drop, TimesOut
  <2>6. faults' \in 0 .. MaxFaults /\ UNCHANGED <<room, row, commits, unsaved, unsent, lost>>
    BY <1>3, FaultTypes DEF Drop, TimesOut, Reopen
  <2> QED BY <2>1, <2>2, <2>3, <2>4, <2>5, <2>6 DEF TypeOK
<1>4. ASSUME Forget PROVE room' \in MaybeState /\ faults' \in 0 .. MaxFaults
                          /\ {unsaved', unsent', lost'} \subseteq BOOLEAN
  BY <1>4, FaultTypes DEF Forget, MaybeState, TypeOK
<1>5. CASE Evict
  BY <1>4, <1>5 DEF Evict, Forget, TypeOK
<1>6. CASE Crash
  <2>1. calls' \in [Workers -> [pc : {"idle", "mutate", "create", "insert", "save", "publish", "reply"},
              state : MaybeState, caller : Clients \cup {NoClient}]]
    BY <1>6, CallTypes DEF Crash, CallType, Cases
  <2>2. /\ inbox' \in [Clients -> Seq(States)]
        /\ link' \in [Clients -> {"off", "connected", "joining", "joined", "refused", "closed"}]
    BY <1>6 DEF Crash, TypeOK
  <2>3. page' \in [Clients -> {"entering", "entered", "failed"}]
    BY <1>6, PageTypes DEF Crash
  <2> QED BY <1>4, <1>6, <2>1, <2>2, <2>3 DEF Crash, Forget, TypeOK
<1> QED BY <1>1, <1>2, <1>3, <1>5, <1>6

-----------------------------------------------------------------------------
(* What each step keeps *)

\* Where calls and the newest state are, for the step of one call.
LEMMA CallFacts ==
    ASSUME SyncInv, NEW w \in Workers
    PROVE  /\ calls[w].state \in Core /\ room \in Core /\ row \in Core /\ NoState \in Core
           /\ calls[w].state = NoState <=> calls[w].pc \in {"idle", "mutate"}
           /\ calls[w].pc = "create" => calls[w].state = Fresh
           /\ room = NoState => /\ calls[w].pc \in {"idle", "mutate", "create", "insert"}
                                /\ calls[w].state \in {NoState, Top}
           /\ calls[w].caller \in Clients \cup {NoClient}
           /\ calls[w].state \in MaybeState /\ row \in MaybeState /\ room \in MaybeState
           /\ UpTo(calls[w].state) /\ UpTo(row)
           /\ Top \in States /\ Top # NoState
           /\ room # NoState => Top = room
           /\ room = NoState /\ row # NoState => Top = row
           /\ room = NoState /\ row = NoState => Top = Fresh
<1>1. TypeOK /\ Phases /\ Behind
  BY DEF SyncInv
<1>2. /\ calls[w].caller \in Clients \cup {NoClient}
      /\ calls[w].state \in MaybeState /\ row \in MaybeState /\ room \in MaybeState
  BY <1>1 DEF TypeOK
<1>3. UpTo(calls[w].state) /\ UpTo(row)
  BY <1>1 DEF Behind
<1>4. /\ calls[w].state = NoState <=> calls[w].pc \in {"idle", "mutate"}
      /\ calls[w].pc = "create" => calls[w].state = Fresh
      /\ room = NoState => /\ calls[w].pc \in {"idle", "mutate", "create", "insert"}
                           /\ calls[w].state \in {NoState, Top}
  BY <1>1 DEF Phases
<1> QED BY <1>1, <1>2, <1>3, <1>4, TopFacts DEF Core

\* The parts of a call.
LEMMA CallParts ==
    ASSUME NEW pc, NEW s, NEW c
    PROVE  Call(pc, s, c).pc = pc /\ Call(pc, s, c).state = s /\ Call(pc, s, c).caller = c
BY DEF Call

\* A call that starts leaves every state where it is.
LEMMA SyncStart ==
    ASSUME SyncInv, TypeOK', NEW w \in Workers,
           StartMutation(w) \/ \E c \in Clients : StartJoin(w, c)
    PROVE  SyncInv'
<1>a. calls[w].pc = "idle" /\ UNCHANGED <<room, row, inbox, shown, unsaved, unsent, lost>>
  BY DEF StartMutation, StartJoin
<1>b. Top' = Top
  BY <1>a DEF Top
<1>1. CASE StartMutation(w)
  <2> DEFINE call == Call("mutate", NoState, NoClient)
  <2>1. Become(w, call) /\ link' = link
    BY <1>1 DEF StartMutation
  <2>2. call.pc = "mutate" /\ call.state = NoState /\ call.caller = NoClient
    BY CallParts
  <2> HIDE DEF call
  <2> QED BY <1>a, <1>b, <2>1, <2>2, CallFacts, WorkerStep DEF Subscribed
<1>2. ASSUME NEW c \in Clients, StartJoin(w, c) PROVE SyncInv'
  <2> DEFINE call == Call("mutate", NoState, c)
  <2>1. Become(w, call) /\ link' = [link EXCEPT ![c] = "joining"]
    BY <1>2 DEF StartJoin
  <2>2. call.pc = "mutate" /\ call.state = NoState /\ call.caller = c
    BY CallParts
  <2>3. link'[c] = "joining" /\ \A d \in Clients : d # c => link'[d] = link[d]
    BY <2>1 DEF SyncInv, TypeOK
  <2> HIDE DEF call
  <2> QED BY <1>a, <1>b, <2>1, <2>2, <2>3, CallFacts, WorkerStep DEF Subscribed
<1> QED BY <1>1, <1>2

\* A loader takes the row, or a new room, which is the newest state there is.
LEMMA SyncLoad ==
    ASSUME SyncInv, TypeOK', NEW w \in Workers, Load(w) \/ LoadFails(w)
    PROVE  SyncInv'
<1>a. /\ calls[w].pc = "mutate" /\ room = NoState
      /\ UNCHANGED <<room, row, inbox, shown, unsaved, unsent, lost>>
  BY DEF Load, LoadFails
<1>b. Top' = Top
  BY <1>a DEF Top
<1>1. CASE Load(w)
  <2>1. CASE row = NoState
    <3> DEFINE call == Call("create", Fresh, calls[w].caller)
    <3>1. Become(w, call) /\ link' = link
      BY <1>1, <2>1 DEF Load
    <3>2. call.pc = "create" /\ call.state = Fresh /\ call.caller = calls[w].caller
      BY CallParts
    <3>3. Top = Fresh /\ Fresh # NoState
      BY <1>a, <2>1, CallFacts
    <3> HIDE DEF call
    <3> QED BY <1>a, <1>b, <3>1, <3>2, <3>3, CallFacts, WorkerStep DEF Subscribed
  <2>2. CASE row # NoState
    <3> DEFINE call == Call("insert", row, calls[w].caller)
    <3>1. Become(w, call) /\ link' = link
      BY <1>1, <2>2 DEF Load
    <3>2. call.pc = "insert" /\ call.state = row /\ call.caller = calls[w].caller
      BY CallParts
    <3>3. Top = row
      BY <1>a, <2>2, CallFacts
    <3> HIDE DEF call
    <3> QED BY <1>a, <1>b, <2>2, <3>1, <3>2, <3>3, CallFacts, WorkerStep DEF Subscribed
  <2> QED BY <2>1, <2>2
<1>2. CASE LoadFails(w)
  <2> DEFINE call == Idle
  <2>1. Become(w, call)
        /\ link' = [c \in Clients |-> IF c = calls[w].caller THEN "refused" ELSE link[c]]
    BY <1>2 DEF LoadFails
  <2>2. call.pc = "idle" /\ call.state = NoState /\ call.caller = NoClient
    BY CallParts DEF Idle
  <2>3. \A c \in Clients : link'[c] = link[c] \/ link'[c] = "refused"
    BY <2>1
  <2> HIDE DEF call
  <2> QED BY <1>a, <1>b, <2>1, <2>2, <2>3, CallFacts, WorkerStep DEF Subscribed
<1> QED BY <1>1, <1>2

\* The save of a new room finds no row, or changes nothing.
LEMMA SyncSaveFresh ==
    ASSUME SyncInv, TypeOK', NEW w \in Workers, SaveFresh(w)
    PROVE  SyncInv'
<1>1. /\ calls[w].pc = "create"
      /\ UNCHANGED <<room, link, inbox, shown, unsaved, unsent, lost>>
      /\ row' = row \/ row' = IF Newer(calls[w].state, row) THEN calls[w].state ELSE row
  BY DEF SaveFresh, Upsert
<1>2. calls[w].state = Fresh
  BY <1>1, CallFacts
<1>3. row' = row \/ (row = NoState /\ row' = Fresh)
  <2>1. row # NoState => ~(Fresh.version > row.version)
    <3>1. row # NoState => row.version \in Nat /\ Fresh.version = 0
      BY CallFacts, StateFacts DEF MaybeState
    <3> QED BY <3>1
  <2> QED BY <1>1, <1>2, <2>1 DEF Newer
<1>4. Top' = Top
  BY <1>1, <1>3, StateFacts DEF Top
<1> DEFINE call == [calls[w] EXCEPT !.pc = "insert"]
<1>5. Become(w, call)
  BY DEF SaveFresh
<1>6. call.pc = "insert" /\ call.state = calls[w].state /\ call.caller = calls[w].caller
  <2>1. "insert" \in Cases /\ TypeOK
    BY DEF Cases, SyncInv
  <2> QED BY <2>1, PhaseTypes
<1>7. row' \in Core /\ (room # NoState /\ row = room => row' = room)
  BY <1>2, <1>3, CallFacts DEF Core
<1> HIDE DEF call
<1> QED BY <1>1, <1>2, <1>4, <1>5, <1>6, <1>7, CallFacts, WorkerStep DEF Subscribed

\* The room a loader inserts is the newest state; a second loader inserts nothing.
LEMMA SyncInsert ==
    ASSUME SyncInv, TypeOK', NEW w \in Workers, Insert(w)
    PROVE  SyncInv'
<1> DEFINE call == Call("mutate", NoState, calls[w].caller)
<1>1. /\ calls[w].pc = "insert" /\ Become(w, call)
      /\ UNCHANGED <<row, link, inbox, shown, lost>>
      /\ room' = IF room = NoState THEN calls[w].state ELSE room
      /\ room = NoState => unsaved' = (row = NoState)
      /\ room # NoState => UNCHANGED <<unsaved, unsent>>
  BY DEF Insert, InsertOnce
<1>2. call.pc = "mutate" /\ call.state = NoState /\ call.caller = calls[w].caller
  BY CallParts
<1> HIDE DEF call
<1>3. CASE room # NoState
  <2>1. Top' = Top /\ room' = room
    BY <1>1, <1>3 DEF Top
  <2> QED BY <1>1, <1>2, <1>3, <2>1, CallFacts, WorkerStep DEF Subscribed
<1>4. CASE room = NoState
  <2>1. room' = Top /\ Top # NoState /\ Top' = Top
    <3>1. room' = Top /\ Top # NoState
      BY <1>1, <1>4, CallFacts
    <3> QED BY <3>1 DEF Top
  <2>2. /\ calls'[w] = call /\ \A x \in Workers \ {w} : calls'[x] = calls[x]
        /\ TypeOK /\ Phases
    BY <1>1, BecomeFacts DEF SyncInv
  <2>3. Phases'
    <3>1. ASSUME NEW x \in Workers
          PROVE  /\ calls'[x].state = NoState <=> calls'[x].pc \in {"idle", "mutate"}
                 /\ calls'[x].pc = "create" => calls'[x].state = Fresh
      BY <1>2, <2>2 DEF Phases
    <3>2. ASSUME NEW x \in Workers, calls'[x].caller # NoClient
          PROVE  link'[calls'[x].caller] \notin {"off", "closed"}
      <4>1. calls'[x].caller = calls[x].caller /\ link' = link
        BY <1>1, <1>2, <2>2
      <4> QED BY <2>2, <3>2, <4>1 DEF Phases, Subscribed
    <3> QED BY <2>1, <3>1, <3>2 DEF Phases, Subscribed
  <2>4. Behind' /\ VersionNamesState'
    <3>1. \A x \in Workers : calls'[x].state \in Core \cup {Top'}
      BY <1>2, <2>2 DEF Core
    <3> QED BY <1>1, <2>1, <3>1, CallFacts, Carry
  <2>5. SavePending'
    BY <1>1, <1>4, <2>1, CallFacts DEF SavePending
  <2>6. PagePending'
    <3>1. \A c \in Clients : link'[c] # "joined"
      BY <1>1, <1>4, <2>2 DEF Phases
    <3>2. \A x \in Workers : calls'[x].pc \notin {"save", "publish", "reply"}
      BY <1>2, <1>4, <2>2 DEF Phases
    <3> QED BY <3>1, <3>2 DEF PagePending
  <2> QED BY <2>3, <2>4, <2>5, <2>6 DEF SyncInv
<1> QED BY <1>3, <1>4

\* A commit makes a state newer than all others, that its call has yet to save
\* and to publish.
LEMMA SyncCommit ==
    ASSUME SyncInv, TypeOK', NEW w \in Workers, Commit(w)
    PROVE  SyncInv'
<1> DEFINE call == Call("save", room', calls[w].caller)
<1>1. /\ calls[w].pc = "mutate" /\ room # NoState /\ room' = Bumped(room) /\ Become(w, call)
      /\ UNCHANGED <<row, link, inbox, shown, lost>>
  BY DEF Commit
<1>2. call.pc = "save" /\ call.state = room' /\ call.caller = calls[w].caller
  BY CallParts
<1> HIDE DEF call
<1>3. room' # NoState /\ Top' = room' /\ Top'.version > Top.version
  <2>1. room.version \in Nat /\ Top = room
    BY <1>1, CallFacts, StateFacts
  <2>2. room'.version = room.version + 1
    BY <1>1 DEF Bumped, State
  <2>3. room' # NoState
    <3>1. Bumped(room) \in [version : Nat, commit : Nat]
      BY <2>1 DEF Bumped, State, SyncInv, TypeOK
    <3> QED BY <1>1, <3>1
  <2> QED BY <2>1, <2>2, <2>3 DEF Top
<1>4. /\ calls'[w] = call /\ \A x \in Workers \ {w} : calls'[x] = calls[x]
      /\ TypeOK /\ Phases
  BY <1>1, BecomeFacts DEF SyncInv
<1>5. Phases'
  <2>1. ASSUME NEW x \in Workers
        PROVE  /\ calls'[x].state = NoState <=> calls'[x].pc \in {"idle", "mutate"}
               /\ calls'[x].pc = "create" => calls'[x].state = Fresh
    BY <1>2, <1>3, <1>4 DEF Phases
  <2>2. ASSUME NEW x \in Workers, calls'[x].caller # NoClient
        PROVE  link'[calls'[x].caller] \notin {"off", "closed"}
    <3>1. calls'[x].caller = calls[x].caller /\ link' = link
      BY <1>1, <1>2, <1>4
    <3> QED BY <1>4, <2>2, <3>1 DEF Phases, Subscribed
  <2> QED BY <1>3, <2>1, <2>2 DEF Phases, Subscribed
<1>6. Behind' /\ VersionNamesState'
  <2>1. \A x \in Workers : calls'[x].state \in Core \cup {Top'}
    BY <1>2, <1>3, <1>4 DEF Core
  <2> QED BY <1>1, <1>3, <2>1, CallFacts, Carry
<1>7. SavePending'
  BY <1>2, <1>4 DEF SavePending
<1>8. PagePending'
  <2>1. \A c : Reaches(c)'
    BY <1>2, <1>4 DEF Reaches
  <2> QED BY <2>1 DEF PagePending, Reaches
<1> QED BY <1>5, <1>6, <1>7, <1>8 DEF SyncInv

\* A call that changes nothing answers with the room.
LEMMA SyncNoChange ==
    ASSUME SyncInv, TypeOK', NEW w \in Workers, NoChange(w)
    PROVE  SyncInv'
<1> DEFINE call == Call("reply", room, calls[w].caller)
<1>1. /\ calls[w].pc = "mutate" /\ room # NoState /\ Become(w, call)
      /\ UNCHANGED <<room, row, link, inbox, shown, unsaved, unsent, lost>>
  BY DEF NoChange
<1>2. call.pc = "reply" /\ call.state = room /\ call.caller = calls[w].caller
  BY CallParts
<1>3. Top' = Top
  BY <1>1 DEF Top
<1> HIDE DEF call
<1> QED BY <1>1, <1>2, <1>3, CallFacts, WorkerStep DEF Subscribed

\* A save stores the room, loses against a newer row, or marks the room unsaved.
LEMMA SyncSave ==
    ASSUME SyncInv, TypeOK', NEW w \in Workers, Save(w) \/ SaveFails(w)
    PROVE  SyncInv'
<1> DEFINE call == [calls[w] EXCEPT !.pc = "publish"]
<1>1. /\ calls[w].pc = "save" /\ Become(w, call)
      /\ UNCHANGED <<room, link, inbox, shown, unsent, lost>>
  BY DEF Save, SaveFails
<1>2. call.pc = "publish" /\ call.state = calls[w].state /\ call.caller = calls[w].caller
  <2>1. "publish" \in Cases /\ TypeOK
    BY DEF Cases, SyncInv
  <2> QED BY <2>1, PhaseTypes
<1>3. room # NoState /\ calls[w].state # NoState /\ Top' = Top
  <2>1. room # NoState /\ calls[w].state # NoState
    BY <1>1, CallFacts
  <2> QED BY <1>1, <2>1 DEF Top
<1> HIDE DEF call
<1>4. CASE Save(w)
  <2>1. /\ row' = IF Newer(calls[w].state, row) THEN calls[w].state ELSE row
        /\ unsaved' = unsaved
    BY <1>4 DEF Save, Upsert
  <2>2. row' \in Core
    BY <2>1, CallFacts
  <2>3. row = room => row' = room
    <3>1. SUFFICES ASSUME row = room PROVE ~(calls[w].state.version > row.version) \/ calls[w].state = room
      BY <1>3, <2>1, <3>1 DEF Newer
    <3>2. /\ calls[w].state = room \/ calls[w].state.version < room.version
          /\ room.version \in Nat /\ calls[w].state.version \in Nat
      BY <1>3, CallFacts, StateFacts DEF UpTo, MaybeState
    <3> QED BY <3>1, <3>2
  <2>4. calls[w].state = room => row' = room
    <3>1. SUFFICES ASSUME calls[w].state = room
                   PROVE  row = NoState \/ row = room \/ room.version > row.version
      BY <2>1, <3>1 DEF Newer
    <3>2. row # NoState => row = room \/ row.version < room.version
      BY <1>3, CallFacts DEF UpTo
    <3>3. row # NoState => row.version \in Nat /\ room.version \in Nat
      BY <1>3, CallFacts, StateFacts DEF MaybeState
    <3> QED BY <3>2, <3>3
  <2> QED BY <1>1, <1>2, <1>3, <2>1, <2>2, <2>3, <2>4, CallFacts, WorkerStep DEF Subscribed
<1>5. CASE SaveFails(w)
  <2>1. row' = row /\ unsaved' = (unsaved \/ calls[w].state = room)
    BY <1>5 DEF SaveFails
  <2> QED BY <1>1, <1>2, <1>3, <2>1, CallFacts, WorkerStep DEF Subscribed
<1> QED BY <1>4, <1>5

\* A publication reaches every page that is subscribed, or marks the room unsent.
LEMMA SyncPublish ==
    ASSUME SyncInv, TypeOK', NEW w \in Workers, Publish(w) \/ PublishFails(w)
    PROVE  SyncInv'
<1> DEFINE call == [calls[w] EXCEPT !.pc = "reply"]
<1>1. /\ calls[w].pc = "publish" /\ Become(w, call)
      /\ UNCHANGED <<room, row, link, shown, unsaved, lost>>
  BY DEF Publish, PublishFails
<1>2. call.pc = "reply" /\ call.state = calls[w].state /\ call.caller = calls[w].caller
  <2>1. "reply" \in Cases /\ TypeOK
    BY DEF Cases, SyncInv
  <2> QED BY <2>1, PhaseTypes
<1>3. room # NoState /\ calls[w].state # NoState /\ calls[w].state \in States /\ Top' = Top
  <2>1. room # NoState /\ calls[w].state # NoState
    BY <1>1, CallFacts
  <2>2. calls[w].state \in States
    BY <2>1, CallFacts DEF MaybeState
  <2> QED BY <1>1, <2>1, <2>2 DEF Top
<1> HIDE DEF call
<1>4. CASE Publish(w)
  <2>1. /\ inbox' = [c \in Clients |-> IF Subscribed(c) THEN Append(inbox[c], calls[w].state)
                                       ELSE inbox[c]]
        /\ unsent' = unsent
    BY <1>4 DEF Publish
  <2>2. ASSUME NEW c \in Clients
        PROVE  /\ Range(inbox[c]) \subseteq Range(inbox'[c])
               /\ Range(inbox'[c]) \subseteq Range(inbox[c]) \cup {calls[w].state}
               /\ Subscribed(c) => calls[w].state \in Range(inbox'[c])
    <3>1. Range(Append(inbox[c], calls[w].state)) = Range(inbox[c]) \cup {calls[w].state}
      BY <1>3, InboxFacts DEF SyncInv, TypeOK
    <3>2. inbox'[c] = IF Subscribed(c) THEN Append(inbox[c], calls[w].state) ELSE inbox[c]
      BY <2>1
    <3> QED BY <3>1, <3>2
  <2>3. \A c \in Clients : Subscribed(c)' <=> Subscribed(c)
    BY <1>1 DEF Subscribed
  <2> HIDE DEF Subscribed
  <2>4. \A c \in Clients : /\ Range(inbox[c]) \subseteq Range(inbox'[c])
                           /\ Range(inbox'[c]) \subseteq Core \cup Range(inbox[c])
                           /\ calls[w].state = room => (Subscribed(c)' => room \in Range(inbox'[c]))
    BY <2>2, <2>3, CallFacts
  <2>5. calls[w].caller # NoClient => link'[calls[w].caller] \notin {"off", "closed"}
    BY <1>1 DEF SyncInv, Phases, Subscribed
  <2> QED BY <1>1, <1>2, <1>3, <2>1, <2>3, <2>4, <2>5, CallFacts, WorkerStep
<1>5. CASE PublishFails(w)
  <2>1. inbox' = inbox /\ unsent' = (unsent \/ calls[w].state = room)
    BY <1>5 DEF PublishFails
  <2> QED BY <1>1, <1>2, <1>3, <2>1, CallFacts, WorkerStep DEF Subscribed
<1> QED BY <1>4, <1>5

\* A page that joins has the room on its way to it, in the reply or behind it.
LEMMA SyncReply ==
    ASSUME SyncInv, TypeOK', NEW w \in Workers, Reply(w)
    PROVE  SyncInv'
<1> DEFINE call == Idle
<1>1. /\ calls[w].pc = "reply" /\ Become(w, call)
      /\ UNCHANGED <<room, row, shown, unsaved, unsent, lost>>
  BY DEF Reply
<1>2. call.pc = "idle" /\ call.state = NoState /\ call.caller = NoClient
  BY CallParts DEF Idle
<1>3. room # NoState /\ calls[w].state # NoState /\ calls[w].state \in States /\ Top' = Top
  <2>1. room # NoState /\ calls[w].state # NoState
    BY <1>1, CallFacts
  <2>2. calls[w].state \in States
    BY <2>1, CallFacts DEF MaybeState
  <2> QED BY <1>1, <2>1, <2>2 DEF Top
<1> HIDE DEF call
<1>4. CASE calls[w].caller = NoClient
  <2>1. link' = link /\ inbox' = inbox
    BY <1>4 DEF Reply
  <2> QED BY <1>1, <1>2, <1>3, <2>1, CallFacts, WorkerStep DEF Subscribed
<1>5. CASE calls[w].caller # NoClient
  <2>1. PICK c \in Clients : c = calls[w].caller
    BY <1>5, CallFacts
  <2>2. /\ link' = [link EXCEPT ![c] = "joined"]
        /\ inbox' = [inbox EXCEPT ![c] = Append(inbox[c], calls[w].state)]
    BY <1>5, <2>1 DEF Reply
  <2>3. /\ link'[c] = "joined" /\ inbox'[c] = Append(inbox[c], calls[w].state)
        /\ \A d \in Clients : d # c => link'[d] = link[d] /\ inbox'[d] = inbox[d]
        /\ inbox[c] \in Seq(States)
    BY <2>2 DEF SyncInv, TypeOK
  <2>4. Range(inbox'[c]) = Range(inbox[c]) \cup {calls[w].state}
    BY <1>3, <2>3, InboxFacts
  <2>5. \A d \in Clients : /\ Range(inbox[d]) \subseteq Range(inbox'[d])
                           /\ Range(inbox'[d]) \subseteq Core \cup Range(inbox[d])
                           /\ Subscribed(d) => Subscribed(d)'
    BY <2>3, <2>4, CallFacts DEF Subscribed
  <2>6. ~lost => Reaches(c)'
    <3>1. SUFFICES ASSUME ~lost PROVE Reaches(c)'
      OBVIOUS
    <3>2. calls[w].state = room \/ Reaches(c)
      BY <1>1, <1>5, <2>1, <3>1 DEF SyncInv, PagePending
    <3>3. CASE calls[w].state = room
      BY <1>1, <2>4, <3>3 DEF Reaches
    <3>4. CASE Reaches(c)
      <4>1. \A x \in Workers : calls[x].pc \in {"save", "publish"} =>
              calls'[x].pc \in {"save", "publish"} /\ calls'[x].state = calls[x].state
        BY <1>1, BecomeFacts DEF SyncInv
      <4> QED BY <1>1, <2>5, <3>4, <4>1, ReachStays
    <3> QED BY <3>2, <3>3, <3>4
  <2> QED BY <1>1, <1>2, <1>3, <2>3, <2>5, <2>6, CallFacts, WorkerStep
<1> QED BY <1>4, <1>5

\* A page that connects has joined nothing yet.
LEMMA SyncConnect ==
    ASSUME SyncInv, TypeOK', NEW c \in Clients, Connect(c)
    PROVE  SyncInv'
<1>1. /\ link[c] = "off" /\ link' = [link EXCEPT ![c] = "connected"]
      /\ UNCHANGED <<room, row, calls, inbox, shown, unsaved, unsent, lost>>
  BY DEF Connect
<1>2. /\ \A d \in Clients : link'[d] = link[d] \/ link'[d] = "connected"
      /\ TypeOK /\ Phases /\ SavePending
  BY <1>1 DEF SyncInv, TypeOK
<1>3. Top' = Top
  BY <1>1 DEF Top
<1>4. Phases'
  <2>1. ASSUME NEW w \in Workers, calls[w].caller # NoClient
        PROVE  link'[calls[w].caller] \notin {"off", "closed"}
    <3>1. calls[w].caller \in Clients
      BY <1>2, <2>1 DEF TypeOK
    <3> QED BY <1>2, <2>1, <3>1 DEF Phases, Subscribed
  <2>2. room' = NoState => \A d \in Clients : link'[d] # "joined"
    BY <1>1, <1>2 DEF Phases
  <2> QED BY <1>1, <1>2, <1>3, <2>1, <2>2 DEF Phases, Subscribed
<1>5. Behind' /\ VersionNamesState'
  BY <1>1, <1>3, Carry DEF Core
<1>6. SavePending'
  BY <1>1, <1>2, SaveStays
<1>7. PagePending'
  <2>1. \A d \in Clients : Reaches(d) => Reaches(d)'
    BY <1>1 DEF Reaches
  <2> QED BY <1>1, <1>2, <1>4, <2>1, PageStays
<1> QED BY <1>4, <1>5, <1>6, <1>7 DEF SyncInv

\* The page's guard keeps the newer of two states, when r is the newest.
LEMMA GuardFacts ==
    ASSUME NEW r \in States, NEW h \in States, NEW s \in MaybeState,
           h = r \/ h.version < r.version, s = NoState \/ s = r \/ s.version < r.version
    PROVE  s = r \/ h = r => Guarded(s, h) = r
<1>1. /\ r.version \in Nat /\ h.version \in Nat /\ r # NoState
      /\ s # NoState => s.version \in Nat
  BY StateFacts DEF MaybeState
<1>2. s = r => Guarded(s, h) = r
  BY <1>1 DEF Guarded, Newer
<1>3. h = r => Guarded(s, h) = r
  BY <1>1 DEF Guarded, Newer
<1> QED BY <1>2, <1>3

\* A delivered state replaces an older one only, so a page that had or gets the
\* room shows it.
LEMMA SyncDeliver ==
    ASSUME SyncInv, TypeOK', NEW c \in Clients, Deliver(c)
    PROVE  SyncInv'
<1>1. /\ inbox[c] # <<>>
      /\ shown' = [shown EXCEPT ![c] = Guarded(shown[c], Head(inbox[c]))]
      /\ inbox' = [inbox EXCEPT ![c] = Tail(inbox[c])]
      /\ UNCHANGED <<room, row, calls, link, unsaved, unsent, lost>>
  BY DEF Deliver
<1>2. TypeOK /\ Phases /\ Behind /\ SavePending /\ PagePending
  BY DEF SyncInv
<1>3. Top' = Top
  BY <1>1 DEF Top
<1>4. /\ shown'[c] = Guarded(shown[c], Head(inbox[c])) /\ inbox'[c] = Tail(inbox[c])
      /\ \A d \in Clients : d # c => shown'[d] = shown[d] /\ inbox'[d] = inbox[d]
      /\ inbox[c] \in Seq(States) /\ shown[c] \in MaybeState
  BY <1>1, <1>2 DEF TypeOK
<1>5. /\ Head(inbox[c]) \in States
      /\ Range(inbox[c]) = Range(inbox'[c]) \cup {Head(inbox[c])}
  BY <1>1, <1>4, InboxFacts
<1>6. Phases'
  BY <1>1, <1>2, <1>3 DEF Phases, Subscribed
<1>7. Behind' /\ VersionNamesState'
  <2>1. \A d \in Clients : /\ shown'[d] \in Core \cup {shown[d]} \cup Range(inbox[d])
                           /\ Range(inbox'[d]) \subseteq Core \cup Range(inbox[d])
    BY <1>4, <1>5 DEF Guarded
  <2>2. row' \in Core /\ \A w \in Workers : calls'[w].state \in Core
    BY <1>1 DEF Core
  <2> QED BY <1>1, <1>3, <2>1, <2>2, Carry
<1>8. SavePending'
  BY <1>1, <1>2, SaveStays
<1>9. PagePending'
  <2>1. CASE lost
    BY <1>1, <2>1 DEF PagePending
  <2>2. CASE room = NoState
    <3>1. /\ \A d \in Clients : link'[d] # "joined"
          /\ \A w \in Workers : calls'[w].pc \notin {"save", "publish", "reply"}
      BY <1>1, <1>2, <2>2 DEF Phases
    <3> QED BY <3>1 DEF PagePending
  <2>3. CASE ~lost /\ room # NoState
    <3>1. /\ room \in States /\ room = Top
          /\ Head(inbox[c]) = room \/ Head(inbox[c]).version < room.version
          /\ shown[c] = NoState \/ shown[c] = room \/ shown[c].version < room.version
      <4>1. room = Top /\ Top \in States /\ NoState \notin States
        BY <1>2, <2>3, TopFacts, StateFacts
      <4>2. UpTo(shown[c]) /\ UpTo(Head(inbox[c]))
        BY <1>2, <1>5, <2>3 DEF Behind
      <4> QED BY <1>5, <4>1, <4>2 DEF UpTo
    <3>2. shown[c] = room \/ Head(inbox[c]) = room => shown'[c] = room
      BY <1>4, <1>5, <3>1, GuardFacts
    <3>3. \A d \in Clients : Reaches(d) => Reaches(d)'
      <4>1. Reaches(c) => Reaches(c)'
        BY <1>1, <1>5, <3>2 DEF Reaches
      <4>2. ASSUME NEW d \in Clients, d # c PROVE Reaches(d) => Reaches(d)'
        BY <1>1, <1>4, <4>2 DEF Reaches
      <4> QED BY <4>1, <4>2
    <3> QED BY <1>1, <1>2, <1>6, <3>3, PageStays
  <2> QED BY <2>1, <2>2, <2>3
<1> QED BY <1>6, <1>7, <1>8, <1>9 DEF SyncInv

\* A lost connection and a page that is opened again take the page out of those the
\* room must reach; so does a room.join given up, whose page stays subscribed.
LEMMA SyncCut ==
    ASSUME SyncInv, TypeOK', NEW c \in Clients, Drop(c) \/ TimesOut(c) \/ Reopen(c)
    PROVE  SyncInv'
<1>1. /\ \E after \in {"off", "closed", "refused"} :
            /\ link' = [link EXCEPT ![c] = after]
            /\ after = "refused" => inbox' = inbox /\ shown' = shown
      /\ inbox' \in {inbox, [inbox EXCEPT ![c] = <<>>]}
      /\ calls' = [w \in Workers |-> IF calls[w].caller = c
                                     THEN [calls[w] EXCEPT !.caller = NoClient]
                                     ELSE calls[w]]
      /\ shown' \in {shown, [shown EXCEPT ![c] = NoState]}
      /\ UNCHANGED <<room, row, unsaved, unsent, lost>>
  BY DEF Drop, TimesOut, Reopen, Abandon
<1>2. TypeOK /\ Phases /\ SavePending
  BY DEF SyncInv
<1>3. Top' = Top
  BY <1>1 DEF Top
<1>4. /\ link'[c] \in {"off", "closed", "refused"}
      /\ link'[c] = "refused" => inbox' = inbox /\ shown' = shown
      /\ inbox'[c] \in {inbox[c], <<>>} /\ shown'[c] \in {shown[c], NoState}
      /\ \A d \in Clients : d # c => /\ shown'[d] = shown[d] /\ inbox'[d] = inbox[d]
                                     /\ link'[d] = link[d]
  BY <1>1, <1>2 DEF TypeOK
<1>5. \A w \in Workers :
        /\ calls'[w].pc = calls[w].pc /\ calls'[w].state = calls[w].state
        /\ calls'[w].caller # NoClient =>
             calls'[w].caller = calls[w].caller /\ calls[w].caller # c
  BY <1>1, <1>2 DEF TypeOK
<1>6. Phases'
  <2>1. ASSUME NEW w \in Workers, calls'[w].caller # NoClient
        PROVE  link'[calls'[w].caller] \notin {"off", "closed"}
    <3>1. /\ calls'[w].caller = calls[w].caller /\ calls[w].caller # c
          /\ calls[w].caller \in Clients /\ calls[w].caller # NoClient
      BY <1>2, <1>5, <2>1 DEF TypeOK
    <3>2. link'[calls[w].caller] = link[calls[w].caller]
      BY <1>4, <3>1
    <3> QED BY <1>2, <3>1, <3>2 DEF Phases, Subscribed
  <2>2. ASSUME room' = NoState, NEW d \in Clients PROVE link'[d] # "joined"
    BY <1>1, <1>2, <1>4, <2>2 DEF Phases
  <2>3. ASSUME NEW w \in Workers
        PROVE  /\ calls'[w].state = NoState <=> calls'[w].pc \in {"idle", "mutate"}
               /\ calls'[w].pc = "create" => calls'[w].state = Fresh
               /\ room' = NoState =>
                    /\ calls'[w].pc \in {"idle", "mutate", "create", "insert"}
                    /\ calls'[w].state \in {NoState, Top'}
    BY <1>1, <1>2, <1>3, <1>5 DEF Phases
  <2> QED BY <2>1, <2>2, <2>3 DEF Phases, Subscribed
<1>7. Behind' /\ VersionNamesState'
  <2>1. \A d \in Clients : /\ shown'[d] \in Core \cup {shown[d]} \cup Range(inbox[d])
                           /\ Range(inbox'[d]) \subseteq Core \cup Range(inbox[d])
    <3>1. Range(<<>>) = {}
      BY DEF Range
    <3> QED BY <1>4, <3>1 DEF Core
  <2>2. row' \in Core /\ \A w \in Workers : calls'[w].state \in Core
    BY <1>1, <1>5 DEF Core
  <2> QED BY <1>1, <1>3, <2>1, <2>2, Carry
<1>8. SavePending'
  BY <1>1, <1>2, <1>5, SaveStays
<1>9. PagePending'
  <2>1. \A d \in Clients : Reaches(d) /\ Subscribed(d)' => Reaches(d)'
    <3>1. ASSUME NEW d \in Clients, Reaches(d), shown'[d] = shown[d], inbox'[d] = inbox[d]
          PROVE  Reaches(d)'
      BY <1>1, <1>5, <3>1 DEF Reaches
    <3>2. ~Subscribed(c)' \/ (shown'[c] = shown[c] /\ inbox'[c] = inbox[c])
      BY <1>4 DEF Subscribed
    <3> QED BY <1>4, <3>1, <3>2
  <2>2. \A d \in Clients : link'[d] = "joined" => link[d] = "joined"
    BY <1>4
  <2>3. \A w \in Workers :
          calls'[w].pc \in {"save", "publish", "reply"} /\ calls'[w].caller # NoClient =>
            /\ calls[w].pc \in {"save", "publish", "reply"}
            /\ calls'[w].caller = calls[w].caller /\ calls'[w].state = calls[w].state
    BY <1>5
  <2> QED BY <1>1, <1>6, <2>1, <2>2, <2>3, PageStays
<1> QED BY <1>6, <1>7, <1>8, <1>9 DEF SyncInv

\* The memory is lost together with all calls; what is newest is then the row, or
\* a state has been lost.
LEMMA SyncForget ==
    ASSUME SyncInv, TypeOK', Evict \/ Crash
    PROVE  SyncInv'
<1>1. /\ room # NoState /\ room' = NoState /\ lost' = (lost \/ row # room)
      /\ UNCHANGED <<row, shown>>
      /\ \A w \in Workers : calls'[w] = Idle
      /\ \A c \in Clients : link'[c] \in {"off", "closed"}
      /\ \A c \in Clients : inbox'[c] = inbox[c] \/ inbox'[c] = <<>>
  <2>1. CASE Evict
    BY <2>1 DEF Evict, Forget, Subscribed
  <2>2. CASE Crash
    BY <2>2 DEF Crash, Forget, Subscribed
  <2> QED BY <2>1, <2>2
<1>2. Idle.pc = "idle" /\ Idle.state = NoState /\ Idle.caller = NoClient
  BY CallParts DEF Idle
<1>3. Phases'
  BY <1>1, <1>2 DEF Phases
<1>4. Behind' /\ VersionNamesState'
  <2>1. CASE lost'
    <3>1. UpTo(row)' /\ \A w \in Workers : UpTo(calls[w].state)'
      BY <1>1, <1>2 DEF UpTo, Top
    <3> QED BY <2>1, <3>1 DEF Behind, VersionNamesState
  <2>2. CASE ~lost'
    <3>1. Top' = Top /\ ~lost
      BY <1>1, <2>2 DEF Top
    <3>2. Range(<<>>) = {}
      BY DEF Range
    <3>3. /\ row' \in Core /\ \A w \in Workers : calls'[w].state \in Core
          /\ \A c \in Clients : /\ shown'[c] \in Core \cup {shown[c]} \cup Range(inbox[c])
                                /\ Range(inbox'[c]) \subseteq Core \cup Range(inbox[c])
      BY <1>1, <1>2, <3>2 DEF Core
    <3> QED BY <3>1, <3>3, Carry
  <2> QED BY <2>1, <2>2
<1>5. SavePending'
  BY <1>1 DEF SavePending
<1>6. PagePending'
  BY <1>1, <1>2 DEF PagePending
<1> QED BY <1>3, <1>4, <1>5, <1>6 DEF SyncInv

-----------------------------------------------------------------------------
(* The theorems *)

\* The invariant holds of a server that has just started.
LEMMA SyncInit == Init => SyncInv
<1> SUFFICES ASSUME Init PROVE SyncInv
  OBVIOUS
<1>1. /\ Idle.pc = "idle" /\ Idle.state = NoState /\ Idle.caller = NoClient
      /\ Fresh \in States /\ Fresh # NoState
  BY CallParts, StateFacts DEF Idle
<1>2. /\ \A w \in Workers : calls[w] = Idle
      /\ \A c \in Clients : link[c] = "off" /\ inbox[c] = <<>> /\ shown[c] = NoState
      /\ room = NoState /\ row \in {NoState, Fresh}
      /\ Range(<<>>) = {}
  BY DEF Init, Range
<1>3. TypeOK
  <2>1. Idle \in [pc : {"idle", "mutate", "create", "insert", "save", "publish", "reply"},
                  state : MaybeState, caller : Clients \cup {NoClient}]
    BY CallTypes DEF CallType, Cases
  <2>2. calls \in [Workers -> [pc : {"idle", "mutate", "create", "insert", "save", "publish", "reply"},
                  state : MaybeState, caller : Clients \cup {NoClient}]]
    BY <2>1 DEF Init
  <2>3. inbox \in [Clients -> Seq(States)] /\ shown \in [Clients -> MaybeState]
    BY DEF Init, MaybeState
  <2>4. /\ room \in MaybeState /\ row \in MaybeState
        /\ {unsaved, unsent, lost} \subseteq BOOLEAN
    BY <1>1 DEF Init, MaybeState
  <2>6. commits \in Nat /\ faults \in 0 .. MaxFaults
    BY DEF Init
  <2>5. /\ link \in [Clients -> {"off", "connected", "joining", "joined", "refused", "closed"}]
        /\ page \in [Clients -> {"entering", "entered", "failed"}]
    BY DEF Init
  <2> QED BY <2>2, <2>3, <2>4, <2>5, <2>6 DEF TypeOK
<1>4. Phases
  BY <1>1, <1>2 DEF Phases
<1>5. Behind
  BY <1>1, <1>2 DEF Behind, UpTo, Top
<1>6. VersionNamesState
  <2>1. Everywhere \subseteq {row}
    BY <1>1, <1>2 DEF Everywhere
  <2> QED BY <2>1 DEF VersionNamesState
<1>7. SavePending /\ PagePending
  BY <1>1, <1>2 DEF SavePending, PagePending
<1> QED BY <1>3, <1>4, <1>5, <1>6, <1>7 DEF SyncInv

\* It says nothing of what a stuttering step could change.
LEMMA SyncStutters ==
    ASSUME SyncInv, UNCHANGED vars
    PROVE  SyncInv'
<1> USE DEF vars
<1>1. TypeOK' /\ Phases' /\ Behind'
  BY DEF SyncInv, TypeOK, Phases, Behind, UpTo, Top, Subscribed
<1>2. VersionNamesState' /\ SavePending' /\ PagePending'
  BY DEF SyncInv, VersionNamesState, Everywhere, SavePending, PagePending, Reaches
<1> QED BY <1>1, <1>2 DEF SyncInv

\* Every step keeps it.
LEMMA SyncNext ==
    ASSUME SyncInv, [Next]_vars
    PROVE  SyncInv'
<1>0. TypeOK /\ Phases
  BY DEF SyncInv
<1>1. ASSUME NEW w \in Workers, StartMutation(w) \/ Step(w) \/ \E c \in Clients : StartJoin(w, c)
      PROVE  SyncInv'
  <2>1. TypeOK'
    BY <1>0, <1>1, TypeOfCalls
  <2> QED BY <1>1, <2>1, SyncStart, SyncLoad, SyncSaveFresh, SyncInsert, SyncCommit,
             SyncNoChange, SyncSave, SyncPublish, SyncReply DEF Step
<1>2. ASSUME Evict \/ Crash \/ \E c \in Clients :
           Connect(c) \/ Deliver(c) \/ Drop(c) \/ TimesOut(c) \/ Reopen(c)
      PROVE  SyncInv'
  <2>1. TypeOK'
    BY <1>0, <1>2, TypeOfRest
  <2> QED BY <1>2, <2>1, SyncConnect, SyncDeliver, SyncCut, SyncForget
<1> QED BY <1>1, <1>2, SyncStutters DEF Next

\* The inductive invariant of RoomSync holds throughout.
THEOREM SyncInvariant == Spec => []SyncInv
BY SyncInit, SyncNext, PTL DEF Spec

\* hub.mutate, Postgres.Save and the pages handle states, calls and links of the
\* expected kinds only.
THEOREM RoomSyncTypes == Spec => []TypeOK
<1>1. SyncInv => TypeOK
  BY DEF SyncInv
<1> QED BY <1>1, SyncInvariant, PTL

\* Until an unsaved state is forgotten, two copies of the room with one version, in
\* memory, in the row, in a call, in flight or on a page, are the same state: the
\* version guards of Postgres.Save and of realtime.ts compare enough.
THEOREM VersionsNameStates == Spec => []VersionNamesState
<1>1. SyncInv => VersionNamesState
  BY DEF SyncInv
<1> QED BY <1>1, SyncInvariant, PTL

\* When no call of hub.mutate runs, the row is the room unless the save of that
\* state failed, in whatever order concurrent saves landed.
THEOREM StoreConverges == Spec => []StoreCatchesUp
<1>1. SyncInv => StoreCatchesUp
  <2>1. Idle.pc = "idle"
    BY CallParts DEF Idle
  <2> QED BY <2>1 DEF SyncInv, SavePending, StoreCatchesUp, Quiet
<1> QED BY <1>1, SyncInvariant, PTL

\* When no call runs and nothing is on its way to a joined page, it shows the room,
\* unless that publication failed or a state was lost.
THEOREM PagesFollow == Spec => []PagesConverge
<1>1. SyncInv => PagesConverge
  <2>1. Idle.pc = "idle" /\ Range(<<>>) = {}
    BY CallParts DEF Idle, Range
  <2> QED BY <2>1 DEF SyncInv, PagePending, Reaches, PagesConverge, Quiet
<1> QED BY <1>1, SyncInvariant, PTL

-----------------------------------------------------------------------------
(* The abstract specification *)

\* Until something is lost, a room that is nowhere has not reached any page.
Blank ==
    ~lost /\ room = NoState /\ row = NoState =>
        \A c \in Clients : shown[c] = NoState /\ inbox[c] = <<>>

\* No step shows a page a room that is neither in memory nor in the row.
LEMMA BlankStep ==
    ASSUME SyncInv, Blank, [Next]_vars
    PROVE  Blank'
<1> SUFFICES ASSUME ~lost', room' = NoState, row' = NoState, NEW c \in Clients
             PROVE  shown'[c] = NoState /\ inbox'[c] = <<>>
  BY DEF Blank
<1>0. TypeOK /\ Phases /\ (~lost /\ room = NoState /\ row = NoState =>
                             \A d \in Clients : shown[d] = NoState /\ inbox[d] = <<>>)
  BY DEF SyncInv, Blank
<1>1. ASSUME NEW w \in Workers, StartMutation(w) \/ Step(w) \/ \E d \in Clients : StartJoin(w, d)
      PROVE  shown'[c] = NoState /\ inbox'[c] = <<>>
  <2>1. shown' = shown /\ lost' = lost
    BY <1>1 DEF StartMutation, StartJoin, Step, Load, LoadFails, SaveFresh, Insert, Commit,
       NoChange, Save, SaveFails, Publish, PublishFails, Reply
  <2>2. room = NoState /\ row = NoState
    <3>1. CASE Insert(w)
      <4>1. CASE room = NoState
        <5>1. calls[w].pc = "insert" /\ room' = calls[w].state
          BY <3>1, <4>1 DEF Insert, InsertOnce
        <5> QED BY <5>1, CallFacts
      <4> QED BY <3>1, <4>1 DEF Insert, InsertOnce
    <3>2. CASE Commit(w)
      <4>1. room # NoState /\ room \in States /\ room' = Bumped(room)
        BY <1>0, <3>2 DEF Commit, TypeOK, MaybeState
      <4>2. Bumped(room) \in [version : Nat, commit : Nat]
        BY <1>0, <4>1, StateFacts DEF Bumped, State, TypeOK
      <4> QED BY <4>1, <4>2
    <3>3. CASE SaveFresh(w) \/ Save(w)
      <4>1. calls[w].state # NoState /\ room' = room
        BY <3>3, CallFacts DEF SaveFresh, Save
      <4> QED BY <3>3, <4>1 DEF SaveFresh, Save, Upsert
    <3> QED BY <1>1, <3>1, <3>2, <3>3 DEF StartMutation, StartJoin, Step, Load, LoadFails,
              NoChange, SaveFails, Publish, PublishFails, Reply
  <2>3. calls[w].pc \notin {"publish", "reply"}
    BY <2>2, CallFacts
  <2>4. inbox' = inbox
    BY <1>1, <2>3 DEF StartMutation, StartJoin, Step, Load, LoadFails, SaveFresh, Insert, Commit,
       NoChange, Save, SaveFails, Publish, PublishFails, Reply
  <2> QED BY <1>0, <2>1, <2>2, <2>4
<1>2. CASE Evict \/ Crash
  <2>1. room # NoState /\ lost' = (lost \/ row # room) /\ row' = row
    BY <1>2 DEF Evict, Crash, Forget
  <2> QED BY <2>1
<1>3. ASSUME NEW d \in Clients, Connect(d) \/ Deliver(d) \/ Drop(d) \/ TimesOut(d) \/ Reopen(d)
      PROVE  shown'[c] = NoState /\ inbox'[c] = <<>>
  <2>1. room = NoState /\ row = NoState /\ ~lost
    BY <1>3 DEF Connect, Deliver, Drop, TimesOut, Reopen
  <2>2. \A e \in Clients : shown[e] = NoState /\ inbox[e] = <<>>
    BY <1>0, <2>1
  <2>3. CASE Connect(d)
    BY <2>2, <2>3 DEF Connect
  <2>4. CASE Deliver(d)
    BY <2>2, <2>4 DEF Deliver
  <2>5. CASE Drop(d) \/ TimesOut(d) \/ Reopen(d)
    <3>1. /\ shown' = shown \/ shown' = [shown EXCEPT ![d] = NoState]
          /\ inbox' = inbox \/ inbox' = [inbox EXCEPT ![d] = <<>>]
      BY <2>5 DEF Drop, TimesOut, Reopen
    <3> QED BY <1>0, <2>2, <3>1 DEF TypeOK
  <2> QED BY <1>3, <2>3, <2>4, <2>5
<1>4. CASE UNCHANGED vars
  BY <1>0, <1>4 DEF vars
<1> QED BY <1>1, <1>2, <1>3, <1>4 DEF Next

\* What current stands for in the refinement.
Current == IF room = NoState THEN Version(row) ELSE Version(room)

\* Versions are integers; only a missing state has none.
LEMMA VersionFacts ==
    /\ Version(NoState) = -1
    /\ \A s \in States : Version(s) = s.version /\ Version(s) \in Nat
    /\ \A s \in MaybeState : Version(s) \in Int
BY StateFacts DEF Version, MaybeState

\* A step that leaves the newest version and the pages alone stutters.
LEMMA ViewStutters ==
    ASSUME Current' = Current, shown' = shown, lost' = lost
    PROVE  [View!Next \/ View!Breaks]_View!vars
BY DEF View!vars, Current, Version

\* A new version is a change of the room.
LEMMA ViewChanges ==
    ASSUME Current' = Current + 1, shown' = shown, lost' = lost
    PROVE  [View!Next \/ View!Breaks]_View!vars
BY DEF View!Next, View!Change, Current, Version

\* Forgetting an unsaved state breaks the promise.
LEMMA ViewBreaks ==
    ASSUME lost'
    PROVE  [View!Next \/ View!Breaks]_View!vars
BY DEF View!Breaks

\* A page that comes to show a newer state that exists has been refreshed.
LEMMA ViewRefreshes ==
    ASSUME TypeOK, NEW c \in Clients, NEW s \in States, shown' = [shown EXCEPT ![c] = s],
           Version(s) > Version(shown[c]), Version(s) =< Current,
           Current' = Current, lost' = lost
    PROVE  [View!Next \/ View!Breaks]_View!vars
<1>1. [d \in Clients |-> Version(shown'[d])]
        = [[d \in Clients |-> Version(shown[d])] EXCEPT ![c] = Version(s)]
  BY DEF TypeOK
<1>2. Version(s) \in Int /\ Version(shown[c]) \in Int /\ Current \in Int
  BY VersionFacts DEF TypeOK, MaybeState, Current
<1>3. Version(s) \in [d \in Clients |-> Version(shown[d])][c] + 1 .. Current
  BY <1>2
<1>4. View!Refresh(c)
  BY <1>1, <1>3 DEF View!Refresh, Current, Version
<1> QED BY <1>4 DEF View!Next

\* A page that is opened again shows nothing.
LEMMA ViewReloads ==
    ASSUME TypeOK, NEW c \in Clients, shown' = [shown EXCEPT ![c] = NoState],
           Current' = Current, lost' = lost
    PROVE  [View!Next \/ View!Breaks]_View!vars
<1>1. [d \in Clients |-> Version(shown'[d])]
        = [[d \in Clients |-> Version(shown[d])] EXCEPT ![c] = -1]
  BY VersionFacts DEF TypeOK
<1>2. View!Reload(c)
  BY <1>1 DEF View!Reload, View!None, Current, Version
<1> QED BY <1>2 DEF View!Next

\* A call's step makes one new version or none.
LEMMA ViewOfCalls ==
    ASSUME SyncInv, NEW w \in Workers,
           StartMutation(w) \/ Step(w) \/ \E c \in Clients : StartJoin(w, c)
    PROVE  [View!Next \/ View!Breaks]_View!vars
<1>0. shown' = shown /\ lost' = lost
  BY DEF StartMutation, StartJoin, Step, Load, LoadFails, SaveFresh, Insert, Commit,
     NoChange, Save, SaveFails, Publish, PublishFails, Reply
<1>1. CASE Commit(w)
  <2>1. room \in States /\ room' = Bumped(room)
    BY <1>1 DEF Commit, SyncInv, TypeOK, MaybeState
  <2>2. room.version \in Nat /\ commits \in Nat /\ Bumped(room) \in [version : Nat, commit : Nat]
        /\ Bumped(room).version = room.version + 1
    BY <2>1, StateFacts DEF Bumped, State, SyncInv, TypeOK
  <2>3. room # NoState /\ room' # NoState
    BY <2>1, <2>2, StateFacts
  <2>4. Current' = Current + 1
    BY <2>1, <2>2, <2>3 DEF Current, Version
  <2> QED BY <1>0, <2>4, ViewChanges
<1>2. CASE SaveFresh(w)
  <2>1. room' = room /\ calls[w].state = Fresh
        /\ (row' = row \/ row' = IF Newer(Fresh, row) THEN Fresh ELSE row)
    BY <1>2, CallFacts DEF SaveFresh, Upsert
  <2>2. CASE row = NoState /\ room = NoState /\ row' = Fresh
    <3>1. Current = -1 /\ Current' = 0
      BY <2>1, <2>2, StateFacts DEF Current, Version
    <3>2. Current' = Current + 1
      BY <3>1
    <3> QED BY <1>0, <3>2, ViewChanges
  <2>3. CASE ~(row = NoState /\ room = NoState /\ row' = Fresh)
    <3>1. room # NoState \/ row' = row
      <4>1. row # NoState => ~(Fresh.version > row.version)
        <5>1. row # NoState => row.version \in Nat /\ Fresh.version = 0
          BY CallFacts, StateFacts DEF MaybeState
        <5> QED BY <5>1
      <4> QED BY <2>1, <2>3, <4>1 DEF Newer
    <3>2. Current' = Current
      BY <2>1, <3>1 DEF Current
    <3> QED BY <1>0, <3>2, ViewStutters
  <2> QED BY <2>2, <2>3
<1>3. CASE Insert(w)
  <2>1. calls[w].pc = "insert" /\ row' = row
        /\ room' = IF room = NoState THEN calls[w].state ELSE room
    BY <1>3 DEF Insert, InsertOnce
  <2>2. CASE room = NoState /\ row = NoState
    <3>1. room' = Fresh /\ Fresh # NoState
      BY <2>1, <2>2, CallFacts
    <3>2. Current = -1 /\ Current' = 0
      BY <2>1, <2>2, <3>1, StateFacts DEF Current, Version
    <3>3. Current' = Current + 1
      BY <3>2
    <3> QED BY <1>0, <3>3, ViewChanges
  <2>3. CASE room = NoState /\ row # NoState
    <3>1. room' = row
      BY <2>1, <2>3, CallFacts
    <3>2. Current' = Current
      BY <2>1, <2>3, <3>1 DEF Current
    <3> QED BY <1>0, <3>2, ViewStutters
  <2>4. CASE room # NoState
    <3>1. Current' = Current
      BY <2>1, <2>4 DEF Current
    <3> QED BY <1>0, <3>1, ViewStutters
  <2> QED BY <2>2, <2>3, <2>4
<1>4. CASE Save(w)
  <2>1. room' = room /\ room # NoState
    BY <1>4, CallFacts DEF Save
  <2>2. Current' = Current
    BY <2>1 DEF Current
  <2> QED BY <1>0, <2>2, ViewStutters
<1>5. CASE UNCHANGED <<room, row>>
  <2>1. Current' = Current
    BY <1>5 DEF Current, Version
  <2> QED BY <1>0, <2>1, ViewStutters
<1> QED BY <1>1, <1>2, <1>3, <1>4, <1>5 DEF StartMutation, StartJoin, Step, Load, LoadFails,
       NoChange, SaveFails, Publish, PublishFails, Reply

\* A page's step moves it forward to a version that exists, or empties it.
LEMMA ViewOfPages ==
    ASSUME SyncInv, Blank, ~lost, NEW c \in Clients,
           Connect(c) \/ Deliver(c) \/ Drop(c) \/ TimesOut(c) \/ Reopen(c)
    PROVE  [View!Next \/ View!Breaks]_View!vars
<1>0. /\ TypeOK /\ Behind
      /\ room' = room /\ row' = row /\ lost' = lost
  BY DEF SyncInv, Connect, Deliver, Drop, TimesOut, Reopen
<1>a. Current' = Current
  BY <1>0 DEF Current, Version
<1>1. CASE Connect(c)
  BY <1>0, <1>a, <1>1, ViewStutters DEF Connect
<1>2. CASE Deliver(c)
  <2> DEFINE s == Head(inbox[c])
  <2>1. inbox[c] # <<>> /\ shown' = [shown EXCEPT ![c] = Guarded(shown[c], s)]
    BY <1>2 DEF Deliver
  <2>2. s \in States /\ s \in Range(inbox[c])
    BY <1>0, <2>1, InboxFacts DEF TypeOK
  <2> HIDE DEF s
  <2>3. CASE Guarded(shown[c], s) = shown[c]
    <3>1. shown' = shown
      BY <1>0, <2>1, <2>3 DEF TypeOK
    <3> QED BY <1>0, <1>a, <3>1, ViewStutters
  <2>4. CASE Guarded(shown[c], s) # shown[c]
    <3>1. Guarded(shown[c], s) = s /\ (shown[c] = NoState \/ s.version > shown[c].version)
      BY <2>4 DEF Guarded, Newer
    <3>2. Version(s) > Version(shown[c])
      <4>1. shown[c] \in MaybeState
        BY <1>0 DEF TypeOK
      <4>2. Version(s) = s.version /\ Version(s) \in Nat /\ s.version \in Nat
        BY <2>2, VersionFacts, StateFacts
      <4>3. CASE shown[c] = NoState
        BY <4>2, <4>3, VersionFacts
      <4>4. CASE shown[c] # NoState
        <5>1. Version(shown[c]) = shown[c].version
          BY <4>1, <4>4, VersionFacts DEF MaybeState
        <5> QED BY <3>1, <4>2, <4>4, <5>1
      <4> QED BY <4>3, <4>4
    <3>3. Version(s) =< Current
      <4>1. s = Top \/ s.version < Top.version
        BY <1>0, <2>2, StateFacts DEF Behind, UpTo
      <4>2. room # NoState \/ row # NoState
        BY <2>1 DEF Blank
      <4>3. Current = Version(Top) /\ Top \in States
        BY <1>0, <4>2, TopFacts DEF Current
      <4>4. Version(s) = s.version /\ Version(Top) = Top.version
            /\ s.version \in Nat /\ Top.version \in Nat
        BY <2>2, <4>3, VersionFacts, StateFacts
      <4>5. s.version =< Top.version
        BY <4>1, <4>4
      <4> QED BY <4>3, <4>4, <4>5
    <3>4. shown' = [shown EXCEPT ![c] = s]
      BY <2>1, <3>1
    <3> QED BY <1>0, <1>a, <2>2, <3>2, <3>3, <3>4, ViewRefreshes
  <2> QED BY <2>3, <2>4
<1>3. CASE Drop(c) \/ TimesOut(c) \/ Reopen(c)
  <2>1. CASE shown' = shown
    BY <1>0, <1>a, <2>1, ViewStutters
  <2>2. CASE shown' = [shown EXCEPT ![c] = NoState]
    BY <1>0, <1>a, <2>2, ViewReloads
  <2> QED BY <1>3, <2>1, <2>2 DEF Drop, TimesOut, Reopen
<1> QED BY <1>1, <1>2, <1>3

\* Every step of RoomSync is a step of RoomView or a stutter.
LEMMA ViewStep ==
    ASSUME SyncInv, Blank, [Next]_vars
    PROVE  [View!Next \/ View!Breaks]_View!vars
<1>1. ASSUME NEW w \in Workers, StartMutation(w) \/ Step(w) \/ \E c \in Clients : StartJoin(w, c)
      PROVE  [View!Next \/ View!Breaks]_View!vars
  BY <1>1, ViewOfCalls
<1>2. ASSUME NEW c \in Clients, Connect(c) \/ Deliver(c) \/ Drop(c) \/ TimesOut(c) \/ Reopen(c)
      PROVE  [View!Next \/ View!Breaks]_View!vars
  <2>1. CASE lost
    <3>1. lost'
      BY <1>2, <2>1 DEF Connect, Deliver, Drop, TimesOut, Reopen
    <3> QED BY <3>1, ViewBreaks
  <2>2. CASE ~lost
    BY <1>2, <2>2, ViewOfPages
  <2> QED BY <2>1, <2>2
<1>3. CASE Evict \/ Crash
  <2>1. /\ room # NoState /\ room' = NoState /\ row' = row /\ shown' = shown
        /\ lost' = (lost \/ row # room)
    BY <1>3 DEF Evict, Crash, Forget
  <2>2. CASE lost'
    BY <2>2, ViewBreaks
  <2>3. CASE ~lost'
    <3>1. lost' = lost /\ Current' = Current
      <4>1. row = room /\ ~lost
        BY <2>1, <2>3
      <4>2. lost' = lost
        <5>1. lost = FALSE
          BY <4>1 DEF SyncInv, TypeOK
        <5>2. lost' = FALSE
          BY <2>1, <4>1, <5>1
        <5> QED BY <5>1, <5>2
      <4> QED BY <2>1, <4>1, <4>2 DEF Current
    <3> QED BY <2>1, <3>1, ViewStutters
  <2> QED BY <2>2, <2>3
<1>4. CASE UNCHANGED vars
  <2>1. Current' = Current /\ shown' = shown /\ lost' = lost
    BY <1>4 DEF vars, Current, Version
  <2> QED BY <2>1, ViewStutters
<1> QED BY <1>1, <1>2, <1>3, <1>4 DEF Next

\* The initial states are initial states of RoomView.
LEMMA ViewInit == Init => View!Init /\ Blank
<1> SUFFICES ASSUME Init PROVE View!Init /\ Blank
  OBVIOUS
<1>1. /\ room = NoState /\ row \in {NoState, Fresh} /\ lost = FALSE
      /\ shown = [c \in Clients |-> NoState]
      /\ \A c \in Clients : shown[c] = NoState /\ inbox[c] = <<>>
  BY DEF Init
<1>2. Version(row) \in {-1, 0}
  BY <1>1, StateFacts DEF Version
<1>3. [c \in Clients |-> Version(shown[c])] = [c \in Clients |-> -1]
  BY <1>1, VersionFacts
<1> QED BY <1>1, <1>2, <1>3 DEF View!Init, View!None, Blank

\* RoomSync implements RoomView: memory, row, eviction, restart and reload behave as
\* one sequence of versions along which every page only moves forward.
THEOREM RoomSyncImplementsView == Spec => ImplementsRoomView
<1>1. SyncInv /\ Blank /\ [Next]_vars => [View!Next \/ View!Breaks]_View!vars
  BY ViewStep
<1>2. SyncInv /\ Blank /\ [Next]_vars => Blank'
  BY BlankStep
<1> QED BY <1>1, <1>2, ViewInit, SyncInvariant, PTL DEF Spec, ImplementsRoomView, View!Spec

===============================================================================
