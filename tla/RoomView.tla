------------------------------- MODULE RoomView -------------------------------
(***************************************************************************)
(* What the server promises the pages of a room: there is one sequence of  *)
(* room states, named by their versions; a page only moves forward along   *)
(* it and is never ahead of it.  The promise ends when the server forgets  *)
(* a state it never stored.  RoomSync implements this specification.       *)
(***************************************************************************)
EXTENDS Integers

CONSTANT Clients

None == -1      \* a page that shows nothing yet, or a room that does not exist

VARIABLES
    current,    \* version of the newest room state
    view,       \* view[c]: version shown by c's page
    broken      \* an unsaved state has been forgotten

vars == <<current, view, broken>>

Init ==
    /\ current \in {None, 0}
    /\ view = [c \in Clients |-> None]
    /\ broken = FALSE

Change == current' = current + 1 /\ UNCHANGED view

Refresh(c) ==
    \E v \in view[c] + 1 .. current :
        view' = [view EXCEPT ![c] = v] /\ UNCHANGED current

\* The page is opened again, empty.
Reload(c) == view' = [view EXCEPT ![c] = None] /\ UNCHANGED current

Next ==
    /\ broken' = broken
    /\ \/ Change
       \/ \E c \in Clients : Refresh(c) \/ Reload(c)

Breaks == broken'

Spec == Init /\ [][Next \/ Breaks]_vars

===============================================================================
