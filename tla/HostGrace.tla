------------------------------ MODULE HostGrace ------------------------------
(***************************************************************************)
(* HostRole on the wall clock: how long the host has been away, which the  *)
(* server's own state does not tell.  The grace timer runs for the grace   *)
(* period and the boot window is as long (hub.go, roles.go).               *)
(***************************************************************************)
EXTENDS HostRole

VARIABLE absence    \* the host's absence: shorter than the grace period ("recent", or
                    \* "restarted" since the restart) or longer ("long")

AwayBriefly == absence \in {"recent", "restarted"}

ClockedInit == Init /\ absence = "none"

\* The absence that counts is that of the current host; it starts when no
\* connection of the host attends any more.
Watched ==
    absence' = IF host' # host \/ Attending(host)' THEN "none"
               ELSE IF Attending(host) THEN "recent" ELSE absence

\* Neither the timer nor the boot window may outrun the clock, and a restart
\* cuts off everybody.
OnTime ==
    /\ TimerFires /\ grace.user = host => ~AwayBriefly
    /\ IF Restart THEN absence' = IF host = NoUser THEN "none" ELSE "restarted"
       ELSE IF BootWindowEnds /\ absence = "restarted" THEN absence' = "long"
       ELSE Watched

\* The grace period has passed since the host left.
GracePasses ==
    /\ absence = "recent"
    /\ absence' = "long"
    /\ UNCHANGED vars

ClockedSpec == ClockedInit /\ [][(Next /\ OnTime) \/ GracePasses]_<<vars, absence>>

\* protocol.md, Host grace: "A disconnected host keeps the role for 60 s".  Others
\* may only transfer or claim it meanwhile, and the owner may rejoin.
HostKeepsRoleForGrace ==
    [][host' # host /\ AwayBriefly => Deliberate \/ host' = owner]_vars

===============================================================================
