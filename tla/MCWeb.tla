--------------------------------- MODULE MCWeb ---------------------------------
(***************************************************************************)
(* The parts of a page that share no variable, checked side by side: a     *)
(* behaviour is one of a single part, chosen at the start, for all          *)
(* interleavings of two of them would show nothing more of either.         *)
(***************************************************************************)
EXTENDS PageFeed, PageSession, QueuePanel

VARIABLE part   \* the part of the page that moves

webVars == <<feedVars, sessionVars, panelVars, part>>

WebInit ==
    /\ FeedInit /\ SessionInit /\ PanelInit
    /\ part \in {"chat", "roster", "session", "panel"}

\* Chat lines and the roster have no effect on each other either.
WebNext ==
    /\ \/ /\ part \in {"chat", "roster"} /\ FeedNext
          /\ part = "chat" => UNCHANGED <<place, chosen>>
          /\ part = "roster" => UNCHANGED sent
          /\ UNCHANGED <<sessionVars, panelVars>>
       \/ part = "session" /\ SessionNext /\ UNCHANGED <<feedVars, panelVars>>
       \/ part = "panel" /\ PanelNext /\ UNCHANGED <<feedVars, sessionVars>>
    /\ UNCHANGED part

WebSpec == WebInit /\ [][WebNext]_webVars /\ SessionFairness

WebTypeOK == FeedTypeOK /\ SessionTypeOK /\ PanelTypeOK
===============================================================================
