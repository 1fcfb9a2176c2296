------------------------------ MODULE MCHostRole ------------------------------
(* TLC instance of HostRole: Ana with two tabs, Bia and Caio with one each. *)
EXTENDS HostRole

CONSTANTS ana, bia, caio, a1, a2, b1, c1

MCConns == {a1, a2, b1, c1}
MCUsers == {ana, bia, caio}
MCUserOf == [c \in MCConns |-> CASE c = b1 -> bia [] c = c1 -> caio [] OTHER -> ana]

\* Ana's tabs are interchangeable, and so are Bia and Caio.
Swap(x, y) == x :> y @@ y :> x
Same(x) == x :> x
Tabs == {Same(a1) @@ Same(a2), Swap(a1, a2)}
Others == {Same(bia) @@ Same(caio) @@ Same(b1) @@ Same(c1),
           Swap(bia, caio) @@ Swap(b1, c1)}
Symmetry == {t @@ o : t \in Tabs, o \in Others}

\* Ana opened the room and handed Bia the role; both are in it.
HandedOver ==
    /\ host = bia /\ owner = ana /\ pristine = FALSE
    /\ closure = NoClosure /\ vanished = {}
    /\ members = {a1, b1} /\ seniority = <<ana, bia>>
    /\ conn = [c \in Conns |-> IF c \in {a1, b1} THEN "in" ELSE "off"]
    /\ hooks = [c \in Conns |-> "none"]
    /\ kicked = {} /\ kicks = {} /\ transfers = {}
    /\ grace = NoGrace /\ armed = FALSE /\ fired = {} /\ handoffs = {}
    /\ mode = "running"
    /\ disruptions = 0

HandedOverSpec == HandedOver /\ [][Next]_vars

===============================================================================
