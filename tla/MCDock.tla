-------------------------------- MODULE MCDock -------------------------------
(***************************************************************************)
(* Instances of Dock for TLC: keys with one event each, one endpoint to    *)
(* select.  All events were created at time 0.  Event e3 is in the runs    *)
(* that give Keys three members.                                           *)
(***************************************************************************)
EXTENDS DockProperties, TLC

CONSTANTS e1, e2, e3, k1, k2, k3, p, d1, d2, d3, x1, x2, x3

TwoEvents == {e1, e2}
ThreeEvents == {e1, e2, e3}

Names == [e \in {e1, e2, e3} |-> CASE e = e1 -> <<k1, d1, x1>> [] e = e2 -> <<k2, d2, x2>>
                                   [] e = e3 -> <<k3, d3, x3>>]

EventKeys == [e \in Events |-> Names[e][1]]
EventEndpoints == [e \in Events |-> p]
EventNames == [e \in Events |-> Names[e][3]]
EventPriorities == [e \in Events |-> IF e = e1 THEN 2 ELSE 1]
EventTimes == [e \in Events |-> 0]
DeliveryIds == [a \in Specs \X Keys |-> LET e == CHOOSE x \in Events : Names[x][1] = a[2] IN Names[e][2]]

DispatchSymmetry == Permutations(Dispatchers)

==============================================================================
