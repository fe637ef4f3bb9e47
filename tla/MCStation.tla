------------------------------- MODULE MCStation ------------------------------
(***************************************************************************)
(* Instances of Station for TLC: keys with one event each, one endpoint.   *)
(***************************************************************************)
EXTENDS StationProperties

CONSTANTS e1, e2, k1, k2, p, d1, d2

TwoEvents == {e1, e2}

EventKeys == [e \in Events |-> IF e = e2 THEN k2 ELSE k1]
EventEndpoints == [e \in Events |-> p]
EventNames == [e \in Events |-> e]
EventTimes == [e \in Events |-> 0]
DeliveryIds == [a \in Specs \X Keys |-> IF a[2] = k2 THEN d2 ELSE d1]

==============================================================================
