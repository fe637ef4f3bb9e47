------------------------------- MODULE MCRelay -------------------------------
(***************************************************************************)
(* Instances of Relay for TLC.  Two deliveries share endpoint p; the       *)
(* events e1 and e1b carry the same idempotency key.                       *)
(***************************************************************************)
EXTENDS RelayProperties, TLC

CONSTANTS e1, e1b, e2, k1, k2, p, d1, d2

OneKeyTwice == {e1, e1b}
AllEvents == {e1, e1b, e2}

EventKeys == [e \in Events |-> IF e = e2 THEN k2 ELSE k1]
EventEndpoints == [e \in Events |-> p]
KeyIds == [k \in Keys |-> IF k = k1 THEN d1 ELSE d2]

WorkerSymmetry == Permutations(Steppers)
ClientSymmetry == Permutations(Clients)
Symmetry == WorkerSymmetry \cup ClientSymmetry

==============================================================================
