------------------------------ MODULE MCRouting -------------------------------
(***************************************************************************)
(* Instances of Routing for TLC. *)
(***************************************************************************)
EXTENDS RoutingProperties, TLC

CONSTANT t

OneSpec == {[tenant |-> t, priority |-> 1, score |-> 1, enabled |-> TRUE]}
TwoSpecs == OneSpec \cup {[tenant |-> t, priority |-> 2, score |-> 0, enabled |-> TRUE]}
UpAndDown == {-1, 1}

SupervisorSymmetry == Permutations(Supervisors)

==============================================================================
