------------------------------ MODULE Scheduler ------------------------------
(***************************************************************************)
(* The ready queue of internal/queue (Scheduler): a heap of (id, ready)    *)
(* items ordered by ready, indexed by id, with a capacity.  Here the heap  *)
(* is the function from the queued ids (byID) to their ready times; what   *)
(* the heap adds is that PopReady takes an item that no other precedes,    *)
(* any one of them when several are equally early.                         *)
(***************************************************************************)
EXTENDS Core, FiniteSets

CONSTANT Capacity

ASSUME CapacityIsNat == Capacity \in Nat

VARIABLE queue

Queued == DOMAIN queue

\* The queue holds no more than Capacity items.
SchedulerTypeOK ==
  /\ Queued \subseteq Ids
  /\ IsFiniteSet(Queued) /\ Cardinality(Queued) <= Capacity
  /\ queue \in [Queued -> Int]

SchedulerInit == queue = [id \in {} |-> 0]

\* One item too many.
HasRoomOffByOne(id) == id \in Queued \/ Cardinality(Queued) <= Capacity

HasRoom(id) == id \in Queued \/ Cardinality(Queued) < Capacity

\* Schedule: a queued id only gets the new ready time, a new one needs a free place.
Schedule(id, ready) ==
  /\ HasRoom(id)
  /\ queue' = [i \in Queued \cup {id} |-> IF i = id THEN ready ELSE queue[i]]

ScheduleFull(id) ==
  /\ ~HasRoom(id)
  /\ UNCHANGED queue

IsEarliest(id) == \A i \in Queued : queue[id] <= queue[i]

\* PopReady returned id.
PopReady(id, now) ==
  /\ id \in Queued
  /\ IsEarliest(id)
  /\ queue[id] <= now
  /\ queue' = [i \in Queued \ {id} |-> queue[i]]

\* PopReady returned nothing.
NoneReady(now) ==
  /\ \A i \in Queued : queue[i] > now
  /\ UNCHANGED queue

==============================================================================
