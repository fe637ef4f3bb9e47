-------------------------- MODULE StationProperties ---------------------------
(***************************************************************************)
(* What the dock and the relay promise together: properties of Station.    *)
(***************************************************************************)
EXTENDS Station

\* Replay's cursor passes no pending entry that it did not put in the queue, while the dock's
\* clients and the workers compete with it for the places.
ReplaySkipsNothing == R!ReplaySkipsNothing

\* Every place in the queue is taken by a delivery that is not due yet.
FullOfLater == Cardinality(Queued) = Capacity /\ \A i \in Queued : queue[i] > clock

\* Nothing is left behind by a Submit of the dock that failed and popped another client's
\* delivery (service.go:115), by one that rolled back and left its entry to Replay
\* (service.go:119), or by a worker or a sweep that found the queue full: with the overdue
\* sweep kept running, every due or leased delivery comes to an outcome or a later retry, or
\* the queue is full of deliveries that are not due.
NothingIsLeftBehind ==
  \A id \in Ids : R!Unsettled(id) ~> (~R!Unsettled(id) \/ FullOfLater)

\* A Run of Replay ends at the first entry the queue has no room for (replay.go:29), and the
\* next one begins there again.  Although clients, workers and sweeps take the places one
\* delivery's entry needs for another delivery, and keep appending, repeated runs catch up
\* with the journal for good, or the queue is full of deliveries that are not due.
ReplayCatchesUp == \A r \in Replayers : <>[](replay[r].cursor = Len(journal) \/ FullOfLater)

------------------------------------------------------------------------------
(* A sentence the code contradicts *)

\* README.md:3: the relay "can replay journaled work after a restart".  When the queue has
\* room and no append is rejected: a worker that takes an id off the queue, whose latest entry
\* in the journal is pending, finds the delivery.
ReplayedWorkIsThere ==
  \A w \in Steppers :
    worker[w].pc = "acquire" /\ LastTransitionIs(worker[w].id, "pending") => Stored(worker[w].id)

==============================================================================
