---------------------------- MODULE PriorityWindow ----------------------------
(***************************************************************************)
(* The priorities internal/batch keeps next to the batch window            *)
(* (PriorityWindow), by which the supervisor drains it.  An id without an  *)
(* entry counts as priority 0, ahead of every positive one.                *)
(*                                                                         *)
(* The map has no lock.  Its operations are taken to be atomic, Take with  *)
(* the removal from the window it begins with.                             *)
(***************************************************************************)
EXTENDS BatchWindow

CONSTANT PriorityOf \* Event.Priority

ASSUME PriorityConstants == PriorityOf \in [Events -> Int]

VARIABLE priority \* PriorityWindow.priority: id -> priority

windowVars == <<window, priority>>

Ranked == DOMAIN priority

PriorityTypeOK == Ranked \subseteq Ids /\ priority \in [Ranked -> Int]

PriorityInit == priority = [id \in {} |-> 0]

SetPriority(id, e) ==
  priority' = [i \in Ranked \cup {id} |-> IF i = id THEN PriorityOf[e] ELSE priority[i]]

\* What PriorityOrder sorts by.
Place(id) ==
  [id |-> id, priority |-> IF id \in Ranked THEN priority[id] ELSE 0, added |-> window[id]]

Places == {Place(id) : id \in Waiting}

\* A place that comes first among those.
IsForemost(x, places) ==
  \A y \in places :
    \/ x.priority < y.priority
    \/ x.priority = y.priority /\ x.added <= y.added

Take(id) ==
  /\ WindowRemove(id)
  /\ priority' = [i \in Ranked \ {id} |-> priority[i]]

==============================================================================
