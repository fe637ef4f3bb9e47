----------------------------- MODULE BatchWindow -----------------------------
(***************************************************************************)
(* The batch window of internal/batch (Window): the items waiting to be    *)
(* sent together, at most WindowCapacity of them.  An item is known by its *)
(* delivery id; its event is the event of that delivery.  The insertion    *)
(* order is left out: whoever drains the window sorts the items by the     *)
(* time they were added, with a sort that is not stable.                   *)
(***************************************************************************)
EXTENDS Core, FiniteSets

CONSTANTS
  WindowCapacity, \* Window.capacity
  WindowInterval, \* Window.interval
  WindowAt        \* Window.windowAt, set when the window is made and never after

ASSUME WindowConstants ==
  WindowCapacity \in Nat /\ WindowInterval \in Nat /\ WindowAt \in Nat

VARIABLE window \* Window.items: id -> AddedAt

Waiting == DOMAIN window

\* The window holds no more than its capacity.
WindowTypeOK ==
  /\ Waiting \subseteq Ids
  /\ Cardinality(Waiting) <= WindowCapacity
  /\ window \in [Waiting -> Nat]

WindowInit == window = [id \in {} |-> 0]

\* One item more than the capacity is let in.
WindowAddOffByOne(id, now) ==
  /\ id \in Waiting \/ Cardinality(Waiting) <= WindowCapacity
  /\ window' = [i \in Waiting \cup {id} |-> IF i \in Waiting THEN window[i] ELSE now]

\* Add: an item that is there already is left as it is.
WindowAdd(id, now) ==
  /\ id \in Waiting \/ Cardinality(Waiting) < WindowCapacity
  /\ window' = [i \in Waiting \cup {id} |-> IF i \in Waiting THEN window[i] ELSE now]

WindowFull(id) ==
  /\ id \notin Waiting /\ Cardinality(Waiting) >= WindowCapacity
  /\ UNCHANGED window

\* Remove reports success and the item stays.
WindowRemoveKeeps(id) ==
  /\ id \in Waiting
  /\ UNCHANGED window

WindowRemove(id) ==
  /\ id \in Waiting
  /\ window' = [i \in Waiting \ {id} |-> window[i]]

WindowRemoveUnknown(id) ==
  /\ id \notin Waiting
  /\ UNCHANGED window

\* The time since windowAt counts, whatever the window holds; its capacity does not.
WindowReady(now) == Waiting # {} /\ now - WindowAt >= WindowInterval

\* The items of a drained batch that come first among those in todo.
IsOldest(batch, todo, id) == id \in todo /\ \A i \in todo : batch[id] <= batch[i]

==============================================================================
