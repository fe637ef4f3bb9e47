------------------------------- MODULE Leasing -------------------------------
(***************************************************************************)
(* What the relay promises about its deliveries when nothing fails, with   *)
(* no store, queue, journal or breaker in sight.  Owners work on           *)
(* deliveries under grants that run out.  A delivery is granted again only *)
(* when no grant of it that somebody still works under has time left, only *)
(* its latest holder settles it or puts it back, every failed attempt is   *)
(* counted once, it is given up after MaxAttempts of them and no earlier,  *)
(* and what is settled stays settled.                                      *)
(***************************************************************************)
EXTENDS Integers

CONSTANTS
  Ids,         \* deliveries
  Owners,      \* who works on them
  Nobody,      \* the holder of a delivery that is not granted
  Term,        \* a grant lasts this long at most
  MaxAttempts  \* failed attempts after which a delivery may be given up

VARIABLES
  phase,    \* per delivery: "none" before it is admitted, "open", "delivered" or "dead"
  holder,   \* per delivery: whose grant is the latest, unless that one was returned
  attempts, \* per delivery: failed attempts
  grants,   \* the grants that somebody works under
  time

vars == <<phase, holder, attempts, grants, time>>

Init ==
  /\ phase = [id \in Ids |-> "none"]
  /\ holder = [id \in Ids |-> Nobody]
  /\ attempts = [id \in Ids |-> 0]
  /\ grants = {}
  /\ time = 1

TimePasses ==
  /\ time' = time + 1
  /\ UNCHANGED <<phase, holder, attempts, grants>>

Admit(id) ==
  /\ phase[id] = "none"
  /\ phase' = [phase EXCEPT ![id] = "open"]
  /\ UNCHANGED <<holder, attempts, grants, time>>

\* An owner that is slow to ask may be left with a grant that has run out already.
Grant(w, id, until) ==
  /\ phase[id] = "open"
  /\ \A g \in grants : g.owner # w /\ (g.id = id => g.until <= time)
  /\ holder' = [holder EXCEPT ![id] = w]
  /\ grants' = grants \cup {[owner |-> w, id |-> id, until |-> until]}
  /\ UNCHANGED <<phase, attempts, time>>

\* The owner stops: it lost the delivery to another one, or leaves its grant to run out.
Abandon(g) ==
  /\ grants' = grants \ {g}
  /\ UNCHANGED <<phase, holder, attempts, time>>

Returned(g) ==
  /\ phase[g.id] = "open" /\ holder[g.id] = g.owner
  /\ holder' = [holder EXCEPT ![g.id] = Nobody]
  /\ grants' = grants \ {g}
  /\ UNCHANGED time

Deliver(g) ==
  /\ Returned(g)
  /\ phase' = [phase EXCEPT ![g.id] = "delivered"]
  /\ UNCHANGED attempts

GiveUp(g) ==
  /\ Returned(g)
  /\ attempts' = [attempts EXCEPT ![g.id] = @ + 1]
  /\ attempts'[g.id] >= MaxAttempts
  /\ phase' = [phase EXCEPT ![g.id] = "dead"]

PutBack(g) ==
  /\ Returned(g)
  /\ attempts' = [attempts EXCEPT ![g.id] = @ + 1]
  /\ UNCHANGED phase

Next ==
  \/ TimePasses
  \/ \E id \in Ids : Admit(id)
  \/ \E w \in Owners, id \in Ids : \E until \in 0 .. time + Term : Grant(w, id, until)
  \/ \E g \in grants : Abandon(g) \/ Deliver(g) \/ GiveUp(g) \/ PutBack(g)

Spec == Init /\ [][Next]_vars

==============================================================================
