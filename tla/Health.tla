-------------------------------- MODULE Health --------------------------------
(***************************************************************************)
(* The health tracker of internal/route (HealthTracker): the outcomes of   *)
(* recent sends per endpoint.  A slice of observations is the set of its   *)
(* elements, numbered so that equal ones count separately; their order is  *)
(* never looked at.  The threshold is the 0.5 that NewService passes.      *)
(***************************************************************************)
EXTENDS Registry, FiniteSets

CONSTANT HealthWindow \* HealthTracker.window

ASSUME HealthConstants == HealthWindow \in Nat

VARIABLE observations \* HealthTracker.observations: id -> outcomes kept

Observed == DOMAIN observations

Outcome == [n : Nat, at : Nat, success : BOOLEAN]

HealthTypeOK ==
  /\ Observed \subseteq Sites
  /\ observations \in [Observed -> SUBSET Outcome]

HealthInit == observations = [i \in {} |-> {}]

\* What the map holds for an id, the nil slice for one it does not hold.
Kept(id) == IF id \in Observed THEN observations[id] ELSE {}

Keep(id, outcomes) ==
  observations' = [i \in Observed \cup {id} |-> IF i = id THEN outcomes ELSE observations[i]]

Observe(id, outcome) == Keep(id, Kept(id) \cup {outcome})

Recent(outcomes, now) == {o \in outcomes : o.at > now - HealthWindow}

\* SuccessRate >= 0.5, and TRUE when nothing recent is known.
MostlySucceeds(outcomes) ==
  2 * Cardinality({o \in outcomes : o.success}) >= Cardinality(outcomes)

\* The outcomes kept are those after now, not those after now less the window.
JudgeForgetsWindow(id, now) == Keep(id, {o \in Kept(id) : o.at > now})

\* Healthy: what is not recent is dropped, and the rest judged.
Judge(id, now) == Keep(id, Recent(Kept(id), now))

\* The outcomes that are about to be dropped count as well.
IsHealthyEver(id, now) == MostlySucceeds(Kept(id))

IsHealthy(id, now) == MostlySucceeds(Recent(Kept(id), now))

==============================================================================
