-------------------------- MODULE RoutingProperties ---------------------------
(***************************************************************************)
(* What routing promises: properties of Routing.                           *)
(***************************************************************************)
EXTENDS Routing

------------------------------------------------------------------------------
(* Registry and planner *)

\* Whatever a supervision pass writes to an endpoint that operators are deregistering and
\* registering again meanwhile, the list of ids and the map keep naming the same endpoints,
\* each once: the planner reads one through the other.
OrderedIsRegistry ==
  /\ ToSet(ordered) = Registered
  /\ Len(ordered) = Cardinality(Registered)

Usable(tenant) == {i \in Registered : registry[i].tenant = tenant /\ registry[i].enabled}

\* What the planner's two filters and two sorts come to.  Select takes the enabled endpoint
\* of the tenant that nothing is preferred to, and one without health only if all of its
\* priority are; and Fallback for the endpoint Select took finds the best of the others, if
\* there is another: the next one after it.  (For a preferred endpoint that Select would not
\* take, the code's Fallback returns one that comes before it.)
PlannerIsRight ==
  \A t \in Tenants :
    LET chosen == Select(t)
        IsBest(i, set) == i \in set /\ \A j \in set \ {i} :
          \/ registry[i].priority < registry[j].priority
          \/ registry[i].priority = registry[j].priority /\ registry[i].score >= registry[j].score
    IN
    /\ IF Usable(t) = {} THEN chosen = NoSite ELSE IsBest(chosen, Usable(t))
    /\ chosen # NoSite /\ registry[chosen].score = 0 =>
         \A i \in ToSet(Healthy(t)) : registry[i].priority > registry[chosen].priority
    /\ LET others == Usable(t) \ {chosen} IN
       IF others = {} THEN Fallback(t, chosen) = NoSite
                      ELSE IsBest(Fallback(t, chosen), others)

------------------------------------------------------------------------------
(* Health *)

\* Healthy prunes as it judges, so every pass decides what the later ones still see.  Whatever
\* passes ran before or run beside it, with old times or with times ahead of the clock, a pass's
\* verdict is the one that all outcomes ever reported give for the window before its time, as
\* long as no pass with a later time judged the endpoint first.  (One that did, as a pass ahead
\* of the clock does, has dropped outcomes the earlier time would count.)
VerdictsFromHistory ==
  [][\A s \in Supervisors, i \in Sites :
       /\ super[s].pc = "judge" /\ super'[s].pc = "update"
       /\ IsNext(s, i) /\ judged[i] <= super[s].now
       => super'[s].healthy = MostlySucceeds(Recent(history[i], super[s].now))]_vars

\* A pass lowers an endpoint's score only if a send to it failed within the window before the
\* pass's time, or later: not for failures of an earlier time, and not for what was reported of
\* another id.
NoBlameWithoutFailure ==
  [][\A s \in Supervisors, i \in Sites :
       /\ super[s].pc = "update" /\ super'[s].pc # "update"
       /\ i \in Registered /\ registry'[i].score < registry[i].score
       => \E o \in history[i] : ~o.success /\ o.at > super[s].now - HealthWindow]_vars

==============================================================================
