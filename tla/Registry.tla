------------------------------- MODULE Registry ------------------------------
(***************************************************************************)
(* The endpoint registry of internal/route (Registry) and the choices the  *)
(* Planner makes from it.  Every operation of the registry runs under its  *)
(* mutex; the planner keeps no state and reads the registry once per call. *)
(* An endpoint's URL and registration time are left out.                   *)
(***************************************************************************)
EXTENDS Selection, SequencesExt

CONSTANTS
  Sites,   \* endpoint ids, numbered in their (string) order
  NoSite,  \* stands for ErrNoEndpoint
  Tenants

ASSUME RegistryConstants == Sites \subseteq Int /\ NoSite \notin Sites

VARIABLES
  registry, \* Registry.endpoints: id -> EndpointSpec
  ordered   \* Registry.ordered

registryVars == <<registry, ordered>>

Registered == DOMAIN registry

\* No endpoint is registered with a negative score; Register does not look.
EndpointSpec == [tenant : Tenants, priority : Int, score : Nat, enabled : BOOLEAN]

RegistryTypeOK ==
  /\ Registered \subseteq Sites
  /\ registry \in [Registered -> EndpointSpec]
  /\ ordered \in Seq(Sites)

RegistryInit == registry = [i \in {} |-> 0] /\ ordered = <<>>

------------------------------------------------------------------------------

\* The map with the id's entry set, whether it was there or not.
Put(id, spec) == registry' = [i \in Registered \cup {id} |-> IF i = id THEN spec ELSE registry[i]]

\* An id that is registered already is refused.
Register(id, spec) ==
  /\ id \notin Registered
  /\ Put(id, spec)
  /\ ordered' = Append(ordered, id)

Deregister(id) ==
  /\ id \in Registered
  /\ registry' = [i \in Registered \ {id} |-> registry[i]]
  /\ ordered' = RemoveFirst(ordered, id)

Unregistered(id) == id \notin Registered /\ UNCHANGED registryVars

SetEnabled(id, enabled) ==
  /\ id \in Registered
  /\ Put(id, [registry[id] EXCEPT !.enabled = enabled])
  /\ UNCHANGED ordered

\* An id that is not in the map is written back with the fields it reads as there.
UpdateHealthUnchecked(id, delta) ==
  LET spec == IF id \in Registered THEN registry[id]
              ELSE [tenant |-> CHOOSE t \in Tenants : TRUE, priority |-> 0, score |-> 0,
                    enabled |-> FALSE] IN
  /\ Put(id, [spec EXCEPT !.score = IF @ + delta < 0 THEN 0 ELSE @ + delta])
  /\ UNCHANGED ordered

\* The score may fall below zero.
UpdateHealthUnclamped(id, delta) ==
  /\ id \in Registered
  /\ Put(id, [registry[id] EXCEPT !.score = @ + delta])
  /\ UNCHANGED ordered

\* The score never falls below zero.
UpdateHealth(id, delta) ==
  /\ id \in Registered
  /\ Put(id, [registry[id] EXCEPT !.score = IF @ + delta < 0 THEN 0 ELSE @ + delta])
  /\ UNCHANGED ordered

------------------------------------------------------------------------------
(* Planner *)

\* The score is not compared.
PreferredByPriority(i, j) ==
  LET a == registry[i]
      b == registry[j] IN
  \/ a.priority < b.priority
  \/ a.priority = b.priority /\ i < j

\* Lower priority first, then the higher score, then the lower id.
Preferred(i, j) ==
  LET a == registry[i]
      b == registry[j] IN
  \/ a.priority < b.priority
  \/ a.priority = b.priority /\ a.score > b.score
  \/ a.priority = b.priority /\ a.score = b.score /\ i < j

\* In the order of registration; ForTenant sorts by id, which Candidates' sort undoes.
ForTenant(tenant) == Selected(ordered, {i \in Registered : registry[i].tenant = tenant})

\* A permutation of the sites in which none is preferred to one before it.
Sorted(sites) ==
  LET places == DOMAIN sites
      order == CHOOSE p \in [places -> places] :
                 /\ IsInjective(p)
                 /\ \A a, b \in places : a < b => ~Preferred(sites[p[b]], sites[p[a]])
  IN [n \in places |-> sites[order[n]]]

\* usable: the enabled endpoints of a tenant, best first.
Candidates(tenant) == Sorted(Selected(ForTenant(tenant), {i \in Registered : registry[i].enabled}))

First(sites) == IF sites = <<>> THEN NoSite ELSE Head(sites)

Select(tenant) == First(Candidates(tenant))

Fallback(tenant, preferred) == First(Selected(Candidates(tenant), Sites \ {preferred}))

Healthy(tenant) == Selected(Candidates(tenant), {i \in Registered : registry[i].score > 0})

==============================================================================
