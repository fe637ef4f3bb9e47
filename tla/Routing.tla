------------------------------- MODULE Routing --------------------------------
(***************************************************************************)
(* The routing side of internal/relaydock: operators who change the        *)
(* registry and adjust scores (HealthAdjust), dispatchers who report how   *)
(* their sends ended (Dispatch's calls of Observe), and supervisors who    *)
(* publish what was observed as scores (HealthTracker.Apply, the last part *)
(* of Supervisor.Run).  Submit's Select only reads and is a state function *)
(* of Registry.  The Dock takes the endpoint it selects to be any.         *)
(*                                                                         *)
(* Apply holds no lock from one call to the next: it works through a list  *)
(* of endpoints copied at its start, with the time Run was called with:    *)
(* the clock's of before, or ahead of it (the demo and the tests run a     *)
(* pass a minute, the whole health window, ahead).                         *)
(***************************************************************************)
EXTENDS Health

CONSTANTS
  Specs,       \* endpoint specifications operators register
  Deltas,      \* what operators add to a score
  Supervisors, \* goroutines calling Supervisor.Run
  RunLeads,    \* how far ahead of the clock Run may be called
  MaxTime,     \* bound: the clock stops here
  MaxSends,    \* bound: outcomes observed
  MaxPasses,   \* bound: supervision passes
  MaxChanges   \* bound: changes operators make

ASSUME RoutingConstants ==
  /\ Specs \subseteq EndpointSpec /\ Deltas \subseteq Int /\ RunLeads \subseteq Nat
  /\ MaxTime \in Nat /\ MaxSends \in Nat /\ MaxPasses \in Nat /\ MaxChanges \in Nat

VARIABLES
  super,   \* per supervisor: the pass of Apply it is in
  clock,   \* the time Now returns
  passes,  \* supervision passes so far
  changes, \* changes by operators so far
  history, \* observation variable: every outcome ever reported, per endpoint
  judged   \* observation variable: the furthest time a pass has judged the endpoint with

boundVars == <<clock, passes, changes>>
vars == <<registryVars, observations, super, boundVars, history, judged>>

\* now: the argument of Run.  todo: endpoints still to be handled.  healthy: the verdict on
\* the one at hand.
IdleSuper == [pc |-> "idle", now |-> 0, todo |-> {}, healthy |-> TRUE]

SuperPCs == {"idle", "list", "look", "judge", "update"}

\* Every variable has its type: a score stays a natural number whatever is subtracted from it,
\* and a pass that is judging an endpoint has it on its list.
RoutingTypeOK ==
  /\ RegistryTypeOK
  /\ HealthTypeOK
  /\ super \in [Supervisors -> [pc : SuperPCs, now : Nat, todo : SUBSET Sites,
                                healthy : BOOLEAN]]
  /\ \A s \in Supervisors :
       /\ super[s].todo \subseteq Observed
       /\ super[s].pc \in {"judge", "update"} => super[s].todo # {}
  /\ clock \in Nat /\ passes \in Nat /\ changes \in Nat
  /\ history \in [Sites -> SUBSET Outcome] /\ judged \in [Sites -> Nat]

Init ==
  /\ RegistryInit /\ HealthInit
  /\ super = [s \in Supervisors |-> IdleSuper]
  /\ clock = 1 /\ passes = 0 /\ changes = 0
  /\ history = [i \in Sites |-> {}] /\ judged = [i \in Sites |-> 0]

Tick ==
  /\ clock < MaxTime
  /\ clock' = clock + 1
  /\ UNCHANGED <<registryVars, observations, super, passes, changes, history, judged>>

------------------------------------------------------------------------------
(* Operators *)

OperatorStep(i) ==
  /\ changes < MaxChanges
  /\ \/ \E spec \in Specs : Register(i, spec)
     \/ Deregister(i)
     \/ \E enabled \in BOOLEAN : SetEnabled(i, enabled)
     \/ \E delta \in Deltas : UpdateHealth(i, delta)
  /\ changes' = changes + 1
  /\ UNCHANGED <<observations, super, clock, passes, history, judged>>

------------------------------------------------------------------------------
(* Dispatchers.  An event names its endpoint itself, so a send may be to   *)
(* one that is disabled or not registered.                                 *)

Sends == UNION {history[i] : i \in Sites}

SendReported(i, success) ==
  LET outcome == [n |-> Cardinality(Sends), at |-> clock, success |-> success] IN
  /\ outcome.n < MaxSends
  /\ Observe(i, outcome)
  /\ history' = [history EXCEPT ![i] = @ \cup {outcome}]
  /\ UNCHANGED <<registryVars, super, boundVars, judged>>

------------------------------------------------------------------------------
(* Supervisors *)

superFrame == <<clock, changes, history>>

SuperGoes(s, pc) == super' = [super EXCEPT ![s].pc = pc]

PassBegin(s, lead) ==
  /\ super[s].pc = "idle"
  /\ passes < MaxPasses
  /\ super' = [super EXCEPT ![s] = [IdleSuper EXCEPT !.pc = "list", !.now = clock + lead]]
  /\ passes' = passes + 1
  /\ UNCHANGED <<registryVars, observations, judged, superFrame>>

\* Every endpoint that was ever observed.
ApplyList(s) ==
  /\ super[s].pc = "list"
  /\ super' = [super EXCEPT ![s].pc = "look", ![s].todo = Observed]
  /\ UNCHANGED <<registryVars, observations, judged, passes, superFrame>>

\* The endpoint of the list that comes next.
IsNext(s, i) == i \in super[s].todo /\ \A j \in super[s].todo : i <= j

SuperDone(s, i) == super' = [super EXCEPT ![s].pc = "look", ![s].todo = @ \ {i}]

\* An endpoint that is not registered is passed over.
ApplyLook(s) ==
  /\ super[s].pc = "look"
  /\ \E i \in super[s].todo :
       /\ IsNext(s, i)
       /\ IF i \in Registered THEN SuperGoes(s, "judge") ELSE SuperDone(s, i)
  /\ UNCHANGED <<registryVars, observations, judged, passes, superFrame>>

ApplyJudge(s) ==
  /\ super[s].pc = "judge"
  /\ \E i \in super[s].todo :
       /\ IsNext(s, i)
       /\ Judge(i, super[s].now)
       /\ super' = [super EXCEPT ![s].pc = "update",
                                 ![s].healthy = IsHealthy(i, super[s].now)]
       /\ judged' = [judged EXCEPT ![i] = Max({@, super[s].now})]
  /\ UNCHANGED <<registryVars, passes, superFrame>>

\* The endpoint may have gone meanwhile, or may be another one with the same id.
ApplyUpdate(s) ==
  /\ super[s].pc = "update"
  /\ \E i \in super[s].todo :
       /\ IsNext(s, i)
       /\ UpdateHealth(i, IF super[s].healthy THEN 1 ELSE -1) \/ Unregistered(i)
       /\ SuperDone(s, i)
  /\ UNCHANGED <<observations, judged, passes, superFrame>>

PassEnd(s) ==
  /\ super[s].pc = "look" /\ super[s].todo = {}
  /\ super' = [super EXCEPT ![s] = IdleSuper]
  /\ UNCHANGED <<registryVars, observations, judged, passes, superFrame>>

SuperStep(s) ==
  ApplyList(s) \/ ApplyLook(s) \/ ApplyJudge(s) \/ ApplyUpdate(s) \/ PassEnd(s)

------------------------------------------------------------------------------

Next ==
  \/ Tick
  \/ \E i \in Sites : OperatorStep(i) \/ \E success \in BOOLEAN : SendReported(i, success)
  \/ \E s \in Supervisors : SuperStep(s) \/ \E lead \in RunLeads : PassBegin(s, lead)

Spec == Init /\ [][Next]_vars

==============================================================================
