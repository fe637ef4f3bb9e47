---------------------------- MODULE RoutingProofs -----------------------------
(***************************************************************************)
(* The health tracker under passes that work side by side, with old times  *)
(* or with times ahead of the clock: a pass's verdict counts everything    *)
(* reported unless a pass with a later time came first, and no endpoint is *)
(* blamed for what it did not do.                                          *)
(* And the registry: its list and its map agree, and the planner chooses   *)
(* from them the endpoint that is preferred.                               *)
(***************************************************************************)
EXTENDS RoutingProperties, SelectionProofs

------------------------------------------------------------------------------
(* The invariant *)

Pass == [pc : SuperPCs, now : Nat, todo : SUBSET Sites, healthy : BOOLEAN]

PassStarts(s) == \E lead \in RunLeads : PassBegin(s, lead)

Forms ==
  /\ Registered \subseteq Sites /\ registry \in [Registered -> EndpointSpec]
  /\ Observed \subseteq Sites
  /\ super \in [Supervisors -> Pass]
  /\ clock \in Nat
  /\ history \in [Sites -> SUBSET Outcome] /\ IsFiniteSet(Sends)
  /\ judged \in [Sites -> Nat]

\* The tracker keeps reported outcomes, and all that were recent at the furthest time any pass
\* judged the endpoint with.
Faithful ==
  \A i \in Sites :
    /\ Kept(i) \subseteq history[i] /\ IsFiniteSet(Kept(i))
    /\ Recent(history[i], judged[i]) \subseteq Kept(i)

Failed(i, now) == \E o \in history[i] : ~o.success /\ o.at > now - HealthWindow

\* A bad verdict has a failure behind it.
Justified ==
  \A s \in Supervisors, i \in Sites :
    super[s].pc = "update" /\ ~super[s].healthy /\ IsNext(s, i) => Failed(i, super[s].now)

------------------------------------------------------------------------------
(* The operations *)

LEMMA KeptAfter ==
  ASSUME NEW id, NEW outcomes, Keep(id, outcomes)
  PROVE  /\ Kept(id)' = outcomes /\ Observed' = Observed \cup {id}
         /\ \A j : j # id => Kept(j)' = Kept(j)
BY DEF Keep, Kept, Observed

LEMMA KeptSame ==
  ASSUME observations' = observations, NEW id
  PROVE  Kept(id)' = Kept(id) /\ Observed' = Observed
BY DEF Kept, Observed

\* A verdict against an endpoint counts a failure.
LEMMA BadVerdict ==
  ASSUME NEW outcomes, IsFiniteSet(outcomes), ~MostlySucceeds(outcomes)
  PROVE  \E o \in outcomes : ~o.success
<1>1. SUFFICES ASSUME \A o \in outcomes : o.success PROVE FALSE
  OBVIOUS
<1>2. {o \in outcomes : o.success} = outcomes
  BY <1>1
<1>3. Cardinality(outcomes) \in Nat
  BY FS_CardinalityType
<1> QED BY <1>2, <1>3 DEF MostlySucceeds

\* What changing an endpoint does to the registry.
LEMMA HealthUpdated ==
  ASSUME Forms, NEW id \in Sites, NEW delta \in Int, UpdateHealth(id, delta)
  PROVE  /\ Registered' = Registered /\ registry' \in [Registered' -> EndpointSpec]
         /\ \A j \in Registered : registry'[j].score < registry[j].score => j = id /\ delta < 0
<1>1. PICK new : new = IF registry[id].score + delta < 0 THEN 0 ELSE registry[id].score + delta
  OBVIOUS
<1>2. id \in Registered /\ registry[id] \in EndpointSpec
  BY DEF UpdateHealth, Forms
<1>3. new \in Nat /\ (delta >= 0 => new >= registry[id].score)
  BY <1>1, <1>2 DEF EndpointSpec
<1>4. Put(id, [registry[id] EXCEPT !.score = new])
  BY <1>1, Zenon DEF UpdateHealth
<1>5. PICK r : r = [registry[id] EXCEPT !.score = new]
  OBVIOUS
<1>6. r \in EndpointSpec /\ r.score = new
  BY <1>2, <1>3, <1>5 DEF EndpointSpec
<1>7. registry' = [i \in Registered \cup {id} |-> IF i = id THEN r ELSE registry[i]]
  BY <1>4, <1>5 DEF Put
<1>8. /\ Registered' = Registered /\ registry'[id] = r
      /\ \A j \in Registered \ {id} : registry'[j] = registry[j]
  BY <1>2, <1>7 DEF Registered
<1>9. registry' \in [Registered' -> EndpointSpec]
  BY <1>6, <1>7, <1>8 DEF Forms, Registered
<1>10. \A j \in Registered : registry[j].score \in Nat
  BY DEF Forms, EndpointSpec
<1> QED BY <1>3, <1>6, <1>8, <1>9, <1>10

\* A supervisor's pass that goes on.
LEMMA PassMoves ==
  ASSUME Forms, NEW s \in Supervisors, NEW r \in Pass,
         super' = [super EXCEPT ![s] = r]
  PROVE  /\ super' \in [Supervisors -> Pass]
         /\ super'[s] = r /\ \A t \in Supervisors \ {s} : super'[t] = super[t]
BY DEF Forms

\* A verdict is one or the other.
LEMMA Verdict ==
  ASSUME NEW outcomes, IsFiniteSet(outcomes)
  PROVE  MostlySucceeds(outcomes) \in BOOLEAN
<1>1. IsFiniteSet({o \in outcomes : o.success})
  BY FS_Subset
<1>2. PICK all, good \in Nat :
        all = Cardinality(outcomes) /\ good = Cardinality({o \in outcomes : o.success})
  BY <1>1, FS_CardinalityType
<1>3. (2 * good >= all) \in BOOLEAN
  BY <1>2
<1> QED BY <1>2, <1>3 DEF MostlySucceeds

LEMMA RecentFinite ==
  ASSUME Faithful, NEW i \in Sites, NEW now
  PROVE  IsFiniteSet(Recent(Kept(i), now)) /\ Recent(Kept(i), now) \subseteq history[i]
BY FS_Subset DEF Faithful, Recent

LEMMA SuperMoves ==
  ASSUME Forms, Faithful, NEW s \in Supervisors, PassStarts(s) \/ SuperStep(s)
  PROVE  /\ super' \in [Supervisors -> Pass]
         /\ \A t \in Supervisors \ {s} : super'[t] = super[t]
         /\ super'[s].pc = "update" => ApplyJudge(s)
<1> DEFINE Moves == /\ super' \in [Supervisors -> Pass]
                    /\ \A t \in Supervisors \ {s} : super'[t] = super[t]
<1>1. super[s] \in Pass /\ clock \in Nat
  BY DEF Forms
<1>2. IdleSuper \in Pass /\ IdleSuper.pc = "idle" /\ IdleSuper.now = 0
  BY DEF IdleSuper, Pass, SuperPCs
<1>3. CASE PassStarts(s)
  <2>0. PICK list, now : /\ list = "list" /\ now \in Nat
                         /\ super' = [super EXCEPT ![s] =
                                        [IdleSuper EXCEPT !.pc = list, !.now = now]]
    <3>1. PICK lead \in RunLeads : PassBegin(s, lead)
      BY <1>3 DEF PassStarts
    <3>2. lead \in Nat
      BY RoutingConstants
    <3>3. PICK now : now = clock + lead
      OBVIOUS
    <3>4. now \in Nat
      BY <1>1, <3>2, <3>3
    <3> QED BY <3>1, <3>3, <3>4, Zenon DEF PassBegin
  <2>1. PICK r : r = [IdleSuper EXCEPT !.pc = list, !.now = now]
    OBVIOUS
  <2>2. r \in Pass /\ r.pc = list
    <3>1. list \in SuperPCs /\ now \in Nat
      BY <2>0 DEF SuperPCs
    <3> QED BY <1>2, <2>1, <3>1 DEF Pass
  <2>3. super' = [super EXCEPT ![s] = r]
    BY <2>0, <2>1
  <2> QED BY <1>1, <2>0, <2>2, <2>3, PassMoves
<1>4. CASE ApplyList(s)
  <2>1. PICK r : r = [super[s] EXCEPT !.pc = "look", !.todo = Observed]
    OBVIOUS
  <2>2. r \in Pass /\ r.pc = "look" /\ r.now = super[s].now
    BY <1>1, <2>1 DEF Forms, Pass, SuperPCs
  <2>3. super' = [super EXCEPT ![s] = r]
    BY <1>4, <2>1, Zenon DEF ApplyList
  <2> QED BY <1>1, <2>2, <2>3, PassMoves
<1>5. ASSUME NEW i, SuperDone(s, i) PROVE Moves /\ super'[s].pc = "look"
  <2>1. PICK rest : rest = super[s].todo \ {i}
    OBVIOUS
  <2>2. PICK r : r = [super[s] EXCEPT !.pc = "look", !.todo = rest]
    OBVIOUS
  <2>3. r \in Pass /\ r.pc = "look" /\ r.now = super[s].now
    BY <1>1, <2>1, <2>2 DEF Pass, SuperPCs
  <2>4. super' = [super EXCEPT ![s] = [super[s] EXCEPT !.pc = "look", !.todo = super[s].todo \ {i}]]
    BY <1>5, Zenon DEF SuperDone
  <2>5. super' = [super EXCEPT ![s] = r]
    BY <2>1, <2>2, <2>4
  <2> QED BY <1>1, <2>3, <2>5, PassMoves
<1>6. CASE ApplyLook(s)
  <2>1. (\E i : SuperDone(s, i)) \/ SuperGoes(s, "judge")
    BY <1>6 DEF ApplyLook
  <2>2. CASE SuperGoes(s, "judge")
    <3>1. PICK r : r = [super[s] EXCEPT !.pc = "judge"]
      OBVIOUS
    <3>2. r \in Pass /\ r.pc = "judge" /\ r.now = super[s].now
      BY <1>1, <3>1 DEF Pass, SuperPCs
    <3>3. super' = [super EXCEPT ![s] = r]
      BY <2>2, <3>1, Zenon DEF SuperGoes
    <3> QED BY <1>1, <3>2, <3>3, PassMoves
  <2> QED BY <1>5, <2>1, <2>2
<1>7. CASE ApplyJudge(s)
  <2>1. PICK i \in super[s].todo :
          super' = [super EXCEPT ![s].pc = "update", ![s].healthy = IsHealthy(i, super[s].now)]
    BY <1>7 DEF ApplyJudge
  <2>2. PICK healthy \in BOOLEAN : healthy = IsHealthy(i, super[s].now)
    <3>1. i \in Sites
      BY <1>1, <2>1 DEF Pass
    <3> QED BY <3>1, RecentFinite, Verdict DEF IsHealthy
  <2>3. PICK r : r = [super[s] EXCEPT !.pc = "update", !.healthy = healthy]
    OBVIOUS
  <2>4. r \in Pass /\ r.now = super[s].now
    BY <1>1, <2>3 DEF Pass, SuperPCs
  <2>5. super' = [super EXCEPT ![s] = r]
    BY <2>1, <2>2, <2>3
  <2> QED BY <1>1, <1>7, <2>4, <2>5, PassMoves
<1>8. CASE ApplyUpdate(s)
  BY <1>5, <1>8 DEF ApplyUpdate
<1>9. CASE PassEnd(s)
  BY <1>2, <1>9, PassMoves DEF PassEnd
<1> QED BY <1>3, <1>4, <1>6, <1>7, <1>8, <1>9 DEF SuperStep

\* A pass's verdict is on the endpoint that comes next.
LEMMA Judged ==
  ASSUME Forms, NEW s \in Supervisors, ApplyJudge(s), NEW i, IsNext(s, i) \/ IsNext(s, i)'
  PROVE  /\ i \in Sites /\ IsNext(s, i)
         /\ super'[s].healthy = IsHealthy(i, super[s].now) /\ super'[s].now = super[s].now
<1>1. PICK x \in super[s].todo :
        /\ IsNext(s, x)
        /\ super' = [super EXCEPT ![s].pc = "update", ![s].healthy = IsHealthy(x, super[s].now)]
  BY DEF ApplyJudge
<1>2. x \in Sites /\ super[s].todo \subseteq Sites /\ super[s] \in Pass
  BY DEF Forms, Pass
<1>3. PICK healthy : healthy = IsHealthy(x, super[s].now)
  OBVIOUS
<1>4. PICK r : r = [super[s] EXCEPT !.pc = "update", !.healthy = healthy]
  OBVIOUS
<1>5. super' = [super EXCEPT ![s] = r]
  BY <1>1, <1>3, <1>4
<1>6. r.healthy = healthy /\ r.todo = super[s].todo /\ r.now = super[s].now
  BY <1>2, <1>4 DEF Pass
<1>7. super'[s] = r
  BY <1>5 DEF Forms
<1>8. IsNext(s, i)
  BY <1>6, <1>7 DEF IsNext
<1>9. i = x
  BY <1>1, <1>2, <1>8, RegistryConstants DEF IsNext
<1> QED BY <1>2, <1>3, <1>6, <1>7, <1>8, <1>9

LEMMA MaxOfTwo ==
  ASSUME NEW a \in Nat, NEW b \in Nat
  PROVE  Max({a, b}) \in Nat /\ Max({a, b}) >= a /\ Max({a, b}) >= b
<1>1. \E x \in {a, b} : \A y \in {a, b} : x >= y
  <2>1. CASE a >= b
    BY <2>1
  <2>2. CASE ~(a >= b)
    BY <2>2
  <2> QED BY <2>1, <2>2
<1> QED BY <1>1 DEF Max

\* An outcome that is reported.
LEMMA Reported ==
  ASSUME Forms, NEW i \in Sites, NEW success \in BOOLEAN, SendReported(i, success)
  PROVE  \E o : /\ o.at = clock /\ Keep(i, Kept(i) \cup {o}) /\ IsFiniteSet(Sends)'
                 /\ history' \in [Sites -> SUBSET Outcome]
                 /\ history'[i] = history[i] \cup {o}
                 /\ \A j \in Sites \ {i} : history'[j] = history[j]
<1>1. PICK n \in Nat : n = Cardinality(Sends)
  BY FS_CardinalityType DEF Forms
<1>2. PICK o : o = [n |-> n, at |-> clock, success |-> success]
  OBVIOUS
<1>3. Observe(i, o) /\ history' = [history EXCEPT ![i] = history[i] \cup {o}]
  BY <1>1, <1>2, Zenon DEF SendReported
<1>4. o \in Outcome /\ o.at = clock
  BY <1>2 DEF Forms, Outcome
<1>5. /\ history' \in [Sites -> SUBSET Outcome]
      /\ history'[i] = history[i] \cup {o}
      /\ \A j \in Sites \ {i} : history'[j] = history[j]
  BY <1>3, <1>4 DEF Forms
<1>6. IsFiniteSet(Sends)'
  <2>1. Sends' = Sends \cup {o}
    BY <1>5 DEF Sends, Forms
  <2> QED BY <2>1, FS_AddElement DEF Forms
<1> QED BY <1>3, <1>4, <1>5, <1>6 DEF Observe

LEMMA FormsInit == Init => Forms /\ Faithful /\ Justified
<1> SUFFICES ASSUME Init PROVE Forms /\ Faithful /\ Justified
  OBVIOUS
<1>1. IdleSuper \in Pass /\ IdleSuper.pc = "idle" /\ IdleSuper.now = 0
  BY DEF IdleSuper, Pass, SuperPCs
<1>2. /\ super \in [Supervisors -> Pass] /\ clock = 1
      /\ \A s \in Supervisors : super[s].pc = "idle"
  BY <1>1 DEF Init
<1>3. Registered = {} /\ Observed = {}
  BY DEF Init, RegistryInit, HealthInit, Registered, Observed
<1>4. registry \in [Registered -> EndpointSpec]
  BY <1>3 DEF Init, RegistryInit, Registered
<1>5. history \in [Sites -> SUBSET Outcome] /\ \A i \in Sites : history[i] = {}
  BY DEF Init
<1>9. judged \in [Sites -> Nat]
  BY DEF Init
<1>6. \A i \in Sites : Kept(i) = {}
  BY <1>3 DEF Kept
<1>8. Sends = {}
  BY <1>5 DEF Sends
<1>7. Faithful
  BY <1>5, <1>6, FS_EmptySet DEF Faithful, Recent
<1> QED BY <1>2, <1>3, <1>4, <1>5, <1>7, <1>8, <1>9, FS_EmptySet DEF Forms, Justified

------------------------------------------------------------------------------
(* Steps *)

LEMMA OperatorForms ==
  ASSUME Forms, NEW i \in Sites, OperatorStep(i)
  PROVE  Registered' \subseteq Sites /\ registry' \in [Registered' -> EndpointSpec]
<1>1. ASSUME NEW r \in EndpointSpec, Put(i, r)
      PROVE  Registered' \subseteq Sites /\ registry' \in [Registered' -> EndpointSpec]
  BY <1>1 DEF Put, Registered, Forms
<1>2. CASE \E spec \in Specs : Register(i, spec)
  BY <1>1, <1>2, RoutingConstants DEF Register
<1>3. CASE Deregister(i)
  BY <1>3 DEF Deregister, Registered, Forms
<1>4. CASE \E enabled \in BOOLEAN : SetEnabled(i, enabled)
  <2>1. PICK enabled \in BOOLEAN : SetEnabled(i, enabled)
    BY <1>4
  <2>2. i \in Registered /\ registry[i] \in EndpointSpec
    BY <2>1 DEF SetEnabled, Forms
  <2>3. [registry[i] EXCEPT !.enabled = enabled] \in EndpointSpec
    BY <2>2 DEF EndpointSpec
  <2> QED BY <1>1, <2>1, <2>3 DEF SetEnabled
<1>5. CASE \E delta \in Deltas : UpdateHealth(i, delta)
  BY <1>5, HealthUpdated, RoutingConstants DEF Forms
<1> QED BY <1>2, <1>3, <1>4, <1>5 DEF OperatorStep

\* What a pass does to the registry and to the tracker.
LEMMA SuperChanges ==
  ASSUME Forms, NEW s \in Supervisors, PassStarts(s) \/ SuperStep(s)
  PROVE  /\ clock' = clock /\ history' = history
         /\ \/ (registry' = registry /\ ordered' = ordered)
            \/ \E i \in Sites, delta \in Int : /\ IsNext(s, i) /\ UpdateHealth(i, delta)
                                               /\ delta < 0 => ~super[s].healthy
         /\ \/ (observations' = observations /\ judged' = judged)
            \/ \E i \in Sites : /\ Keep(i, Recent(Kept(i), super[s].now))
                               /\ judged' = [judged EXCEPT ![i] = Max({judged[i], super[s].now})]
<1>1. super[s].todo \subseteq Sites
  BY DEF Forms, Pass
<1>2. clock' = clock /\ history' = history
  BY DEF PassStarts, PassBegin, SuperStep, ApplyList, ApplyLook, ApplyJudge, ApplyUpdate, PassEnd, superFrame
<1>3. \/ (registry' = registry /\ ordered' = ordered)
      \/ \E i \in Sites, delta \in Int : /\ IsNext(s, i) /\ UpdateHealth(i, delta)
                                         /\ delta < 0 => ~super[s].healthy
  <2>1. (registry' = registry /\ ordered' = ordered) \/ ApplyUpdate(s)
    BY DEF PassStarts, PassBegin, SuperStep, ApplyList, ApplyLook, ApplyJudge, PassEnd, superFrame, registryVars
  <2>2. CASE ApplyUpdate(s)
    <3>1. PICK i \in super[s].todo :
            /\ IsNext(s, i)
            /\ UpdateHealth(i, IF super[s].healthy THEN 1 ELSE -1) \/ Unregistered(i)
      BY <2>2 DEF ApplyUpdate
    <3>2. CASE Unregistered(i)
      BY <3>2 DEF Unregistered, registryVars
    <3>3. CASE UpdateHealth(i, IF super[s].healthy THEN 1 ELSE -1)
      <4>1. PICK delta \in Int : /\ delta = IF super[s].healthy THEN 1 ELSE -1
                                 /\ delta < 0 => ~super[s].healthy
        OBVIOUS
      <4> QED BY <1>1, <2>2, <3>1, <3>3, <4>1
    <3> QED BY <3>1, <3>2, <3>3
  <2> QED BY <2>1, <2>2
<1>4. \/ (observations' = observations /\ judged' = judged)
      \/ \E i \in Sites : /\ Keep(i, Recent(Kept(i), super[s].now))
                         /\ judged' = [judged EXCEPT ![i] = Max({judged[i], super[s].now})]
  <2>1. (observations' = observations /\ judged' = judged) \/ ApplyJudge(s)
    BY DEF PassStarts, PassBegin, SuperStep, ApplyList, ApplyLook, ApplyUpdate, PassEnd
  <2>2. CASE ApplyJudge(s)
    BY <1>1, <2>2 DEF ApplyJudge, Judge
  <2> QED BY <2>1, <2>2
<1> QED BY <1>2, <1>3, <1>4

LEMMA FormsStep ==
  ASSUME Forms, Faithful, [Next]_vars
  PROVE  Forms'
<1>1. CASE UNCHANGED vars
  BY <1>1 DEF Forms, vars, registryVars, boundVars, Registered, Observed, Sends
<1>2. CASE Tick
  <2>1. /\ UNCHANGED <<registry, observations, super, history, judged>>
        /\ clock' = clock + 1
    BY <1>2 DEF Tick, registryVars
  <2>2. clock' \in Nat
    BY <2>1 DEF Forms
  <2> QED BY <2>1, <2>2 DEF Forms, Registered, Observed, Sends
<1>3. CASE \E i \in Sites : OperatorStep(i)
  <2>1. UNCHANGED <<observations, super, clock, history, judged>>
    BY <1>3 DEF OperatorStep
  <2> QED BY <1>3, <2>1, OperatorForms DEF Forms, Observed, Sends
<1>4. CASE \E i \in Sites : \E success \in BOOLEAN : SendReported(i, success)
  <2>1. PICK i \in Sites, success \in BOOLEAN : SendReported(i, success)
    BY <1>4
  <2>2. UNCHANGED <<registry, super, clock, judged>>
    BY <2>1 DEF SendReported, registryVars, boundVars
  <2>3. history' \in [Sites -> SUBSET Outcome] /\ IsFiniteSet(Sends)' /\ Observed' \subseteq Sites
    <3>1. PICK o : /\ Keep(i, Kept(i) \cup {o})
                   /\ history' \in [Sites -> SUBSET Outcome] /\ IsFiniteSet(Sends)'
      BY <2>1, Reported
    <3>2. Observed' = Observed \cup {i}
      BY <3>1, KeptAfter
    <3> QED BY <3>1, <3>2 DEF Forms
  <2> QED BY <2>2, <2>3 DEF Forms, Registered
<1>5. CASE \E s \in Supervisors : PassStarts(s) \/ SuperStep(s)
  <2>1. PICK s \in Supervisors : PassStarts(s) \/ SuperStep(s)
    BY <1>5
  <2>2. clock' = clock /\ history' = history
    BY <2>1, SuperChanges
  <2>3. super' \in [Supervisors -> Pass]
    BY <2>1, SuperMoves
  <2>4. Registered' \subseteq Sites /\ registry' \in [Registered' -> EndpointSpec]
    <3>1. registry' = registry \/ \E i \in Sites, delta \in Int : UpdateHealth(i, delta)
      BY <2>1, SuperChanges
    <3>2. CASE registry' = registry
      BY <3>2 DEF Forms, Registered
    <3>3. CASE \E i \in Sites, delta \in Int : UpdateHealth(i, delta)
      BY <3>3, HealthUpdated DEF Forms, Registered
    <3> QED BY <3>1, <3>2, <3>3
  <2>5. Observed' \subseteq Sites
    <3>1. observations' = observations \/ \E i \in Sites : \E kept : Keep(i, kept)
      BY <2>1, SuperChanges
    <3> QED BY <3>1, KeptAfter, KeptSame DEF Forms
  <2>6. judged' \in [Sites -> Nat]
    <3>1. super[s].now \in Nat
      BY DEF Forms, Pass
    <3>2. judged' = judged \/ \E i \in Sites :
                                judged' = [judged EXCEPT ![i] = Max({judged[i], super[s].now})]
      BY <2>1, SuperChanges
    <3>3. ASSUME NEW i \in Sites,
                 judged' = [judged EXCEPT ![i] = Max({judged[i], super[s].now})]
          PROVE  judged' \in [Sites -> Nat]
      <4>1. Max({judged[i], super[s].now}) \in Nat
        BY <3>1, MaxOfTwo DEF Forms
      <4> QED BY <3>3, <4>1 DEF Forms
    <3> QED BY <3>2, <3>3 DEF Forms
  <2> QED BY <2>2, <2>3, <2>4, <2>5, <2>6 DEF Forms, Sends
<1> QED BY <1>1, <1>2, <1>3, <1>4, <1>5 DEF Next, PassStarts

\* What a pass drops lies before the window of its time, so it is not recent at the furthest.
LEMMA FaithfulStep ==
  ASSUME Forms, Faithful, [Next]_vars
  PROVE  Faithful'
<1>0. \A i \in Sites : judged[i] \in Nat /\ \A o \in history[i] : o.at \in Nat
  BY DEF Forms, Outcome
<1>1. CASE UNCHANGED <<observations, history, judged>>
  <2>1. \A i \in Sites : Kept(i)' = Kept(i)
    BY <1>1, KeptSame
  <2> QED BY <1>1, <2>1 DEF Faithful, Recent
<1>2. CASE \E i \in Sites : \E success \in BOOLEAN : SendReported(i, success)
  <2>1. PICK i \in Sites, success \in BOOLEAN : SendReported(i, success)
    BY <1>2
  <2>2. PICK o : /\ Keep(i, Kept(i) \cup {o})
                 /\ history'[i] = history[i] \cup {o}
                 /\ \A j \in Sites \ {i} : history'[j] = history[j]
    BY <2>1, Reported
  <2>3. judged' = judged
    BY <2>1 DEF SendReported
  <2>4. Kept(i)' = Kept(i) \cup {o} /\ \A j \in Sites \ {i} : Kept(j)' = Kept(j)
    BY <2>2, KeptAfter
  <2>5. IsFiniteSet(Kept(i) \cup {o})
    BY FS_AddElement DEF Faithful
  <2>6. Recent(history[i] \cup {o}, judged[i]) \subseteq Kept(i) \cup {o}
    BY DEF Faithful, Recent
  <2>7. /\ Kept(i)' \subseteq history'[i] /\ IsFiniteSet(Kept(i))'
        /\ Recent(history[i], judged[i])' \subseteq Kept(i)'
    BY <2>2, <2>3, <2>4, <2>5, <2>6 DEF Faithful, Recent
  <2>8. \A j \in Sites \ {i} :
          /\ Kept(j)' \subseteq history'[j] /\ IsFiniteSet(Kept(j))'
          /\ Recent(history[j], judged[j])' \subseteq Kept(j)'
    BY <2>2, <2>3, <2>4 DEF Faithful, Recent
  <2> QED BY <2>7, <2>8 DEF Faithful
<1>3. CASE \E s \in Supervisors : PassStarts(s) \/ SuperStep(s)
  <2>1. PICK s \in Supervisors : PassStarts(s) \/ SuperStep(s)
    BY <1>3
  <2>2. history' = history /\ super[s].now \in Nat
    BY <2>1, SuperChanges DEF Forms, Pass
  <2>3. ASSUME NEW i \in Sites, Keep(i, Recent(Kept(i), super[s].now)),
               judged' = [judged EXCEPT ![i] = Max({judged[i], super[s].now})]
        PROVE  Faithful'
    <3>1. /\ Kept(i)' = Recent(Kept(i), super[s].now)
          /\ \A j \in Sites \ {i} : Kept(j)' = Kept(j)
      BY <2>3, KeptAfter
    <3>2. PICK furthest \in Nat : /\ furthest = Max({judged[i], super[s].now})
                                  /\ furthest >= judged[i] /\ furthest >= super[s].now
      BY <1>0, <2>2, MaxOfTwo
    <3>3. judged'[i] = furthest /\ \A j \in Sites \ {i} : judged'[j] = judged[j]
      BY <2>3, <3>2 DEF Forms
    <3>4. /\ IsFiniteSet(Recent(Kept(i), super[s].now))
          /\ Recent(Kept(i), super[s].now) \subseteq history[i]
      BY RecentFinite
    <3>5. ASSUME NEW o \in Recent(history[i], furthest) PROVE o \in Recent(Kept(i), super[s].now)
      <4>1. o \in history[i] /\ o.at > furthest - HealthWindow /\ o.at \in Nat
        BY <1>0 DEF Recent
      <4>2. o.at > judged[i] - HealthWindow /\ o.at > super[s].now - HealthWindow
        BY <1>0, <2>2, <3>2, <4>1, HealthConstants
      <4>3. o \in Kept(i)
        BY <4>1, <4>2 DEF Faithful, Recent
      <4> QED BY <4>2, <4>3 DEF Recent
    <3>6. \A j \in Sites :
            /\ Kept(j)' \subseteq history[j] /\ IsFiniteSet(Kept(j)')
            /\ Recent(history[j], judged'[j]) \subseteq Kept(j)'
      BY <3>1, <3>3, <3>4, <3>5 DEF Faithful
    <3> QED BY <2>2, <3>6 DEF Faithful, Recent
  <2> QED BY <1>1, <2>1, <2>2, <2>3, SuperChanges
<1>4. \/ UNCHANGED <<observations, history, judged>>
      \/ \E i \in Sites : \E success \in BOOLEAN : SendReported(i, success)
      \/ \E s \in Supervisors : PassStarts(s) \/ SuperStep(s)
  BY DEF Next, vars, Tick, OperatorStep, PassStarts
<1> QED BY <1>1, <1>2, <1>3, <1>4

LEMMA JustifiedStep ==
  ASSUME Forms, Faithful, Justified, [Next]_vars
  PROVE  Justified'
<1>1. \A i \in Sites : history[i] \subseteq history'[i]
  <2>1. history' = history \/ \E i \in Sites : \E success \in BOOLEAN : SendReported(i, success)
    BY SuperChanges DEF Next, vars, Tick, OperatorStep, PassStarts
  <2>2. ASSUME NEW i \in Sites, NEW success \in BOOLEAN, SendReported(i, success)
        PROVE  \A j \in Sites : history[j] \subseteq history'[j]
    BY <2>2, Reported
  <2> QED BY <2>1, <2>2
<1>2. ASSUME NEW s \in Supervisors, NEW i \in Sites,
             super'[s].pc = "update", ~super'[s].healthy, IsNext(s, i)'
      PROVE  Failed(i, super[s].now)'
  <2>1. CASE super'[s] = super[s]
    <3>1. IsNext(s, i) /\ super[s].pc = "update" /\ ~super[s].healthy
      BY <1>2, <2>1 DEF IsNext
    <3>2. Failed(i, super[s].now)
      BY <3>1 DEF Justified
    <3> QED BY <1>1, <2>1, <3>2 DEF Failed
  <2>2. CASE super'[s] # super[s]
    <3>1. PassStarts(s) \/ SuperStep(s)
      BY <2>2, SuperMoves DEF Next, vars, Tick, OperatorStep, SendReported, PassStarts
    <3>2. ApplyJudge(s)
      BY <1>2, <3>1, SuperMoves
    <3>3. i \in Sites /\ super'[s].now = super[s].now /\ ~IsHealthy(i, super[s].now)
      BY <1>2, <3>2, Judged
    <3>4. \E o \in Recent(Kept(i), super[s].now) : ~o.success
      BY <3>3, RecentFinite, BadVerdict DEF IsHealthy
    <3>5. Failed(i, super[s].now)
      BY <3>3, <3>4 DEF Failed, Recent, Faithful
    <3> QED BY <1>1, <3>3, <3>5 DEF Failed
  <2> QED BY <2>1, <2>2
<1> QED BY <1>2 DEF Justified

\* The tracker keeps of what was reported all that the furthest pass so far has not dropped,
\* and a verdict against an endpoint has a failure behind it.
THEOREM TrackerHolds == Spec => [](Forms /\ Faithful /\ Justified)
<1>1. Init => Forms /\ Faithful /\ Justified
  BY FormsInit
<1>2. Forms /\ Faithful /\ Justified /\ [Next]_vars => (Forms /\ Faithful /\ Justified)'
  BY FormsStep, FaithfulStep, JustifiedStep
<1> QED BY <1>1, <1>2, PTL DEF Spec

\* VerdictsFromHistory: whatever passes ran before or run beside it, with old times or with times
\* ahead of the clock, a pass's verdict is the one that all outcomes ever reported give for the
\* window before its time, as long as no pass with a later time judged the endpoint first.
THEOREM TrackerRemembers == Spec => VerdictsFromHistory
<1> DEFINE Judges(s, i) ==
             /\ super[s].pc = "judge" /\ super'[s].pc = "update"
             /\ IsNext(s, i) /\ judged[i] <= super[s].now
           Right(s, i) == super'[s].healthy = MostlySucceeds(Recent(history[i], super[s].now))
<1>1. ASSUME Forms, Faithful, [Next]_vars,
             NEW s \in Supervisors, NEW i \in Sites, Judges(s, i)
      PROVE  Right(s, i)
  <2>1. super'[s] # super[s]
    BY <1>1
  <2>2. PassStarts(s) \/ SuperStep(s)
    BY <1>1, <2>1, SuperMoves DEF Next, vars, Tick, OperatorStep, SendReported, PassStarts
  <2>3. ApplyJudge(s)
    BY <1>1, <2>2, SuperMoves
  <2>4. super'[s].healthy = MostlySucceeds(Recent(Kept(i), super[s].now))
    BY <1>1, <2>3, Judged DEF IsHealthy
  <2>5. Recent(Kept(i), super[s].now) = Recent(history[i], super[s].now)
    <3>1. super[s].now \in Nat /\ judged[i] \in Nat /\ \A o \in history[i] : o.at \in Nat
      BY <1>1 DEF Forms, Pass, Outcome
    <3>2. ASSUME NEW o \in history[i], o.at > super[s].now - HealthWindow PROVE o \in Kept(i)
      <4>1. o.at > judged[i] - HealthWindow
        BY <1>1, <3>1, <3>2, HealthConstants
      <4> QED BY <1>1, <4>1 DEF Faithful, Recent
    <3> QED BY <1>1, <3>2 DEF Faithful, Recent
  <2> QED BY <2>4, <2>5
<1>2. Forms /\ Faithful /\ [Next]_vars =>
        [\A s \in Supervisors, i \in Sites : Judges(s, i) => Right(s, i)]_vars
  BY <1>1
<1>3. Spec => [][\A s \in Supervisors, i \in Sites : Judges(s, i) => Right(s, i)]_vars
  BY <1>2, TrackerHolds, PTL DEF Spec
<1> QED BY <1>3 DEF VerdictsFromHistory

\* NoBlameWithoutFailure: a pass lowers an endpoint's score only if a send to it failed within
\* the window before the pass's time, or later.
THEOREM BlameIsEarned == Spec => NoBlameWithoutFailure
<1> DEFINE Earned(s, i) == \E o \in history[i] : ~o.success /\ o.at > super[s].now - HealthWindow
           Blames(s, i) ==
             /\ super[s].pc = "update" /\ super'[s].pc # "update"
             /\ i \in Registered /\ registry'[i].score < registry[i].score
<1>1. ASSUME Forms, Faithful, Justified, [Next]_vars,
             NEW s \in Supervisors, NEW i \in Sites, Blames(s, i)
      PROVE  Failed(i, super[s].now)
  <2>1. super'[s] # super[s]
    BY <1>1
  <2>2. PassStarts(s) \/ SuperStep(s)
    BY <1>1, <2>1, SuperMoves DEF Next, vars, Tick, OperatorStep, SendReported, PassStarts
  <2>3. registry[i].score \in Nat
    BY <1>1 DEF Forms, EndpointSpec
  <2>4. registry' # registry
    BY <1>1, <2>3
  <2>5. PICK x \in Sites, delta \in Int : /\ IsNext(s, x) /\ UpdateHealth(x, delta)
                                          /\ delta < 0 => ~super[s].healthy
    <3>1. Forms /\ (PassStarts(s) \/ SuperStep(s))
      BY <1>1, <2>2
    <3> HIDE DEF Forms, PassStarts, SuperStep
    <3> QED BY <2>4, <3>1, SuperChanges
  <2>6. x = i /\ ~super[s].healthy
    BY <1>1, <2>5, HealthUpdated
  <2> QED BY <1>1, <2>5, <2>6 DEF Justified
<1>2. Forms /\ Faithful /\ Justified /\ [Next]_vars =>
        [\A s \in Supervisors, i \in Sites : Blames(s, i) => Earned(s, i)]_vars
  BY <1>1 DEF Failed
<1>3. Spec => [][\A s \in Supervisors, i \in Sites : Blames(s, i) => Earned(s, i)]_vars
  BY <1>2, TrackerHolds, PTL DEF Spec
<1> QED BY <1>3 DEF NoBlameWithoutFailure

------------------------------------------------------------------------------
(* The registry *)

\* The list names the registered endpoints, each once.
Orderly ==
  /\ ordered \in Seq(Sites)
  /\ \A k \in 1 .. Len(ordered) : ordered[k] \in Registered
  /\ \A i \in Registered : \E k \in 1 .. Len(ordered) : ordered[k] = i
  /\ \A k, l \in 1 .. Len(ordered) : ordered[k] = ordered[l] => k = l
  /\ IsFiniteSet(Registered) /\ Len(ordered) = Cardinality(Registered)

\* The first occurrence of an element that occurs once.
LEMMA FirstRemoved ==
  ASSUME NEW S, NEW seq \in Seq(S), NEW k \in 1 .. Len(seq),
         \A l \in 1 .. Len(seq) : seq[l] = seq[k] => l = k
  PROVE  LET rest == RemoveFirst(seq, seq[k]) IN
         /\ rest \in Seq(S) /\ Len(rest) = Len(seq) - 1
         /\ \A l \in 1 .. Len(seq) - 1 : rest[l] = IF l < k THEN seq[l] ELSE seq[l + 1]
<1>1. RemoveFirst(seq, seq[k]) = RemoveAt(seq, k)
  <2>1. SelectInSeq(seq, LAMBDA v : v = seq[k]) = k
    <3>1. {l \in 1 .. Len(seq) : seq[l] = seq[k]} = {k}
      OBVIOUS
    <3>2. Min({k}) = k
      BY DEF Min
    <3>3. SelectInSeq(seq, LAMBDA v : v = seq[k])
            = IF {l \in 1 .. Len(seq) : seq[l] = seq[k]} # {}
              THEN Min({l \in 1 .. Len(seq) : seq[l] = seq[k]}) ELSE 0
      BY DEF SelectInSeq
    <3> QED BY <3>1, <3>2, <3>3
  <2> QED BY <2>1 DEF RemoveFirst
<1>2. PICK n \in Nat : n = Len(seq) /\ k \in 1 .. n
  BY LenProperties
<1>3. PICK s1, s2 : s1 = SubSeq(seq, 1, k - 1) /\ s2 = SubSeq(seq, k + 1, n)
  OBVIOUS
<1>4. \A l \in 1 .. n : seq[l] \in S
  BY <1>2
<1>5. /\ s1 \in Seq(S) /\ Len(s1) = k - 1
      /\ \A l \in 1 .. k - 1 : s1[l] = seq[l]
  BY <1>2, <1>3, <1>4, SubSeqProperties
<1>6. /\ s2 \in Seq(S) /\ Len(s2) = n - k
      /\ \A l \in 1 .. n - k : s2[l] = seq[k + l]
  BY <1>2, <1>3, <1>4, SubSeqProperties
<1>7. PICK rest : rest = s1 \o s2
  OBVIOUS
<1>8. /\ rest \in Seq(S) /\ Len(rest) = n - 1
      /\ \A l \in 1 .. n - 1 : rest[l] = IF l < k THEN seq[l] ELSE seq[l + 1]
  <2>1. /\ rest \in Seq(S) /\ Len(rest) = Len(s1) + Len(s2)
        /\ \A l \in 1 .. Len(s1) + Len(s2) :
             rest[l] = IF l <= Len(s1) THEN s1[l] ELSE s2[l - Len(s1)]
    BY <1>5, <1>6, <1>7, ConcatProperties
  <2>2. rest \in Seq(S) /\ Len(rest) = n - 1
    BY <1>2, <1>5, <1>6, <2>1
  <2>3. ASSUME NEW l \in 1 .. n - 1
        PROVE  rest[l] = IF l < k THEN seq[l] ELSE seq[l + 1]
    <3>1. rest[l] = IF l <= k - 1 THEN s1[l] ELSE s2[l - (k - 1)]
      BY <1>2, <1>5, <1>6, <2>1
    <3>2. CASE l < k
      BY <1>2, <1>5, <3>1, <3>2
    <3>3. CASE ~(l < k)
      <4>1. l - (k - 1) \in 1 .. n - k /\ k + (l - (k - 1)) = l + 1
        BY <1>2, <3>3
      <4>2. s2[l - (k - 1)] = seq[l + 1]
        BY <1>6, <4>1
      <4> QED BY <1>2, <3>1, <3>3, <4>2
    <3> QED BY <3>2, <3>3
  <2> QED BY <2>2, <2>3
<1> QED BY <1>1, <1>2, <1>3, <1>7, <1>8 DEF RemoveAt

LEMMA OrderlyInit == Init => Orderly
<1> SUFFICES ASSUME Init PROVE Orderly
  OBVIOUS
<1>1. ordered = <<>> /\ Registered = {}
  BY DEF Init, RegistryInit, Registered
<1>2. <<>> \in Seq(Sites) /\ Len(<<>>) = 0
  OBVIOUS
<1> QED BY <1>1, <1>2, FS_EmptySet DEF Orderly

LEMMA RegisterOrderly ==
  ASSUME Orderly, NEW i \in Sites, NEW spec, Register(i, spec)
  PROVE  Orderly'
<1>1. i \notin Registered /\ ordered' = Append(ordered, i) /\ Registered' = Registered \cup {i}
  BY DEF Register, Put, Registered
<1>2. PICK n \in Nat : n = Len(ordered)
  BY LenProperties DEF Orderly
<1>3. /\ ordered' \in Seq(Sites) /\ Len(ordered') = n + 1
      /\ ordered'[n + 1] = i /\ \A k \in 1 .. n : ordered'[k] = ordered[k]
  BY <1>1, <1>2 DEF Orderly
<1>4. /\ \A k \in 1 .. n + 1 : ordered'[k] \in Registered'
      /\ \A k, l \in 1 .. n + 1 : ordered'[k] = ordered'[l] => k = l
  BY <1>1, <1>2, <1>3 DEF Orderly
<1>5. \A j \in Registered' : \E k \in 1 .. n + 1 : ordered'[k] = j
  <2>1. ASSUME NEW j \in Registered PROVE \E k \in 1 .. n + 1 : ordered'[k] = j
    <3>1. PICK k \in 1 .. n : ordered[k] = j
      BY <1>2 DEF Orderly
    <3> QED BY <1>2, <1>3, <3>1
  <2> QED BY <1>1, <1>2, <1>3, <2>1
<1>6. IsFiniteSet(Registered') /\ Cardinality(Registered') = n + 1
  BY <1>1, <1>2, FS_AddElement DEF Orderly
<1> QED BY <1>3, <1>4, <1>5, <1>6 DEF Orderly

LEMMA DeregisterOrderly ==
  ASSUME Orderly, NEW i \in Sites, Deregister(i)
  PROVE  Orderly'
<1>1. i \in Registered /\ ordered' = RemoveFirst(ordered, i) /\ Registered' = Registered \ {i}
  BY DEF Deregister, Registered
<1>2. PICK n \in Nat : n = Len(ordered)
  BY LenProperties DEF Orderly
<1>3. PICK k \in 1 .. n : ordered[k] = i
  BY <1>1, <1>2 DEF Orderly
<1>4. /\ ordered' \in Seq(Sites) /\ Len(ordered') = n - 1
      /\ \A l \in 1 .. n - 1 : ordered'[l] = IF l < k THEN ordered[l] ELSE ordered[l + 1]
  BY <1>1, <1>2, <1>3, FirstRemoved DEF Orderly
<1>5. \A l \in 1 .. n - 1 : ordered'[l] \in Registered'
  BY <1>1, <1>2, <1>3, <1>4 DEF Orderly
<1>6. \A l, m \in 1 .. n - 1 : ordered'[l] = ordered'[m] => l = m
  BY <1>2, <1>3, <1>4 DEF Orderly
<1>7. ASSUME NEW j \in Registered' PROVE \E l \in 1 .. n - 1 : ordered'[l] = j
  <2>1. PICK m \in 1 .. n : ordered[m] = j
    BY <1>1, <1>2 DEF Orderly
  <2>2. m # k
    BY <1>1, <1>3, <2>1
  <2>3. CASE m < k
    <3>1. m \in 1 .. n - 1 /\ ordered'[m] = j
      BY <1>3, <1>4, <2>1, <2>3
    <3> QED BY <3>1
  <2>4. CASE m > k
    <3>1. m - 1 \in 1 .. n - 1 /\ ordered'[m - 1] = j
      BY <1>3, <1>4, <2>1, <2>4
    <3> QED BY <3>1
  <2> QED BY <2>2, <2>3, <2>4
<1>8. IsFiniteSet(Registered') /\ Cardinality(Registered') = n - 1
  BY <1>1, <1>2, FS_RemoveElement DEF Orderly
<1> QED BY <1>4, <1>5, <1>6, <1>7, <1>8 DEF Orderly

LEMMA OrderlyStep ==
  ASSUME Forms, Orderly, [Next]_vars
  PROVE  Orderly'
<1>1. CASE UNCHANGED ordered /\ Registered' = Registered
  BY <1>1 DEF Orderly
<1>2. ASSUME NEW i, NEW r, i \in Registered, Put(i, r) PROVE Registered' = Registered
  BY <1>2 DEF Put, Registered
<1>3. CASE \E i \in Sites : OperatorStep(i)
  BY <1>1, <1>2, <1>3, RegisterOrderly, DeregisterOrderly
     DEF OperatorStep, SetEnabled, UpdateHealth
<1>4. ASSUME NEW s \in Supervisors, PassStarts(s) \/ SuperStep(s) PROVE Orderly'
  <2>1. \/ registry' = registry /\ ordered' = ordered
        \/ \E i \in Sites, delta \in Int : UpdateHealth(i, delta)
    BY <1>4, SuperChanges
  <2> QED BY <1>1, <1>2, <2>1 DEF UpdateHealth, registryVars, Registered
<1>5. \/ UNCHANGED registryVars
      \/ \E i \in Sites : OperatorStep(i)
      \/ \E s \in Supervisors : PassStarts(s) \/ SuperStep(s)
  BY DEF Next, vars, Tick, SendReported, PassStarts
<1> QED BY <1>1, <1>3, <1>4, <1>5 DEF registryVars, Registered

\* OrderedIsRegistry: the list of ids and the map keep naming the same endpoints, each once.
THEOREM ListMatchesMap == Spec => []OrderedIsRegistry
<1>1. Init => Orderly
  BY OrderlyInit
<1>2. Forms /\ Orderly /\ [Next]_vars => Orderly'
  BY OrderlyStep
<1>3. Orderly => OrderedIsRegistry
  BY DEF Orderly, OrderedIsRegistry, ToSet
<1> QED BY <1>1, <1>2, <1>3, TrackerHolds, PTL DEF Spec

------------------------------------------------------------------------------
(* Types *)

\* What the type invariant says beyond Forms, Faithful and Orderly: a pass at an endpoint has
\* it on its list, and the tracker forgets outcomes but never an endpoint.
Listed ==
  /\ observations = [i \in Observed |-> observations[i]]
  /\ \A s \in Supervisors :
       /\ super[s].todo \subseteq Observed
       /\ super[s].pc \in {"judge", "update"} => super[s].todo # {}
  /\ passes \in Nat /\ changes \in Nat

LEMMA KeepListed ==
  ASSUME NEW i, NEW outcomes, Keep(i, outcomes)
  PROVE  observations' = [j \in Observed' |-> observations'[j]] /\ Observed \subseteq Observed'
BY DEF Keep, Observed

LEMMA SuperListed ==
  ASSUME Forms, Faithful, Listed, NEW s \in Supervisors, PassStarts(s) \/ SuperStep(s)
  PROVE  /\ super'[s].todo \subseteq Observed
         /\ super'[s].pc \in {"judge", "update"} => super'[s].todo # {}
<1>0. super \in [Supervisors -> Pass] /\ super[s] \in Pass
  BY DEF Forms
<1>1. CASE PassStarts(s)
  <2>1. PICK now : super'[s] = [IdleSuper EXCEPT !.pc = "list", !.now = now]
    BY <1>0, <1>1 DEF PassStarts, PassBegin
  <2> QED BY <2>1 DEF IdleSuper
<1>2. CASE ApplyList(s)
  <2>1. super'[s] = [super[s] EXCEPT !.pc = "look", !.todo = Observed]
    BY <1>0, <1>2, Zenon DEF ApplyList
  <2>2. super'[s].pc = "look" /\ super'[s].todo = Observed
    BY <1>0, <2>1 DEF Pass
  <2> QED BY <2>2
<1>3. ASSUME NEW i \in super[s].todo, SuperGoes(s, "judge")
      PROVE  super'[s].todo = super[s].todo
  <2>1. super'[s] = [super[s] EXCEPT !.pc = "judge"]
    BY <1>0, <1>3, Zenon DEF SuperGoes
  <2> QED BY <1>0, <2>1 DEF Pass
<1>4. ASSUME NEW i, SuperDone(s, i)
      PROVE  super'[s].pc = "look" /\ super'[s].todo \subseteq super[s].todo
  <2>1. super'[s] = [super[s] EXCEPT !.pc = "look", !.todo = super[s].todo \ {i}]
    BY <1>0, <1>4, Zenon DEF SuperDone
  <2> QED BY <1>0, <2>1 DEF Pass
<1>5. CASE ApplyLook(s)
  BY <1>3, <1>4, <1>5 DEF ApplyLook, Listed
<1>6. CASE ApplyJudge(s)
  <2>1. PICK healthy : super' = [super EXCEPT ![s].pc = "update", ![s].healthy = healthy]
    BY <1>6 DEF ApplyJudge
  <2>2. super'[s] = [super[s] EXCEPT !.pc = "update", !.healthy = healthy]
    BY <1>0, <2>1, Zenon
  <2>3. super'[s].todo = super[s].todo /\ super[s].todo # {}
    BY <1>0, <1>6, <2>2 DEF Pass, ApplyJudge
  <2> QED BY <2>3 DEF Listed
<1>7. CASE ApplyUpdate(s)
  BY <1>4, <1>7 DEF ApplyUpdate, Listed
<1>8. CASE PassEnd(s)
  BY <1>0, <1>8 DEF PassEnd, IdleSuper
<1> QED BY <1>1, <1>2, <1>5, <1>6, <1>7, <1>8 DEF SuperStep

LEMMA CountersStep ==
  ASSUME passes \in Nat, changes \in Nat, [Next]_vars
  PROVE  passes' \in Nat /\ changes' \in Nat
<1>1. CASE Tick \/ UNCHANGED vars
  BY <1>1 DEF Tick, vars, boundVars
<1>2. ASSUME NEW i \in Sites, OperatorStep(i) PROVE passes' \in Nat /\ changes' \in Nat
  <2>1. passes' = passes /\ changes' = changes + 1
    BY <1>2, Zenon DEF OperatorStep, boundVars
  <2> QED BY <2>1
<1>3. ASSUME NEW i \in Sites, NEW success \in BOOLEAN, SendReported(i, success)
      PROVE  passes' \in Nat /\ changes' \in Nat
  BY <1>3 DEF SendReported, boundVars
<1>4. ASSUME NEW s \in Supervisors, PassStarts(s) \/ SuperStep(s)
      PROVE  passes' \in Nat /\ changes' \in Nat
  <2>1. changes' = changes /\ (passes' = passes \/ passes' = passes + 1)
    BY <1>4, Zenon DEF PassStarts, PassBegin, SuperStep, ApplyList, ApplyLook, ApplyJudge,
                       ApplyUpdate, PassEnd, superFrame
  <2> QED BY <2>1
<1> QED BY <1>1, <1>2, <1>3, <1>4 DEF Next, PassStarts

LEMMA ListedStep ==
  ASSUME Forms, Faithful, Listed, [Next]_vars
  PROVE  Listed'
<1>0. /\ observations = [i \in Observed |-> observations[i]] /\ passes \in Nat /\ changes \in Nat
      /\ \A s \in Supervisors :
           /\ super[s].todo \subseteq Observed
           /\ super[s].pc \in {"judge", "update"} => super[s].todo # {}
  BY DEF Listed
<1>1. CASE UNCHANGED <<observations, super>>
  <2>1. passes' \in Nat /\ changes' \in Nat
    BY <1>0, CountersStep
  <2> QED BY <1>0, <1>1, <2>1 DEF Listed, Observed
<1>2. ASSUME NEW i \in Sites, NEW success \in BOOLEAN, SendReported(i, success) PROVE Listed'
  <2>1. \E outcomes : Keep(i, outcomes)
    BY <1>2 DEF SendReported, Observe
  <2>2. UNCHANGED <<super, passes, changes>>
    BY <1>2 DEF SendReported, boundVars
  <2> QED BY <1>0, <2>1, <2>2, KeepListed DEF Listed
<1>3. ASSUME NEW s \in Supervisors, PassStarts(s) \/ SuperStep(s) PROVE Listed'
  <2>1. \A t \in Supervisors \ {s} : super'[t] = super[t]
    BY <1>3, SuperMoves
  <2>2. /\ super'[s].todo \subseteq Observed
        /\ super'[s].pc \in {"judge", "update"} => super'[s].todo # {}
    BY <1>3, SuperListed
  <2>3. observations' = [j \in Observed' |-> observations'[j]] /\ Observed \subseteq Observed'
    <3>1. observations' = observations \/ \E i \in Sites : \E outcomes : Keep(i, outcomes)
      BY <1>3, SuperChanges
    <3>2. CASE observations' = observations
      BY <1>0, <3>2 DEF Observed
    <3> QED BY <3>1, <3>2, KeepListed
  <2>4. passes' \in Nat /\ changes' \in Nat
    BY <1>0, CountersStep
  <2> QED BY <1>0, <2>1, <2>2, <2>3, <2>4 DEF Listed
<1>4. \/ UNCHANGED <<observations, super>>
      \/ \E i \in Sites : \E success \in BOOLEAN : SendReported(i, success)
      \/ \E s \in Supervisors : PassStarts(s) \/ SuperStep(s)
  BY DEF Next, vars, Tick, OperatorStep, PassStarts
<1> QED BY <1>1, <1>2, <1>3, <1>4

\* RoutingTypeOK, for passes side by side and operators that change the registry under them.
THEOREM RoutingTypes == Spec => []RoutingTypeOK
<1>1. Init => Listed
  <2> SUFFICES ASSUME Init PROVE Listed
    OBVIOUS
  <2>1. \A s \in Supervisors : super[s].pc = "idle" /\ super[s].todo = {}
    BY DEF Init, IdleSuper
  <2>2. Observed = {} /\ observations = [i \in Observed |-> observations[i]]
    BY DEF Init, HealthInit, Observed
  <2> QED BY <2>1, <2>2 DEF Init, Listed
<1>2. Forms /\ Faithful /\ Listed /\ [Next]_vars => Listed'
  BY ListedStep
<1>3. Forms /\ Faithful /\ Listed /\ Orderly => RoutingTypeOK
  <2> SUFFICES ASSUME Forms, Faithful, Listed, Orderly PROVE RoutingTypeOK
    OBVIOUS
  <2>1. \A i \in Observed : observations[i] \in SUBSET Outcome
    BY DEF Forms, Faithful, Kept
  <2>2. HealthTypeOK
    <3>1. observations \in [Observed -> SUBSET Outcome]
      BY <2>1 DEF Listed
    <3> QED BY <3>1 DEF HealthTypeOK, Forms
  <2>3. RegistryTypeOK
    BY DEF RegistryTypeOK, Forms, Orderly
  <2> QED BY <2>2, <2>3 DEF RoutingTypeOK, Forms, Listed, Pass
<1>4. Spec => []Orderly
  <2>1. Init => Orderly
    BY OrderlyInit
  <2> QED BY <2>1, OrderlyStep, TrackerHolds, PTL DEF Spec
<1> QED BY <1>1, <1>2, <1>3, <1>4, TrackerHolds, PTL DEF Spec

------------------------------------------------------------------------------
(* The planner *)

\* Preferred orders the registered endpoints.
LEMMA PreferredOrders ==
  ASSUME Forms, NEW i \in Registered, NEW j \in Registered, NEW k \in Registered
  PROVE  ~Preferred(i, i) /\ (Preferred(i, j) /\ Preferred(j, k) => Preferred(i, k))
<1>1. ASSUME NEW x \in Registered
      PROVE  x \in Int /\ registry[x].priority \in Int /\ registry[x].score \in Nat
  BY RegistryConstants DEF Forms, EndpointSpec
<1>2. /\ i \in Int /\ registry[i].priority \in Int /\ registry[i].score \in Nat
      /\ j \in Int /\ registry[j].priority \in Int /\ registry[j].score \in Nat
      /\ k \in Int /\ registry[k].priority \in Int /\ registry[k].score \in Nat
  BY <1>1
<1> QED BY <1>2 DEF Preferred

\* The planner's sort keeps the endpoints, and puts none after one that it is preferred to.
LEMMA SortedProperties ==
  ASSUME Forms, NEW sites \in Seq(Registered)
  PROVE  /\ Sorted(sites) \in Seq(Registered)
         /\ ToSet(Sorted(sites)) = ToSet(sites)
         /\ \A a, b \in DOMAIN Sorted(sites) :
              a < b => ~Preferred(Sorted(sites)[b], Sorted(sites)[a])
<1>1. PICK k \in Nat : k = Len(sites) /\ DOMAIN sites = 1 .. k
  BY LenProperties
<1>2. \A a \in 1 .. k : sites[a] \in Registered
  BY <1>1, ElementOfSeq
<1> DEFINE Orders(p) == /\ IsInjective(p)
                        /\ \A a, b \in 1 .. k : a < b => ~Preferred(sites[p[b]], sites[p[a]])
           order == CHOOSE p \in [1 .. k -> 1 .. k] : Orders(p)
<1>3. \E p \in [1 .. k -> 1 .. k] : Orders(p)
  <2> DEFINE precedes == {d \in Registered \X Registered : Preferred(d[1], d[2])}
  <2>1. \A x, y \in Registered : <<x, y>> \in precedes <=> Preferred(x, y)
    OBVIOUS
  <2> HIDE DEF precedes
  <2>2. \A a, b, c \in 1 .. k :
          /\ <<sites[a], sites[a]>> \notin precedes
          /\ <<sites[a], sites[b]>> \in precedes /\ <<sites[b], sites[c]>> \in precedes
               => <<sites[a], sites[c]>> \in precedes
    BY <1>2, <2>1, PreferredOrders
  <2>3. PICK p : InOrder(sites, precedes, k, p)
    BY <2>2, Sortable
  <2>4. p \in [1 .. k -> 1 .. k] /\ IsInjective(p)
    BY <2>3 DEF InOrder
  <2>5. ASSUME NEW a \in 1 .. k, NEW b \in 1 .. k, a < b
        PROVE  ~Preferred(sites[p[b]], sites[p[a]])
    <3>1. p[a] \in 1 .. k /\ p[b] \in 1 .. k
      BY <2>4
    <3>2. sites[p[a]] \in Registered /\ sites[p[b]] \in Registered
      BY <1>2, <3>1
    <3>3. <<sites[p[b]], sites[p[a]]>> \notin precedes
      BY <2>3, <2>5 DEF InOrder
    <3> QED BY <2>1, <3>2, <3>3
  <2> QED BY <2>4, <2>5
<1>4. order \in [1 .. k -> 1 .. k] /\ Orders(order)
  BY <1>3
<1>5. Sorted(sites) = [n \in 1 .. k |-> sites[order[n]]]
  BY <1>1 DEF Sorted
<1>6. PICK r, p : r = Sorted(sites) /\ p = order
  OBVIOUS
<1> HIDE DEF order
<1>7. /\ p \in [1 .. k -> 1 .. k] /\ IsInjective(p) /\ r = [n \in 1 .. k |-> sites[p[n]]]
      /\ \A a, b \in 1 .. k : a < b => ~Preferred(sites[p[b]], sites[p[a]])
  BY <1>4, <1>5, <1>6
<1>8. DOMAIN r = 1 .. k /\ \A n \in 1 .. k : p[n] \in 1 .. k /\ r[n] = sites[p[n]]
  BY <1>7
<1>9. r \in Seq(Registered)
  <2>1. \A n \in 1 .. k : sites[p[n]] \in Registered
    BY <1>2, <1>8
  <2>2. r \in [1 .. k -> Registered]
    BY <1>7, <2>1
  <2> QED BY <2>2
<1>10. ToSet(r) = ToSet(sites)
  <2>1. \A i \in 1 .. k : \E a \in 1 .. k : p[a] = i
    BY <1>7, Permuted
  <2>2. ASSUME NEW i \in 1 .. k PROVE sites[i] \in ToSet(r)
    <3>1. PICK a \in 1 .. k : p[a] = i
      BY <2>1
    <3>2. a \in DOMAIN r /\ r[a] = sites[i]
      BY <1>8, <3>1
    <3> QED BY <3>2, Zenon DEF ToSet
  <2>3. ASSUME NEW a \in 1 .. k PROVE r[a] \in ToSet(sites)
    BY <1>1, <1>8 DEF ToSet
  <2>4. ToSet(sites) \subseteq ToSet(r)
    BY <1>1, <2>2, Zenon DEF ToSet
  <2>5. ToSet(r) \subseteq ToSet(sites)
    BY <1>8, <2>3, Zenon DEF ToSet
  <2> QED BY <2>4, <2>5
<1> QED BY <1>6, <1>7, <1>8, <1>9, <1>10

\* The candidates are the tenant's enabled endpoints, in the order of preference.
LEMMA CandidatesProperties ==
  ASSUME Forms, Orderly, NEW t
  PROVE  /\ Candidates(t) \in Seq(Registered)
         /\ ToSet(Candidates(t)) = Usable(t)
         /\ \A a, b \in DOMAIN Candidates(t) :
              a < b => ~Preferred(Candidates(t)[b], Candidates(t)[a])
<1>1. ordered \in Seq(Registered) /\ ToSet(ordered) = Registered
  <2>1. ToSet(ordered) = Registered
    BY LenProperties DEF Orderly, ToSet
  <2>2. ordered \in Seq(Registered)
    BY DEF Orderly
  <2> QED BY <2>1, <2>2
<1> DEFINE Theirs == {i \in Registered : registry[i].tenant = t}
           Enabled == {i \in Registered : registry[i].enabled}
<1>2. /\ Selected(ordered, Theirs) \in Seq(Registered)
      /\ ToSet(Selected(ordered, Theirs)) = Registered \cap Theirs
  BY <1>1, SelectedProperties
<1>3. PICK tenants : tenants = ForTenant(t)
  OBVIOUS
<1>4. tenants \in Seq(Registered) /\ ToSet(tenants) = Registered \cap Theirs
  BY <1>2, <1>3 DEF ForTenant
<1>5. /\ Selected(tenants, Enabled) \in Seq(Registered)
      /\ ToSet(Selected(tenants, Enabled)) = ToSet(tenants) \cap Enabled
  BY <1>4, SelectedProperties
<1>6. ToSet(tenants) \cap Enabled = Usable(t)
  BY <1>4 DEF Usable
<1>7. PICK sites : sites = Selected(tenants, Enabled)
  OBVIOUS
<1>8. Candidates(t) = Sorted(sites)
  BY <1>3, <1>7 DEF Candidates
<1>9. sites \in Seq(Registered) /\ ToSet(sites) = Usable(t)
  BY <1>5, <1>6, <1>7
<1> QED BY <1>8, <1>9, SortedProperties

\* What PlannerIsRight asks of a choice.
Best(i, set) ==
  i \in set /\ \A j \in set \ {i} :
    \/ registry[i].priority < registry[j].priority
    \/ registry[i].priority = registry[j].priority /\ registry[i].score >= registry[j].score

\* The first of what is left of a list in the order of preference is the best of it.
LEMMA FirstIsBest ==
  ASSUME Forms, NEW sites \in Seq(Registered), NEW kept, NEW left \in Seq(Registered),
         \A a, b \in DOMAIN sites : a < b => ~Preferred(sites[b], sites[a]),
         ToSet(left) = ToSet(sites) \cap kept,
         left # <<>> => \E i \in DOMAIN sites : /\ sites[i] = left[1]
                                                /\ \A j \in 1 .. i - 1 : sites[j] \notin kept
  PROVE  IF ToSet(left) = {} THEN First(left) = NoSite ELSE Best(First(left), ToSet(left))
<1>1. PICK k \in Nat : k = Len(sites) /\ DOMAIN sites = 1 .. k
  BY LenProperties
<1>2. CASE left = <<>>
  <2>1. ToSet(left) = {} /\ First(left) = NoSite
    BY <1>2 DEF ToSet, First
  <2> QED BY <2>1
<1>3. CASE left # <<>>
  <2>1. First(left) = left[1] /\ left[1] \in ToSet(left)
    BY <1>3, EmptySeq, LenProperties DEF First, ToSet
  <2>2. PICK i \in 1 .. k : sites[i] = left[1] /\ \A j \in 1 .. i - 1 : sites[j] \notin kept
    BY <1>1, <1>3
  <2>3. ASSUME NEW x \in ToSet(sites) \cap kept, x # sites[i] PROVE ~Preferred(x, sites[i])
    <3>1. PICK j \in 1 .. k : sites[j] = x
      BY <1>1, <2>3 DEF ToSet
    <3>2. j \notin 1 .. i - 1 /\ j # i
      BY <2>2, <2>3, <3>1
    <3>3. i < j
      BY <3>2
    <3> QED BY <1>1, <3>1, <3>3
  <2>4. ASSUME NEW x \in ToSet(sites), NEW y \in Registered, ~Preferred(x, y)
        PROVE  \/ registry[y].priority < registry[x].priority
               \/ /\ registry[y].priority = registry[x].priority
                  /\ registry[y].score >= registry[x].score
    <3>1. x \in Registered
      BY <1>1, <2>4, ElementOfSeq DEF ToSet
    <3>2. /\ registry[x].priority \in Int /\ registry[x].score \in Nat
          /\ registry[y].priority \in Int /\ registry[y].score \in Nat
      BY <3>1 DEF Forms, EndpointSpec
    <3> QED BY <2>4, <3>2 DEF Preferred
  <2>5. sites[i] \in Registered
    BY <1>1, ElementOfSeq
  <2>6. Best(sites[i], ToSet(sites) \cap kept)
    BY <2>1, <2>2, <2>3, <2>4, <2>5 DEF Best
  <2> QED BY <2>1, <2>2, <2>6
<1> QED BY <1>2, <1>3

\* PlannerIsRight: whatever is registered, in whatever order, enabled or not and however healthy,
\* the planner chooses what the filters and the sort are for, and after it the next best.
THEOREM PlannerChoosesRight == Spec => []PlannerIsRight
<1>1. ASSUME Forms, Orderly, NEW t \in Tenants
      PROVE  /\ IF Usable(t) = {} THEN Select(t) = NoSite ELSE Best(Select(t), Usable(t))
             /\ Select(t) # NoSite /\ registry[Select(t)].score = 0 =>
                  \A i \in ToSet(Healthy(t)) : registry[i].priority > registry[Select(t)].priority
             /\ IF Usable(t) \ {Select(t)} = {} THEN Fallback(t, Select(t)) = NoSite
                ELSE Best(Fallback(t, Select(t)), Usable(t) \ {Select(t)})
  <2>1. PICK sites : sites = Candidates(t)
    OBVIOUS
  <2>2. /\ sites \in Seq(Registered) /\ ToSet(sites) = Usable(t)
        /\ \A a, b \in DOMAIN sites : a < b => ~Preferred(sites[b], sites[a])
    BY <1>1, <2>1, CandidatesProperties
  <2>3. Usable(t) \subseteq Registered /\ Registered \subseteq Sites
    BY <1>1 DEF Usable, Forms
  <2>4. IF Usable(t) = {} THEN Select(t) = NoSite ELSE Best(Select(t), Usable(t))
    <3>1. Select(t) = First(sites)
      BY <2>1 DEF Select
    <3>2. ToSet(sites) = ToSet(sites) \cap Sites
      BY <2>2, <2>3
    <3>3. sites # <<>> => 1 \in DOMAIN sites /\ \A j \in 1 .. 1 - 1 : sites[j] \notin Sites
      BY <2>2, EmptySeq, LenProperties
    <3>4. sites # <<>> => \E i \in DOMAIN sites : /\ sites[i] = sites[1]
                                                  /\ \A j \in 1 .. i - 1 : sites[j] \notin Sites
      BY <3>3
    <3> QED BY <1>1, <2>2, <3>1, <3>2, <3>4, FirstIsBest
  <2>5. ASSUME Select(t) # NoSite, registry[Select(t)].score = 0, NEW i \in ToSet(Healthy(t))
        PROVE  registry[i].priority > registry[Select(t)].priority
    <3>1. i \in Usable(t) /\ registry[i].score > 0
      BY <2>1, <2>2, <2>5, SelectedProperties DEF Healthy
    <3>2. Best(Select(t), Usable(t)) /\ Select(t) \in Registered /\ i \in Registered
      BY <2>3, <2>4, <2>5, <3>1 DEF Best
    <3>3. /\ registry[i].priority \in Int /\ registry[i].score \in Nat
          /\ registry[Select(t)].priority \in Int
      BY <1>1, <3>2 DEF Forms, EndpointSpec
    <3> QED BY <2>5, <3>1, <3>2, <3>3 DEF Best
  <2>6. ASSUME NEW p
        PROVE  IF Usable(t) \ {p} = {} THEN Fallback(t, p) = NoSite
               ELSE Best(Fallback(t, p), Usable(t) \ {p})
    <3>1. ToSet(sites) \cap (Sites \ {p}) = Usable(t) \ {p}
      BY <2>2, <2>3
    <3>2. Fallback(t, p) = First(Selected(sites, Sites \ {p}))
      BY <2>1 DEF Fallback
    <3>3. PICK left : left = Selected(sites, Sites \ {p})
      OBVIOUS
    <3>4. /\ left \in Seq(Registered) /\ ToSet(left) = ToSet(sites) \cap (Sites \ {p})
          /\ left # <<>> =>
               \E i \in DOMAIN sites : /\ sites[i] = left[1]
                                       /\ \A j \in 1 .. i - 1 : sites[j] \notin Sites \ {p}
      BY <2>2, <3>3, SelectedProperties
    <3>5. IF ToSet(left) = {} THEN First(left) = NoSite ELSE Best(First(left), ToSet(left))
      BY <1>1, <2>2, <3>4, FirstIsBest
    <3> QED BY <3>1, <3>2, <3>3, <3>4, <3>5
  <2> QED BY <2>4, <2>5, <2>6
<1>2. Forms /\ Orderly => PlannerIsRight
  BY <1>1 DEF PlannerIsRight, Best
<1>3. Spec => []Orderly
  <2>1. Init => Orderly
    BY OrderlyInit
  <2> QED BY <2>1, OrderlyStep, TrackerHolds, PTL DEF Spec
<1> QED BY <1>2, <1>3, TrackerHolds, PTL
==============================================================================
