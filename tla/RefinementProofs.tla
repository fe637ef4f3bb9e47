-------------------------- MODULE RefinementProofs --------------------------
(***************************************************************************)
(* The relay without failures: the journal rejects no append, the queue    *)
(* has a place for every delivery and ids are distinct.                    *)
(*                                                                         *)
(* First fencing: nothing is rolled back, and then no two workers work on  *)
(* a delivery under leases that have not run out and a delivered delivery  *)
(* stays delivered.  Then Relay implements Leasing: every step of a        *)
(* client, worker, replay or supervisor is one of Leasing's steps or       *)
(* changes nothing that Leasing sees.                                      *)
(***************************************************************************)
EXTENDS AdmissionProofs

------------------------------------------------------------------------------
(* Fencing *)

\* No append is rejected and every delivery has a place in the queue.
NoFailures == MaxRejects = 0 /\ IsFiniteSet(Ids) /\ Cardinality(Ids) <= Capacity

\* No Submit rolls its reservation back.
NothingRolledBack ==
  /\ ~failNext
  /\ \A c \in Clients : client[c].pc \notin {"rollback", "rollbackFull"}

\* With a place for every delivery the queue always has room.
LEMMA QueueHasRoom ==
  ASSUME NoFailures, TypeOK, NEW id \in Ids
  PROVE  HasRoom(id)
<1>1. /\ Queued \subseteq Ids /\ IsFiniteSet(Queued) /\ Cardinality(Queued) \in Nat
      /\ IsFiniteSet(Ids) /\ Cardinality(Ids) \in Nat
  BY TypeParts, FS_CardinalityType DEF SchedulerTypeOK, NoFailures
<1>2. CASE id \in Queued
  BY <1>2 DEF HasRoom
<1>3. CASE id \notin Queued
  <2>1. Queued \cup {id} \subseteq Ids
    BY <1>1
  <2>2. Cardinality(Queued \cup {id}) = Cardinality(Queued) + 1
    BY <1>1, <1>3, FS_AddElement
  <2>3. Cardinality(Queued \cup {id}) <= Cardinality(Ids)
    BY <1>1, <2>1, FS_Subset
  <2> QED BY <1>1, <2>2, <2>3, CapacityIsNat DEF HasRoom, NoFailures
<1> QED BY <1>2, <1>3

LEMMA NoRollbacks ==
  ASSUME NoFailures
  PROVE  Spec => []NothingRolledBack
<1>1. Init => NothingRolledBack
  BY DEF Init, JournalInit, IdleClient, NothingRolledBack
<1>2. TypeOK /\ NothingRolledBack /\ [Next]_vars => NothingRolledBack'
  <2> SUFFICES ASSUME TypeOK, NothingRolledBack, [Next]_vars PROVE NothingRolledBack'
    OBVIOUS
  <2>0. client \in [Clients -> ClientRecord] /\ rejects \in Nat /\ failNext = FALSE
    BY TypeParts DEF ClientTypeOK, EnvTypeOK, JournalTypeOK, NothingRolledBack
  <2>1. CASE UNCHANGED <<failNext, client>>
    BY <2>1 DEF NothingRolledBack
  <2>2. ASSUME NEW c \in Clients, SubmitStep(c) PROVE NothingRolledBack'
    <3>1. UNCHANGED failNext
      BY <2>0, <2>2
         DEF SubmitStep, SubmitReserve, SubmitAppend, SubmitSchedule, SubmitRollback,
             SubmitLogDead, AppendAccepted, AppendRejected, journalVars
    <3>2. \/ ClientReturns(c) \/ ClientGoes(c, "append") \/ ClientGoes(c, "schedule")
      <4>1. client[c].pc = "schedule" => HasRoom(SubmissionId(c))
        BY ClientIds, QueueHasRoom
      <4> QED BY <2>0, <2>2, <4>1
              DEF SubmitStep, SubmitReserve, SubmitAppend, SubmitSchedule, SubmitRollback,
                  SubmitLogDead, AppendRejected, ScheduleFull, NothingRolledBack
    <3>3. \A d \in Clients \ {c} : client'[d] = client[d]
      BY <2>0, <3>2 DEF ClientReturns, ClientGoes
    <3>4. client'[c].pc \in {"idle", "append", "schedule"}
      <4>1. CASE ClientReturns(c)
        BY <2>0, <4>1 DEF ClientReturns, IdleClient
      <4> QED BY <3>2, <4>1, ClientRecords
    <3> QED BY <2>0, <3>1, <3>3, <3>4 DEF NothingRolledBack
  <2>3. ASSUME NEW c \in Clients, NEW e \in Events, SubmitBegin(c, e) PROVE NothingRolledBack'
    <3>1. UNCHANGED failNext
      BY <2>3 DEF SubmitBegin, journalVars
    <3>2. client' = [client EXCEPT ![c] = [pc |-> "reserve", event |-> e, now |-> clock]]
      BY <2>3 DEF SubmitBegin
    <3>3. \A d \in Clients : client'[d].pc = client[d].pc \/ client'[d].pc = "reserve"
      BY <2>0, <3>2
    <3> QED BY <2>0, <3>1, <3>3 DEF NothingRolledBack
  <2>4. CASE UNCHANGED vars
    BY <2>1, <2>4 DEF vars, sharedVars, journalVars
  <2>5. CASE Tick \/ \E e \in Endpoints : ResetBreaker(e)
    BY <2>1, <2>5 DEF Tick, ResetBreaker, sharedVars, journalVars
  <2>6. CASE InjectRejection
    BY <2>0, <2>6 DEF InjectRejection, NoFailures
  <2>7. ASSUME NEW w, WorkerStep(w) \/ StepBegin(w) \/ \E i \in Ids : StepForBegin(w, i)
        PROVE  UNCHANGED <<failNext, client>>
    BY <2>0, <2>7
       DEF WorkerStep, StepPop, StepAcquire, StepAllow, SendReturns, StepComplete, StepDead,
           StepRetry, StepLogDelivered, StepLogDead, StepRevive, StepLogRetry, StepSchedule,
           StepBegin, StepForBegin, workerFrame, sharedVars, journalVars, AppendAccepted,
           AppendRejected
  <2>8. ASSUME NEW r \in Replayers, ReplayStep(r) PROVE UNCHANGED <<failNext, client>>
    BY <2>8 DEF ReplayStep, ReplayBegin, ReplayEntry, replayFrame, journalVars
  <2>9. ASSUME NEW s \in Supervisors, SweepStep(s) PROVE UNCHANGED <<failNext, client>>
    BY <2>9 DEF SweepStep, OverdueRead, OverdueSchedule, sweepFrame, journalVars
  <2> QED BY <2>1, <2>2, <2>3, <2>4, <2>5, <2>6, <2>7, <2>8, <2>9 DEF Next
<1> QED BY <1>1, <1>2, TypeCorrect, PTL DEF Spec

\* With no rollback, a stored delivery that is not dead is written only by a worker that
\* acquires it or that holds its lease.
LEMMA HeldDeliveries ==
  ASSUME IdsDistinct, TypeOK, OwnIdReserved, ReservationsAgree, NothingRolledBack, [Next]_vars,
         NEW id \in Ids, Stored(id), deliveries[id].state # "dead"
  PROVE  \/ deliveries'[id] = deliveries[id]
         \/ \E v \in Workers : Acquirable(id, worker[v].now)
         \/ \E v \in Workers : WorkerStep(v) /\ HoldsLease(id, v, worker[v].epoch)
<1>0. deliveries \in [Ids -> Delivery]
  BY TypeParts DEF StoreTypeOK, Delivery
<1>1. CASE UNCHANGED storeVars
  BY <1>1 DEF storeVars
<1>2. ASSUME NEW c \in Clients, SubmitReserve(c),
             Reserve(client[c].event, SubmissionId(c), client[c].now)
      PROVE  deliveries'[id] = deliveries[id]
  <2>1. reserved[KeyOf[deliveries[id].event]] = id /\ deliveries[id].event \in Events
    BY DEF ReservationsAgree, KeyOfDelivery, OwnIdReserved
  <2>2. KeyOf[deliveries[id].event] \in Keys
    BY <2>1, CoreConstants
  <2>3. id = IdOf[KeyOf[deliveries[id].event]] /\ id # NoId
    BY <2>1, <2>2, CoreConstants DEF OwnIdReserved
  <2>4. /\ KeyOf[client[c].event] \in Keys /\ SubmissionId(c) = IdOf[KeyOf[client[c].event]]
        /\ reserved[KeyOf[client[c].event]] = NoId
    BY <1>2, ClientIds DEF SubmitReserve, Reserve
  <2>5. SubmissionId(c) # id
    BY <2>1, <2>2, <2>3, <2>4 DEF IdsDistinct
  <2> QED BY <1>0, <1>2, <2>5 DEF Reserve
<1>3. ASSUME NEW c \in Clients, SubmitRollback(c) PROVE FALSE
  BY <1>3 DEF SubmitRollback, NothingRolledBack
<1>u. UNCHANGED storeVars => deliveries'[id] = deliveries[id]
  BY DEF storeVars
<1>4. ASSUME NEW w \in Workers, WorkerStep(w)
      PROVE  \/ deliveries'[id] = deliveries[id]
             \/ Acquirable(id, worker[w].now)
             \/ HoldsLease(id, w, worker[w].epoch)
  <2>1. CASE StepAcquire(w)
    BY <1>0, <1>u, <2>1 DEF StepAcquire, Acquire
  <2>2. CASE StepComplete(w)
    BY <1>0, <1>u, <2>2 DEF StepComplete, Complete
  <2>3. CASE StepDead(w)
    BY <1>0, <1>u, <2>3 DEF StepDead, Dead
  <2>4. CASE StepRetry(w)
    <3>1. \/ UNCHANGED storeVars
          \/ \E at : Retry(worker[w].id, w, worker[w].epoch, at)
      BY <2>4, Zenon DEF StepRetry
    <3> QED BY <1>0, <1>u, <3>1 DEF Retry
  <2>5. CASE StepRevive(w)
    BY <1>0, <1>u, <2>5 DEF StepRevive, ReviveDead
  <2>6. CASE \/ StepPop(w) \/ StepAllow(w) \/ \E ok \in BOOLEAN : SendReturns(w, ok)
             \/ StepLogDelivered(w) \/ StepLogDead(w) \/ StepLogRetry(w) \/ StepSchedule(w)
    BY <1>u, <2>6 DEF StepPop, StepAllow, SendReturns, StepLogDelivered, StepLogDead,
                      StepLogRetry, StepSchedule
  <2> QED BY <1>4, <2>1, <2>2, <2>3, <2>4, <2>5, <2>6 DEF WorkerStep
<1>5. \/ UNCHANGED storeVars
      \/ \E c \in Clients : \/ SubmitRollback(c)
                            \/ SubmitReserve(c)
                               /\ Reserve(client[c].event, SubmissionId(c), client[c].now)
      \/ \E w \in Workers : WorkerStep(w)
  BY StoreOrigins
<1> QED BY <1>1, <1>2, <1>3, <1>4, <1>5

\* A worker whose lease has not run out is the one the store names.
StandingLeases ==
  \A w \in Workers : Holding(w) /\ Unexpired(w) => HoldsLease(worker[w].id, w, worker[w].epoch)

LEMMA StandingStep ==
  ASSUME IdsDistinct, TypeOK, OwnIdReserved, ReservationsAgree, NothingRolledBack, TimesRead,
         LeaseCopyCurrent, StandingLeases, [Next]_vars,
         NEW w \in Workers,
         worker'[w].pc \in {"allow", "send", "retryOpen", "retrySend", "complete", "dead"},
         worker'[w].now + LeaseTTL > clock'
  PROVE  /\ deliveries'[worker'[w].id].state = "leased"
         /\ deliveries'[worker'[w].id].leaseOwner = w
         /\ deliveries'[worker'[w].id].leaseEpoch = worker'[w].epoch
<1>0. /\ deliveries \in [Ids -> Delivery] /\ worker[w].now \in Nat /\ LeaseTTL \in Nat
      /\ clock \in Nat /\ clock' \in Nat /\ clock <= clock'
  <2>1. clock' \in Nat
    <3>1. TypeOK'
      BY TypeNext
    <3> QED BY <3>1 DEF TypeOK
  <2> QED BY <2>1, TypeParts, WorkerRecords, ClockGrows, RelayConstants
          DEF StoreTypeOK, Delivery, WorkerRecord, EnvTypeOK
<1>1. CASE WorkerStep(w)
  <2>0. worker'[w].pc # "idle" /\ worker'[w].pc # "acquire" /\ worker'[w] # IdleWorker
    BY DEF IdleWorker
  <2>1. CASE /\ worker[w].pc = "acquire" /\ worker'[w].id = worker[w].id
             /\ WorkerTakes(w, deliveries[worker[w].id])
             /\ Acquire(worker[w].id, w, worker[w].now, LeaseTTL)
    <3> DEFINE id == worker[w].id
    <3>1. id \in Ids /\ worker[w].now + LeaseTTL \in Nat
      BY <1>0, <2>1, TypeParts DEF WorkerTypeOK
    <3>2. deliveries'[id] = Leased(deliveries[id], w, worker[w].now + LeaseTTL)
      BY <1>0, <2>1, <3>1, Zenon DEF Acquire
    <3>3. worker'[w].epoch = deliveries[id].leaseEpoch + 1
      BY <2>1, WorkerRecords
    <3> QED BY <1>0, <2>1, <3>1, <3>2, <3>3, RecordFields
  <2>2. CASE /\ worker[w].pc \in {"allow", "send"} /\ UNCHANGED deliveries
             /\ WorkerGoes(w, worker'[w].pc)
    <3>1. /\ worker'[w].id = worker[w].id /\ worker'[w].now = worker[w].now
          /\ worker'[w].epoch = worker[w].epoch
      BY <2>2, WorkerRecords
    <3>2. Holding(w) /\ Unexpired(w)
      BY <1>0, <2>2, <3>1 DEF Holding, Unexpired
    <3> QED BY <2>2, <3>1, <3>2 DEF StandingLeases, HoldsLease
  <2> QED BY <1>1, <2>0, <2>1, <2>2, WorkerKeeps
<1>2. CASE worker'[w] = worker[w] /\ ~WorkerStep(w)
  <2> DEFINE id == worker[w].id
  <2>1. id \in Ids /\ Holding(w) /\ Unexpired(w)
    BY <1>0, <1>2, TypeParts DEF WorkerTypeOK, Holding, Unexpired
  <2>2. HoldsLease(id, w, worker[w].epoch)
    BY <2>1 DEF StandingLeases
  <2>3. deliveries[id].leaseUntil = worker[w].now + LeaseTTL
    BY <2>1, <2>2 DEF LeaseCopyCurrent
  <2>4. ASSUME NEW v \in Workers PROVE ~Acquirable(id, worker[v].now)
    <3>1. worker[v].now \in Nat /\ worker[v].now <= clock
      BY WorkerRecords DEF WorkerRecord, TimesRead
    <3>2. deliveries[id].leaseUntil > worker[v].now
      BY <1>0, <1>2, <2>3, <3>1
    <3> QED BY <2>2, <3>2 DEF Acquirable, HoldsLease
  <2>5. ASSUME NEW v \in Workers, WorkerStep(v), HoldsLease(id, v, worker[v].epoch) PROVE FALSE
    <3>1. v = w
      BY <2>2, <2>5 DEF HoldsLease
    <3> QED BY <1>2, <2>5, <3>1
  <2>6. Stored(id) /\ deliveries[id].state # "dead"
    BY <2>2 DEF HoldsLease, Stored
  <2>7. deliveries'[id] = deliveries[id]
    BY <2>1, <2>4, <2>5, <2>6, HeldDeliveries
  <2> QED BY <1>2, <2>2, <2>7 DEF HoldsLease
<1> QED BY <1>1, <1>2, WorkerChanges

LEMMA LeasesStand ==
  ASSUME NoFailures, IdsDistinct
  PROVE  Spec => []StandingLeases
<1>1. Init => StandingLeases
  BY DEF Init, IdleWorker, Holding, StandingLeases
<1>2. TypeOK /\ OwnIdReserved /\ ReservationsAgree /\ NothingRolledBack /\ TimesRead
        /\ LeaseCopyCurrent /\ StandingLeases /\ [Next]_vars => StandingLeases'
  BY StandingStep DEF StandingLeases, Holding, Unexpired, HoldsLease
<1> QED BY <1>1, <1>2, TypeCorrect, OwnIds, MapsAgree, NoRollbacks, TimesReadInvariant, LeaseCopies,
           PTL DEF Spec

\* Two workers never both work on a delivery under a lease that has not run out, however
\* often the supervisor, Replay and StepFor bring the delivery up: Acquire refuses the second
\* one, and nothing but the end of the lease takes it from the first.
THEOREM LeasesAreFenced ==
  ASSUME NoFailures, IdsDistinct
  PROVE  Spec => []LeaseMutex
<1>1. StandingLeases => LeaseMutex
  BY DEF StandingLeases, LeaseMutex, HoldsLease
<1> QED BY <1>1, LeasesStand, PTL

\* A delivery that was delivered stays delivered: no duplicate submission, replayed entry,
\* overdue sweep or late worker brings it back.
THEOREM DeliveredStays ==
  ASSUME NoFailures, IdsDistinct
  PROVE  Spec => DeliveredIsFinal
<1> DEFINE Stays == \A id \in Ids :
              deliveries[id].state = "delivered" => deliveries'[id].state = "delivered"
<1>1. TypeOK /\ OwnIdReserved /\ ReservationsAgree /\ NothingRolledBack /\ [Next]_vars => Stays
  <2> SUFFICES ASSUME TypeOK, OwnIdReserved, ReservationsAgree, NothingRolledBack, [Next]_vars,
                      NEW id \in Ids, deliveries[id].state = "delivered"
               PROVE  deliveries'[id].state = "delivered"
    BY Zenon
  <2>1. Stored(id) /\ deliveries[id].state # "dead"
    BY DEF Stored
  <2>2. \A v \in Workers : /\ ~Acquirable(id, worker[v].now)
                           /\ ~HoldsLease(id, v, worker[v].epoch)
    BY DEF Acquirable, Terminal, TerminalStates, HoldsLease
  <2> QED BY <2>1, <2>2, HeldDeliveries
<1>2. TypeOK /\ OwnIdReserved /\ ReservationsAgree /\ NothingRolledBack /\ [Next]_vars
        => [Stays]_vars
  BY <1>1
<1> QED BY <1>2, TypeCorrect, OwnIds, MapsAgree, NoRollbacks, PTL DEF Spec, DeliveredIsFinal

------------------------------------------------------------------------------
(* The refinement *)

\* No worker takes a delivery back from the dead.
NothingRevived == \A w \in Workers : worker[w].pc # "revive"

\* What is not in the store has no holder and no attempts.
AbsentIsClean ==
  \A id \in Ids : ~Stored(id) => deliveries[id].leaseOwner = NoOwner /\ deliveries[id].attempt = 0

LEMMA NoRevivals ==
  ASSUME NoFailures
  PROVE  Spec => []NothingRevived
<1>1. Init => NothingRevived
  BY DEF Init, IdleWorker, NothingRevived
<1>2. TypeOK /\ NothingRolledBack /\ NothingRevived /\ [Next]_vars => NothingRevived'
  <2> SUFFICES ASSUME TypeOK, NothingRolledBack, NothingRevived, [Next]_vars, NEW w \in Workers,
                      worker'[w].pc = "revive"
               PROVE  FALSE
    BY DEF NothingRevived
  <2>1. worker[w].pc # "revive" /\ worker'[w] # IdleWorker /\ ~AppendRejected
    BY DEF NothingRevived, IdleWorker, AppendRejected, NothingRolledBack
  <2> QED BY <2>1, WorkerChanges, WorkerKeeps
<1> QED BY <1>1, <1>2, TypeCorrect, NoRollbacks, PTL DEF Spec

\* How the writes of Memory look from Leasing.
LEMMA WrittenFields ==
  ASSUME NEW d \in Delivery
  PROVE  /\ \A w \in Workers, until \in Nat : LET l == Leased(d, w, until) IN
              l.state = "leased" /\ l.leaseOwner = w /\ l.attempt = d.attempt
         /\ \A at : LET c == Released(d, "delivered")
                        k == Failed(d, "dead")
                        r == Postponed(Failed(d, "pending"), at) IN
              /\ c.state = "delivered" /\ c.leaseOwner = NoOwner /\ c.attempt = d.attempt
              /\ k.state = "dead" /\ k.leaseOwner = NoOwner /\ k.attempt = d.attempt + 1
              /\ r.state = "pending" /\ r.leaseOwner = NoOwner /\ r.attempt = d.attempt + 1
<1>1. ASSUME NEW w \in Workers, NEW until \in Nat
      PROVE  /\ Leased(d, w, until).state = "leased" /\ Leased(d, w, until).leaseOwner = w
             /\ Leased(d, w, until).attempt = d.attempt
  BY RecordFields
<1>2. ASSUME NEW s \in DeliveryStates
      PROVE  /\ Released(d, s) \in Delivery /\ Released(d, s).state = s
             /\ Released(d, s).leaseOwner = NoOwner /\ Released(d, s).attempt = d.attempt
             /\ Failed(d, s) \in Delivery /\ Failed(d, s).state = s
             /\ Failed(d, s).leaseOwner = NoOwner /\ Failed(d, s).attempt = d.attempt + 1
  <2>1. /\ Released(d, s) \in Delivery /\ Failed(d, s) \in Delivery
    BY RecordTypes
  <2>2. Released(d, s).leaseOwner = NoOwner
    BY DEF Released, Delivery, DeliveryRecord
  <2>3. Failed(d, s).leaseOwner = NoOwner
    <3>1. PICK n : n = Released(d, s).attempt + 1
      OBVIOUS
    <3>2. Failed(d, s) = [Released(d, s) EXCEPT !.attempt = n]
      BY <3>1, Zenon DEF Failed
    <3> QED BY <2>1, <2>2, <3>2 DEF Delivery, DeliveryRecord
  <2> QED BY <2>1, <2>2, <2>3, RecordFields
<1>3. ASSUME NEW r \in Delivery, NEW at
      PROVE  /\ Postponed(r, at).state = r.state /\ Postponed(r, at).leaseOwner = r.leaseOwner
             /\ Postponed(r, at).attempt = r.attempt
  BY DEF Postponed, Delivery, DeliveryRecord
<1>4. {"pending", "delivered", "dead"} \subseteq DeliveryStates
  BY DEF DeliveryStates
<1> QED BY <1>1, <1>2, <1>3, <1>4
LEMMA NothingUnclean ==
  ASSUME NoFailures
  PROVE  Spec => []AbsentIsClean
<1>1. Init => AbsentIsClean
  BY DEF Init, StoreInit, ZeroDelivery, AbsentIsClean
<1>2. TypeOK /\ NothingRolledBack /\ AbsentIsClean /\ [Next]_vars => AbsentIsClean'
  <2> SUFFICES ASSUME TypeOK, NothingRolledBack, AbsentIsClean, [Next]_vars,
                      NEW id \in Ids, deliveries'[id].state = "absent"
               PROVE  deliveries'[id].leaseOwner = NoOwner /\ deliveries'[id].attempt = 0
    BY DEF AbsentIsClean, Stored
  <2>0. deliveries \in [Ids -> Delivery]
    BY TypeParts DEF StoreTypeOK, Delivery
  <2>1. CASE /\ \A i \in Ids : /\ deliveries'[i].event = deliveries[i].event
                               /\ Stored(i)' <=> Stored(i)
             /\ reserved' = reserved
    <3>1. deliveries[id].state = "absent"
      BY <2>1 DEF Stored
    <3>2. deliveries'[id] = deliveries[id]
      <4>1. CASE UNCHANGED storeVars
        BY <4>1 DEF storeVars
      <4>2. ASSUME NEW c \in Clients, Reserve(client[c].event, SubmissionId(c), client[c].now),
                   SubmitReserve(c)
            PROVE  FALSE
        <5>1. SubmissionId(c) \in Ids /\ KeyOf[client[c].event] \in Keys /\ SubmissionId(c) # NoId
          BY <4>2, ClientIds DEF SubmitReserve
        <5>2. reserved'[KeyOf[client[c].event]] = SubmissionId(c)
          BY <4>2, <5>1, TypeParts DEF Reserve, StoreTypeOK
        <5> QED BY <2>1, <4>2, <5>1, <5>2 DEF Reserve
      <4>3. ASSUME NEW c \in Clients, SubmitRollback(c) PROVE FALSE
        BY <4>3 DEF SubmitRollback, NothingRolledBack
      <4>4. ASSUME NEW w \in Workers, WorkerStep(w) PROVE deliveries'[id] = deliveries[id]
        <5>1. ~Acquirable(id, worker[w].now) /\ ~HoldsLease(id, w, worker[w].epoch)
          BY <3>1 DEF Acquirable, HoldsLease, Stored
        <5>2. deliveries[id].state # "dead"
          BY <3>1
        <5> QED BY <2>0, <4>4, <5>1, <5>2
                DEF WorkerStep, StepPop, StepAcquire, StepAllow, SendReturns, StepComplete,
                    StepDead, StepRetry, StepLogDelivered, StepLogDead, StepRevive, StepLogRetry,
                    StepSchedule, Acquire, Complete, Dead, Retry, ReviveDead, storeVars
      <4> QED BY <4>1, <4>2, <4>3, <4>4, StoreOrigins
    <3> QED BY <3>1, <3>2 DEF AbsentIsClean, Stored
  <2>2. ASSUME NEW c \in Clients, SubmitReserve(c),
               Reserve(client[c].event, SubmissionId(c), client[c].now)
        PROVE  deliveries'[id].leaseOwner = NoOwner /\ deliveries'[id].attempt = 0
    <3>1. CASE id = SubmissionId(c)
      <4>1. client[c].event \in Events
        BY <2>2, ClientIds DEF SubmitReserve
      <4>2. deliveries'[id] = NewDelivery(client[c].event, client[c].now)
        BY <2>0, <2>2, <3>1 DEF Reserve
      <4> QED BY <4>1, <4>2, NewStored
    <3>2. CASE id # SubmissionId(c)
      <4>1. deliveries'[id] = deliveries[id]
        BY <2>0, <2>2, <3>2 DEF Reserve
      <4> QED BY <4>1 DEF AbsentIsClean, Stored
    <3> QED BY <3>1, <3>2
  <2>3. ASSUME NEW c \in Clients, SubmitRollback(c) PROVE FALSE
    BY <2>3 DEF SubmitRollback, NothingRolledBack
  <2> QED BY <2>1, <2>2, <2>3, StoreSteps
<1> QED BY <1>1, <1>2, TypeCorrect, NoRollbacks, PTL DEF Spec

\* What Leasing sees of the store when one delivery is written.
LEMMA OneWritten ==
  ASSUME NEW id \in Ids, \A i \in Ids \ {id} : deliveries'[i] = deliveries[i]
  PROVE  /\ Holders' = [Holders EXCEPT ![id] = deliveries'[id].leaseOwner]
         /\ FailedAttempts' = [FailedAttempts EXCEPT ![id] = deliveries'[id].attempt]
         /\ deliveries'[id].state \in {"pending", "leased"} => Phases' = [Phases EXCEPT ![id] = "open"]
         /\ \A s \in {"delivered", "dead"} :
              deliveries'[id].state = s => Phases' = [Phases EXCEPT ![id] = s]
<1>1. Holders' = [Holders EXCEPT ![id] = deliveries'[id].leaseOwner]
  BY DEF Holders
<1>2. FailedAttempts' = [FailedAttempts EXCEPT ![id] = deliveries'[id].attempt]
  BY DEF FailedAttempts
<1>3. ASSUME deliveries'[id].state \in {"pending", "leased"}
      PROVE  Phases' = [Phases EXCEPT ![id] = "open"]
  BY <1>3 DEF Phases, Stored, Terminal, TerminalStates
<1>4. ASSUME NEW s \in {"delivered", "dead"}, deliveries'[id].state = s
      PROVE  Phases' = [Phases EXCEPT ![id] = s]
  BY <1>4 DEF Phases, Stored, Terminal, TerminalStates
<1> QED BY <1>1, <1>2, <1>3, <1>4

LEMMA NoneWritten ==
  ASSUME UNCHANGED deliveries
  PROVE  UNCHANGED <<Phases, Holders, FailedAttempts>>
BY DEF Phases, Holders, FailedAttempts, Stored, Terminal

\* What Leasing sees of the workers when one of them goes on.
LEMMA OneWorker ==
  ASSUME NEW w \in Workers, \A v \in Workers \ {w} : worker'[v] = worker[v]
  PROVE  /\ ~Holding(w) /\ ~Holding(w)' => Grants' = Grants
         /\ Holding(w) /\ ~Holding(w)' => Grants' = Grants \ {GrantOf(w)}
         /\ ~Holding(w) /\ Holding(w)' => Grants' = Grants \cup {GrantOf(w)'}
         /\ Holding(w) /\ Holding(w)' /\ GrantOf(w)' = GrantOf(w) => Grants' = Grants
<1>1. \A v \in Workers \ {w} : (Holding(v)' <=> Holding(v)) /\ GrantOf(v)' = GrantOf(v)
  BY DEF Holding, GrantOf
<1>2. \A v \in Workers : GrantOf(v).owner = v /\ GrantOf(v)'.owner = v
  BY DEF GrantOf
<1>3. /\ \A g : g \in Grants <=> \E v \in Workers : Holding(v) /\ g = GrantOf(v)
      /\ \A g : g \in Grants' <=> \E v \in Workers : Holding(v)' /\ g = GrantOf(v)'
  BY DEF Grants
<1> QED BY <1>1, <1>2, <1>3
------------------------------------------------------------------------------
(* One lemma per kind of step. *)

QuietStep == UNCHANGED L!vars

LEMMA Quiet ==
  ASSUME UNCHANGED <<deliveries, worker, clock>>
  PROVE  QuietStep
<1>1. Grants' = Grants
  BY DEF Grants, GrantOf, Holding
<1> QED BY <1>1, NoneWritten DEF QuietStep, L!vars

LEMMA ReserveAdmits ==
  ASSUME IdsDistinct, TypeOK, OwnIdReserved, ReservationsAgree, AbsentIsClean,
         NEW c \in Clients, SubmitReserve(c),
         Reserve(client[c].event, SubmissionId(c), client[c].now)
  PROVE  L!Admit(SubmissionId(c)) /\ SubmissionId(c) \in Ids
<1> DEFINE id == SubmissionId(c)
<1>0. /\ deliveries \in [Ids -> Delivery] /\ id \in Ids /\ client[c].event \in Events
      /\ KeyOf[client[c].event] \in Keys /\ id = IdOf[KeyOf[client[c].event]] /\ id # NoId
  BY TypeParts, ClientIds DEF StoreTypeOK, Delivery, SubmitReserve
<1> HIDE DEF id
<1>1. ~Stored(id)
  <2> SUFFICES ASSUME Stored(id) PROVE FALSE
    OBVIOUS
  <2>1. reserved[KeyOf[deliveries[id].event]] = id /\ deliveries[id].event \in Events
    BY <1>0 DEF ReservationsAgree, KeyOfDelivery, OwnIdReserved
  <2>2. KeyOf[deliveries[id].event] \in Keys
    BY <2>1, CoreConstants
  <2>3. id = IdOf[KeyOf[deliveries[id].event]]
    BY <1>0, <2>1, <2>2 DEF OwnIdReserved
  <2>4. KeyOf[deliveries[id].event] = KeyOf[client[c].event]
    BY <1>0, <2>2, <2>3 DEF IdsDistinct
  <2> QED BY <1>0, <2>1, <2>4 DEF Reserve
<1>2. deliveries' = [deliveries EXCEPT ![id] = NewDelivery(client[c].event, client[c].now)]
  BY DEF Reserve, id
<1>3. /\ deliveries'[id].state = "pending" /\ deliveries'[id].leaseOwner = NoOwner
      /\ deliveries'[id].attempt = 0
  <2>1. deliveries'[id] = NewDelivery(client[c].event, client[c].now)
    BY <1>0, <1>2
  <2> QED BY <2>1 DEF NewDelivery, ZeroDelivery
<1>4. \A i \in Ids \ {id} : deliveries'[i] = deliveries[i]
  BY <1>0, <1>2
<1>5. /\ Phases' = [Phases EXCEPT ![id] = "open"]
      /\ Holders' = [Holders EXCEPT ![id] = NoOwner]
      /\ FailedAttempts' = [FailedAttempts EXCEPT ![id] = 0]
  BY <1>0, <1>3, <1>4, OneWritten
<1>6. deliveries[id].leaseOwner = NoOwner /\ deliveries[id].attempt = 0
  BY <1>0, <1>1 DEF AbsentIsClean
<1>7. Holders' = Holders /\ FailedAttempts' = FailedAttempts
  BY <1>0, <1>5, <1>6 DEF Holders, FailedAttempts
<1>8. Phases[id] = "none"
  BY <1>0, <1>1 DEF Phases
<1>9. UNCHANGED <<worker, clock>>
  BY DEF SubmitReserve, clientFrame
<1>10. Grants' = Grants
  BY <1>9 DEF Grants, GrantOf, Holding
<1> QED BY <1>0, <1>5, <1>7, <1>8, <1>9, <1>10 DEF L!Admit, id

LEMMA AcquireGrants ==
  ASSUME TypeOK, TimesRead, LeaseCopyCurrent, StandingLeases, NEW w \in Workers, StepAcquire(w),
         Acquire(worker[w].id, w, worker[w].now, LeaseTTL), WorkerTakes(w, deliveries[worker[w].id])
  PROVE  \E id \in Ids : \E until \in 0 .. clock + LeaseTTL : L!Grant(w, id, until)
<1> DEFINE id == worker[w].id
           until == worker[w].now + LeaseTTL
<1>0. /\ deliveries \in [Ids -> Delivery] /\ id \in Ids /\ worker[w].now \in Nat
      /\ clock \in Nat /\ LeaseTTL \in Nat /\ worker[w].now <= clock /\ worker[w].pc = "acquire"
  BY TypeParts, WorkerRecords, RelayConstants
     DEF StoreTypeOK, Delivery, WorkerTypeOK, WorkerRecord, EnvTypeOK, TimesRead, StepAcquire
<1>1. until \in 0 .. clock + LeaseTTL /\ until \in Nat
  BY <1>0
<1>2. deliveries' = [deliveries EXCEPT ![id] = Leased(deliveries[id], w, until)]
      /\ Acquirable(id, worker[w].now)
  BY Zenon DEF Acquire
<1>3. GrantOf(w)' = [owner |-> w, id |-> id, until |-> until] /\ Holding(w)' /\ ~Holding(w)
  BY <1>0, WorkerRecords DEF GrantOf, Holding
<1>4. Grants' = Grants \cup {[owner |-> w, id |-> id, until |-> until]}
  <2>1. \A v \in Workers \ {w} : worker'[v] = worker[v]
    BY OtherWorkers DEF WorkerStep
  <2> QED BY <1>3, <2>1, OneWorker
<1> HIDE DEF until
<1>5. deliveries'[id] = Leased(deliveries[id], w, until)
  BY <1>0, <1>2
<1>6. /\ deliveries'[id].state = "leased" /\ deliveries'[id].leaseOwner = w
      /\ deliveries'[id].attempt = deliveries[id].attempt
  BY <1>0, <1>1, <1>5, WrittenFields
<1>7. \A i \in Ids \ {id} : deliveries'[i] = deliveries[i]
  BY <1>0, <1>2
<1> HIDE DEF id
<1>8. /\ Phases' = [Phases EXCEPT ![id] = "open"]
      /\ Holders' = [Holders EXCEPT ![id] = w]
      /\ FailedAttempts' = [FailedAttempts EXCEPT ![id] = deliveries[id].attempt]
  BY <1>0, <1>6, <1>7, OneWritten
<1>9. Phases[id] = "open"
  BY <1>0, <1>2 DEF Phases, Acquirable
<1>10. Phases' = Phases /\ FailedAttempts' = FailedAttempts
  BY <1>0, <1>8, <1>9 DEF Phases, FailedAttempts
<1>11. \A g \in Grants : g.owner # w /\ (g.id = id => g.until <= clock)
  <2> SUFFICES ASSUME NEW v \in Workers, Holding(v)
               PROVE  v # w /\ (worker[v].id = id => worker[v].now + LeaseTTL <= clock)
    BY DEF Grants, GrantOf
  <2>1. worker[v].now \in Nat
    BY WorkerRecords DEF WorkerRecord
  <2>2. ASSUME worker[v].id = id, worker[v].now + LeaseTTL > clock PROVE FALSE
    <3>1. HoldsLease(id, v, worker[v].epoch)
      BY <2>2 DEF StandingLeases, Unexpired
    <3>2. deliveries[id].leaseUntil = worker[v].now + LeaseTTL
      BY <2>2, <3>1 DEF LeaseCopyCurrent
    <3>3. deliveries[id].leaseUntil > worker[w].now
      BY <1>0, <2>1, <2>2, <3>2
    <3> QED BY <1>2, <3>1, <3>3 DEF Acquirable, HoldsLease
  <2> QED BY <1>0, <1>3, <2>1, <2>2
<1>12. clock' = clock
  BY DEF StepAcquire, workerFrame, envVars
<1>13. L!Grant(w, id, until)
  BY <1>4, <1>8, <1>9, <1>10, <1>11, <1>12 DEF L!Grant
<1> QED BY <1>0, <1>1, <1>13
\* The worker ends its lease.
LEMMA LeaseReturns ==
  ASSUME TypeOK, NEW w \in Workers, WorkerStep(w), Holding(w), ~Holding(w)', clock' = clock,
         NEW id \in Ids, worker[w].id = id, HoldsLease(id, w, worker[w].epoch),
         deliveries'[id].leaseOwner = NoOwner,
         \A i \in Ids \ {id} : deliveries'[i] = deliveries[i]
  PROVE  GrantOf(w) \in Grants /\ GrantOf(w).id = id /\ L!Returned(GrantOf(w))
<1>1. GrantOf(w) \in Grants /\ GrantOf(w).id = id /\ GrantOf(w).owner = w
  BY DEF Grants, GrantOf
<1>2. Phases[id] = "open" /\ Holders[id] = w
  BY DEF Phases, Holders, HoldsLease, Stored, Terminal, TerminalStates
<1>3. Holders' = [Holders EXCEPT ![id] = NoOwner]
  BY OneWritten
<1>4. Grants' = Grants \ {GrantOf(w)}
  BY OneWorker, OtherWorkers
<1> QED BY <1>1, <1>2, <1>3, <1>4 DEF L!Returned

\* It walks away from it.
LEMMA HolderStops ==
  ASSUME TypeOK, NEW w \in Workers, WorkerStep(w), Holding(w), WorkerReturns(w),
         UNCHANGED deliveries, clock' = clock
  PROVE  \E g \in Grants : L!Abandon(g)
<1>1. ~Holding(w)'
  BY WorkerRecords DEF Holding, IdleWorker
<1>2. GrantOf(w) \in Grants /\ Grants' = Grants \ {GrantOf(w)}
  BY <1>1, OneWorker, OtherWorkers DEF Grants
<1> QED BY <1>2, NoneWritten DEF L!Abandon

LEMMA CompleteDelivers ==
  ASSUME TypeOK, NEW w \in Workers, StepComplete(w), WorkerGoes(w, "logDelivered"),
         Complete(worker[w].id, w, worker[w].epoch)
  PROVE  \E g \in Grants : L!Deliver(g)
<1> DEFINE id == worker[w].id
<1>0. /\ deliveries \in [Ids -> Delivery] /\ id \in Ids /\ Holding(w) /\ ~Holding(w)'
      /\ WorkerStep(w) /\ clock' = clock
  BY TypeParts, WorkerRecords
     DEF StoreTypeOK, Delivery, WorkerTypeOK, Holding, StepComplete, WorkerStep, workerFrame, envVars
<1>1. /\ HoldsLease(id, w, worker[w].epoch)
      /\ deliveries' = [deliveries EXCEPT ![id] = Released(deliveries[id], "delivered")]
  BY Zenon DEF Complete
<1>2. PICK i \in Ids : i = id
  BY <1>0
<1> HIDE DEF id
<1>3. /\ deliveries'[i] = Released(deliveries[i], "delivered")
      /\ \A j \in Ids \ {i} : deliveries'[j] = deliveries[j]
  BY <1>0, <1>1, <1>2
<1>4. /\ deliveries'[i].state = "delivered" /\ deliveries'[i].leaseOwner = NoOwner
      /\ deliveries'[i].attempt = deliveries[i].attempt
  BY <1>0, <1>3, WrittenFields
<1>5. GrantOf(w) \in Grants /\ GrantOf(w).id = i /\ L!Returned(GrantOf(w))
  BY <1>0, <1>1, <1>2, <1>3, <1>4, LeaseReturns DEF id
<1>6. Phases' = [Phases EXCEPT ![i] = "delivered"]
  BY <1>3, <1>4, OneWritten
<1>7. FailedAttempts' = FailedAttempts
  BY <1>3, <1>4, OneWritten DEF FailedAttempts
<1> QED BY <1>5, <1>6, <1>7 DEF L!Deliver

LEMMA DeadGivesUp ==
  ASSUME TypeOK, LeaseCopyCurrent, LastAttempt, NEW w \in Workers, StepDead(w),
         WorkerGoes(w, "logDead"), Dead(worker[w].id, w, worker[w].epoch)
  PROVE  \E g \in Grants : L!GiveUp(g)
<1> DEFINE id == worker[w].id
<1>0. /\ deliveries \in [Ids -> Delivery] /\ id \in Ids /\ Holding(w) /\ ~Holding(w)'
      /\ WorkerStep(w) /\ clock' = clock /\ worker[w].attempt + 1 >= MaxAttempts
  BY TypeParts, WorkerRecords
     DEF StoreTypeOK, Delivery, WorkerTypeOK, Holding, StepDead, WorkerStep, workerFrame, envVars,
         LastAttempt
<1>1. /\ HoldsLease(id, w, worker[w].epoch)
      /\ deliveries' = [deliveries EXCEPT ![id] = Failed(deliveries[id], "dead")]
  BY Zenon DEF Dead
<1>2. deliveries[id].attempt = worker[w].attempt
  BY <1>0, <1>1 DEF LeaseCopyCurrent
<1>3. PICK i \in Ids : i = id
  BY <1>0
<1> HIDE DEF id
<1>4. /\ deliveries'[i] = Failed(deliveries[i], "dead")
      /\ \A j \in Ids \ {i} : deliveries'[j] = deliveries[j]
  BY <1>0, <1>1, <1>3
<1>5. /\ deliveries'[i].state = "dead" /\ deliveries'[i].leaseOwner = NoOwner
      /\ deliveries'[i].attempt = deliveries[i].attempt + 1
  BY <1>0, <1>4, WrittenFields
<1>6. GrantOf(w) \in Grants /\ GrantOf(w).id = i /\ L!Returned(GrantOf(w))
  BY <1>0, <1>1, <1>3, <1>4, <1>5, LeaseReturns DEF id
<1>7. Phases' = [Phases EXCEPT ![i] = "dead"]
  BY <1>4, <1>5, OneWritten
<1>8. FailedAttempts' = [FailedAttempts EXCEPT ![i] = deliveries[i].attempt + 1]
  BY <1>4, <1>5, OneWritten
<1>9. FailedAttempts[i] = deliveries[i].attempt /\ FailedAttempts'[i] >= MaxAttempts
  BY <1>0, <1>2, <1>3, <1>8 DEF FailedAttempts
<1> QED BY <1>6, <1>7, <1>8, <1>9 DEF L!GiveUp

LEMMA RetryPutsBack ==
  ASSUME TypeOK, NEW w \in Workers, WorkerStep(w), worker[w].pc \in {"retryOpen", "retrySend"},
         ~Holding(w)', clock' = clock, NEW at, Retry(worker[w].id, w, worker[w].epoch, at)
  PROVE  \E g \in Grants : L!PutBack(g)
<1> DEFINE id == worker[w].id
<1>0. deliveries \in [Ids -> Delivery] /\ id \in Ids /\ Holding(w) /\ ~Holding(w)'
  BY TypeParts DEF StoreTypeOK, Delivery, WorkerTypeOK, Holding
<1>1. /\ HoldsLease(id, w, worker[w].epoch)
      /\ deliveries' = [deliveries EXCEPT ![id] = Postponed(Failed(deliveries[id], "pending"), at)]
  BY Zenon DEF Retry
<1>2. PICK i \in Ids : i = id
  BY <1>0
<1> HIDE DEF id
<1>3. /\ deliveries'[i] = Postponed(Failed(deliveries[i], "pending"), at)
      /\ \A j \in Ids \ {i} : deliveries'[j] = deliveries[j]
  BY <1>0, <1>1, <1>2
<1>4. /\ deliveries'[i].state = "pending" /\ deliveries'[i].leaseOwner = NoOwner
      /\ deliveries'[i].attempt = deliveries[i].attempt + 1
  BY <1>0, <1>3, WrittenFields
<1>5. GrantOf(w) \in Grants /\ GrantOf(w).id = i /\ L!Returned(GrantOf(w))
  BY <1>0, <1>1, <1>2, <1>3, <1>4, LeaseReturns DEF id
<1>6. Phases[i] = "open"
  BY <1>5 DEF L!Returned
<1>7. Phases' = Phases
  BY <1>3, <1>4, <1>6, OneWritten DEF Phases
<1>8. FailedAttempts' = [FailedAttempts EXCEPT ![i] = deliveries[i].attempt + 1]
  BY <1>3, <1>4, OneWritten
<1>9. FailedAttempts[i] = deliveries[i].attempt
  BY DEF FailedAttempts
<1> QED BY <1>5, <1>7, <1>8, <1>9 DEF L!PutBack

\* A step of a worker that neither takes nor ends a lease.
LEMMA WorkerOnly ==
  ASSUME TypeOK, NEW w \in Workers, WorkerStep(w), UNCHANGED deliveries, clock' = clock,
         \/ ~Holding(w) /\ ~Holding(w)'
         \/ Holding(w) /\ Holding(w)' /\ worker'[w].id = worker[w].id
              /\ worker'[w].now = worker[w].now
  PROVE  QuietStep
<1>1. Grants' = Grants
  BY OneWorker, OtherWorkers DEF GrantOf
<1> QED BY <1>1, NoneWritten DEF QuietStep, L!vars
Refines == L!Next \/ QuietStep

LEMMA WorkerRefines ==
  ASSUME TypeOK, NothingRevived, TimesRead, LeaseCopyCurrent, LastAttempt, StandingLeases,
         NEW w \in Workers, WorkerStep(w)
  PROVE  Refines
<1>0. clock' = clock
  BY DEF WorkerStep, StepPop, StepAcquire, StepAllow, SendReturns, StepComplete, StepDead,
         StepRetry, StepLogDelivered, StepLogDead, StepRevive, StepLogRetry, StepSchedule,
         workerFrame, envVars
<1>u. UNCHANGED storeVars => UNCHANGED deliveries
  BY DEF storeVars
<1>r. WorkerReturns(w) => worker'[w].pc = "idle" /\ ~Holding(w)'
  BY WorkerRecords DEF IdleWorker, Holding
<1>a. (\E g \in Grants : L!Abandon(g) \/ L!Deliver(g) \/ L!GiveUp(g) \/ L!PutBack(g)) => Refines
  BY DEF Refines, L!Next
<1>1. CASE StepPop(w)
  <2>0. worker[w].pc = "pop" /\ IdleWorker.pc = "idle"
    BY <1>1 DEF StepPop, IdleWorker
  <2>1. worker'[w].pc \in {"idle", "acquire"}
    BY <2>0, WorkerKeeps
  <2> QED BY <1>0, <1>1, <1>u, <2>0, <2>1, WorkerOnly DEF StepPop, Holding, Refines
<1>2. CASE StepAcquire(w)
  <2>1. CASE Acquire(worker[w].id, w, worker[w].now, LeaseTTL)
             /\ WorkerTakes(w, deliveries[worker[w].id])
    BY <1>2, <2>1, AcquireGrants DEF Refines, L!Next
  <2>2. CASE WorkerReturns(w) /\ UNCHANGED storeVars
    BY <1>0, <1>2, <1>r, <1>u, <2>2, WorkerOnly DEF StepAcquire, Holding, Refines
  <2> QED BY <1>2, <2>1, <2>2 DEF StepAcquire
<1>3. CASE StepAllow(w)
  <2>1. /\ worker[w].pc = "allow" /\ UNCHANGED storeVars
        /\ WorkerGoes(w, "send") \/ WorkerGoes(w, "retryOpen")
    BY <1>3 DEF StepAllow
  <2>2. /\ Holding(w) /\ Holding(w)' /\ worker'[w].id = worker[w].id
        /\ worker'[w].now = worker[w].now
    BY <2>1, WorkerRecords DEF Holding
  <2> QED BY <1>0, <1>u, <2>1, <2>2, WorkerOnly DEF Refines
<1>4. ASSUME NEW ok \in BOOLEAN, SendReturns(w, ok) PROVE Refines
  <2>1. worker[w].pc = "send" /\ UNCHANGED storeVars /\ Holding(w)
    BY <1>4 DEF SendReturns, Holding
  <2>2. CASE WorkerReturns(w)
    BY <1>0, <1>a, <1>u, <2>1, <2>2, HolderStops
  <2>3. CASE \E pc \in {"complete", "dead", "retrySend"} : WorkerGoes(w, pc)
    <3>1. Holding(w)' /\ worker'[w].id = worker[w].id /\ worker'[w].now = worker[w].now
      BY <2>3, WorkerRecords DEF Holding
    <3> QED BY <1>0, <1>u, <2>1, <3>1, WorkerOnly DEF Refines
  <2> QED BY <1>4, <2>2, <2>3 DEF SendReturns, AfterFailure
<1>5. CASE StepComplete(w)
  <2>1. CASE Complete(worker[w].id, w, worker[w].epoch) /\ WorkerGoes(w, "logDelivered")
    BY <1>5, <1>a, <2>1, CompleteDelivers
  <2>2. CASE WorkerReturns(w) /\ UNCHANGED storeVars
    BY <1>0, <1>5, <1>a, <1>u, <2>2, HolderStops DEF StepComplete, Holding
  <2> QED BY <1>5, <2>1, <2>2 DEF StepComplete
<1>6. CASE StepDead(w)
  <2>1. CASE Dead(worker[w].id, w, worker[w].epoch) /\ WorkerGoes(w, "logDead")
    BY <1>6, <1>a, <2>1, DeadGivesUp
  <2>2. CASE WorkerReturns(w) /\ UNCHANGED storeVars
    BY <1>0, <1>6, <1>a, <1>u, <2>2, HolderStops DEF StepDead, Holding
  <2> QED BY <1>6, <2>1, <2>2 DEF StepDead
<1>7. CASE StepRetry(w)
  <2>0. worker[w].pc \in {"retryOpen", "retrySend"}
    BY <1>7 DEF StepRetry
  <2>1. \/ WorkerReturns(w) /\ UNCHANGED storeVars
        \/ \E pc : \E at : /\ Retry(worker[w].id, w, worker[w].epoch, at)
                           /\ WorkerWaits(w, pc, at)
    BY <1>7, Zenon DEF StepRetry
  <2>2. CASE WorkerReturns(w) /\ UNCHANGED storeVars
    BY <1>0, <1>a, <1>u, <2>0, <2>2, HolderStops DEF Holding
  <2>3. ASSUME NEW pc, NEW at, Retry(worker[w].id, w, worker[w].epoch, at),
               WorkerWaits(w, pc, at)
        PROVE  Refines
    <3>1. ~Holding(w)'
      BY <2>0, WorkerKeeps DEF Holding, IdleWorker
    <3> QED BY <1>0, <1>a, <2>0, <2>3, <3>1, RetryPutsBack
  <2> QED BY <2>1, <2>2, <2>3
<1>8. CASE StepLogDelivered(w) \/ StepSchedule(w)
  BY <1>0, <1>8, <1>r, <1>u, WorkerOnly DEF StepLogDelivered, StepSchedule, Holding, Refines
<1>9. CASE StepLogDead(w)
  <2>1. worker[w].pc = "logDead" /\ UNCHANGED storeVars /\ worker'[w].pc \in {"idle", "revive"}
    BY <1>9, <1>r, WorkerRecords DEF StepLogDead
  <2> QED BY <1>0, <1>u, <2>1, WorkerOnly DEF Holding, Refines
<1>10. CASE StepRevive(w)
  BY <1>10 DEF StepRevive, NothingRevived
<1>11. CASE StepLogRetry(w)
  <2>1. worker[w].pc = "logRetry" /\ UNCHANGED storeVars /\ worker'[w].pc \in {"idle", "schedule"}
    BY <1>11, <1>r, WorkerRecords DEF StepLogRetry
  <2> QED BY <1>0, <1>u, <2>1, WorkerOnly DEF Holding, Refines
<1> QED BY <1>1, <1>2, <1>3, <1>4, <1>5, <1>6, <1>7, <1>8, <1>9, <1>10, <1>11 DEF WorkerStep

\* Clients, replays, supervisors and the environment.
LEMMA OthersRefine ==
  ASSUME IdsDistinct, TypeOK, OwnIdReserved, ReservationsAgree, NothingRolledBack, AbsentIsClean,
         [Next]_vars
  PROVE  Refines \/ \E w \in Workers : WorkerStep(w)
<1>q. UNCHANGED <<deliveries, worker, clock>> => Refines
  BY Quiet DEF Refines
<1>1. CASE UNCHANGED vars
  BY <1>1, <1>q DEF vars, sharedVars, storeVars, envVars
<1>2. CASE Tick
  <2>1. UNCHANGED <<deliveries, worker>> /\ clock' = clock + 1
    BY <1>2 DEF Tick, sharedVars, storeVars
  <2>2. Grants' = Grants
    BY <2>1 DEF Grants, GrantOf, Holding
  <2> QED BY <2>1, <2>2, NoneWritten DEF L!TimePasses, L!Next, Refines
<1>3. CASE InjectRejection \/ \E e \in Endpoints : ResetBreaker(e)
  BY <1>3, <1>q DEF InjectRejection, ResetBreaker, storeVars, envVars
<1>4. ASSUME NEW c \in Clients, SubmitStep(c) PROVE Refines
  <2>1. CASE SubmitReserve(c)
    <3>1. CASE Reserve(client[c].event, SubmissionId(c), client[c].now)
      BY <2>1, <3>1, ReserveAdmits DEF Refines, L!Next
    <3>2. CASE UNCHANGED storeVars
      BY <1>q, <2>1, <3>2 DEF SubmitReserve, clientFrame, storeVars
    <3> QED BY <2>1, <3>1, <3>2 DEF SubmitReserve
  <2>2. CASE SubmitAppend(c) \/ SubmitSchedule(c) \/ SubmitLogDead(c)
    BY <1>q, <2>2 DEF SubmitAppend, SubmitSchedule, SubmitLogDead, clientFrame, storeVars
  <2>3. CASE SubmitRollback(c)
    BY <2>3 DEF SubmitRollback, NothingRolledBack
  <2> QED BY <1>4, <2>1, <2>2, <2>3 DEF SubmitStep
<1>5. ASSUME NEW c \in Clients, NEW e \in Events, SubmitBegin(c, e) PROVE Refines
  BY <1>5, <1>q DEF SubmitBegin, clientFrame, storeVars
<1>6. ASSUME NEW w \in Workers, StepBegin(w) \/ \E id \in Ids : StepForBegin(w, id) PROVE Refines
  <2>1. UNCHANGED <<deliveries, clock>> /\ worker[w].pc = "idle"
    BY <1>6 DEF StepBegin, StepForBegin, sharedVars, storeVars, workerFrame, envVars
  <2>2. ~Holding(w) /\ ~Holding(w)'
    BY <2>1, WorkerChanges, WorkerKeeps DEF Holding, IdleWorker
  <2>3. Grants' = Grants
    BY <1>6, <2>2, OneWorker, OtherWorkers
  <2> QED BY <2>1, <2>3, NoneWritten DEF Refines, QuietStep, L!vars
<1>7. ASSUME NEW r \in Replayers, ReplayStep(r) PROVE Refines
  BY <1>7, <1>q DEF ReplayStep, ReplayBegin, ReplayEntry, replayFrame, storeVars, envVars
<1>8. ASSUME NEW s \in Supervisors, SweepStep(s) PROVE Refines
  BY <1>8, <1>q DEF SweepStep, OverdueRead, OverdueSchedule, sweepFrame, storeVars, envVars
<1> QED BY <1>1, <1>2, <1>3, <1>4, <1>5, <1>6, <1>7, <1>8 DEF Next, Workers

\* The relay, with its store, queue, journal, breakers and everybody's stale copies, does
\* what Leasing does: attempts are counted once per failed attempt, a delivery goes to one
\* owner at a time, and nobody but its latest holder settles it, once.
THEOREM RelayImplementsLeasing ==
  ASSUME NoFailures, IdsDistinct
  PROVE  Spec => ImplementsLeasing
<1>1. Init => L!Init
  <2> SUFFICES ASSUME Init PROVE L!Init
    OBVIOUS
  <2>1. \A id \in Ids : ~Stored(id) /\ deliveries[id].leaseOwner = NoOwner /\ deliveries[id].attempt = 0
    BY DEF Init, StoreInit, ZeroDelivery, Stored
  <2>2. \A w \in Workers : ~Holding(w)
    BY DEF Init, IdleWorker, Holding
  <2>3. clock = 1
    BY DEF Init
  <2> QED BY <2>1, <2>2, <2>3 DEF L!Init, Phases, Holders, FailedAttempts, Grants
<1>2. TypeOK /\ OwnIdReserved /\ ReservationsAgree /\ NothingRolledBack /\ NothingRevived
        /\ AbsentIsClean /\ TimesRead /\ LeaseCopyCurrent /\ LastAttempt /\ StandingLeases
        /\ [Next]_vars => [L!Next]_(L!vars)
  BY WorkerRefines, OthersRefine DEF Refines, QuietStep
<1> QED BY <1>1, <1>2, TypeCorrect, OwnIds, MapsAgree, NoRollbacks, NoRevivals, NothingUnclean,
           TimesReadInvariant, LeaseCopies, LastAttemptInvariant, LeasesStand, PTL
        DEF Spec, ImplementsLeasing, L!Spec

==============================================================================
