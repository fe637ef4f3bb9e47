-------------------------- MODULE AdmissionProofs ---------------------------
(***************************************************************************)
(* Idempotent admission: the two maps of the delivery store agree, and no  *)
(* delivery is left in the store that the journal never accepted.  Both    *)
(* need the hash that makes a delivery id of an idempotency key to be      *)
(* injective (IdsDistinct), which Submit relies on as well.  And what is   *)
(* true while the queue is a worker's only way to a delivery: it is in one *)
(* place at a time, and nothing but a refusal loses it or its entry.       *)
(***************************************************************************)
EXTENDS RelayProofs

IdsDistinct == \A j, k \in Keys : IdOf[j] = IdOf[k] => j = k

\* A key is reserved for its own id only, and a stored delivery has its event.
OwnIdReserved ==
  /\ \A k \in Keys : reserved[k] \in {NoId, IdOf[k]}
  /\ \A id \in Ids : Stored(id) => deliveries[id].event \in Events

\* The writes that keep an event in the store.
LEMMA EventsKept ==
  ASSUME NEW d \in Delivery
  PROVE  /\ \A w, until : Leased(d, w, until).event = d.event /\ Leased(d, w, until).state # "absent"
         /\ \A s \in {"pending", "delivered", "dead"} : \A at :
              /\ Released(d, s).event = d.event /\ Released(d, s).state # "absent"
              /\ Failed(d, s).event = d.event /\ Failed(d, s).state # "absent"
              /\ Postponed(Released(d, s), at).event = d.event
              /\ Postponed(Released(d, s), at).state # "absent"
              /\ Postponed(Failed(d, s), at).event = d.event
              /\ Postponed(Failed(d, s), at).state # "absent"
<1>1. ASSUME NEW w, NEW until
      PROVE  Leased(d, w, until).event = d.event /\ Leased(d, w, until).state # "absent"
  <2>1. PICK n : n = d.leaseEpoch + 1
    OBVIOUS
  <2>2. Leased(d, w, until) = [d EXCEPT !.state = "leased", !.leaseOwner = w, !.leaseEpoch = n,
                                        !.leaseUntil = until]
    BY <2>1, Zenon DEF Leased
  <2> QED BY <2>2 DEF Delivery, DeliveryRecord
<1>2. ASSUME NEW s \in {"pending", "delivered", "dead"}, NEW at
      PROVE  /\ Released(d, s).event = d.event /\ Released(d, s).state # "absent"
             /\ Failed(d, s).event = d.event /\ Failed(d, s).state # "absent"
             /\ Postponed(Released(d, s), at).event = d.event
             /\ Postponed(Released(d, s), at).state # "absent"
             /\ Postponed(Failed(d, s), at).event = d.event
             /\ Postponed(Failed(d, s), at).state # "absent"
  <2>1. s \in DeliveryStates /\ s # "absent"
    BY DEF DeliveryStates
  <2>2. /\ Released(d, s) \in Delivery /\ Failed(d, s) \in Delivery
        /\ Released(d, s).state = s /\ Failed(d, s).state = s
        /\ Released(d, s).event = d.event /\ Failed(d, s).event = d.event
    BY <2>1, RecordTypes, RecordFields
  <2>3. ASSUME NEW r \in Delivery
        PROVE  Postponed(r, at).state = r.state /\ Postponed(r, at).event = r.event
    BY DEF Postponed, Delivery, DeliveryRecord
  <2> QED BY <2>1, <2>2, <2>3
<1> QED BY <1>1, <1>2

\* Who writes to the store.
LEMMA StoreOrigins ==
  ASSUME TypeOK, [Next]_vars
  PROVE  \/ UNCHANGED storeVars
         \/ \E c \in Clients : \/ SubmitRollback(c)
                               \/ SubmitReserve(c) /\ ClientGoes(c, "append")
                                  /\ Reserve(client[c].event, SubmissionId(c), client[c].now)
         \/ \E w \in Workers : WorkerStep(w)
<1>1. CASE UNCHANGED vars
  BY <1>1 DEF vars, sharedVars
<1>2. CASE Tick \/ InjectRejection \/ \E e \in Endpoints : ResetBreaker(e)
  BY <1>2 DEF Tick, InjectRejection, ResetBreaker, sharedVars
<1>3. ASSUME NEW c \in Clients, NEW e \in Events, SubmitBegin(c, e) PROVE UNCHANGED storeVars
  BY <1>3 DEF SubmitBegin
<1>4. ASSUME NEW c \in Clients, SubmitAppend(c) \/ SubmitSchedule(c) \/ SubmitLogDead(c)
      PROVE  UNCHANGED storeVars
  BY <1>4 DEF SubmitAppend, SubmitSchedule, SubmitLogDead
<1>5. ASSUME NEW c \in Clients, SubmitReserve(c)
      PROVE  \/ UNCHANGED storeVars
             \/ /\ ClientGoes(c, "append")
                /\ Reserve(client[c].event, SubmissionId(c), client[c].now)
  BY <1>5 DEF SubmitReserve
<1>6. ASSUME NEW w, StepBegin(w) \/ \E i \in Ids : StepForBegin(w, i) PROVE UNCHANGED storeVars
  BY <1>6 DEF StepBegin, StepForBegin, sharedVars
<1>7. ASSUME NEW r \in Replayers, ReplayStep(r) PROVE UNCHANGED storeVars
  BY <1>7 DEF ReplayStep, ReplayBegin, ReplayEntry, replayFrame
<1>8. ASSUME NEW s \in Supervisors, SweepStep(s) PROVE UNCHANGED storeVars
  BY <1>8 DEF SweepStep, OverdueRead, OverdueSchedule, sweepFrame
<1> QED BY <1>1, <1>2, <1>3, <1>4, <1>5, <1>6, <1>7, <1>8 DEF Next, SubmitStep

\* What a step does to the two maps: it reserves, it rolls a reservation back, or it keeps
\* the keys and the events that are stored.
LEMMA StoreSteps ==
  ASSUME TypeOK, [Next]_vars
  PROVE  \/ /\ reserved' = reserved
            /\ \A id \in Ids : /\ deliveries'[id].event = deliveries[id].event
                               /\ Stored(id)' <=> Stored(id)
         \/ \E c \in Clients : SubmitReserve(c) /\ ClientGoes(c, "append")
                               /\ Reserve(client[c].event, SubmissionId(c), client[c].now)
         \/ \E c \in Clients : SubmitRollback(c)
<1> DEFINE Kept == /\ reserved' = reserved
                   /\ \A id \in Ids : /\ deliveries'[id].event = deliveries[id].event
                                      /\ deliveries'[id].state # "absent"
                                           <=> deliveries[id].state # "absent"
<1>0. deliveries \in [Ids -> Delivery]
  BY TypeParts DEF StoreTypeOK, Delivery
<1>1. CASE UNCHANGED storeVars
  BY <1>1 DEF storeVars, Stored
<1>2. ASSUME NEW w \in Workers, WorkerStep(w) PROVE UNCHANGED storeVars \/ Kept
  <2>1. ASSUME NEW id, NEW new, reserved' = reserved, deliveries[id].state # "absent",
               deliveries' = [deliveries EXCEPT ![id] = new],
               id \in Ids => new.event = deliveries[id].event /\ new.state # "absent"
        PROVE  Kept
    BY <1>0, <2>1
  <2>2. CASE StepAcquire(w)
    <3> DEFINE id == worker[w].id
               new == Leased(deliveries[id], w, worker[w].now + LeaseTTL)
    <3>1. CASE Acquire(id, w, worker[w].now, LeaseTTL)
      <4>1. /\ reserved' = reserved /\ deliveries[id].state # "absent"
            /\ deliveries' = [deliveries EXCEPT ![id] = new]
        BY <3>1, Zenon DEF Acquire, Acquirable, Stored
      <4>2. id \in Ids => new.event = deliveries[id].event /\ new.state # "absent"
        <5>1. id \in Ids => deliveries[id] \in Delivery
          BY <1>0
        <5> QED BY <5>1, EventsKept
      <4> HIDE DEF new, id
      <4> QED BY <2>1, <4>1, <4>2, Zenon
    <3> QED BY <2>2, <3>1 DEF StepAcquire
  <2>3. CASE StepComplete(w)
    <3> DEFINE id == worker[w].id
               new == Released(deliveries[id], "delivered")
    <3>1. CASE Complete(id, w, worker[w].epoch)
      <4>1. /\ reserved' = reserved /\ deliveries[id].state # "absent"
            /\ deliveries' = [deliveries EXCEPT ![id] = new]
        BY <3>1 DEF Complete, HoldsLease
      <4>2. id \in Ids => new.event = deliveries[id].event /\ new.state # "absent"
        BY <1>0, EventsKept
      <4> HIDE DEF new, id
      <4> QED BY <2>1, <4>1, <4>2, Zenon
    <3> QED BY <2>3, <3>1 DEF StepComplete
  <2>4. CASE StepDead(w)
    <3> DEFINE id == worker[w].id
               new == Failed(deliveries[id], "dead")
    <3>1. CASE Dead(id, w, worker[w].epoch)
      <4>1. /\ reserved' = reserved /\ deliveries[id].state # "absent"
            /\ deliveries' = [deliveries EXCEPT ![id] = new]
        BY <3>1 DEF Dead, HoldsLease
      <4>2. id \in Ids => new.event = deliveries[id].event /\ new.state # "absent"
        BY <1>0, EventsKept
      <4> HIDE DEF new, id
      <4> QED BY <2>1, <4>1, <4>2, Zenon
    <3> QED BY <2>4, <3>1 DEF StepDead
  <2>5. CASE StepRetry(w)
    <3>1. \/ UNCHANGED storeVars
          \/ \E at : Retry(worker[w].id, w, worker[w].epoch, at)
      BY <2>5, Zenon DEF StepRetry
    <3>2. ASSUME NEW at, Retry(worker[w].id, w, worker[w].epoch, at) PROVE Kept
      <4> DEFINE id == worker[w].id
                 new == Postponed(Failed(deliveries[id], "pending"), at)
      <4>1. /\ reserved' = reserved /\ deliveries[id].state # "absent"
            /\ deliveries' = [deliveries EXCEPT ![id] = new]
        BY <3>2 DEF Retry, HoldsLease
      <4>2. id \in Ids => new.event = deliveries[id].event /\ new.state # "absent"
        BY <1>0, EventsKept
      <4> HIDE DEF new, id
      <4> QED BY <2>1, <4>1, <4>2, Zenon
    <3> QED BY <3>1, <3>2
  <2>6. CASE StepRevive(w)
    <3>1. \/ UNCHANGED storeVars
          \/ \E at : ReviveDead(worker[w].id, at)
      BY <2>6, Zenon DEF StepRevive
    <3>2. ASSUME NEW at, ReviveDead(worker[w].id, at) PROVE Kept
      <4> DEFINE id == worker[w].id
                 new == Postponed(Released(deliveries[id], "pending"), at)
      <4>1. /\ reserved' = reserved /\ deliveries[id].state # "absent"
            /\ deliveries' = [deliveries EXCEPT ![id] = new]
        BY <3>2 DEF ReviveDead
      <4>2. id \in Ids => new.event = deliveries[id].event /\ new.state # "absent"
        BY <1>0, EventsKept
      <4> HIDE DEF new, id
      <4> QED BY <2>1, <4>1, <4>2, Zenon
    <3> QED BY <3>1, <3>2
  <2>7. CASE \/ StepPop(w) \/ StepAllow(w) \/ \E ok \in BOOLEAN : SendReturns(w, ok)
             \/ StepLogDelivered(w) \/ StepLogDead(w) \/ StepLogRetry(w) \/ StepSchedule(w)
    BY <2>7 DEF StepPop, StepAllow, SendReturns, StepLogDelivered, StepLogDead, StepLogRetry,
                StepSchedule
  <2> QED BY <1>2, <2>2, <2>3, <2>4, <2>5, <2>6, <2>7 DEF WorkerStep
<1> QED BY <1>1, <1>2, StoreOrigins DEF Stored

\* The delivery a client's Submit is about.
LEMMA ClientIds ==
  ASSUME TypeOK, NEW c \in Clients, client[c].pc # "idle"
  PROVE  /\ client[c].event \in Events /\ KeyOf[client[c].event] \in Keys
         /\ SubmissionId(c) = IdOf[KeyOf[client[c].event]] /\ SubmissionId(c) \in Ids
         /\ SubmissionId(c) # NoId /\ client[c].now \in Nat
<1>1. client[c].event \in Events /\ client[c].now \in Nat
  BY TypeParts DEF ClientTypeOK, ClientRecord
<1>2. KeyOf[client[c].event] \in Keys
  BY <1>1, CoreConstants
<1> QED BY <1>1, <1>2, CoreConstants, RelayConstants DEF SubmissionId

\* What a reservation leaves in the store.
LEMMA NewStored ==
  ASSUME NEW e \in Events, NEW now
  PROVE  NewDelivery(e, now).event = e /\ NewDelivery(e, now).state = "pending"
BY DEF NewDelivery, ZeroDelivery

\* Only own ids are reserved, and a stored delivery has an event.
LEMMA OwnIds == Spec => []OwnIdReserved
<1>1. Init => OwnIdReserved
  BY DEF Init, StoreInit, ZeroDelivery, Stored, OwnIdReserved
<1>2. TypeOK /\ OwnIdReserved /\ [Next]_vars => OwnIdReserved'
  <2> SUFFICES ASSUME TypeOK, OwnIdReserved, [Next]_vars PROVE OwnIdReserved'
    OBVIOUS
  <2>0. deliveries \in [Ids -> Delivery] /\ reserved \in [Keys -> Ids \cup {NoId}]
    BY TypeParts DEF StoreTypeOK, Delivery
  <2>1. CASE /\ reserved' = reserved
             /\ \A id \in Ids : /\ deliveries'[id].event = deliveries[id].event
                                /\ Stored(id)' <=> Stored(id)
    BY <2>1 DEF OwnIdReserved
  <2>2. ASSUME NEW c \in Clients, SubmitReserve(c),
               Reserve(client[c].event, SubmissionId(c), client[c].now)
        PROVE  OwnIdReserved'
    <3> DEFINE e == client[c].event
               new == NewDelivery(e, client[c].now)
    <3>1. /\ e \in Events /\ KeyOf[e] \in Keys /\ SubmissionId(c) = IdOf[KeyOf[e]]
          /\ SubmissionId(c) \in Ids
      BY <2>2, ClientIds DEF SubmitReserve
    <3>2. new.event = e
      BY <3>1, NewStored
    <3>3. /\ deliveries' = [deliveries EXCEPT ![SubmissionId(c)] = new]
          /\ reserved' = [reserved EXCEPT ![KeyOf[e]] = SubmissionId(c)]
      BY <2>2 DEF Reserve
    <3> HIDE DEF new, e
    <3> QED BY <2>0, <3>1, <3>2, <3>3 DEF OwnIdReserved, Stored
  <2>3. ASSUME NEW c \in Clients, SubmitRollback(c) PROVE OwnIdReserved'
    BY <2>0, <2>3 DEF SubmitRollback, RollbackReservation, storeVars, ZeroDelivery, Stored, OwnIdReserved
  <2> QED BY <2>1, <2>2, <2>3, StoreSteps
<1> QED BY <1>1, <1>2, TypeCorrect, PTL DEF Spec

\* The store's two maps agree: a reserved key names a stored delivery of an event with that
\* key, and the key of every stored delivery is reserved for it (Reserve and
\* RollbackReservation, called by clients that read neither map in between).
THEOREM MapsAgree ==
  ASSUME IdsDistinct
  PROVE  Spec => []ReservationsAgree
<1>1. Init => ReservationsAgree
  BY DEF Init, StoreInit, ZeroDelivery, Stored, ReservationsAgree
<1>2. TypeOK /\ OwnIdReserved /\ ReservationsAgree /\ [Next]_vars => ReservationsAgree'
  <2> SUFFICES ASSUME TypeOK, OwnIdReserved, ReservationsAgree, [Next]_vars
               PROVE  ReservationsAgree'
    OBVIOUS
  <2>0. /\ deliveries \in [Ids -> Delivery] /\ reserved \in [Keys -> Ids \cup {NoId}]
        /\ NoId \notin Ids /\ KeyOf \in [Events -> Keys]
    BY TypeParts, CoreConstants DEF StoreTypeOK, Delivery
  <2>1. CASE /\ reserved' = reserved
             /\ \A id \in Ids : /\ deliveries'[id].event = deliveries[id].event
                                /\ Stored(id)' <=> Stored(id)
    BY <2>0, <2>1 DEF ReservationsAgree, KeyOfDelivery
  <2>2. ASSUME NEW c \in Clients, SubmitReserve(c),
               Reserve(client[c].event, SubmissionId(c), client[c].now)
        PROVE  ReservationsAgree'
    <3> DEFINE e == client[c].event
               k == KeyOf[e]
               id == SubmissionId(c)
               new == NewDelivery(e, client[c].now)
    <3>1. e \in Events /\ k \in Keys /\ id = IdOf[k] /\ id \in Ids
      BY <2>2, ClientIds DEF SubmitReserve
    <3>2. new.event = e /\ new.state # "absent"
      BY <3>1, NewStored
    <3>3. /\ deliveries' = [deliveries EXCEPT ![id] = new] /\ reserved[k] = NoId
          /\ reserved' = [reserved EXCEPT ![k] = id]
      BY <2>2 DEF Reserve
    <3>4. \A j \in Keys : j # k => reserved[j] # id
      BY <3>1, <2>0, IdsDistinct DEF IdsDistinct, OwnIdReserved
    <3>k. KeyOf[e] = k
      OBVIOUS
    <3> HIDE DEF new, e, id, k
    <3>5. ASSUME NEW j \in Keys, reserved'[j] # NoId
          PROVE  /\ deliveries'[reserved'[j]].state # "absent"
                 /\ KeyOf[deliveries'[reserved'[j]].event] = j
      <4>1. CASE j = k
        BY <2>0, <3>1, <3>2, <3>3, <3>k, <4>1 DEF Stored
      <4>2. CASE j # k
        BY <2>0, <3>3, <3>4, <3>5, <4>2 DEF ReservationsAgree, KeyOfDelivery, Stored
      <4> QED BY <4>1, <4>2
    <3>6. ASSUME NEW i \in Ids, deliveries'[i].state # "absent"
          PROVE  reserved'[KeyOf[deliveries'[i].event]] = i
      <4>1. CASE i = id
        BY <2>0, <3>1, <3>2, <3>3, <3>k, <4>1
      <4>2. CASE i # id
        BY <2>0, <3>3, <3>6, <4>2 DEF ReservationsAgree, KeyOfDelivery, Stored, OwnIdReserved
      <4> QED BY <4>1, <4>2
    <3> QED BY <3>5, <3>6 DEF ReservationsAgree, KeyOfDelivery, Stored
  <2>3. ASSUME NEW c \in Clients, SubmitRollback(c) PROVE ReservationsAgree'
    <3> DEFINE k == KeyOf[client[c].event]
               id == SubmissionId(c)
    <3>1. k \in Keys /\ id = IdOf[k] /\ id \in Ids
      BY <2>3, ClientIds DEF SubmitRollback
    <3>2. CASE UNCHANGED storeVars
      BY <3>2 DEF ReservationsAgree, KeyOfDelivery, Stored, storeVars
    <3>3. CASE /\ reserved[k] = id
               /\ reserved' = [reserved EXCEPT ![k] = NoId]
               /\ deliveries' = [deliveries EXCEPT ![id] = ZeroDelivery]
      <4>1. \A j \in Keys : j # k => reserved[j] # id
        BY <3>1, <2>0, IdsDistinct DEF IdsDistinct, OwnIdReserved
      <4>2. ZeroDelivery.state = "absent"
        BY WrittenStates
      <4> HIDE DEF k, id
      <4>3. ASSUME NEW j \in Keys, reserved'[j] # NoId
            PROVE  /\ deliveries'[reserved'[j]].state # "absent"
                   /\ KeyOf[deliveries'[reserved'[j]].event] = j
        BY <2>0, <3>3, <4>1, <4>3 DEF ReservationsAgree, KeyOfDelivery, Stored
      <4>4. ASSUME NEW i \in Ids, deliveries'[i].state # "absent"
            PROVE  reserved'[KeyOf[deliveries'[i].event]] = i
        BY <2>0, <3>1, <3>3, <4>2, <4>4 DEF ReservationsAgree, KeyOfDelivery, Stored, OwnIdReserved
      <4> QED BY <4>3, <4>4 DEF ReservationsAgree, KeyOfDelivery, Stored
    <3> QED BY <2>3, <3>2, <3>3 DEF SubmitRollback, RollbackReservation
  <2> QED BY <2>1, <2>2, <2>3, StoreSteps
<1> QED BY <1>1, <1>2, TypeCorrect, OwnIds, PTL DEF Spec

\* A client changes its record only by its own step.
LEMMA ClientChanges ==
  ASSUME TypeOK, [Next]_vars, NEW c \in Clients, client[c].pc # "idle"
  PROVE  client'[c] = client[c] \/ SubmitStep(c)
<1>0. client \in [Clients -> ClientRecord]
  BY TypeParts DEF ClientTypeOK
<1>1. ASSUME NEW d \in Clients, SubmitStep(d), d # c PROVE client'[c] = client[c]
  <2>1. \/ ClientReturns(d)
        \/ \E pc : ClientGoes(d, pc)
    BY <1>1 DEF SubmitStep, SubmitReserve, SubmitAppend, SubmitSchedule, SubmitRollback,
                SubmitLogDead
  <2> QED BY <1>0, <1>1, <2>1 DEF ClientReturns, ClientGoes
<1>2. ASSUME NEW d \in Clients, NEW e \in Events, SubmitBegin(d, e) PROVE client'[c] = client[c]
  BY <1>0, <1>2 DEF SubmitBegin
<1>3. CASE UNCHANGED vars
  BY <1>3 DEF vars
<1>4. CASE Tick \/ InjectRejection \/ \E e \in Endpoints : ResetBreaker(e)
  BY <1>4 DEF Tick, InjectRejection, ResetBreaker
<1>5. ASSUME NEW w, WorkerStep(w) \/ StepBegin(w) \/ \E i \in Ids : StepForBegin(w, i)
      PROVE  UNCHANGED client
  BY <1>5 DEF WorkerStep, StepPop, StepAcquire, StepAllow, SendReturns, StepComplete, StepDead,
              StepRetry, StepLogDelivered, StepLogDead, StepRevive, StepLogRetry, StepSchedule,
              StepBegin, StepForBegin, workerFrame
<1>6. ASSUME NEW r \in Replayers, ReplayStep(r) PROVE UNCHANGED client
  BY <1>6 DEF ReplayStep, ReplayBegin, ReplayEntry, replayFrame
<1>7. ASSUME NEW s \in Supervisors, SweepStep(s) PROVE UNCHANGED client
  BY <1>7 DEF SweepStep, OverdueRead, OverdueSchedule, sweepFrame
<1> QED BY <1>1, <1>2, <1>3, <1>4, <1>5, <1>6, <1>7 DEF Next

LEMMA ClientRecords ==
  ASSUME TypeOK, NEW c \in Clients, NEW pc, ClientGoes(c, pc)
  PROVE  client'[c].pc = pc /\ client'[c].event = client[c].event
<1>1. client \in [Clients -> ClientRecord]
  BY TypeParts DEF ClientTypeOK
<1>2. client'[c] = [client[c] EXCEPT !.pc = pc]
  BY <1>1 DEF ClientGoes
<1>3. client[c] \in ClientRecord
  BY <1>1
<1> QED BY <1>2, <1>3 DEF ClientRecord

\* The client that is admitting a delivery gets it journaled or takes it out of the store.
LEMMA AdmissionStep ==
  ASSUME IdsDistinct, TypeOK, OwnIdReserved, ReservationsAgree, [Next]_vars, NEW id \in Ids,
         NEW c \in Clients, client[c].pc \in {"append", "rollback"}, SubmissionId(c) = id,
         Stored(id)
  PROVE  \/ HasEntry(id, "pending")'
         \/ deliveries'[id].state = "absent"
         \/ /\ client'[c].pc \in {"append", "rollback"}
            /\ IdOf[KeyOf[client'[c].event]] = id
<1>0. /\ journal \in Seq(Entry) /\ client[c].now \in Nat /\ id = IdOf[KeyOf[client[c].event]]
      /\ KeyOf[client[c].event] \in Keys /\ deliveries \in [Ids -> Delivery]
  BY TypeParts, ClientIds DEF JournalTypeOK, StoreTypeOK, Delivery
<1>1. CASE client'[c] = client[c]
  BY <1>0, <1>1
<1>2. CASE SubmitAppend(c)
  <2>1. ASSUME AppendAccepted(id, "pending", client[c].now) PROVE HasEntry(id, "pending")'
    <3> DEFINE entry == [delivery |-> id, transition |-> "pending", at |-> client[c].now]
    <3>1. entry.delivery = id /\ entry.transition = "pending" /\ entry \in Entry
      BY <1>0 DEF Entry, Transitions, TerminalStates
    <3>2. journal' = Append(journal, entry)
      BY <2>1 DEF AppendAccepted
    <3> HIDE DEF entry
    <3>3. Len(journal) + 1 \in DOMAIN journal' /\ journal'[Len(journal) + 1] = entry
      BY <1>0, <3>1, <3>2
    <3> QED BY <3>1, <3>3 DEF HasEntry
  <2>2. ASSUME ClientGoes(c, "rollback")
        PROVE  client'[c].pc = "rollback" /\ IdOf[KeyOf[client'[c].event]] = id
    BY <1>0, <2>2, ClientRecords
  <2> QED BY <1>2, <2>1, <2>2 DEF SubmitAppend
<1>3. CASE SubmitRollback(c)
  <2>1. reserved[KeyOf[deliveries[id].event]] = id /\ deliveries[id].event \in Events
    BY DEF ReservationsAgree, KeyOfDelivery, OwnIdReserved
  <2>2. KeyOf[deliveries[id].event] \in Keys
    BY <2>1, CoreConstants
  <2>3. id = IdOf[KeyOf[deliveries[id].event]]
    BY <2>1, <2>2, CoreConstants DEF OwnIdReserved
  <2>4. KeyOf[deliveries[id].event] = KeyOf[client[c].event]
    BY <1>0, <2>2, <2>3 DEF IdsDistinct
  <2> QED BY <1>0, <1>3, <2>1, <2>4, WrittenStates DEF SubmitRollback, RollbackReservation
<1>4. SubmitStep(c) => SubmitAppend(c) \/ SubmitRollback(c)
  BY DEF SubmitStep, SubmitReserve, SubmitSchedule, SubmitLogDead
<1> QED BY <1>1, <1>2, <1>3, <1>4, ClientChanges

\* Every delivery a worker can find was journaled as pending, except while the Submit that
\* reserved it has not heard from the journal or is about to roll it back.
THEOREM AdmissionsAreJournaled ==
  ASSUME IdsDistinct
  PROVE  Spec => []AdmissionJournaled
<1>1. Init => AdmissionJournaled
  BY DEF Init, StoreInit, ZeroDelivery, Stored, AdmissionJournaled
<1>2. TypeOK /\ OwnIdReserved /\ ReservationsAgree /\ AdmissionJournaled /\ [Next]_vars
        => AdmissionJournaled'
  <2> SUFFICES ASSUME TypeOK, OwnIdReserved, ReservationsAgree, AdmissionJournaled, [Next]_vars,
                      NEW id \in Ids, deliveries'[id].state # "absent"
               PROVE  \/ HasEntry(id, "pending")'
                      \/ \E c \in Clients : /\ client'[c].pc \in {"append", "rollback"}
                                            /\ IdOf[KeyOf[client'[c].event]] = id
    BY DEF AdmissionJournaled, Stored, Admitting, SubmissionId
  <2>0. deliveries \in [Ids -> Delivery]
    BY TypeParts DEF StoreTypeOK, Delivery
  <2>1. CASE Stored(id)
    <3>1. CASE HasEntry(id, "pending")
      BY <3>1, EntriesStay
    <3>2. ASSUME NEW c \in Clients, Admitting(c), SubmissionId(c) = id
          PROVE  \/ HasEntry(id, "pending")'
                 \/ /\ client'[c].pc \in {"append", "rollback"}
                    /\ IdOf[KeyOf[client'[c].event]] = id
      BY <2>1, <3>2, AdmissionStep DEF Admitting
    <3> QED BY <2>1, <3>1, <3>2 DEF AdmissionJournaled
  <2>2. CASE ~Stored(id)
    <3>1. CASE /\ reserved' = reserved
               /\ \A i \in Ids : /\ deliveries'[i].event = deliveries[i].event
                                 /\ Stored(i)' <=> Stored(i)
      BY <2>2, <3>1 DEF Stored
    <3>2. ASSUME NEW c \in Clients, SubmitReserve(c), ClientGoes(c, "append"),
                 Reserve(client[c].event, SubmissionId(c), client[c].now)
          PROVE  /\ client'[c].pc \in {"append", "rollback"}
                 /\ IdOf[KeyOf[client'[c].event]] = id
      <4>1. id = SubmissionId(c)
        BY <2>0, <2>2, <3>2 DEF Reserve, Stored
      <4> QED BY <3>2, <4>1, ClientRecords DEF SubmissionId
    <3>3. ASSUME NEW c \in Clients, SubmitRollback(c) PROVE FALSE
      BY <2>0, <2>2, <3>3, WrittenStates
         DEF SubmitRollback, RollbackReservation, storeVars, Stored
    <3> QED BY <3>1, <3>2, <3>3, StoreSteps
  <2> QED BY <2>1, <2>2
<1> QED BY <1>1, <1>2, TypeCorrect, OwnIds, MapsAgree, PTL DEF Spec

------------------------------------------------------------------------------
(* One handler *)

\* Deliveries reach a worker through the queue only.
QueueOnly == Batchers = {} /\ Replayers = {} /\ Supervisors = {}

\* What the store says of the delivery a worker is at, by how far the worker is.
Stage(w, id) ==
  /\ worker[w].pc = "acquire" =>
       deliveries[id].state = "pending" /\ deliveries[id].nextAttempt <= worker[w].now
  /\ Holding(w) => HoldsLease(id, w, worker[w].epoch)
  /\ worker[w].pc = "logDelivered" => deliveries[id].state = "delivered"
  /\ worker[w].pc \in {"logDead", "revive"} => deliveries[id].state = "dead"
  /\ worker[w].pc \in {"logRetry", "schedule"} =>
       deliveries[id].state = "pending" /\ deliveries[id].nextAttempt = worker[w].at

\* A delivery is with one client, with one worker or in the queue, and the store has it as
\* that place has it.
Placed(id) ==
  /\ \A c \in Clients : ClientTracks(c, id) =>
       /\ deliveries[id].state = "pending" /\ deliveries[id].nextAttempt = client[c].now
       /\ \A b \in Clients : ClientTracks(b, id) => b = c
       /\ \A w \in Workers : ~WorkerTracks(w, id)
       /\ id \notin Queued
  /\ \A w \in Workers : WorkerTracks(w, id) =>
       /\ Stage(w, id)
       /\ \A v \in Workers : WorkerTracks(v, id) => v = w
       /\ id \notin Queued
  /\ id \in Queued =>
       deliveries[id].state = "pending" /\ deliveries[id].nextAttempt = queue[id]

OneHolder == \A id \in Ids : Placed(id)

\* What the two action properties ask of a step.
Tracked(id) == Lost(id)' => Lost(id) \/ Refusal \/ ~HasRoom(id)

Revived(id) == \E w \in Workers : worker[w].pc = "revive" /\ worker[w].id = id

LateEntry(id) ==
  \E c \in Clients : client[c].pc = "logDead" /\ client'[c].pc = "idle" /\ SubmissionId(c) = id

Logged(id) == Misjournaled(id)' => Misjournaled(id) \/ Refusal \/ Revived(id) \/ LateEntry(id)

\* The step leaves the store and the queue as they are for a delivery; what it logs is not
\* about it.
Still(id) ==
  /\ deliveries'[id] = deliveries[id]
  /\ (id \in Queued)' <=> id \in Queued
  /\ id \in Queued => queue'[id] = queue[id]

Unlogged(id) == \A t : LastTransitionIs(id, t)' <=> LastTransitionIs(id, t)

\* Nothing happens to a delivery that the store and the queue keep and that no goroutine which
\* moves is at.
LEMMA Elsewhere ==
  ASSUME OneHolder, NEW id \in Ids, Still(id),
         \A c \in Clients :
           client'[c] = client[c] \/ (~ClientTracks(c, id) /\ ~ClientTracks(c, id)'),
         \A w \in Workers :
           worker'[w] = worker[w] \/ (~WorkerTracks(w, id) /\ ~WorkerTracks(w, id)')
  PROVE  Placed(id)' /\ Tracked(id) /\ (Unlogged(id) => Logged(id))
<1>1. ASSUME NEW c \in Clients
      PROVE  /\ ClientTracks(c, id)' <=> ClientTracks(c, id)
             /\ ClientTracks(c, id) => client'[c] = client[c]
  BY DEF ClientTracks, SubmissionId
<1>2. ASSUME NEW w \in Workers
      PROVE  /\ WorkerTracks(w, id)' <=> WorkerTracks(w, id)
             /\ WorkerTracks(w, id) => worker'[w] = worker[w]
  BY DEF WorkerTracks
<1>3. ASSUME NEW w \in Workers, WorkerTracks(w, id) PROVE Stage(w, id)'
  <2>1. Stage(w, id) /\ worker'[w] = worker[w] /\ deliveries'[id] = deliveries[id]
    BY <1>2, <1>3 DEF OneHolder, Placed, Still
  <2> QED BY <2>1 DEF Stage, Holding, HoldsLease
<1>4. Placed(id)'
  BY <1>1, <1>2, <1>3 DEF OneHolder, Placed, Still
<1>5. Tracked(id)
  BY <1>1, <1>2 DEF Tracked, Lost, Still
<1>6. ASSUME Unlogged(id) PROVE Logged(id)
  <2>1. ASSUME NEW c \in Clients, Admitting(c), SubmissionId(c) = id
        PROVE  Admitting(c)' /\ (SubmissionId(c) = id)'
    <3>1. client'[c] = client[c]
      BY <1>1, <2>1 DEF ClientTracks, Admitting
    <3> QED BY <2>1, <3>1 DEF Admitting, SubmissionId
  <2>2. ASSUME NEW w \in Workers, worker[w].pc \in {"logDelivered", "logDead", "logRetry"},
               worker[w].id = id
        PROVE  worker'[w] = worker[w]
    BY <1>2, <2>2 DEF WorkerTracks
  <2> QED BY <1>6, <2>1, <2>2 DEF Logged, Misjournaled, Stored, Terminal, Still, Unlogged
<1> QED BY <1>4, <1>5, <1>6

\* An appended entry is the last about its delivery, and of no concern to the others.
LEMMA EntryAppended ==
  ASSUME JournalTypeOK, NEW x, NEW transition, NEW at, AppendAccepted(x, transition, at)
  PROVE  /\ LastTransitionIs(x, transition)'
         /\ \A id : id # x => \A t : LastTransitionIs(id, t)' <=> LastTransitionIs(id, t)
<1>1. PICK entry : entry = [delivery |-> x, transition |-> transition, at |-> at]
  OBVIOUS
<1>2. PICK n \in Nat : n = Len(journal) /\ DOMAIN journal = 1 .. n
  BY DEF JournalTypeOK
<1>3. /\ DOMAIN journal' = 1 .. n + 1 /\ journal'[n + 1] = entry
      /\ \A i \in 1 .. n : journal'[i] = journal[i]
  BY <1>1, <1>2 DEF AppendAccepted, JournalTypeOK
<1>4. entry.delivery = x /\ entry.transition = transition
  BY <1>1
<1>5. LastTransitionIs(x, transition)'
  <2>1. \A j \in 1 .. n + 1 : ~(j > n + 1)
    BY <1>2
  <2>2. n + 1 \in 1 .. n + 1
    BY <1>2
  <2> QED BY <1>3, <1>4, <2>1, <2>2 DEF LastTransitionIs
<1>6. ASSUME NEW id, id # x, NEW t PROVE LastTransitionIs(id, t)' <=> LastTransitionIs(id, t)
  <2>1. ASSUME LastTransitionIs(id, t) PROVE LastTransitionIs(id, t)'
    <3>1. PICK i \in 1 .. n : /\ journal[i].delivery = id /\ journal[i].transition = t
                              /\ \A j \in 1 .. n : j > i => journal[j].delivery # id
      BY <1>2, <2>1 DEF LastTransitionIs
    <3>2. \A j \in 1 .. n + 1 : j > i => journal'[j].delivery # id
      BY <1>2, <1>3, <1>4, <1>6, <3>1
    <3>3. i \in 1 .. n + 1 /\ journal'[i] = journal[i]
      BY <1>2, <1>3
    <3> QED BY <1>3, <3>1, <3>2, <3>3 DEF LastTransitionIs
  <2>2. ASSUME LastTransitionIs(id, t)' PROVE LastTransitionIs(id, t)
    <3>1. PICK i \in 1 .. n + 1 : /\ journal'[i].delivery = id /\ journal'[i].transition = t
                                  /\ \A j \in 1 .. n + 1 : j > i => journal'[j].delivery # id
      BY <1>3, <2>2 DEF LastTransitionIs
    <3>2. i \in 1 .. n
      BY <1>2, <1>3, <1>4, <1>6, <3>1
    <3>3. \A j \in 1 .. n : j > i => journal[j].delivery # id
      BY <1>2, <1>3, <3>1
    <3> QED BY <1>2, <1>3, <3>1, <3>2, <3>3 DEF LastTransitionIs
  <2> QED BY <2>1, <2>2
<1> QED BY <1>5, <1>6

\* The queue after Schedule and PopReady.
LEMMA QueueAfter ==
  /\ \A x, at : Schedule(x, at) =>
       /\ Queued' = Queued \cup {x} /\ queue'[x] = at
       /\ \A id \in Queued : id # x => queue'[id] = queue[id]
  /\ \A x, now : PopReady(x, now) =>
       /\ Queued' = Queued \ {x}
       /\ \A id \in Queued' : queue'[id] = queue[id]
<1>1. ASSUME NEW x, NEW at, Schedule(x, at)
      PROVE  /\ Queued' = Queued \cup {x} /\ queue'[x] = at
             /\ \A id \in Queued : id # x => queue'[id] = queue[id]
  BY <1>1 DEF Schedule, Queued
<1>2. ASSUME NEW x, NEW now, PopReady(x, now)
      PROVE  Queued' = Queued \ {x} /\ \A id \in Queued' : queue'[id] = queue[id]
  BY <1>2 DEF PopReady, Queued
<1> QED BY <1>1, <1>2

------------------------------------------------------------------------------

\* A client moves with its delivery.
LEMMA ClientMove ==
  ASSUME TypeOK, OneHolder, NEW c \in Clients, NEW x \in Ids, SubmissionId(c) = x,
         UNCHANGED worker, \A b \in Clients \ {c} : client'[b] = client[b],
         client'[c].pc = "idle" \/ client'[c].event = client[c].event,
         \A id \in Ids \ {x} : Still(id) /\ Unlogged(id),
         ClientTracks(c, x) \/ ~Stored(x),
         ClientTracks(c, x)' => /\ x \notin Queued' /\ deliveries'[x].state = "pending"
                                /\ deliveries'[x].nextAttempt = client'[c].now,
         x \in Queued' =>
           deliveries'[x].state = "pending" /\ deliveries'[x].nextAttempt = queue'[x],
         \/ ClientTracks(c, x)' \/ x \in Queued' \/ deliveries'[x].state # "pending"
         \/ Refusal \/ ~HasRoom(x),
         Logged(x)
  PROVE  OneHolder' /\ \A id \in Ids : Tracked(id) /\ Logged(id)
<1>1. ASSUME NEW id \in Ids \ {x} PROVE Placed(id)' /\ Tracked(id) /\ Logged(id)
  <2>1. ~ClientTracks(c, id) /\ ~ClientTracks(c, id)'
    BY DEF ClientTracks, SubmissionId
  <2>2. \A b \in Clients :
          client'[b] = client[b] \/ (~ClientTracks(b, id) /\ ~ClientTracks(b, id)')
    BY <2>1
  <2>3. Still(id) /\ Unlogged(id) /\ id \in Ids /\ \A w \in Workers : worker'[w] = worker[w]
    OBVIOUS
  <2> QED BY <2>2, <2>3, Elsewhere, Zenon
<1>2. /\ \A b \in Clients \ {c} : ~ClientTracks(b, x)
      /\ \A w \in Workers : ~WorkerTracks(w, x)
  <2>1. CASE ClientTracks(c, x)
    BY <2>1 DEF OneHolder, Placed
  <2>2. CASE ~Stored(x)
    <3>1. \A b \in Clients : ~ClientTracks(b, x)
      BY <2>2 DEF OneHolder, Placed, Stored
    <3>2. ASSUME NEW w \in Workers, WorkerTracks(w, x) PROVE FALSE
      <4>1. Stage(w, x)
        BY <3>2 DEF OneHolder, Placed
      <4>2. worker[w] \in WorkerRecord
        BY TypeParts DEF WorkerTypeOK
      <4> QED BY <2>2, <3>2, <4>1, <4>2
              DEF Stage, WorkerTracks, Holding, HoldsLease, Stored, WorkerRecord, WorkerPCs
    <3> QED BY <3>1, <3>2
  <2> QED BY <2>1, <2>2
<1>3. /\ \A b \in Clients \ {c} : ~ClientTracks(b, x)'
      /\ \A w \in Workers : ~WorkerTracks(w, x)'
  BY <1>2 DEF ClientTracks, SubmissionId, WorkerTracks
<1>4. Placed(x)'
  BY <1>3 DEF Placed
<1>5. Tracked(x)
  BY DEF Tracked, Lost
<1> QED BY <1>1, <1>4, <1>5 DEF OneHolder

\* A worker moves with its delivery.
LEMMA WorkerMove ==
  ASSUME TypeOK, OneHolder, NEW w \in Workers, NEW x \in Ids,
         UNCHANGED client, \A v \in Workers \ {w} : worker'[v] = worker[v],
         \A id \in Ids \ {x} : Still(id) /\ Unlogged(id),
         worker'[w].pc = "idle" \/ worker'[w].id = x,
         WorkerTracks(w, x) \/ (worker[w].pc = "pop" /\ x \in Queued),
         WorkerTracks(w, x)' => x \notin Queued' /\ Stage(w, x)',
         x \in Queued' =>
           deliveries'[x].state = "pending" /\ deliveries'[x].nextAttempt = queue'[x],
         \/ WorkerTracks(w, x)' \/ x \in Queued' \/ deliveries'[x].state # "pending"
         \/ Refusal \/ ~HasRoom(x),
         Logged(x)
  PROVE  OneHolder' /\ \A id \in Ids : Tracked(id) /\ Logged(id)
<1>1. ASSUME NEW id \in Ids \ {x} PROVE Placed(id)' /\ Tracked(id) /\ Logged(id)
  <2>1. ~WorkerTracks(w, id) /\ ~WorkerTracks(w, id)'
    BY DEF WorkerTracks
  <2>2. \A v \in Workers :
          worker'[v] = worker[v] \/ (~WorkerTracks(v, id) /\ ~WorkerTracks(v, id)')
    BY <2>1
  <2>3. Still(id) /\ Unlogged(id) /\ id \in Ids /\ \A c \in Clients : client'[c] = client[c]
    OBVIOUS
  <2> QED BY <2>2, <2>3, Elsewhere, Zenon
<1>2. /\ \A c \in Clients : ~ClientTracks(c, x)
      /\ \A v \in Workers \ {w} : ~WorkerTracks(v, x)
  BY DEF OneHolder, Placed
<1>3. /\ \A c \in Clients : ~ClientTracks(c, x)'
      /\ \A v \in Workers \ {w} : ~WorkerTracks(v, x)'
  BY <1>2 DEF ClientTracks, SubmissionId, WorkerTracks
<1>4. Placed(x)'
  BY <1>3 DEF Placed
<1>5. Tracked(x)
  BY DEF Tracked, Lost
<1> QED BY <1>1, <1>4, <1>5 DEF OneHolder


\* A delivery whose place is no admission and no logging before the step, and whose state keeps
\* its entry, is as well logged as before.
LEMMA SameLog ==
  ASSUME NEW id, Unlogged(id), Stored(id),
         ~Terminal(id), deliveries'[id].state \notin TerminalStates,
         \A c \in Clients : ~(Admitting(c) /\ SubmissionId(c) = id),
         \A w \in Workers : worker[w].id = id =>
           worker[w].pc \notin {"logDelivered", "logDead", "logRetry"}
  PROVE  Logged(id)
BY DEF Logged, Misjournaled, Terminal, Unlogged

LEMMA StillAll ==
  /\ deliveries' = deliveries /\ queue' = queue => \A id : Still(id)
  /\ journal' = journal => \A id : Unlogged(id)
BY DEF Still, Unlogged, Queued, LastTransitionIs

\* A submission with its delivery, from the reservation on.
LEMMA ClientPlaced ==
  ASSUME IdsDistinct, TypeOK, OwnIdReserved, ReservationsAgree, OneHolder,
         NEW c \in Clients, NEW x \in Ids, ClientTracks(c, x)
  PROVE  /\ deliveries[x].state = "pending" /\ deliveries[x].nextAttempt = client[c].now
         /\ Stored(x) /\ ~Terminal(x) /\ x \notin Queued
         /\ \A b \in Clients \ {c} : ~ClientTracks(b, x)
         /\ \A w \in Workers : ~WorkerTracks(w, x)
         /\ KeyOf[client[c].event] \in Keys /\ reserved[KeyOf[client[c].event]] = x
<1>1. /\ deliveries[x].state = "pending" /\ deliveries[x].nextAttempt = client[c].now
      /\ \A b \in Clients \ {c} : ~ClientTracks(b, x)
      /\ \A w \in Workers : ~WorkerTracks(w, x)
      /\ x \notin Queued
  BY DEF OneHolder, Placed
<1>2. Stored(x) /\ ~Terminal(x)
  BY <1>1 DEF Stored, Terminal, TerminalStates
<1>3. x = IdOf[KeyOf[client[c].event]] /\ KeyOf[client[c].event] \in Keys
  BY ClientIds DEF ClientTracks
<1>4. reserved[KeyOf[deliveries[x].event]] = x /\ deliveries[x].event \in Events
  BY <1>2 DEF ReservationsAgree, KeyOfDelivery, OwnIdReserved
<1>5. KeyOf[deliveries[x].event] \in Keys
  BY <1>4, CoreConstants
<1>6. x = IdOf[KeyOf[deliveries[x].event]]
  BY <1>4, <1>5, CoreConstants DEF OwnIdReserved
<1>7. KeyOf[deliveries[x].event] = KeyOf[client[c].event]
  BY <1>3, <1>5, <1>6 DEF IdsDistinct
<1> QED BY <1>1, <1>2, <1>3, <1>4, <1>7

KeepsPlaces == OneHolder' /\ \A id \in Ids : Tracked(id) /\ Logged(id)

LEMMA ClientKeeps ==
  ASSUME IdsDistinct, TypeOK, OwnIdReserved, ReservationsAgree, OneHolder,
         NEW c \in Clients, SubmitStep(c)
  PROVE  KeepsPlaces
<1>0. /\ client \in [Clients -> ClientRecord] /\ deliveries \in [Ids -> Delivery]
      /\ JournalTypeOK /\ KeyOf[client[c].event] \in Keys /\ client[c].now \in Nat
      /\ client[c].event \in Events
  <2>1. client[c].pc # "idle"
    BY DEF SubmitStep, SubmitReserve, SubmitAppend, SubmitSchedule, SubmitRollback, SubmitLogDead
  <2> QED BY <2>1, TypeParts, ClientIds DEF ClientTypeOK, StoreTypeOK, Delivery
<1>1. PICK x \in Ids : x = SubmissionId(c) /\ x = IdOf[KeyOf[client[c].event]]
  BY <1>0, RelayConstants DEF SubmissionId
<1>2. ASSUME NEW pc, ClientGoes(c, pc)
      PROVE  /\ \A b \in Clients \ {c} : client'[b] = client[b]
             /\ client'[c].pc = pc /\ client'[c].event = client[c].event
             /\ client'[c].now = client[c].now
  <2>1. client'[c] = [client[c] EXCEPT !.pc = pc] /\ \A b \in Clients \ {c} : client'[b] = client[b]
    BY <1>0, <1>2 DEF ClientGoes
  <2>2. client[c] \in ClientRecord
    BY <1>0
  <2> QED BY <2>1, <2>2 DEF ClientRecord
<1>3. ASSUME ClientReturns(c)
      PROVE  (\A b \in Clients \ {c} : client'[b] = client[b]) /\ client'[c].pc = "idle"
  BY <1>0, <1>3 DEF ClientReturns, IdleClient
<1>4. ASSUME ClientReturns(c) PROVE ~ClientTracks(c, x)'
  BY <1>3, <1>4 DEF ClientTracks
<1>5. UNCHANGED worker
  BY DEF SubmitStep, SubmitReserve, SubmitAppend, SubmitSchedule, SubmitRollback, SubmitLogDead,
         clientFrame
<1>6. CASE SubmitReserve(c)
  <2>1. CASE Reserve(client[c].event, SubmissionId(c), client[c].now) /\ ClientGoes(c, "append")
    <3>1. ~Stored(x)
      <4>1. ASSUME Stored(x) PROVE FALSE
        <5>1. reserved[KeyOf[deliveries[x].event]] = x /\ deliveries[x].event \in Events
          BY <4>1 DEF ReservationsAgree, KeyOfDelivery, OwnIdReserved
        <5>2. KeyOf[deliveries[x].event] \in Keys
          BY <5>1, CoreConstants
        <5>3. x = IdOf[KeyOf[deliveries[x].event]]
          BY <5>1, <5>2, CoreConstants DEF OwnIdReserved
        <5>4. KeyOf[deliveries[x].event] = KeyOf[client[c].event]
          BY <1>0, <1>1, <5>2, <5>3 DEF IdsDistinct
        <5> QED BY <2>1, <5>1, <5>4, CoreConstants DEF Reserve
      <4> QED BY <4>1
    <3>2. PICK d : d = NewDelivery(client[c].event, client[c].now)
      OBVIOUS
    <3>3. d.state = "pending" /\ d.nextAttempt = client[c].now
      BY <3>2 DEF NewDelivery, ZeroDelivery
    <3>4. deliveries' = [deliveries EXCEPT ![x] = d]
      BY <1>1, <2>1, <3>2 DEF Reserve
    <3>5. UNCHANGED <<queue, journal>>
      BY <1>6 DEF SubmitReserve, journalVars
    <3>6. \A id \in Ids \ {x} : Still(id) /\ Unlogged(id)
      BY <1>0, <3>4, <3>5, StillAll DEF Still, Queued
    <3>7. x \notin Queued /\ x \notin Queued'
      BY <3>1, <3>5 DEF OneHolder, Placed, Stored, Queued
    <3>8. deliveries'[x].state = "pending" /\ deliveries'[x].nextAttempt = client'[c].now
      BY <1>0, <1>2, <2>1, <3>3, <3>4
    <3>9. ClientTracks(c, x)'
      BY <1>1, <1>2, <2>1 DEF ClientTracks, SubmissionId
    <3>10. Logged(x)
      BY <1>1, <1>2, <2>1 DEF Logged, Misjournaled, Admitting, SubmissionId
    <3> QED BY <1>1, <1>2, <1>5, <2>1, <3>1, <3>6, <3>7, <3>8, <3>9, <3>10, ClientMove
           DEF KeepsPlaces
  <2>2. CASE UNCHANGED storeVars /\ ClientReturns(c)
    <3>1. \A id : Still(id) /\ Unlogged(id)
      BY <1>6, <2>2, StillAll DEF SubmitReserve, storeVars, journalVars
    <3>2. \A id \in Ids : ~ClientTracks(c, id) /\ ~ClientTracks(c, id)'
      BY <1>3, <1>6, <2>2 DEF ClientTracks, SubmitReserve
    <3>3. \A id \in Ids : Placed(id)' /\ Tracked(id) /\ Logged(id)
      BY <1>3, <1>5, <2>2, <3>1, <3>2, Elsewhere
    <3> QED BY <3>3 DEF KeepsPlaces, OneHolder
  <2> QED BY <1>6, <2>1, <2>2 DEF SubmitReserve
<1>7. CASE SubmitAppend(c)
  <2>0. ClientTracks(c, x) /\ UNCHANGED <<deliveries, queue>>
    BY <1>1, <1>7 DEF SubmitAppend, ClientTracks, storeVars
  <2>1. \A id \in Ids \ {x} : Still(id) /\ Unlogged(id)
    <3>1. \A id : Still(id)
      BY <2>0, StillAll
    <3>2. AppendAccepted(x, "pending", client[c].now) \/ AppendRejected
      BY <1>1, <1>7 DEF SubmitAppend
    <3>3. CASE AppendRejected
      BY <3>1, <3>3, StillAll DEF AppendRejected
    <3>4. CASE AppendAccepted(x, "pending", client[c].now)
      BY <1>0, <3>1, <3>4, EntryAppended DEF Unlogged
    <3> QED BY <3>2, <3>3, <3>4
  <2>2. PICK pc \in {"schedule", "rollback"} :
          /\ ClientGoes(c, pc)
          /\ AppendAccepted(x, "pending", client[c].now) \/ AppendRejected
    BY <1>1, <1>7 DEF SubmitAppend
  <2>3. ClientTracks(c, x)'
    BY <1>1, <1>2, <2>2 DEF ClientTracks, SubmissionId
  <2>4. /\ deliveries'[x].state = "pending" /\ deliveries'[x].nextAttempt = client'[c].now
        /\ x \notin Queued'
    BY <1>2, <2>0, <2>2, ClientPlaced DEF Queued
  <2>5. Logged(x)
    <3>1. CASE AppendRejected
      BY <3>1 DEF AppendRejected, Logged, Refusal
    <3>2. CASE AppendAccepted(x, "pending", client[c].now)
      BY <1>0, <2>4, <3>2, EntryAppended DEF Logged, Misjournaled, Terminal, TerminalStates
    <3> QED BY <2>2, <3>1, <3>2
  <2> QED BY <1>1, <1>2, <1>5, <2>0, <2>1, <2>2, <2>3, <2>4, <2>5, ClientMove
           DEF KeepsPlaces
<1>8. CASE SubmitSchedule(c)
  <2>0. ClientTracks(c, x) /\ UNCHANGED <<deliveries, journal>>
    BY <1>1, <1>8 DEF SubmitSchedule, ClientTracks, storeVars, journalVars
  <2>1. Logged(x)
    <3>1. \A b \in Clients : ~(Admitting(b) /\ SubmissionId(b) = x)
      BY <1>8, <2>0, ClientPlaced DEF Admitting, ClientTracks, SubmitSchedule
    <3>2. \A w \in Workers : worker[w].id = x =>
            worker[w].pc \notin {"logDelivered", "logDead", "logRetry"}
      BY <2>0, ClientPlaced DEF WorkerTracks
    <3> QED BY <2>0, <3>1, <3>2, ClientPlaced, StillAll, SameLog DEF Terminal
  <2>2. CASE Schedule(x, client[c].now) /\ ClientReturns(c)
    <3>1. /\ Queued' = Queued \cup {x} /\ queue'[x] = client[c].now
          /\ \A id \in Queued : id # x => queue'[id] = queue[id]
      BY <2>2, QueueAfter
    <3>2. \A id \in Ids \ {x} : Still(id) /\ Unlogged(id)
      BY <2>0, <3>1, StillAll DEF Still
    <3>3. deliveries'[x].state = "pending" /\ deliveries'[x].nextAttempt = queue'[x]
      BY <2>0, <3>1, ClientPlaced
    <3> QED BY <1>1, <1>3, <1>4, <1>5, <2>0, <2>1, <2>2, <3>1, <3>2, <3>3, ClientMove
           DEF KeepsPlaces
  <2>3. CASE ScheduleFull(x) /\ ClientGoes(c, "rollbackFull")
    <3>1. queue' = queue /\ ~HasRoom(x)
      BY <2>3 DEF ScheduleFull
    <3>2. \A id \in Ids \ {x} : Still(id) /\ Unlogged(id)
      BY <2>0, <3>1, StillAll
    <3>3. /\ deliveries'[x].state = "pending" /\ deliveries'[x].nextAttempt = client'[c].now
          /\ x \notin Queued'
      BY <1>2, <2>0, <2>3, <3>1, ClientPlaced DEF Queued
    <3> QED BY <1>1, <1>2, <1>5, <2>0, <2>1, <2>3, <3>1, <3>2, <3>3, ClientMove
           DEF KeepsPlaces
  <2> QED BY <1>1, <1>8, <2>2, <2>3 DEF SubmitSchedule
<1>9. CASE SubmitRollback(c)
  <2>0. ClientTracks(c, x) /\ UNCHANGED <<queue, journal>>
    BY <1>1, <1>9 DEF SubmitRollback, ClientTracks, journalVars
  <2>1. deliveries' = [deliveries EXCEPT ![x] = ZeroDelivery]
    BY <1>1, <1>9, <2>0, ClientPlaced DEF SubmitRollback, RollbackReservation
  <2>2. \A id \in Ids \ {x} : Still(id) /\ Unlogged(id)
    BY <1>0, <2>0, <2>1, StillAll DEF Still, Queued
  <2>3. deliveries'[x].state = "absent" /\ Logged(x)
    BY <1>0, <2>1, WrittenStates DEF Logged, Misjournaled, Stored
  <2>4. x \notin Queued'
    BY <2>0, ClientPlaced DEF Queued
  <2>5. ClientReturns(c) \/ ClientGoes(c, "logDead")
    BY <1>9 DEF SubmitRollback
  <2>6. /\ \A b \in Clients \ {c} : client'[b] = client[b]
        /\ client'[c].pc = "idle" \/ client'[c].event = client[c].event
        /\ ~ClientTracks(c, x)'
    BY <1>2, <1>3, <2>5 DEF ClientTracks
  <2> QED BY <1>1, <1>5, <2>0, <2>2, <2>3, <2>4, <2>6, ClientMove
           DEF KeepsPlaces
<1>10. CASE SubmitLogDead(c)
  <2>1. UNCHANGED <<deliveries, queue>> /\ ClientReturns(c)
    BY <1>10 DEF SubmitLogDead, storeVars
  <2>2. \A id \in Ids : ~ClientTracks(c, id) /\ ~ClientTracks(c, id)'
    BY <1>3, <1>10, <2>1 DEF ClientTracks, SubmitLogDead
  <2>3. \A id \in Ids : Placed(id)' /\ Tracked(id) /\ (Unlogged(id) => Logged(id))
    BY <1>3, <1>5, <2>1, <2>2, StillAll, Elsewhere
  <2>4. Logged(x)
    BY <1>1, <1>3, <1>10, <2>1 DEF Logged, LateEntry, SubmitLogDead
  <2>5. \A id \in Ids \ {x} : Unlogged(id)
    <3>1. CASE AppendRejected
      BY <3>1, StillAll DEF AppendRejected
    <3>2. CASE AppendAccepted(x, "dead", client[c].now)
      BY <1>0, <3>2, EntryAppended DEF Unlogged
    <3> QED BY <1>1, <1>10, <3>1, <3>2 DEF SubmitLogDead
  <2> QED BY <2>3, <2>4, <2>5 DEF KeepsPlaces, OneHolder
<1> QED BY <1>6, <1>7, <1>8, <1>9, <1>10 DEF SubmitStep


\* The records that WorkerRecords leaves out.
LEMMA WorkerPops ==
  ASSUME TypeOK, NEW w \in Workers, NEW id,
         worker' = [worker EXCEPT ![w] = [@ EXCEPT !.pc = "acquire", !.id = id]]
  PROVE  worker'[w].pc = "acquire" /\ worker'[w].id = id /\ worker'[w].now = worker[w].now
<1>1. worker \in [Workers -> WorkerRecord]
  BY TypeParts DEF WorkerTypeOK
<1>2. worker'[w] = [worker[w] EXCEPT !.pc = "acquire", !.id = id]
  BY <1>1, Zenon
<1>3. worker[w] \in WorkerRecord
  BY <1>1
<1> QED BY <1>2, <1>3 DEF WorkerRecord

LEMMA WorkerAt ==
  ASSUME TypeOK, NEW w \in Workers, NEW pc, NEW at, WorkerWaits(w, pc, at)
  PROVE  worker'[w].pc = pc /\ worker'[w].id = worker[w].id /\ worker'[w].at = at
<1>1. worker \in [Workers -> WorkerRecord]
  BY TypeParts DEF WorkerTypeOK
<1>2. worker'[w] = [worker[w] EXCEPT !.pc = pc, !.at = at]
  BY <1>1, Zenon DEF WorkerWaits
<1>3. worker[w] \in WorkerRecord
  BY <1>1
<1> QED BY <1>2, <1>3 DEF WorkerRecord

\* A worker from its Acquire on.
LEMMA WorkerPlaced ==
  ASSUME OneHolder, NEW w \in Workers, NEW x \in Ids, WorkerTracks(w, x)
  PROVE  /\ Stage(w, x) /\ x \notin Queued
         /\ \A c \in Clients : ~ClientTracks(c, x)
         /\ \A v \in Workers \ {w} : ~WorkerTracks(v, x)
BY DEF OneHolder, Placed

\* A worker that is not about to append keeps its delivery logged as it was.
LEMMA WorkerSameLog ==
  ASSUME OneHolder, NEW w \in Workers, NEW x \in Ids, WorkerTracks(w, x),
         journal' = journal, worker[w].pc \notin {"logDelivered", "logDead", "logRetry"},
         deliveries[x].state \in {"pending", "leased"},
         deliveries'[x].state \in {"pending", "leased"}
  PROVE  Logged(x)
<1>1. \A c \in Clients : ~(Admitting(c) /\ SubmissionId(c) = x)
  BY WorkerPlaced DEF Admitting, ClientTracks
<1>2. \A v \in Workers : worker[v].id = x =>
        worker[v].pc \notin {"logDelivered", "logDead", "logRetry"}
  BY WorkerPlaced DEF WorkerTracks
<1>3. Stored(x) /\ ~Terminal(x) /\ deliveries'[x].state \notin TerminalStates
  BY DEF Stored, Terminal, TerminalStates
<1> QED BY <1>1, <1>2, <1>3, StillAll, SameLog

\* A worker writes to its delivery: the conditions of WorkerMove that are left.
LEMMA WorkerWrites ==
  ASSUME TypeOK, OneHolder, NEW w \in Workers, NEW x \in Ids, WorkerTracks(w, x),
         UNCHANGED <<client, queue, journal>>,
         \A v \in Workers \ {w} : worker'[v] = worker[v],
         \/ deliveries' = deliveries
         \/ \E d : deliveries' = [deliveries EXCEPT ![x] = d],
         worker'[w].pc = "idle" \/ worker'[w].id = x,
         WorkerTracks(w, x)' => Stage(w, x)',
         WorkerTracks(w, x)' \/ deliveries'[x].state # "pending",
         Logged(x)
  PROVE  KeepsPlaces
<1>0. deliveries \in [Ids -> Delivery]
  BY TypeParts DEF StoreTypeOK, Delivery
<1>1. \A id \in Ids \ {x} : deliveries'[id] = deliveries[id]
  BY <1>0
<1>2. \A id \in Ids \ {x} : Still(id) /\ Unlogged(id)
  BY <1>1, StillAll DEF Still, Queued
<1>3. x \notin Queued'
  BY WorkerPlaced DEF Queued
<1> QED BY <1>2, <1>3, WorkerMove DEF KeepsPlaces

\* A worker appends an entry about its delivery.
LEMMA WorkerLogs ==
  ASSUME TypeOK, OneHolder, NEW w \in Workers, NEW x \in Ids, WorkerTracks(w, x),
         UNCHANGED <<client, queue, deliveries>>,
         \A v \in Workers \ {w} : worker'[v] = worker[v],
         NEW transition,
         AppendAccepted(x, transition, worker[w].now) \/ AppendRejected,
         deliveries[x].state = transition, transition \in {"pending", "delivered", "dead"},
         worker'[w].pc = "idle" \/ worker'[w].id = x,
         WorkerTracks(w, x)' => Stage(w, x)',
         WorkerTracks(w, x)' \/ transition # "pending" \/ AppendRejected
  PROVE  KeepsPlaces
<1>0. JournalTypeOK
  BY TypeParts
<1>1. \A id \in Ids \ {x} : Still(id) /\ Unlogged(id)
  <2>1. CASE AppendRejected
    BY <2>1, StillAll DEF AppendRejected
  <2>2. CASE AppendAccepted(x, transition, worker[w].now)
    BY <1>0, <2>2, StillAll, EntryAppended DEF Unlogged
  <2> QED BY <2>1, <2>2
<1>2. Logged(x)
  <2>1. CASE AppendRejected
    BY <2>1 DEF AppendRejected, Logged, Refusal
  <2>2. CASE AppendAccepted(x, transition, worker[w].now)
    BY <1>0, <2>2, EntryAppended DEF Logged, Misjournaled, Terminal, TerminalStates
  <2> QED BY <2>1, <2>2
<1>3. x \notin Queued'
  BY WorkerPlaced DEF Queued
<1>4. AppendRejected => Refusal
  BY DEF AppendRejected, Refusal
<1> QED BY <1>1, <1>2, <1>3, <1>4, WorkerMove DEF KeepsPlaces

LEMMA WorkerStepKept ==
  ASSUME TypeOK, OneHolder, NEW w \in Workers, WorkerStep(w)
  PROVE  KeepsPlaces
<1>0. /\ worker \in [Workers -> WorkerRecord] /\ deliveries \in [Ids -> Delivery]
      /\ queue \in [Queued -> Int] /\ Queued \subseteq Ids
      /\ worker[w] \in WorkerRecord /\ worker[w].now \in Nat
  BY TypeParts, WorkerRecords DEF WorkerTypeOK, StoreTypeOK, Delivery, SchedulerTypeOK, WorkerRecord
<1>1. UNCHANGED client /\ \A v \in Workers \ {w} : worker'[v] = worker[v]
  BY OtherWorkers
     DEF WorkerStep, StepPop, StepAcquire, StepAllow, SendReturns, StepComplete, StepDead,
         StepRetry, StepLogDelivered, StepLogDead, StepRevive, StepLogRetry, StepSchedule,
         workerFrame
<1>2. ASSUME WorkerReturns(w) PROVE worker'[w].pc = "idle" /\ \A id : ~WorkerTracks(w, id)'
  BY <1>2, WorkerRecords DEF IdleWorker, WorkerTracks
<1>3. ASSUME worker[w].pc \notin {"idle", "pop"}
      PROVE  worker[w].id \in Ids /\ WorkerTracks(w, worker[w].id)
  BY <1>3, TypeParts DEF WorkerTypeOK, WorkerTracks
<1>4. CASE StepPop(w)
  <2>0. UNCHANGED <<deliveries, journal>> /\ worker[w].pc = "pop"
    BY <1>4 DEF StepPop, storeVars, journalVars
  <2>1. ASSUME NEW x \in Queued, PopReady(x, worker[w].now),
               worker' = [worker EXCEPT ![w] = [@ EXCEPT !.pc = "acquire", !.id = x]]
        PROVE  KeepsPlaces
    <3>1. /\ Queued' = Queued \ {x} /\ \A id \in Queued' : queue'[id] = queue[id]
          /\ x \in Ids /\ queue[x] <= worker[w].now
      BY <1>0, <2>1, QueueAfter DEF PopReady
    <3>2. \A id \in Ids \ {x} : Still(id) /\ Unlogged(id)
      BY <2>0, <3>1, StillAll DEF Still
    <3>3. worker'[w].pc = "acquire" /\ worker'[w].id = x /\ worker'[w].now = worker[w].now
      BY <2>1, WorkerPops
    <3>4. deliveries[x].state = "pending" /\ deliveries[x].nextAttempt = queue[x]
      BY <2>1, <3>1 DEF OneHolder, Placed
    <3>5. WorkerTracks(w, x)' /\ Stage(w, x)'
      BY <2>0, <3>1, <3>3, <3>4 DEF WorkerTracks, Stage, Holding
    <3>6. Logged(x)
      <4>1. /\ \A c \in Clients : ~(Admitting(c) /\ SubmissionId(c) = x)
            /\ \A v \in Workers : worker[v].id = x =>
                 worker[v].pc \notin {"logDelivered", "logDead", "logRetry"}
        BY <2>1, <3>1 DEF OneHolder, Placed, Admitting, ClientTracks, WorkerTracks
      <4>2. Stored(x) /\ ~Terminal(x) /\ deliveries'[x].state \notin TerminalStates
        BY <2>0, <3>4 DEF Stored, Terminal, TerminalStates
      <4> QED BY <2>0, <4>1, <4>2, StillAll, SameLog
    <3> QED BY <1>1, <2>0, <2>1, <3>1, <3>2, <3>3, <3>5, <3>6, WorkerMove DEF KeepsPlaces
  <2>2. CASE WorkerReturns(w) /\ UNCHANGED queue
    <3>1. \A id : ~WorkerTracks(w, id) /\ ~WorkerTracks(w, id)'
      BY <1>2, <2>0, <2>2 DEF WorkerTracks
    <3>2. \A id \in Ids : Placed(id)' /\ Tracked(id) /\ Logged(id)
      BY <1>1, <2>0, <2>2, <3>1, StillAll, Elsewhere
    <3> QED BY <3>2 DEF KeepsPlaces, OneHolder
  <2> QED BY <1>4, <2>1, <2>2 DEF StepPop, NoneReady
<1>5. CASE StepAcquire(w)
  <2>1. PICK x \in Ids : x = worker[w].id /\ WorkerTracks(w, x)
    BY <1>3, <1>5 DEF StepAcquire
  <2>2. deliveries[x].state = "pending" /\ deliveries[x].nextAttempt <= worker[w].now
    BY <1>5, <2>1, WorkerPlaced DEF StepAcquire, Stage
  <2>3. Acquirable(x, worker[w].now)
    BY <2>2 DEF Acquirable, Stored, Terminal, TerminalStates
  <2>4. Acquire(x, w, worker[w].now, LeaseTTL) /\ WorkerTakes(w, deliveries[x])
    BY <1>5, <2>1, <2>3 DEF StepAcquire
  <2>5. PICK d : d = Leased(deliveries[x], w, worker[w].now + LeaseTTL)
    OBVIOUS
  <2>6. deliveries' = [deliveries EXCEPT ![x] = d]
    BY <2>4, <2>5, Zenon DEF Acquire
  <2>7. /\ d.state = "leased" /\ d.leaseOwner = w
        /\ d.leaseEpoch = deliveries[x].leaseEpoch + 1
    <3>1. deliveries[x] \in Delivery /\ worker[w].now + LeaseTTL \in Nat
      BY <1>0, RelayConstants
    <3> QED BY <2>5, <3>1, RecordFields
  <2>8. deliveries'[x] = d
    BY <1>0, <2>6
  <2>9. /\ worker'[w].pc = "allow" /\ worker'[w].id = x
        /\ worker'[w].epoch = deliveries[x].leaseEpoch + 1
    BY <2>1, <2>4, WorkerRecords
  <2>10. Stage(w, x)' /\ WorkerTracks(w, x)'
    BY <2>7, <2>8, <2>9 DEF Stage, Holding, HoldsLease, WorkerTracks
  <2>11. UNCHANGED <<client, queue, journal>>
    BY <1>1, <1>5 DEF StepAcquire, journalVars
  <2>12. Logged(x)
    BY <1>5, <2>1, <2>2, <2>7, <2>8, <2>11, WorkerSameLog DEF StepAcquire
  <2> QED BY <1>1, <2>1, <2>6, <2>9, <2>10, <2>11, <2>12, WorkerWrites
<1>6. CASE StepAllow(w) \/ \E ok \in BOOLEAN : SendReturns(w, ok)
  <2>1. PICK x \in Ids : x = worker[w].id /\ WorkerTracks(w, x)
    BY <1>3, <1>6 DEF StepAllow, SendReturns
  <2>2. HoldsLease(x, w, worker[w].epoch) /\ deliveries[x].state = "leased"
    BY <1>6, <2>1, WorkerPlaced DEF StepAllow, SendReturns, Stage, Holding, HoldsLease
  <2>3. UNCHANGED <<client, queue, journal, deliveries>>
    BY <1>1, <1>6 DEF StepAllow, SendReturns, journalVars, storeVars
  <2>4. WorkerReturns(w) \/ \E pc \in {"send", "retryOpen", "complete", "dead", "retrySend"} :
                              WorkerGoes(w, pc)
    BY <1>6 DEF StepAllow, SendReturns, AfterFailure
  <2>5. CASE WorkerReturns(w)
    BY <1>1, <1>2, <1>6, <2>1, <2>2, <2>3, <2>5, WorkerSameLog, WorkerWrites
       DEF StepAllow, SendReturns
  <2>6. ASSUME NEW pc \in {"send", "retryOpen", "complete", "dead", "retrySend"},
               WorkerGoes(w, pc)
        PROVE  KeepsPlaces
    <3>1. worker'[w].pc = pc /\ worker'[w].id = x /\ worker'[w].epoch = worker[w].epoch
      BY <2>1, <2>6, WorkerRecords
    <3>2. Stage(w, x)' /\ WorkerTracks(w, x)'
      BY <2>2, <2>3, <3>1 DEF Stage, Holding, HoldsLease, WorkerTracks
    <3>3. Logged(x)
      BY <1>6, <2>1, <2>2, <2>3, WorkerSameLog DEF StepAllow, SendReturns
    <3> QED BY <1>1, <2>1, <2>3, <3>1, <3>2, <3>3, WorkerWrites
  <2> QED BY <2>4, <2>5, <2>6
<1>7. CASE StepComplete(w) \/ StepDead(w)
  <2>1. PICK x \in Ids : x = worker[w].id /\ WorkerTracks(w, x)
    BY <1>3, <1>7 DEF StepComplete, StepDead
  <2>2. HoldsLease(x, w, worker[w].epoch)
    BY <1>7, <2>1, WorkerPlaced DEF StepComplete, StepDead, Stage, Holding
  <2>3. PICK pc, d :
          /\ \/ pc = "logDelivered" /\ d = Released(deliveries[x], "delivered")
             \/ pc = "logDead" /\ d = Failed(deliveries[x], "dead")
          /\ WorkerGoes(w, pc) /\ deliveries' = [deliveries EXCEPT ![x] = d]
    <3>1. CASE StepComplete(w)
      BY <2>1, <2>2, <3>1, Zenon DEF StepComplete, Complete
    <3>2. CASE StepDead(w)
      BY <2>1, <2>2, <3>2, Zenon DEF StepDead, Dead
    <3> QED BY <1>7, <3>1, <3>2
  <2>4. deliveries'[x] = d /\ worker'[w].pc = pc /\ worker'[w].id = x
    BY <1>0, <2>1, <2>3, WorkerRecords
  <2>5. \/ pc = "logDelivered" /\ d.state = "delivered"
        \/ pc = "logDead" /\ d.state = "dead"
    BY <1>0, <2>3, RecordFields DEF DeliveryStates
  <2>6. Stage(w, x)' /\ WorkerTracks(w, x)' /\ Logged(x)
    BY <2>4, <2>5 DEF Stage, Holding, WorkerTracks, Logged, Misjournaled
  <2>7. UNCHANGED <<client, queue, journal>>
    BY <1>1, <1>7 DEF StepComplete, StepDead, journalVars
  <2> QED BY <1>1, <2>1, <2>3, <2>4, <2>6, <2>7, WorkerWrites
<1>8. CASE StepRetry(w)
  <2>1. PICK x \in Ids : x = worker[w].id /\ WorkerTracks(w, x)
    BY <1>3, <1>8 DEF StepRetry
  <2>2. HoldsLease(x, w, worker[w].epoch) /\ deliveries[x].state = "leased"
    BY <1>8, <2>1, WorkerPlaced DEF StepRetry, Stage, Holding, HoldsLease
  <2>3. PICK pc, at : /\ \/ pc = "schedule"
                         \/ pc = "logRetry"
                      /\ WorkerWaits(w, pc, at) /\ Retry(x, w, worker[w].epoch, at)
    BY <1>8, <2>1, <2>2, Zenon DEF StepRetry
  <2>4. PICK d : d = Postponed(Failed(deliveries[x], "pending"), at)
    OBVIOUS
  <2>5. d.state = "pending" /\ d.nextAttempt = at
    <3>1. deliveries[x] \in Delivery
      BY <1>0
    <3>2. Failed(deliveries[x], "pending") \in Delivery
      BY <3>1, RecordTypes DEF DeliveryStates
    <3> QED BY <2>4, <3>1, <3>2, WrittenStates DEF Postponed, Delivery, DeliveryRecord
  <2>6. deliveries' = [deliveries EXCEPT ![x] = d] /\ deliveries'[x] = d
    <3>1. deliveries' = [deliveries EXCEPT ![x] = d]
      BY <2>3, <2>4, Zenon DEF Retry
    <3> QED BY <1>0, <3>1
  <2>7. worker'[w].pc = pc /\ worker'[w].id = x /\ worker'[w].at = at
    BY <2>1, <2>3, WorkerAt
  <2>8. Stage(w, x)' /\ WorkerTracks(w, x)'
    BY <2>3, <2>5, <2>6, <2>7 DEF Stage, Holding, WorkerTracks
  <2>9. UNCHANGED <<client, queue, journal>>
    BY <1>1, <1>8 DEF StepRetry, journalVars
  <2>10. Logged(x)
    BY <1>8, <2>1, <2>2, <2>5, <2>6, <2>9, WorkerSameLog DEF StepRetry
  <2> QED BY <1>1, <2>1, <2>6, <2>7, <2>8, <2>9, <2>10, WorkerWrites
<1>9. CASE StepRevive(w)
  <2>1. PICK x \in Ids : x = worker[w].id /\ WorkerTracks(w, x)
    BY <1>3, <1>9 DEF StepRevive
  <2>2. deliveries[x].state = "dead"
    BY <1>9, <2>1, WorkerPlaced DEF StepRevive, Stage
  <2>3. PICK at : WorkerWaits(w, "schedule", at) /\ ReviveDead(x, at)
    BY <1>9, <2>1, <2>2, Zenon DEF StepRevive
  <2>4. PICK d : d = Postponed(Released(deliveries[x], "pending"), at)
    OBVIOUS
  <2>5. d.state = "pending" /\ d.nextAttempt = at
    <3>1. deliveries[x] \in Delivery
      BY <1>0
    <3>2. Released(deliveries[x], "pending") \in Delivery
      BY <3>1, RecordTypes DEF DeliveryStates
    <3> QED BY <2>4, <3>1, <3>2, WrittenStates DEF Postponed, Delivery, DeliveryRecord
  <2>6. deliveries' = [deliveries EXCEPT ![x] = d] /\ deliveries'[x] = d
    <3>1. deliveries' = [deliveries EXCEPT ![x] = d]
      BY <2>3, <2>4, Zenon DEF ReviveDead
    <3> QED BY <1>0, <3>1
  <2>7. worker'[w].pc = "schedule" /\ worker'[w].id = x /\ worker'[w].at = at
    BY <2>1, <2>3, WorkerAt
  <2>8. Stage(w, x)' /\ WorkerTracks(w, x)'
    BY <2>5, <2>6, <2>7 DEF Stage, Holding, WorkerTracks
  <2>9. UNCHANGED <<client, queue, journal>>
    BY <1>1, <1>9 DEF StepRevive, journalVars
  <2>10. Logged(x)
    BY <1>9, <2>1 DEF Logged, Revived, StepRevive
  <2> QED BY <1>1, <2>1, <2>6, <2>7, <2>8, <2>9, <2>10, WorkerWrites
<1>10. CASE StepLogDelivered(w)
  <2>1. PICK x \in Ids : x = worker[w].id /\ WorkerTracks(w, x)
    BY <1>3, <1>10 DEF StepLogDelivered
  <2>2. deliveries[x].state = "delivered"
    BY <1>10, <2>1, WorkerPlaced DEF StepLogDelivered, Stage
  <2>3. /\ UNCHANGED <<client, queue, deliveries>> /\ WorkerReturns(w)
        /\ AppendAccepted(x, "delivered", worker[w].now) \/ AppendRejected
    BY <1>1, <1>10, <2>1 DEF StepLogDelivered, storeVars
  <2> QED BY <1>1, <1>2, <2>1, <2>2, <2>3, WorkerLogs
<1>11. CASE StepLogDead(w)
  <2>1. PICK x \in Ids : x = worker[w].id /\ WorkerTracks(w, x)
    BY <1>3, <1>11 DEF StepLogDead
  <2>2. deliveries[x].state = "dead"
    BY <1>11, <2>1, WorkerPlaced DEF StepLogDead, Stage
  <2>3. /\ UNCHANGED <<client, queue, deliveries>>
        /\ \/ AppendAccepted(x, "dead", worker[w].now) /\ WorkerReturns(w)
           \/ AppendRejected /\ WorkerGoes(w, "revive")
    BY <1>1, <1>11, <2>1 DEF StepLogDead, storeVars
  <2>4. CASE AppendAccepted(x, "dead", worker[w].now) /\ WorkerReturns(w)
    BY <1>1, <1>2, <2>1, <2>2, <2>3, <2>4, WorkerLogs
  <2>5. CASE AppendRejected /\ WorkerGoes(w, "revive")
    <3>1. worker'[w].pc = "revive" /\ worker'[w].id = x
      BY <2>1, <2>5, WorkerRecords
    <3>2. Stage(w, x)' /\ WorkerTracks(w, x)'
      BY <2>2, <2>3, <3>1 DEF Stage, Holding, WorkerTracks
    <3> QED BY <1>1, <2>1, <2>2, <2>3, <2>5, <3>1, <3>2, WorkerLogs
  <2> QED BY <2>3, <2>4, <2>5
<1>12. CASE StepLogRetry(w)
  <2>1. PICK x \in Ids : x = worker[w].id /\ WorkerTracks(w, x)
    BY <1>3, <1>12 DEF StepLogRetry
  <2>2. deliveries[x].state = "pending" /\ deliveries[x].nextAttempt = worker[w].at
    BY <1>12, <2>1, WorkerPlaced DEF StepLogRetry, Stage
  <2>3. /\ UNCHANGED <<client, queue, deliveries>>
        /\ \/ AppendAccepted(x, "pending", worker[w].now) /\ WorkerGoes(w, "schedule")
           \/ AppendRejected /\ WorkerReturns(w)
    BY <1>1, <1>12, <2>1 DEF StepLogRetry, storeVars
  <2>4. CASE AppendRejected /\ WorkerReturns(w)
    BY <1>1, <1>2, <2>1, <2>2, <2>3, <2>4, WorkerLogs
  <2>5. CASE AppendAccepted(x, "pending", worker[w].now) /\ WorkerGoes(w, "schedule")
    <3>1. worker'[w].pc = "schedule" /\ worker'[w].id = x /\ worker'[w].at = worker[w].at
      <4>1. worker'[w] = [worker[w] EXCEPT !.pc = "schedule"]
        BY <1>0, <2>5, Zenon DEF WorkerGoes
      <4> QED BY <1>0, <2>1, <4>1 DEF WorkerRecord
    <3>2. Stage(w, x)' /\ WorkerTracks(w, x)'
      BY <2>2, <2>3, <3>1 DEF Stage, Holding, WorkerTracks
    <3> QED BY <1>1, <2>1, <2>2, <2>3, <2>5, <3>1, <3>2, WorkerLogs
  <2> QED BY <2>3, <2>4, <2>5
<1>13. CASE StepSchedule(w)
  <2>1. PICK x \in Ids : x = worker[w].id /\ WorkerTracks(w, x)
    BY <1>3, <1>13 DEF StepSchedule
  <2>2. deliveries[x].state = "pending" /\ deliveries[x].nextAttempt = worker[w].at
    BY <1>13, <2>1, WorkerPlaced DEF StepSchedule, Stage
  <2>3. UNCHANGED <<client, journal, deliveries>> /\ WorkerReturns(w)
    BY <1>1, <1>13 DEF StepSchedule, storeVars, journalVars
  <2>4. Logged(x)
    BY <1>13, <2>1, <2>2, <2>3, WorkerSameLog DEF StepSchedule
  <2>5. CASE Schedule(x, worker[w].at)
    <3>1. /\ Queued' = Queued \cup {x} /\ queue'[x] = worker[w].at
          /\ \A id \in Queued : id # x => queue'[id] = queue[id]
      BY <2>5, QueueAfter
    <3>2. \A id \in Ids \ {x} : Still(id) /\ Unlogged(id)
      BY <2>3, <3>1, StillAll DEF Still
    <3> QED BY <1>1, <1>2, <2>1, <2>2, <2>3, <2>4, <3>1, <3>2, WorkerMove DEF KeepsPlaces
  <2>6. CASE ScheduleFull(x)
    <3>1. queue' = queue /\ ~HasRoom(x)
      BY <2>6 DEF ScheduleFull
    <3>2. x \notin Queued' /\ \A id \in Ids \ {x} : Still(id) /\ Unlogged(id)
      BY <2>1, <2>3, <3>1, StillAll, WorkerPlaced DEF Queued
    <3> QED BY <1>1, <1>2, <2>1, <2>3, <2>4, <3>1, <3>2, WorkerMove DEF KeepsPlaces
  <2> QED BY <1>13, <2>1, <2>5, <2>6 DEF StepSchedule
<1> QED BY <1>4, <1>5, <1>6, <1>7, <1>8, <1>9, <1>10, <1>11, <1>12, <1>13 DEF WorkerStep


LEMMA KeptStep ==
  ASSUME QueueOnly, IdsDistinct, TypeOK, OwnIdReserved, ReservationsAgree, OneHolder, [Next]_vars
  PROVE  KeepsPlaces
<1>1. ASSUME UNCHANGED <<deliveries, queue, journal>>,
             \A c \in Clients : \/ client'[c] = client[c]
                                \/ client[c].pc = "idle" /\ client'[c].pc = "reserve",
             \A w \in Workers : \/ worker'[w] = worker[w]
                                \/ worker[w].pc = "idle" /\ worker'[w].pc = "pop"
      PROVE  KeepsPlaces
  <2>1. ASSUME NEW id \in Ids PROVE Placed(id)' /\ Tracked(id) /\ Logged(id)
    <3>1. \A c \in Clients :
            client'[c] = client[c] \/ (~ClientTracks(c, id) /\ ~ClientTracks(c, id)')
      BY <1>1 DEF ClientTracks
    <3>2. \A w \in Workers :
            worker'[w] = worker[w] \/ (~WorkerTracks(w, id) /\ ~WorkerTracks(w, id)')
      BY <1>1 DEF WorkerTracks
    <3>3. Still(id) /\ Unlogged(id)
      BY <1>1, StillAll
    <3> QED BY <3>1, <3>2, <3>3, Elsewhere
  <2> QED BY <2>1 DEF KeepsPlaces, OneHolder
<1>2. CASE UNCHANGED vars \/ Tick \/ InjectRejection \/ \E e \in Endpoints : ResetBreaker(e)
  <2>1. UNCHANGED <<deliveries, queue, journal, client, worker>>
    BY <1>2 DEF vars, sharedVars, storeVars, journalVars, Tick, InjectRejection, RejectNextAppend,
                ResetBreaker
  <2> QED BY <1>1, <2>1
<1>3. ASSUME NEW c \in Clients, NEW e \in Events, SubmitBegin(c, e) PROVE KeepsPlaces
  <2>1. UNCHANGED <<deliveries, queue, journal, worker>>
    BY <1>3 DEF SubmitBegin, storeVars, journalVars, clientFrame
  <2>2. client \in [Clients -> ClientRecord]
    BY TypeParts DEF ClientTypeOK
  <2>3. \A b \in Clients : \/ client'[b] = client[b]
                           \/ client[b].pc = "idle" /\ client'[b].pc = "reserve"
    BY <1>3, <2>2 DEF SubmitBegin
  <2> QED BY <1>1, <2>1, <2>3
<1>4. ASSUME NEW w \in Workers, StepBegin(w) PROVE KeepsPlaces
  <2>1. UNCHANGED <<deliveries, queue, journal, client>>
    BY <1>4 DEF StepBegin, sharedVars, storeVars, journalVars, workerFrame
  <2>2. worker \in [Workers -> WorkerRecord]
    BY TypeParts DEF WorkerTypeOK
  <2>3. worker[w].pc = "idle" /\ worker'[w].pc = "pop"
    BY <1>4, <2>2 DEF StepBegin, IdleWorker
  <2>4. \A v \in Workers \ {w} : worker'[v] = worker[v]
    BY <1>4, OtherWorkers
  <2> QED BY <1>1, <2>1, <2>3, <2>4
<1>5. Steppers \subseteq Workers
  BY DEF Workers
<1> QED BY <1>2, <1>3, <1>4, <1>5, ClientKeeps, WorkerStepKept DEF Next, QueueOnly

LEMMA OneHolderInvariant ==
  ASSUME QueueOnly, IdsDistinct
  PROVE  Spec => []OneHolder
<1>1. Init => OneHolder
  BY DEF Init, SchedulerInit, Queued, IdleClient, IdleWorker, OneHolder, Placed, ClientTracks,
         WorkerTracks
<1>2. TypeOK /\ OwnIdReserved /\ ReservationsAgree /\ OneHolder /\ [Next]_vars => OneHolder'
  BY KeptStep DEF KeepsPlaces
<1> QED BY <1>1, <1>2, TypeCorrect, OwnIds, MapsAgree, PTL DEF Spec

\* A set with at most one element.
LEMMA AtMostOne ==
  ASSUME NEW S, \A a, b \in S : a = b
  PROVE  Cardinality(S) \in {0, 1} /\ (Cardinality(S) = 1 <=> S # {})
<1>1. CASE S = {}
  BY <1>1, FS_EmptySet
<1>2. CASE S # {}
  <2>1. PICK a : S = {a}
    BY <1>2
  <2> QED BY <2>1, FS_Singleton
<1> QED BY <1>1, <1>2

\* OneHandler: when only Submit and Step run, a delivery is in one place at a time: in the
\* queue, with the client that is admitting it, or with one worker, rejected appends and a full
\* queue included.
THEOREM HandledOnce ==
  ASSUME QueueOnly, IdsDistinct
  PROVE  Spec => []OneHandler
<1>1. OneHolder => OneHandler
  <2> SUFFICES ASSUME OneHolder, NEW id \in Ids
               PROVE  Cardinality({c \in Clients : ClientTracks(c, id)})
                        + Cardinality({w \in Workers : WorkerTracks(w, id)})
                        + Cardinality({id} \cap Queued) <= 1
    BY DEF OneHandler
  <2> DEFINE clients == {c \in Clients : ClientTracks(c, id)}
             workers == {w \in Workers : WorkerTracks(w, id)}
             queued == {id} \cap Queued
  <2>1. /\ \A a, b \in clients : a = b
        /\ \A a, b \in workers : a = b
        /\ \A a, b \in queued : a = b
    BY DEF OneHolder, Placed
  <2>2. /\ clients # {} => workers = {} /\ queued = {}
        /\ workers # {} => queued = {}
    BY DEF OneHolder, Placed
  <2> HIDE DEF clients, workers, queued
  <2>3. Cardinality(clients) + Cardinality(workers) + Cardinality(queued) <= 1
    BY <2>1, <2>2, AtMostOne
  <2> QED BY <2>3 DEF clients, workers, queued
<1> QED BY <1>1, OneHolderInvariant, PTL

\* PendingIsTracked: when only Submit and Step run, a pending delivery that neither the queue
\* nor a goroutine knows had an append refused or a full queue in the step that lost it.
THEOREM LossesHaveCauses ==
  ASSUME QueueOnly, IdsDistinct
  PROVE  Spec => PendingIsTracked
<1> DEFINE Step == \A id \in Ids : Lost(id)' => Lost(id) \/ Refusal \/ ~HasRoom(id)
<1>1. TypeOK /\ OwnIdReserved /\ ReservationsAgree /\ OneHolder /\ [Next]_vars => [Step]_vars
  BY KeptStep DEF KeepsPlaces, Tracked
<1>2. Spec => [][Step]_vars
  BY <1>1, TypeCorrect, OwnIds, MapsAgree, OneHolderInvariant, PTL DEF Spec
<1> QED BY <1>2 DEF PendingIsTracked

\* JournalTracksState: when only Submit and Step run, the last journal entry of a delivery says
\* what the store says, save where an append was refused or a late rollback entry came in.
THEOREM JournalKeepsUp ==
  ASSUME QueueOnly, IdsDistinct
  PROVE  Spec => JournalTracksState
<1> DEFINE Step == \A id \in Ids : Misjournaled(id)' =>
              \/ Misjournaled(id)
              \/ Refusal
              \/ \E w \in Workers : worker[w].pc = "revive" /\ worker[w].id = id
              \/ \E c \in Clients : /\ client[c].pc = "logDead" /\ client'[c].pc = "idle"
                                    /\ SubmissionId(c) = id
<1>1. TypeOK /\ OwnIdReserved /\ ReservationsAgree /\ OneHolder /\ [Next]_vars => [Step]_vars
  BY KeptStep DEF KeepsPlaces, Logged, Revived, LateEntry
<1>2. Spec => [][Step]_vars
  BY <1>1, TypeCorrect, OwnIds, MapsAgree, OneHolderInvariant, PTL DEF Spec
<1> QED BY <1>2 DEF JournalTracksState

==============================================================================
