---------------------------- MODULE RelayProofs -----------------------------
(***************************************************************************)
(* Theorems about Relay, for every value of its constants: its type        *)
(* invariant, and the safety properties that follow from that.  For those, *)
(* first what a step can do to a worker's record, to a stored delivery and *)
(* to the journal; each theorem then looks only at the steps that touch    *)
(* the state it is about.                                                  *)
(***************************************************************************)
EXTENDS RelayProperties, FiniteSetTheorems, TLAPS

Delivery == DeliveryRecord(Workers)
ClientRecord == [pc : ClientPCs, event : Events \cup {NoEvent}, now : Nat]
WorkerRecord ==
  [pc : WorkerPCs, forced : BOOLEAN, id : Ids \cup {NoId}, now : Nat,
   event : Events \cup {NoEvent}, epoch : Nat, attempt : Nat, at : Int]

------------------------------------------------------------------------------
(* Type correctness *)

\* The records the store writes.
LEMMA RecordTypes ==
  /\ ZeroDelivery \in Delivery
  /\ \A e \in Events, now \in Int : NewDelivery(e, now) \in Delivery
  /\ \A d \in Delivery :
       /\ \A w \in Workers, until \in Nat : Leased(d, w, until) \in Delivery
       /\ \A s \in DeliveryStates : Released(d, s) \in Delivery /\ Failed(d, s) \in Delivery
       /\ \A at \in Int : Postponed(d, at) \in Delivery
<1>1. ZeroDelivery \in Delivery
  BY DEF ZeroDelivery, Delivery, DeliveryRecord, DeliveryStates
<1>2. ASSUME NEW e \in Events, NEW now \in Int PROVE NewDelivery(e, now) \in Delivery
  BY <1>1 DEF NewDelivery, Delivery, DeliveryRecord, DeliveryStates
<1>3. ASSUME NEW d \in Delivery, NEW w \in Workers, NEW until \in Nat
      PROVE  Leased(d, w, until) \in Delivery
  <2>1. PICK n \in Nat : n = d.leaseEpoch + 1
    BY DEF Delivery, DeliveryRecord, DeliveryStates
  <2>2. Leased(d, w, until) = [d EXCEPT !.state = "leased", !.leaseOwner = w,
                                        !.leaseEpoch = n, !.leaseUntil = until]
    BY <2>1, Zenon DEF Leased
  <2>3. [d EXCEPT !.state = "leased", !.leaseOwner = w, !.leaseEpoch = n, !.leaseUntil = until]
          \in Delivery
    BY DEF Delivery, DeliveryRecord, DeliveryStates
  <2> QED BY <2>2, <2>3, Zenon
<1>4. ASSUME NEW d \in Delivery, NEW s \in DeliveryStates PROVE Released(d, s) \in Delivery
  BY DEF Released, Delivery, DeliveryRecord, DeliveryStates
<1>5. ASSUME NEW d \in Delivery, NEW s \in DeliveryStates PROVE Failed(d, s) \in Delivery
  BY <1>4 DEF Failed, Delivery, DeliveryRecord, DeliveryStates
<1>6. ASSUME NEW d \in Delivery, NEW at \in Int PROVE Postponed(d, at) \in Delivery
  BY DEF Postponed, Delivery, DeliveryRecord, DeliveryStates
<1> QED BY <1>1, <1>2, <1>3, <1>4, <1>5, <1>6

\* What the fields of those records are.
LEMMA RecordFields ==
  /\ \A e \in Events, now \in Nat :
       /\ NewDelivery(e, now).state = "pending" /\ NewDelivery(e, now).event = e
       /\ NewDelivery(e, now).leaseOwner = NoOwner
  /\ \A d \in Delivery :
       /\ \A w \in Workers, until \in Nat :
            /\ Leased(d, w, until).state = "leased" /\ Leased(d, w, until).leaseOwner = w
            /\ Leased(d, w, until).leaseEpoch = d.leaseEpoch + 1
            /\ Leased(d, w, until).leaseUntil = until
            /\ Leased(d, w, until).event = d.event /\ Leased(d, w, until).attempt = d.attempt
       /\ \A s \in DeliveryStates :
            /\ Released(d, s).state = s /\ Failed(d, s).state = s
            /\ Released(d, s).event = d.event /\ Failed(d, s).event = d.event
            /\ Released(d, s).attempt = d.attempt /\ Failed(d, s).attempt = d.attempt + 1
       /\ \A at \in Int :
            /\ Postponed(d, at).state = d.state /\ Postponed(d, at).event = d.event
            /\ Postponed(d, at).attempt = d.attempt
  /\ ZeroDelivery.state = "absent"
<1> USE DEF Delivery, DeliveryRecord, DeliveryStates
<1>1. ASSUME NEW e \in Events, NEW now \in Nat
      PROVE  /\ NewDelivery(e, now).state = "pending" /\ NewDelivery(e, now).event = e
             /\ NewDelivery(e, now).leaseOwner = NoOwner
  BY DEF NewDelivery, ZeroDelivery
<1>2. ASSUME NEW d \in Delivery, NEW w \in Workers, NEW until \in Nat
      PROVE  /\ Leased(d, w, until).state = "leased" /\ Leased(d, w, until).leaseOwner = w
             /\ Leased(d, w, until).leaseEpoch = d.leaseEpoch + 1
             /\ Leased(d, w, until).leaseUntil = until
             /\ Leased(d, w, until).event = d.event /\ Leased(d, w, until).attempt = d.attempt
  BY DEF Leased
<1>3. ASSUME NEW d \in Delivery, NEW s \in DeliveryStates
      PROVE  /\ Released(d, s).state = s /\ Failed(d, s).state = s
             /\ Released(d, s).event = d.event /\ Failed(d, s).event = d.event
             /\ Released(d, s).attempt = d.attempt /\ Failed(d, s).attempt = d.attempt + 1
  BY DEF Released, Failed
<1>4. ASSUME NEW d \in Delivery, NEW at \in Int
      PROVE  /\ Postponed(d, at).state = d.state /\ Postponed(d, at).event = d.event
             /\ Postponed(d, at).attempt = d.attempt
  BY DEF Postponed
<1>5. ZeroDelivery.state = "absent"
  BY DEF ZeroDelivery
<1> QED BY <1>1, <1>2, <1>3, <1>4, <1>5

LEMMA StoreTypes ==
  ASSUME StoreTypeOK(Workers)
  PROVE  /\ \A e \in Events, id \in Ids, now \in Nat :
              Reserve(e, id, now) => StoreTypeOK(Workers)'
         /\ \A key, id : RollbackReservation(key, id) => StoreTypeOK(Workers)'
         /\ \A id \in Ids, w \in Workers, now, ttl \in Nat :
              Acquire(id, w, now, ttl) => StoreTypeOK(Workers)'
         /\ \A id \in Ids : \A w, epoch : Complete(id, w, epoch) => StoreTypeOK(Workers)'
         /\ \A id \in Ids : \A w, epoch : Dead(id, w, epoch) => StoreTypeOK(Workers)'
         /\ \A id \in Ids : \A w, epoch : \A at \in Int :
              Retry(id, w, epoch, at) => StoreTypeOK(Workers)'
         /\ \A id \in Ids, at \in Int : ReviveDead(id, at) => StoreTypeOK(Workers)'
         /\ UNCHANGED storeVars => StoreTypeOK(Workers)'
<1>0. /\ deliveries \in [Ids -> Delivery]
      /\ reserved \in [Keys -> Ids \cup {NoId}]
      /\ \A s \in {"pending", "delivered", "dead"} : s \in DeliveryStates
  BY DEF StoreTypeOK, Delivery, DeliveryStates
<1>t. (deliveries \in [Ids -> Delivery])' /\ (reserved \in [Keys -> Ids \cup {NoId}])'
        => StoreTypeOK(Workers)'
  BY DEF StoreTypeOK, Delivery
<1>1. ASSUME NEW e \in Events, NEW id \in Ids, NEW now \in Nat, Reserve(e, id, now)
      PROVE  StoreTypeOK(Workers)'
  BY <1>0, <1>t, <1>1, RecordTypes, CoreConstants DEF Reserve
<1>2. ASSUME NEW key, NEW id, RollbackReservation(key, id) PROVE StoreTypeOK(Workers)'
  BY <1>0, <1>t, <1>2, RecordTypes DEF RollbackReservation, storeVars
<1>3. ASSUME NEW id \in Ids, NEW w \in Workers, NEW now \in Nat, NEW ttl \in Nat,
             Acquire(id, w, now, ttl)
      PROVE  StoreTypeOK(Workers)'
  BY <1>0, <1>t, <1>3, RecordTypes DEF Acquire
<1>4. ASSUME NEW id \in Ids, NEW w, NEW epoch, Complete(id, w, epoch) PROVE StoreTypeOK(Workers)'
  BY <1>0, <1>t, <1>4, RecordTypes DEF Complete
<1>5. ASSUME NEW id \in Ids, NEW w, NEW epoch, Dead(id, w, epoch) PROVE StoreTypeOK(Workers)'
  BY <1>0, <1>t, <1>5, RecordTypes DEF Dead
<1>6. ASSUME NEW id \in Ids, NEW w, NEW epoch, NEW at \in Int, Retry(id, w, epoch, at)
      PROVE  StoreTypeOK(Workers)'
  BY <1>0, <1>t, <1>6, RecordTypes DEF Retry
<1>7. ASSUME NEW id \in Ids, NEW at \in Int, ReviveDead(id, at) PROVE StoreTypeOK(Workers)'
  BY <1>0, <1>t, <1>7, RecordTypes DEF ReviveDead
<1>8. ASSUME UNCHANGED storeVars PROVE StoreTypeOK(Workers)'
  BY <1>0, <1>t, <1>8 DEF storeVars
<1> QED BY <1>1, <1>2, <1>3, <1>4, <1>5, <1>6, <1>7, <1>8

LEMMA JournalTypes ==
  ASSUME JournalTypeOK
  PROVE  /\ \A id \in Ids, t \in Transitions, at \in Nat :
              AppendAccepted(id, t, at) => JournalTypeOK' /\ Len(journal') = Len(journal) + 1
         /\ AppendRejected => JournalTypeOK'
         /\ RejectNextAppend => JournalTypeOK'
         /\ UNCHANGED journalVars => JournalTypeOK'
<1>1. ASSUME NEW id \in Ids, NEW t \in Transitions, NEW at \in Nat, AppendAccepted(id, t, at)
      PROVE  JournalTypeOK' /\ Len(journal') = Len(journal) + 1
  <2> DEFINE entry == [delivery |-> id, transition |-> t, at |-> at]
  <2>1. entry \in Entry
    BY DEF Entry
  <2>2. journal' = Append(journal, entry) /\ failNext' = failNext
    BY <1>1 DEF AppendAccepted
  <2> HIDE DEF entry
  <2> QED BY <2>1, <2>2 DEF JournalTypeOK
<1> QED BY <1>1 DEF JournalTypeOK, AppendRejected, RejectNextAppend, journalVars

LEMMA SchedulerTypes ==
  ASSUME SchedulerTypeOK
  PROVE  /\ \A id \in Ids, ready \in Int : Schedule(id, ready) => SchedulerTypeOK'
         /\ \A id \in Ids : ScheduleFull(id) => SchedulerTypeOK'
         /\ \A id, now : PopReady(id, now) => id \in Ids /\ SchedulerTypeOK'
         /\ UNCHANGED queue => SchedulerTypeOK'
<1> USE DEF SchedulerTypeOK, Queued
<1>1. ASSUME NEW id \in Ids, NEW ready \in Int, Schedule(id, ready) PROVE SchedulerTypeOK'
  <2>1. DOMAIN queue' = Queued \cup {id} /\ queue' \in [Queued \cup {id} -> Int]
    BY <1>1 DEF Schedule
  <2>2. IsFiniteSet(Queued \cup {id}) /\ Cardinality(Queued \cup {id}) <= Capacity
    <3>1. CASE id \in Queued
      <4>1. Queued \cup {id} = Queued BY <3>1
      <4> QED BY <4>1
    <3>2. CASE id \notin Queued
      <4>1. Cardinality(Queued) < Capacity BY <1>1, <3>2 DEF Schedule, HasRoom
      <4>2. IsFiniteSet(Queued \cup {id}) /\ Cardinality(Queued \cup {id}) = Cardinality(Queued) + 1
        BY <3>2, FS_AddElement
      <4>3. Cardinality(Queued) \in Nat BY FS_CardinalityType
      <4> QED BY <4>1, <4>2, <4>3, CapacityIsNat
    <3> QED BY <3>1, <3>2
  <2> QED BY <2>1, <2>2
<1>2. ASSUME NEW id, NEW now, PopReady(id, now) PROVE id \in Ids /\ SchedulerTypeOK'
  <2>1. id \in Queued /\ DOMAIN queue' = Queued \ {id} /\ queue' \in [Queued \ {id} -> Int]
    BY <1>2 DEF PopReady
  <2>2. IsFiniteSet(Queued \ {id}) /\ Cardinality(Queued \ {id}) = Cardinality(Queued) - 1
    BY <2>1, FS_RemoveElement
  <2>3. Cardinality(Queued) \in Nat BY FS_CardinalityType
  <2> QED BY <2>1, <2>2, <2>3, CapacityIsNat
<1> QED BY <1>1, <1>2 DEF ScheduleFull

LEMMA BreakerTypes ==
  ASSUME BreakersTypeOK
  PROVE  /\ \A e : \A now \in Nat, ok \in BOOLEAN : Release(e, now, ok) => BreakersTypeOK'
         /\ \A e, now : Allow(e, now) => BreakersTypeOK'
         /\ \A e : Reset(e) => BreakersTypeOK'
         /\ UNCHANGED breakers => BreakersTypeOK'
<1> USE BreakerConstants DEF BreakersTypeOK, ZeroBreaker
<1>1. ASSUME NEW e, NEW now \in Nat, NEW ok \in BOOLEAN, Release(e, now, ok) PROVE BreakersTypeOK'
  <2>1. ZeroBreaker \in [failures : Nat, openUntil : Nat, probe : BOOLEAN]
    OBVIOUS
  <2>2. ASSUME e \in Endpoints
        PROVE  [failures |-> breakers[e].failures + 1, probe |-> FALSE,
                openUntil |-> IF breakers[e].failures + 1 >= Threshold THEN now + Cooldown
                              ELSE breakers[e].openUntil]
                 \in [failures : Nat, openUntil : Nat, probe : BOOLEAN]
    BY <2>2
  <2> QED BY <1>1, <2>1, <2>2 DEF Release
<1>2. ASSUME NEW e, NEW now, Allow(e, now) PROVE BreakersTypeOK'
  BY <1>2 DEF Allow
<1>3. ASSUME NEW e, Reset(e) PROVE BreakersTypeOK'
  BY <1>3 DEF Reset
<1> QED BY <1>1, <1>2, <1>3

ClientTypeOK ==
  /\ client \in [Clients -> ClientRecord]
  /\ \A c \in Clients : client[c].pc # "idle" => client[c].event \in Events

WorkerTypeOK ==
  /\ worker \in [Workers -> WorkerRecord]
  /\ \A w \in Workers : worker[w].pc \notin {"idle", "pop"} => worker[w].id \in Ids

ReplayTypeOK ==
  /\ replay \in [Replayers -> [cursor : Nat, upTo : Nat]]
  /\ \A r \in Replayers : replay[r].cursor <= replay[r].upTo /\ replay[r].upTo <= Len(journal)

SweepTypeOK == sweep \in [Supervisors -> SUBSET [id : Ids, at : Int]]

EnvTypeOK == clock \in Nat /\ submits \in Nat /\ rejects \in Nat

LEMMA TypeParts ==
  TypeOK <=> /\ StoreTypeOK(Workers) /\ JournalTypeOK /\ SchedulerTypeOK /\ BreakersTypeOK
             /\ ClientTypeOK /\ WorkerTypeOK /\ ReplayTypeOK /\ SweepTypeOK /\ EnvTypeOK
BY DEF TypeOK, ClientTypeOK, WorkerTypeOK, ReplayTypeOK, SweepTypeOK, EnvTypeOK, ClientRecord,
       WorkerRecord

LEMMA TypePartsNext ==
  ASSUME StoreTypeOK(Workers)', JournalTypeOK', SchedulerTypeOK', BreakersTypeOK',
         ClientTypeOK', WorkerTypeOK', ReplayTypeOK', SweepTypeOK', EnvTypeOK'
  PROVE  TypeOK'
BY DEF TypeOK, ClientTypeOK, WorkerTypeOK, ReplayTypeOK, SweepTypeOK, EnvTypeOK, ClientRecord,
       WorkerRecord

\* What a goroutine may do to its own record.
LEMMA ClientTypes ==
  ASSUME ClientTypeOK
  PROVE  /\ \A c : ClientReturns(c) => ClientTypeOK'
         /\ \A c : \A pc \in ClientPCs : ClientGoes(c, pc) /\ client[c].pc # "idle" => ClientTypeOK'
         /\ \A c : \A e \in Events, now \in Nat :
              client' = [client EXCEPT ![c] = [pc |-> "reserve", event |-> e, now |-> now]]
                => ClientTypeOK'
         /\ UNCHANGED client => ClientTypeOK'
<1> USE DEF ClientTypeOK, ClientRecord, ClientPCs
<1>1. ASSUME NEW c, ClientReturns(c) PROVE ClientTypeOK'
  <2>1. IdleClient \in ClientRecord /\ IdleClient.pc = "idle" BY DEF IdleClient
  <2> QED BY <1>1, <2>1 DEF ClientReturns
<1>2. ASSUME NEW c, NEW pc \in ClientPCs, ClientGoes(c, pc), client[c].pc # "idle"
      PROVE  ClientTypeOK'
  BY <1>2 DEF ClientGoes
<1>3. ASSUME NEW c, NEW e \in Events, NEW now \in Nat,
             client' = [client EXCEPT ![c] = [pc |-> "reserve", event |-> e, now |-> now]]
      PROVE  ClientTypeOK'
  BY <1>3
<1> QED BY <1>1, <1>2, <1>3

\* The records a worker goes through.
LEMMA IdleWorkerType == IdleWorker \in WorkerRecord /\ IdleWorker.pc = "idle"
BY DEF IdleWorker, WorkerRecord, WorkerPCs

LEMMA WorkerBegins ==
  ASSUME NEW now \in Nat
  PROVE  /\ [IdleWorker EXCEPT !.pc = "pop", !.now = now] \in WorkerRecord
         /\ [IdleWorker EXCEPT !.pc = "pop", !.now = now].pc = "pop"
         /\ \A id \in Ids :
              /\ [IdleWorker EXCEPT !.pc = "acquire", !.now = now, !.forced = TRUE, !.id = id]
                   \in WorkerRecord
              /\ [IdleWorker EXCEPT !.pc = "acquire", !.now = now, !.forced = TRUE, !.id = id].id
                   = id
<1>1. "pop" \in WorkerPCs /\ "acquire" \in WorkerPCs
  BY DEF WorkerPCs
<1> QED BY <1>1, IdleWorkerType DEF WorkerRecord

LEMMA WorkerPcType ==
  ASSUME NEW r \in WorkerRecord, NEW pc \in WorkerPCs
  PROVE  [r EXCEPT !.pc = pc] \in WorkerRecord /\ [r EXCEPT !.pc = pc].id = r.id
BY DEF WorkerRecord

LEMMA WorkerIdType ==
  ASSUME NEW r \in WorkerRecord, NEW id \in Ids
  PROVE  LET n == [r EXCEPT !.pc = "acquire", !.id = id] IN n \in WorkerRecord /\ n.id = id
<1>1. PICK pc \in WorkerPCs : pc = "acquire"
  BY DEF WorkerPCs
<1>2. /\ [r EXCEPT !.pc = pc, !.id = id] \in WorkerRecord
      /\ [r EXCEPT !.pc = pc, !.id = id].id = id
  BY DEF WorkerRecord
<1> QED BY <1>1, <1>2, Zenon

LEMMA WorkerAtType ==
  ASSUME NEW r \in WorkerRecord, NEW pc \in WorkerPCs, NEW at \in Int
  PROVE  /\ [r EXCEPT !.pc = pc, !.at = at] \in WorkerRecord
         /\ [r EXCEPT !.pc = pc, !.at = at].id = r.id
BY DEF WorkerRecord

LEMMA WorkerCopyType ==
  ASSUME NEW r \in WorkerRecord, NEW d \in Delivery
  PROVE  LET n == [r EXCEPT !.pc = "allow", !.event = d.event, !.epoch = d.leaseEpoch + 1,
                            !.attempt = d.attempt]
         IN  n \in WorkerRecord /\ n.id = r.id
<1>1. PICK event \in Events \cup {NoEvent}, epoch \in Nat, attempt \in Nat, pc \in WorkerPCs :
        event = d.event /\ epoch = d.leaseEpoch + 1 /\ attempt = d.attempt /\ pc = "allow"
  BY DEF Delivery, DeliveryRecord, WorkerPCs
<1>2. /\ [r EXCEPT !.pc = pc, !.event = event, !.epoch = epoch, !.attempt = attempt] \in WorkerRecord
      /\ [r EXCEPT !.pc = pc, !.event = event, !.epoch = epoch, !.attempt = attempt].id = r.id
  BY DEF WorkerRecord
<1> QED BY <1>1, <1>2, Zenon

LEMMA PutWorker ==
  ASSUME WorkerTypeOK, NEW w, NEW n \in WorkerRecord,
         n.pc \notin {"idle", "pop"} => n.id \in Ids,
         worker' = [worker EXCEPT ![w] = n]
  PROVE  WorkerTypeOK'
BY DEF WorkerTypeOK

LEMMA WorkerTypes ==
  ASSUME WorkerTypeOK, NEW w \in Workers
  PROVE  /\ WorkerReturns(w) => WorkerTypeOK'
         /\ \A pc \in WorkerPCs :
              WorkerGoes(w, pc) /\ worker[w].pc \notin {"idle", "pop"} => WorkerTypeOK'
         /\ \A pc \in WorkerPCs, at \in Int :
              WorkerWaits(w, pc, at) /\ worker[w].pc \notin {"idle", "pop"} => WorkerTypeOK'
         /\ \A d \in Delivery :
              WorkerTakes(w, d) /\ worker[w].pc \notin {"idle", "pop"} => WorkerTypeOK'
         /\ UNCHANGED worker => WorkerTypeOK'
<1>0. worker[w] \in WorkerRecord /\ worker[w].id \in Ids \cup {NoId}
  BY DEF WorkerTypeOK, WorkerRecord
<1>i. worker[w].pc \notin {"idle", "pop"} => worker[w].id \in Ids
  BY DEF WorkerTypeOK
<1>1. ASSUME WorkerReturns(w) PROVE WorkerTypeOK'
  BY <1>1, PutWorker, IdleWorkerType DEF WorkerReturns
<1>2. ASSUME NEW pc \in WorkerPCs, WorkerGoes(w, pc), worker[w].pc \notin {"idle", "pop"}
      PROVE  WorkerTypeOK'
  <2> DEFINE n == [worker[w] EXCEPT !.pc = pc]
  <2>1. n \in WorkerRecord /\ n.id \in Ids
    BY <1>0, <1>i, <1>2, WorkerPcType
  <2>2. worker' = [worker EXCEPT ![w] = n]
    BY <1>2 DEF WorkerGoes
  <2> HIDE DEF n
  <2> QED BY <2>1, <2>2, PutWorker
<1>3. ASSUME NEW pc \in WorkerPCs, NEW at \in Int, WorkerWaits(w, pc, at),
             worker[w].pc \notin {"idle", "pop"}
      PROVE  WorkerTypeOK'
  <2> DEFINE n == [worker[w] EXCEPT !.pc = pc, !.at = at]
  <2>1. n \in WorkerRecord /\ n.id \in Ids
    BY <1>0, <1>i, <1>3, WorkerAtType
  <2>2. worker' = [worker EXCEPT ![w] = n]
    BY <1>3, Zenon DEF WorkerWaits
  <2> HIDE DEF n
  <2> QED BY <2>1, <2>2, PutWorker
<1>4. ASSUME NEW d \in Delivery, WorkerTakes(w, d), worker[w].pc \notin {"idle", "pop"}
      PROVE  WorkerTypeOK'
  <2> DEFINE n == [worker[w] EXCEPT !.pc = "allow", !.event = d.event,
                                    !.epoch = d.leaseEpoch + 1, !.attempt = d.attempt]
  <2>2. n \in WorkerRecord /\ n.id = worker[w].id
    BY <1>0, WorkerCopyType
  <2>3. worker' = [worker EXCEPT ![w] = n]
    BY <1>4, Zenon DEF WorkerTakes
  <2> HIDE DEF n
  <2> QED BY <1>i, <1>4, <2>2, <2>3, PutWorker
<1> QED BY <1>1, <1>2, <1>3, <1>4 DEF WorkerTypeOK

LEMMA EmptyJournal == <<>> \in Seq(Entry)
OBVIOUS

LEMMA TypeInit == Init => TypeOK
<1> SUFFICES ASSUME Init PROVE TypeOK
  OBVIOUS
<1> USE DEF Init
<1>1. StoreTypeOK(Workers)
  BY RecordTypes DEF StoreInit, StoreTypeOK, Delivery
<1>2. JournalTypeOK
  <2>1. journal = <<>> /\ failNext = FALSE
    BY DEF JournalInit
  <2> QED BY <2>1, EmptyJournal DEF JournalTypeOK
<1>3. SchedulerTypeOK
  BY FS_EmptySet, CapacityIsNat DEF SchedulerInit, SchedulerTypeOK, Queued
<1>4. BreakersTypeOK
  BY DEF BreakersInit, BreakersTypeOK, ZeroBreaker
<1>5. ClientTypeOK
  BY DEF ClientTypeOK, ClientRecord, ClientPCs, IdleClient
<1>6. WorkerTypeOK
  BY IdleWorkerType DEF WorkerTypeOK
<1>7. ReplayTypeOK
  BY DEF ReplayTypeOK, JournalInit
<1>8. SweepTypeOK
  BY DEF SweepTypeOK
<1>9. EnvTypeOK
  BY DEF EnvTypeOK
<1> QED BY <1>1, <1>2, <1>3, <1>4, <1>5, <1>6, <1>7, <1>8, <1>9, TypeParts

\* Growth of the journal keeps the cursors of the replays within it.
LEMMA ReplayTypes ==
  ASSUME ReplayTypeOK, JournalTypeOK, UNCHANGED replay, journal' = journal \/ Len(journal') = Len(journal) + 1
  PROVE  ReplayTypeOK'
BY DEF ReplayTypeOK, JournalTypeOK

LEMMA AppendTypes ==
  ASSUME TypeOK, UNCHANGED replay,
         \/ \E id \in Ids, t \in Transitions, at \in Nat : AppendAccepted(id, t, at)
         \/ AppendRejected
  PROVE  JournalTypeOK' /\ ReplayTypeOK'
<1>1. JournalTypeOK /\ ReplayTypeOK
  BY TypeParts
<1>2. JournalTypeOK'
  BY <1>1, JournalTypes
<1>3. journal' = journal \/ Len(journal') = Len(journal) + 1
  BY <1>1, JournalTypes DEF AppendRejected
<1> QED BY <1>1, <1>2, <1>3, ReplayTypes

\* What a step leaves alone keeps its type.
LEMMA FrameTypes ==
  ASSUME TypeOK
  PROVE  /\ UNCHANGED storeVars => StoreTypeOK(Workers)'
         /\ UNCHANGED journalVars => JournalTypeOK'
         /\ UNCHANGED queue => SchedulerTypeOK'
         /\ UNCHANGED breakers => BreakersTypeOK'
         /\ UNCHANGED client => ClientTypeOK'
         /\ UNCHANGED worker => WorkerTypeOK'
         /\ UNCHANGED <<replay, journal>> => ReplayTypeOK'
         /\ UNCHANGED sweep => SweepTypeOK'
         /\ UNCHANGED <<clock, submits, rejects>> => EnvTypeOK'
<1>0. /\ StoreTypeOK(Workers) /\ JournalTypeOK /\ SchedulerTypeOK /\ BreakersTypeOK
      /\ ClientTypeOK /\ WorkerTypeOK /\ ReplayTypeOK /\ SweepTypeOK /\ EnvTypeOK
  BY TypeParts
<1>1. UNCHANGED storeVars => StoreTypeOK(Workers)'
  BY <1>0, StoreTypes
<1>2. UNCHANGED journalVars => JournalTypeOK'
  BY <1>0, JournalTypes
<1>3. UNCHANGED queue => SchedulerTypeOK'
  BY <1>0, SchedulerTypes
<1>4. UNCHANGED breakers => BreakersTypeOK'
  BY <1>0, BreakerTypes
<1>5. UNCHANGED client => ClientTypeOK'
  BY <1>0, ClientTypes
<1>6. UNCHANGED worker => WorkerTypeOK'
  BY <1>0 DEF WorkerTypeOK
<1>7. UNCHANGED <<replay, journal>> => ReplayTypeOK'
  BY <1>0 DEF ReplayTypeOK
<1>8. UNCHANGED sweep => SweepTypeOK'
  BY <1>0 DEF SweepTypeOK
<1>9. UNCHANGED <<clock, submits, rejects>> => EnvTypeOK'
  BY <1>0 DEF EnvTypeOK
<1> QED BY <1>1, <1>2, <1>3, <1>4, <1>5, <1>6, <1>7, <1>8, <1>9

LEMMA SubmitTypes ==
  ASSUME TypeOK, NEW c \in Clients, SubmitStep(c)
  PROVE  TypeOK'
<1> USE DEF ClientPCs
<1>0. StoreTypeOK(Workers) /\ SchedulerTypeOK /\ ClientTypeOK
  BY TypeParts
<1>1. client[c].pc # "idle"
  BY DEF SubmitStep, SubmitReserve, SubmitAppend, SubmitSchedule, SubmitRollback, SubmitLogDead
<1>2. /\ client[c].event \in Events /\ client[c].now \in Nat /\ client[c].now \in Int
      /\ KeyOf[client[c].event] \in Keys /\ SubmissionId(c) \in Ids
  BY <1>0, <1>1, CoreConstants, RelayConstants DEF ClientTypeOK, ClientRecord, SubmissionId
<1>3. "pending" \in Transitions /\ "dead" \in Transitions
  BY DEF Transitions, TerminalStates
<1>4. UNCHANGED <<breakers, worker, replay, sweep, clock, rejects, submits>>
  BY DEF SubmitStep, SubmitReserve, SubmitAppend, SubmitSchedule, SubmitRollback, SubmitLogDead,
         clientFrame
<1>5. BreakersTypeOK' /\ WorkerTypeOK' /\ SweepTypeOK' /\ EnvTypeOK'
  BY <1>4, FrameTypes
<1>6. ClientTypeOK'
  BY <1>0, <1>1, ClientTypes
     DEF SubmitStep, SubmitReserve, SubmitAppend, SubmitSchedule, SubmitRollback, SubmitLogDead
<1>7. StoreTypeOK(Workers)'
  BY <1>0, <1>2, StoreTypes, FrameTypes
     DEF SubmitStep, SubmitReserve, SubmitAppend, SubmitSchedule, SubmitRollback, SubmitLogDead
<1>8. JournalTypeOK' /\ ReplayTypeOK'
  <2>1. \/ UNCHANGED journalVars
        \/ \E id \in Ids, t \in Transitions, at \in Nat : AppendAccepted(id, t, at)
        \/ AppendRejected
    BY <1>2, <1>3
       DEF SubmitStep, SubmitReserve, SubmitAppend, SubmitSchedule, SubmitRollback, SubmitLogDead
  <2>2. UNCHANGED journalVars => UNCHANGED journal
    BY DEF journalVars
  <2> QED BY <1>4, <2>1, <2>2, FrameTypes, AppendTypes
<1>9. SchedulerTypeOK'
  BY <1>0, <1>2, SchedulerTypes, FrameTypes
     DEF SubmitStep, SubmitReserve, SubmitAppend, SubmitSchedule, SubmitRollback, SubmitLogDead
<1> QED BY <1>5, <1>6, <1>7, <1>8, <1>9, TypePartsNext

LEMMA WorkerStepTypes ==
  ASSUME TypeOK, NEW w \in Workers, WorkerStep(w)
  PROVE  TypeOK'
<1> USE DEF WorkerPCs
<1>0. /\ StoreTypeOK(Workers) /\ SchedulerTypeOK /\ BreakersTypeOK /\ WorkerTypeOK
  BY TypeParts
<1>1. /\ worker[w].now \in Nat /\ worker[w].now \in Int /\ worker[w].at \in Int
      /\ worker[w].attempt \in Nat
      /\ worker[w].pc \notin {"idle", "pop"} => worker[w].id \in Ids
  BY <1>0 DEF WorkerTypeOK, WorkerRecord
<1>2. /\ "pending" \in Transitions /\ "dead" \in Transitions /\ "delivered" \in Transitions
  BY DEF Transitions, TerminalStates
<1>3. ASSUME UNCHANGED workerFrame
      PROVE  ClientTypeOK' /\ SweepTypeOK' /\ EnvTypeOK' /\ UNCHANGED replay
  BY <1>3, FrameTypes DEF workerFrame, envVars
<1>4. ASSUME UNCHANGED workerFrame, UNCHANGED journalVars
      PROVE  JournalTypeOK' /\ ReplayTypeOK'
  BY <1>4, FrameTypes DEF workerFrame, journalVars
<1>5. CASE StepPop(w)
  <2>1. ASSUME NEW id \in Queued, PopReady(id, worker[w].now),
               worker' = [worker EXCEPT ![w] = [@ EXCEPT !.pc = "acquire", !.id = id]]
        PROVE  SchedulerTypeOK' /\ WorkerTypeOK'
    <3>1. id \in Ids /\ SchedulerTypeOK'
      BY <1>0, <2>1, SchedulerTypes
    <3> DEFINE n == [worker[w] EXCEPT !.pc = "acquire", !.id = id]
    <3>2. worker[w] \in WorkerRecord
      BY <1>0 DEF WorkerTypeOK
    <3>3. n \in WorkerRecord /\ n.id = id
      BY <3>1, <3>2, WorkerIdType
    <3>4. worker' = [worker EXCEPT ![w] = n]
      BY <2>1, Zenon
    <3> HIDE DEF n
    <3> QED BY <1>0, <3>1, <3>3, <3>4, PutWorker
  <2>2. ASSUME NoneReady(worker[w].now), WorkerReturns(w)
        PROVE  SchedulerTypeOK' /\ WorkerTypeOK'
    BY <1>0, <2>2, FrameTypes, WorkerTypes DEF NoneReady
  <2>3. SchedulerTypeOK' /\ WorkerTypeOK'
    BY <1>5, <2>1, <2>2 DEF StepPop
  <2> QED BY <1>3, <1>4, <1>5, <2>3, FrameTypes, TypePartsNext DEF StepPop
<1>6. CASE StepAcquire(w)
  <2>1. worker[w].id \in Ids /\ deliveries[worker[w].id] \in Delivery
    BY <1>0, <1>1, <1>6 DEF StepAcquire, StoreTypeOK, Delivery
  <2>2. StoreTypeOK(Workers)'
    BY <1>0, <1>1, <1>6, <2>1, StoreTypes, RelayConstants DEF StepAcquire
  <2>3. WorkerTypeOK'
    BY <1>0, <1>6, <2>1, WorkerTypes DEF StepAcquire
  <2> QED BY <1>3, <1>4, <1>6, <2>2, <2>3, FrameTypes, TypePartsNext DEF StepAcquire
<1>7. CASE StepAllow(w)
  <2>1. BreakersTypeOK'
    BY <1>0, <1>7, BreakerTypes DEF StepAllow
  <2>2. WorkerTypeOK'
    BY <1>0, <1>7, WorkerTypes DEF StepAllow
  <2> QED BY <1>3, <1>4, <1>7, <2>1, <2>2, FrameTypes, TypePartsNext DEF StepAllow
<1>8. ASSUME NEW ok \in BOOLEAN, SendReturns(w, ok) PROVE TypeOK'
  <2>1. BreakersTypeOK'
    BY <1>0, <1>1, <1>8, BreakerTypes DEF SendReturns
  <2>2. WorkerTypeOK'
    BY <1>0, <1>8, WorkerTypes DEF SendReturns, AfterFailure
  <2> QED BY <1>3, <1>4, <1>8, <2>1, <2>2, FrameTypes, TypePartsNext DEF SendReturns
<1>9. CASE StepComplete(w) \/ StepDead(w)
  <2>1. StoreTypeOK(Workers)'
    BY <1>0, <1>1, <1>9, StoreTypes, FrameTypes DEF StepComplete, StepDead
  <2>2. WorkerTypeOK'
    BY <1>0, <1>9, WorkerTypes DEF StepComplete, StepDead
  <2> QED BY <1>3, <1>4, <1>9, <2>1, <2>2, FrameTypes, TypePartsNext DEF StepComplete, StepDead
<1>10. CASE StepRetry(w)
  <2> DEFINE at == worker[w].now + IF worker[w].pc = "retryOpen" THEN OpenRetryDelay
                                   ELSE BackoffFor(worker[w].attempt)
  <2>1. at \in Int
    BY <1>1 DEF OpenRetryDelay, BackoffFor
  <2>2. \/ /\ Retry(worker[w].id, w, worker[w].epoch, at)
           /\ \E pc \in WorkerPCs : WorkerWaits(w, pc, at)
        \/ WorkerReturns(w) /\ UNCHANGED storeVars
    BY <1>10, Zenon DEF StepRetry
  <2> HIDE DEF at
  <2>3. StoreTypeOK(Workers)'
    BY <1>0, <1>1, <1>10, <2>1, <2>2, StoreTypes, FrameTypes DEF StepRetry
  <2>4. WorkerTypeOK'
    BY <1>0, <1>10, <2>1, <2>2, WorkerTypes DEF StepRetry
  <2> QED BY <1>3, <1>4, <1>10, <2>3, <2>4, FrameTypes, TypePartsNext DEF StepRetry
<1>11. CASE StepLogDelivered(w) \/ StepLogDead(w) \/ StepLogRetry(w)
  <2> USE DEF StepLogDelivered, StepLogDead, StepLogRetry
  <2>1. JournalTypeOK' /\ ReplayTypeOK'
    BY <1>1, <1>2, <1>3, <1>11, AppendTypes
  <2>2. WorkerTypeOK'
    BY <1>0, <1>11, WorkerTypes
  <2> QED BY <1>3, <1>11, <2>1, <2>2, FrameTypes, TypePartsNext
<1>12. CASE StepRevive(w)
  <2>1. worker[w].now + OpenRetryDelay \in Int
    BY <1>1 DEF OpenRetryDelay
  <2>2. StoreTypeOK(Workers)'
    BY <1>0, <1>1, <1>12, <2>1, StoreTypes, FrameTypes DEF StepRevive
  <2>3. WorkerTypeOK'
    BY <1>0, <1>12, <2>1, WorkerTypes DEF StepRevive
  <2> QED BY <1>3, <1>4, <1>12, <2>2, <2>3, FrameTypes, TypePartsNext DEF StepRevive
<1>13. CASE StepSchedule(w)
  <2>1. SchedulerTypeOK'
    BY <1>0, <1>1, <1>13, SchedulerTypes DEF StepSchedule
  <2>2. WorkerTypeOK'
    BY <1>0, <1>13, WorkerTypes DEF StepSchedule
  <2> QED BY <1>3, <1>4, <1>13, <2>1, <2>2, FrameTypes, TypePartsNext DEF StepSchedule
<1> QED BY <1>5, <1>6, <1>7, <1>8, <1>9, <1>10, <1>11, <1>12, <1>13 DEF WorkerStep

LEMMA WorkerBeginTypes ==
  ASSUME TypeOK, NEW w \in Workers,
         StepBegin(w) \/ \E id \in Ids : StepForBegin(w, id)
  PROVE  TypeOK'
<1>0. WorkerTypeOK /\ clock \in Nat
  BY TypeParts DEF EnvTypeOK
<1>1. WorkerTypeOK'
  <2>1. CASE StepBegin(w)
    <3> DEFINE n == [IdleWorker EXCEPT !.pc = "pop", !.now = clock]
    <3>1. n \in WorkerRecord /\ n.pc = "pop"
      BY <1>0, WorkerBegins
    <3>2. worker' = [worker EXCEPT ![w] = n]
      BY <2>1 DEF StepBegin
    <3> HIDE DEF n
    <3> QED BY <1>0, <3>1, <3>2, PutWorker
  <2>2. ASSUME NEW id \in Ids, StepForBegin(w, id) PROVE WorkerTypeOK'
    <3> DEFINE n == [IdleWorker EXCEPT !.pc = "acquire", !.now = clock, !.forced = TRUE, !.id = id]
    <3>1. n \in WorkerRecord /\ n.id = id
      BY <1>0, WorkerBegins
    <3>2. worker' = [worker EXCEPT ![w] = n]
      BY <2>2 DEF StepForBegin
    <3> HIDE DEF n
    <3> QED BY <1>0, <3>1, <3>2, PutWorker
  <2> QED BY <2>1, <2>2
<1>2. UNCHANGED <<storeVars, journalVars, queue, breakers, client, replay, sweep, clock, submits, rejects>>
  BY DEF StepBegin, StepForBegin, sharedVars, workerFrame, envVars
<1>3. UNCHANGED journal
  BY <1>2 DEF journalVars
<1> QED BY <1>1, <1>2, <1>3, FrameTypes, TypePartsNext

LEMMA PutReplay ==
  ASSUME ReplayTypeOK, UNCHANGED journal, NEW r, NEW m \in [cursor : Nat, upTo : Nat],
         m.cursor <= m.upTo, m.upTo <= Len(journal), replay' = [replay EXCEPT ![r] = m]
  PROVE  ReplayTypeOK'
BY DEF ReplayTypeOK

LEMMA ReplayStepTypes ==
  ASSUME TypeOK, NEW r \in Replayers, ReplayStep(r)
  PROVE  TypeOK'
<1>0. /\ JournalTypeOK /\ SchedulerTypeOK /\ ReplayTypeOK /\ Len(journal) \in Nat
      /\ replay[r].cursor \in Nat /\ replay[r].upTo \in Nat
      /\ replay[r].cursor <= replay[r].upTo /\ replay[r].upTo <= Len(journal)
  BY TypeParts DEF ReplayTypeOK, JournalTypeOK
<1>1. UNCHANGED <<storeVars, journalVars, breakers, client, worker, sweep, clock, submits, rejects>>
  BY DEF ReplayStep, ReplayBegin, ReplayEntry, replayFrame, envVars
<1>2. UNCHANGED journal
  BY <1>1 DEF journalVars
<1>3. CASE ReplayBegin(r)
  <2>1. /\ ReadUpTo(replay[r].cursor, ReplayLimit) \in Nat
        /\ replay[r].cursor <= ReadUpTo(replay[r].cursor, ReplayLimit)
        /\ ReadUpTo(replay[r].cursor, ReplayLimit) <= Len(journal)
    BY <1>0, RelayConstants DEF ReadUpTo
  <2>2. ReplayTypeOK'
    BY <1>0, <1>2, <1>3, <2>1 DEF ReplayBegin, ReplayTypeOK
  <2>3. SchedulerTypeOK'
    BY <1>3, FrameTypes DEF ReplayBegin
  <2> QED BY <1>1, <2>2, <2>3, FrameTypes, TypePartsNext
<1>4. CASE ReplayEntry(r)
  <2> DEFINE entry == journal[replay[r].cursor + 1]
  <2>1. replay[r].cursor < replay[r].upTo
    BY <1>4 DEF ReplayEntry
  <2>2. entry \in Entry
    BY <1>0, <2>1 DEF JournalTypeOK
  <2>3. entry.delivery \in Ids /\ entry.at \in Int
    BY <2>2 DEF Entry
  <2> HIDE DEF entry
  <2>4. SchedulerTypeOK'
    BY <1>0, <1>4, <2>3, SchedulerTypes, FrameTypes DEF ReplayEntry, entry
  <2>5. PICK next \in Nat : next = replay[r].cursor + 1
    BY <1>0
  <2>n. next <= replay[r].upTo
    BY <1>0, <2>1, <2>5
  <2>6. replay[r] \in [cursor : Nat, upTo : Nat]
    BY <1>0, <2>5 DEF ReplayTypeOK
  <2>7. CASE replay' = [replay EXCEPT ![r].cursor = next]
    <3> DEFINE m == [replay[r] EXCEPT !.cursor = next]
    <3>1. m \in [cursor : Nat, upTo : Nat] /\ m.cursor = next /\ m.upTo = replay[r].upTo
      BY <2>6
    <3>2. replay' = [replay EXCEPT ![r] = m]
      BY <2>7, Zenon
    <3>3. m.cursor <= m.upTo /\ m.upTo <= Len(journal)
      BY <1>0, <2>n, <3>1
    <3> HIDE DEF m
    <3>4. ReplayTypeOK'
      BY <1>0, <1>2, <3>1, <3>2, <3>3, PutReplay
    <3> QED BY <1>1, <1>2, <2>4, <3>4, FrameTypes, TypePartsNext
  <2>8. CASE replay' = [replay EXCEPT ![r].upTo = replay[r].cursor]
    <3> DEFINE m == [replay[r] EXCEPT !.upTo = replay[r].cursor]
    <3>1. /\ m \in [cursor : Nat, upTo : Nat]
          /\ m.cursor = replay[r].cursor /\ m.upTo = replay[r].cursor
      BY <2>6
    <3>2. replay' = [replay EXCEPT ![r] = m]
      BY <2>8, Zenon
    <3>3. m.cursor <= m.upTo /\ m.upTo <= Len(journal)
      BY <1>0, <3>1
    <3> HIDE DEF m
    <3>4. ReplayTypeOK'
      BY <1>0, <1>2, <3>1, <3>2, <3>3, PutReplay
    <3> QED BY <1>1, <1>2, <2>4, <3>4, FrameTypes, TypePartsNext
  <2>9. \/ replay' = [replay EXCEPT ![r].cursor = next]
        \/ replay' = [replay EXCEPT ![r].upTo = replay[r].cursor]
    BY <1>4, <2>5, Zenon DEF ReplayEntry
  <2> QED BY <2>7, <2>8, <2>9
<1> QED BY <1>3, <1>4 DEF ReplayStep

LEMMA SweepStepTypes ==
  ASSUME TypeOK, NEW s \in Supervisors, SweepStep(s)
  PROVE  TypeOK'
<1>0. StoreTypeOK(Workers) /\ SchedulerTypeOK /\ SweepTypeOK
  BY TypeParts
<1>1. UNCHANGED <<storeVars, journalVars, breakers, client, worker, replay, clock, submits, rejects>>
  BY DEF SweepStep, OverdueRead, OverdueSchedule, sweepFrame, envVars
<1>2. UNCHANGED journal
  BY <1>1 DEF journalVars
<1>3. ASSUME NEW lead \in SweepLeads, OverdueRead(s, lead) PROVE TypeOK'
  <2> DEFINE due == {id \in Ids : deliveries[id].state = "pending"
                                   /\ deliveries[id].nextAttempt <= clock + lead}
  <2>1. ASSUME NEW id \in due
        PROVE  [id |-> id, at |-> deliveries[id].nextAttempt] \in [id : Ids, at : Int]
    BY <1>0 DEF StoreTypeOK, DeliveryRecord
  <2>2. {[id |-> id, at |-> deliveries[id].nextAttempt] : id \in due}
          \in SUBSET [id : Ids, at : Int]
    BY <2>1
  <2>3. sweep' = [sweep EXCEPT ![s] = {[id |-> id, at |-> deliveries[id].nextAttempt] : id \in due}]
    BY <1>3 DEF OverdueRead
  <2>4. SweepTypeOK'
    BY <1>0, <2>2, <2>3 DEF SweepTypeOK
  <2>5. SchedulerTypeOK'
    BY <1>3, FrameTypes DEF OverdueRead
  <2> QED BY <1>1, <1>2, <2>4, <2>5, FrameTypes, TypePartsNext
<1>4. CASE OverdueSchedule(s)
  <2>1. PICK d \in sweep[s] :
          /\ Schedule(d.id, d.at) \/ ScheduleFull(d.id)
          /\ sweep' = [sweep EXCEPT ![s] = @ \ {d}]
    BY <1>4 DEF OverdueSchedule
  <2>2. d.id \in Ids /\ d.at \in Int
    BY <1>0 DEF SweepTypeOK
  <2>3. SchedulerTypeOK'
    BY <1>0, <2>1, <2>2, SchedulerTypes
  <2>4. SweepTypeOK'
    BY <1>0, <2>1 DEF SweepTypeOK
  <2> QED BY <1>1, <1>2, <2>3, <2>4, FrameTypes, TypePartsNext
<1> QED BY <1>3, <1>4 DEF SweepStep

LEMMA EnvironmentTypes ==
  ASSUME TypeOK, Tick \/ InjectRejection \/ \E e \in Endpoints : ResetBreaker(e)
  PROVE  TypeOK'
<1>0. JournalTypeOK /\ BreakersTypeOK /\ EnvTypeOK
  BY TypeParts
<1>1. CASE Tick
  <2>1. EnvTypeOK'
    BY <1>0, <1>1 DEF Tick, EnvTypeOK
  <2>2. UNCHANGED <<storeVars, journalVars, queue, breakers, client, worker, replay, sweep>>
    BY <1>1 DEF Tick, sharedVars
  <2>3. UNCHANGED journal
    BY <2>2 DEF journalVars
  <2> QED BY <2>1, <2>2, <2>3, FrameTypes, TypePartsNext
<1>2. CASE InjectRejection
  <2>1. EnvTypeOK' /\ JournalTypeOK' /\ UNCHANGED journal
    BY <1>0, <1>2, JournalTypes DEF InjectRejection, RejectNextAppend, EnvTypeOK
  <2> QED BY <1>2, <2>1, FrameTypes, TypePartsNext DEF InjectRejection
<1>3. ASSUME NEW e \in Endpoints, ResetBreaker(e) PROVE TypeOK'
  <2>1. BreakersTypeOK'
    BY <1>0, <1>3, BreakerTypes DEF ResetBreaker
  <2>2. UNCHANGED <<storeVars, journalVars, queue, client, worker, replay, sweep, clock, submits, rejects>>
    BY <1>3 DEF ResetBreaker, envVars
  <2>3. UNCHANGED journal
    BY <2>2 DEF journalVars
  <2> QED BY <2>1, <2>2, <2>3, FrameTypes, TypePartsNext
<1> QED BY <1>1, <1>2, <1>3

LEMMA SubmitBeginTypes ==
  ASSUME TypeOK, NEW c \in Clients, NEW e \in Events, SubmitBegin(c, e)
  PROVE  TypeOK'
<1>0. ClientTypeOK /\ EnvTypeOK
  BY TypeParts
<1>1. ClientTypeOK'
  BY <1>0, ClientTypes DEF SubmitBegin, EnvTypeOK
<1>e. EnvTypeOK'
  BY <1>0 DEF SubmitBegin, clientFrame, EnvTypeOK
<1>2. UNCHANGED <<storeVars, journalVars, queue, breakers, worker, replay, sweep>>
  BY DEF SubmitBegin, clientFrame
<1>3. UNCHANGED journal
  BY <1>2 DEF journalVars
<1> QED BY <1>1, <1>e, <1>2, <1>3, FrameTypes, TypePartsNext

LEMMA TypeNext == TypeOK /\ [Next]_vars => TypeOK'
<1> SUFFICES ASSUME TypeOK, [Next]_vars PROVE TypeOK'
  OBVIOUS
<1>1. CASE UNCHANGED vars
  <2>1. UNCHANGED <<storeVars, journalVars, queue, breakers, client, worker, replay, sweep, clock,
                    submits, rejects>>
    BY <1>1 DEF vars, sharedVars, envVars
  <2>2. UNCHANGED journal
    BY <2>1 DEF journalVars
  <2> QED BY <2>1, <2>2, FrameTypes, TypePartsNext
<1>2. CASE Next
  <2>1. Steppers \subseteq Workers /\ Batchers \subseteq Workers
    BY DEF Workers
  <2> QED BY <1>2, <2>1, EnvironmentTypes, SubmitBeginTypes, SubmitTypes, WorkerBeginTypes,
             WorkerStepTypes, ReplayStepTypes, SweepStepTypes DEF Next
<1> QED BY <1>1, <1>2

\* Every variable of the relay keeps its type, a call in progress keeps its event or delivery
\* id, the queue stays within its capacity and replay cursors within the journal.
THEOREM TypeCorrect == Spec => []TypeOK
BY TypeInit, TypeNext, PTL DEF Spec

------------------------------------------------------------------------------
(* What a step can do *)

\* The record of the worker that takes a step.
LEMMA WorkerRecords ==
  ASSUME TypeOK, NEW w \in Workers
  PROVE  /\ worker[w] \in WorkerRecord
         /\ WorkerReturns(w) => worker'[w] = IdleWorker
         /\ \A pc : WorkerGoes(w, pc) =>
              /\ worker'[w].pc = pc /\ worker'[w].id = worker[w].id
              /\ worker'[w].now = worker[w].now /\ worker'[w].event = worker[w].event
              /\ worker'[w].epoch = worker[w].epoch /\ worker'[w].attempt = worker[w].attempt
         /\ \A pc, at : WorkerWaits(w, pc, at) =>
              worker'[w].pc = pc /\ worker'[w].id = worker[w].id /\ worker'[w].now = worker[w].now
         /\ \A d : WorkerTakes(w, d) =>
              /\ worker'[w].pc = "allow" /\ worker'[w].id = worker[w].id
              /\ worker'[w].now = worker[w].now /\ worker'[w].event = d.event
              /\ worker'[w].epoch = d.leaseEpoch + 1 /\ worker'[w].attempt = d.attempt
<1>1. worker \in [Workers -> WorkerRecord]
  BY TypeParts DEF WorkerTypeOK
<1>2. worker[w] \in WorkerRecord
  BY <1>1
<1>3. ASSUME WorkerReturns(w) PROVE worker'[w] = IdleWorker
  BY <1>1, <1>3 DEF WorkerReturns
<1>4. ASSUME NEW pc, WorkerGoes(w, pc)
      PROVE  /\ worker'[w].pc = pc /\ worker'[w].id = worker[w].id
             /\ worker'[w].now = worker[w].now /\ worker'[w].event = worker[w].event
             /\ worker'[w].epoch = worker[w].epoch /\ worker'[w].attempt = worker[w].attempt
  <2>1. worker'[w] = [worker[w] EXCEPT !.pc = pc]
    BY <1>1, <1>4, Zenon DEF WorkerGoes
  <2> QED BY <1>2, <2>1 DEF WorkerRecord
<1>5. ASSUME NEW pc, NEW at, WorkerWaits(w, pc, at)
      PROVE  worker'[w].pc = pc /\ worker'[w].id = worker[w].id /\ worker'[w].now = worker[w].now
  <2>1. worker'[w] = [worker[w] EXCEPT !.pc = pc, !.at = at]
    BY <1>1, <1>5, Zenon DEF WorkerWaits
  <2> QED BY <1>2, <2>1 DEF WorkerRecord
<1>6. ASSUME NEW d, WorkerTakes(w, d)
      PROVE  /\ worker'[w].pc = "allow" /\ worker'[w].id = worker[w].id
             /\ worker'[w].now = worker[w].now /\ worker'[w].event = d.event
             /\ worker'[w].epoch = d.leaseEpoch + 1 /\ worker'[w].attempt = d.attempt
  <2>1. PICK event, epoch, attempt, pc :
          event = d.event /\ epoch = d.leaseEpoch + 1 /\ attempt = d.attempt /\ pc = "allow"
    OBVIOUS
  <2>2. worker'[w] = [worker[w] EXCEPT !.pc = pc, !.event = event, !.epoch = epoch,
                                       !.attempt = attempt]
    BY <1>1, <1>6, <2>1, Zenon DEF WorkerTakes
  <2>3. /\ worker'[w].pc = pc /\ worker'[w].id = worker[w].id
        /\ worker'[w].now = worker[w].now /\ worker'[w].event = event
        /\ worker'[w].epoch = epoch /\ worker'[w].attempt = attempt
    BY <1>2, <2>2 DEF WorkerRecord
  <2> QED BY <2>1, <2>3, Zenon
<1> QED BY <1>2, <1>3, <1>4, <1>5, <1>6, Zenon

\* A worker's step leaves the other workers as they are.
LEMMA OtherWorkers ==
  ASSUME TypeOK, NEW w \in Workers,
         \/ WorkerStep(w)
         \/ StepBegin(w)
         \/ \E id \in Ids : StepForBegin(w, id)
  PROVE  \A v \in Workers \ {w} : worker'[v] = worker[v]
<1> SUFFICES ASSUME NEW v \in Workers, v # w PROVE worker'[v] = worker[v]
  OBVIOUS
<1>1. worker \in [Workers -> WorkerRecord]
  BY TypeParts DEF WorkerTypeOK
<1>2. \E n : worker' = [worker EXCEPT ![w] = n]
  <2>1. ASSUME WorkerReturns(w) PROVE \E n : worker' = [worker EXCEPT ![w] = n]
    BY <2>1, Zenon DEF WorkerReturns
  <2>2. ASSUME NEW pc, WorkerGoes(w, pc) PROVE \E n : worker' = [worker EXCEPT ![w] = n]
    <3>1. worker' = [worker EXCEPT ![w] = [worker[w] EXCEPT !.pc = pc]]
      BY <2>2, Zenon DEF WorkerGoes
    <3> QED BY <3>1, Zenon
  <2>3. ASSUME NEW pc, NEW at, WorkerWaits(w, pc, at) PROVE \E n : worker' = [worker EXCEPT ![w] = n]
    <3>1. worker' = [worker EXCEPT ![w] = [worker[w] EXCEPT !.pc = pc, !.at = at]]
      BY <2>3, Zenon DEF WorkerWaits
    <3> QED BY <3>1, Zenon
  <2>4. ASSUME NEW d, WorkerTakes(w, d) PROVE \E n : worker' = [worker EXCEPT ![w] = n]
    <3>1. worker' = [worker EXCEPT ![w] = [worker[w] EXCEPT
             !.pc = "allow", !.event = d.event, !.epoch = d.leaseEpoch + 1, !.attempt = d.attempt]]
      BY <2>4, Zenon DEF WorkerTakes
    <3> QED BY <3>1, Zenon
  <2>5. CASE StepPop(w)
    <3>1. \/ WorkerReturns(w)
          \/ \E id : worker' = [worker EXCEPT ![w] = [@ EXCEPT !.pc = "acquire", !.id = id]]
      BY <2>5, Zenon DEF StepPop
    <3>2. ASSUME NEW id, worker' = [worker EXCEPT ![w] = [@ EXCEPT !.pc = "acquire", !.id = id]]
          PROVE  \E n : worker' = [worker EXCEPT ![w] = n]
      <4>1. worker' = [worker EXCEPT ![w] = [worker[w] EXCEPT !.pc = "acquire", !.id = id]]
        BY <3>2, Zenon
      <4> QED BY <4>1, Zenon
    <3> QED BY <2>1, <3>1, <3>2
  <2>6. CASE StepAcquire(w)
    BY <2>1, <2>4, <2>6, Zenon DEF StepAcquire
  <2>7. CASE StepAllow(w)
    BY <2>2, <2>7, Zenon DEF StepAllow
  <2>8. ASSUME NEW ok \in BOOLEAN, SendReturns(w, ok) PROVE \E n : worker' = [worker EXCEPT ![w] = n]
    BY <2>1, <2>2, <2>8, Zenon DEF SendReturns
  <2>9. CASE StepComplete(w) \/ StepDead(w)
    BY <2>1, <2>2, <2>9, Zenon DEF StepComplete, StepDead
  <2>10. CASE StepRetry(w) \/ StepRevive(w)
    BY <2>1, <2>3, <2>10, Zenon DEF StepRetry, StepRevive
  <2>11. CASE StepLogDelivered(w) \/ StepLogDead(w) \/ StepLogRetry(w) \/ StepSchedule(w)
    BY <2>1, <2>2, <2>11, Zenon DEF StepLogDelivered, StepLogDead, StepLogRetry, StepSchedule
  <2>12. CASE StepBegin(w) \/ \E id \in Ids : StepForBegin(w, id)
    BY <2>12, Zenon DEF StepBegin, StepForBegin
  <2> QED BY <2>5, <2>6, <2>7, <2>8, <2>9, <2>10, <2>11, <2>12 DEF WorkerStep
<1> QED BY <1>1, <1>2

\* A step is one of a worker or leaves the workers alone.
LEMMA WorkerChanges ==
  ASSUME TypeOK, [Next]_vars, NEW w \in Workers
  PROVE  \/ worker'[w] = worker[w]
         \/ WorkerStep(w)
         \/ /\ worker[w].pc = "idle" /\ worker'[w].pc \in {"pop", "acquire"}
            /\ worker'[w].now = clock
<1> DEFINE Goal == \/ worker'[w] = worker[w]
                   \/ WorkerStep(w)
                   \/ /\ worker[w].pc = "idle" /\ worker'[w].pc \in {"pop", "acquire"}
                      /\ worker'[w].now = clock
<1>0. worker \in [Workers -> WorkerRecord] /\ clock \in Nat
  BY TypeParts DEF WorkerTypeOK, EnvTypeOK
<1>1. CASE UNCHANGED worker
  BY <1>1
<1>2. ASSUME NEW v \in Workers, WorkerStep(v) PROVE Goal
  BY <1>2, OtherWorkers
<1>3. ASSUME NEW v \in Workers, StepBegin(v) PROVE Goal
  <2>1. CASE v = w
    <3>1. worker'[w] = [IdleWorker EXCEPT !.pc = "pop", !.now = clock] /\ worker[w].pc = "idle"
      BY <1>0, <1>3, <2>1 DEF StepBegin
    <3> QED BY <3>1 DEF IdleWorker
  <2>2. CASE v # w
    BY <1>3, <2>2, OtherWorkers
  <2> QED BY <2>1, <2>2
<1>4. ASSUME NEW v \in Workers, NEW id \in Ids, StepForBegin(v, id) PROVE Goal
  <2>1. CASE v = w
    <3>1. /\ worker'[w] = [IdleWorker EXCEPT !.pc = "acquire", !.now = clock, !.forced = TRUE,
                                              !.id = id]
          /\ worker[w].pc = "idle"
      BY <1>0, <1>4, <2>1 DEF StepForBegin
    <3> QED BY <3>1 DEF IdleWorker
  <2>2. CASE v # w
    BY <1>4, <2>2, OtherWorkers
  <2> QED BY <2>1, <2>2
<1>5. \/ UNCHANGED worker
      \/ \E v \in Workers : WorkerStep(v) \/ StepBegin(v) \/ \E id \in Ids : StepForBegin(v, id)
  <2>1. CASE UNCHANGED vars
    BY <2>1 DEF vars
  <2>2. CASE Tick \/ InjectRejection \/ \E e \in Endpoints : ResetBreaker(e)
    BY <2>2 DEF Tick, InjectRejection, ResetBreaker
  <2>3. ASSUME NEW c \in Clients, SubmitStep(c) \/ \E e \in Events : SubmitBegin(c, e)
        PROVE  UNCHANGED worker
    BY <2>3 DEF SubmitStep, SubmitBegin, SubmitReserve, SubmitAppend, SubmitSchedule,
                SubmitRollback, SubmitLogDead, clientFrame
  <2>4. ASSUME NEW r \in Replayers, ReplayStep(r) PROVE UNCHANGED worker
    BY <2>4 DEF ReplayStep, ReplayBegin, ReplayEntry, replayFrame
  <2>5. ASSUME NEW s \in Supervisors, SweepStep(s) PROVE UNCHANGED worker
    BY <2>5 DEF SweepStep, OverdueRead, OverdueSchedule, sweepFrame
  <2> QED BY <2>1, <2>2, <2>3, <2>4, <2>5 DEF Next, Workers
<1> QED BY <1>1, <1>2, <1>3, <1>4, <1>5

\* The store's writes, whatever their arguments.
LEMMA WrittenStates ==
  /\ \A e, now : NewDelivery(e, now).state = "pending"
  /\ ZeroDelivery.state = "absent"
  /\ \A d \in Delivery : \A at :
       /\ Released(d, "delivered").state = "delivered"
       /\ Postponed(Failed(d, "pending"), at).state = "pending"
       /\ Postponed(Released(d, "pending"), at).state = "pending"
<1>1. \A e, now : NewDelivery(e, now).state = "pending"
  BY DEF NewDelivery, ZeroDelivery
<1>2. ZeroDelivery.state = "absent"
  BY DEF ZeroDelivery
<1>3. ASSUME NEW d \in Delivery, NEW at
      PROVE  /\ Released(d, "delivered").state = "delivered"
             /\ Postponed(Failed(d, "pending"), at).state = "pending"
             /\ Postponed(Released(d, "pending"), at).state = "pending"
  <2>1. "delivered" \in DeliveryStates /\ "pending" \in DeliveryStates
    BY DEF DeliveryStates
  <2>2. /\ Failed(d, "pending") \in Delivery /\ Released(d, "pending") \in Delivery
        /\ Failed(d, "pending").state = "pending" /\ Released(d, "pending").state = "pending"
        /\ Released(d, "delivered").state = "delivered"
    BY <2>1, RecordTypes, RecordFields
  <2>3. ASSUME NEW r \in Delivery PROVE Postponed(r, at).state = r.state
    BY DEF Postponed, Delivery, DeliveryRecord
  <2> QED BY <2>2, <2>3
<1> QED BY <1>1, <1>2, <1>3

\* A delivery becomes leased or dead only by the step of a worker that handles it.
LEMMA DeliveryChanges ==
  ASSUME TypeOK, [Next]_vars, NEW id \in Ids
  PROVE  \/ deliveries'[id] = deliveries[id]
         \/ deliveries'[id].state \in {"absent", "pending", "delivered"}
         \/ \E w \in Workers :
              /\ worker[w].id = id /\ worker[w].pc = "acquire"
              /\ Acquirable(id, worker[w].now) /\ WorkerTakes(w, deliveries[id])
              /\ deliveries'[id] = Leased(deliveries[id], w, worker[w].now + LeaseTTL)
         \/ \E w \in Workers :
              /\ worker[w].id = id /\ worker[w].pc = "dead" /\ WorkerGoes(w, "logDead")
              /\ HoldsLease(id, w, worker[w].epoch)
              /\ deliveries'[id] = Failed(deliveries[id], "dead")
<1> DEFINE Harmless == \/ deliveries'[id] = deliveries[id]
                       \/ deliveries'[id].state \in {"absent", "pending", "delivered"}
           Acquires(w) == /\ worker[w].id = id /\ worker[w].pc = "acquire"
                          /\ Acquirable(id, worker[w].now) /\ WorkerTakes(w, deliveries[id])
                          /\ deliveries'[id] = Leased(deliveries[id], w, worker[w].now + LeaseTTL)
           Kills(w) == /\ worker[w].id = id /\ worker[w].pc = "dead" /\ WorkerGoes(w, "logDead")
                       /\ HoldsLease(id, w, worker[w].epoch)
                       /\ deliveries'[id] = Failed(deliveries[id], "dead")
<1>0. deliveries \in [Ids -> Delivery]
  BY TypeParts DEF StoreTypeOK, Delivery
<1>1. CASE UNCHANGED deliveries
  BY <1>1
<1>2. ASSUME NEW c \in Clients, SubmitStep(c) PROVE Harmless
  <2>1. ASSUME NEW e, NEW i, NEW now, Reserve(e, i, now) PROVE Harmless
    BY <1>0, <2>1, WrittenStates DEF Reserve
  <2>2. ASSUME NEW k, NEW i, RollbackReservation(k, i) PROVE Harmless
    BY <1>0, <2>2, WrittenStates DEF RollbackReservation, storeVars
  <2> QED BY <1>1, <1>2, <2>1, <2>2
          DEF SubmitStep, SubmitReserve, SubmitAppend, SubmitSchedule, SubmitRollback,
              SubmitLogDead, storeVars
<1>3. ASSUME NEW w \in Workers, WorkerStep(w) PROVE Harmless \/ Acquires(w) \/ Kills(w)
  <2>1. CASE StepAcquire(w)
    <3>1. CASE Acquire(worker[w].id, w, worker[w].now, LeaseTTL) /\ WorkerTakes(w, deliveries[worker[w].id])
      BY <1>0, <2>1, <3>1 DEF Acquire, StepAcquire
    <3>2. CASE UNCHANGED storeVars
      BY <3>2 DEF storeVars
    <3> QED BY <2>1, <3>1, <3>2 DEF StepAcquire
  <2>2. CASE StepDead(w)
    <3>1. CASE Dead(worker[w].id, w, worker[w].epoch) /\ WorkerGoes(w, "logDead")
      BY <1>0, <2>2, <3>1 DEF Dead, StepDead
    <3>2. CASE UNCHANGED storeVars
      BY <3>2 DEF storeVars
    <3> QED BY <2>2, <3>1, <3>2 DEF StepDead
  <2>3. CASE StepComplete(w)
    BY <1>0, <2>3, WrittenStates DEF StepComplete, Complete, storeVars
  <2>4. CASE StepRetry(w)
    <3>1. \/ UNCHANGED storeVars
          \/ \E i, owner, epoch, at : Retry(i, owner, epoch, at)
      BY <2>4, Zenon DEF StepRetry
    <3> QED BY <1>0, <3>1, WrittenStates DEF Retry, storeVars
  <2>5. CASE StepRevive(w)
    BY <1>0, <2>5, WrittenStates DEF StepRevive, ReviveDead, storeVars
  <2>6. CASE \/ StepPop(w) \/ StepAllow(w) \/ \E ok \in BOOLEAN : SendReturns(w, ok)
             \/ StepLogDelivered(w) \/ StepLogDead(w) \/ StepLogRetry(w) \/ StepSchedule(w)
    <3>1. UNCHANGED storeVars
      BY <2>6 DEF StepPop, StepAllow, SendReturns, StepLogDelivered, StepLogDead, StepLogRetry,
                  StepSchedule
    <3> QED BY <3>1 DEF storeVars
  <2> QED BY <1>3, <2>1, <2>2, <2>3, <2>4, <2>5, <2>6 DEF WorkerStep
<1>4. \/ UNCHANGED deliveries
      \/ \E c \in Clients : SubmitStep(c)
      \/ \E w \in Workers : WorkerStep(w)
  <2>1. CASE UNCHANGED vars
    BY <2>1 DEF vars, sharedVars, storeVars
  <2>2. CASE Tick \/ InjectRejection \/ \E e \in Endpoints : ResetBreaker(e)
    BY <2>2 DEF Tick, InjectRejection, ResetBreaker, sharedVars, storeVars
  <2>3. ASSUME NEW c \in Clients, NEW e \in Events, SubmitBegin(c, e) PROVE UNCHANGED deliveries
    BY <2>3 DEF SubmitBegin, storeVars
  <2>4. ASSUME NEW w, StepBegin(w) \/ \E i \in Ids : StepForBegin(w, i) PROVE UNCHANGED deliveries
    BY <2>4 DEF StepBegin, StepForBegin, sharedVars, storeVars
  <2>5. ASSUME NEW r \in Replayers, ReplayStep(r) PROVE UNCHANGED deliveries
    BY <2>5 DEF ReplayStep, ReplayBegin, ReplayEntry, replayFrame, storeVars
  <2>6. ASSUME NEW s \in Supervisors, SweepStep(s) PROVE UNCHANGED deliveries
    BY <2>6 DEF SweepStep, OverdueRead, OverdueSchedule, sweepFrame, storeVars
  <2> QED BY <2>1, <2>2, <2>3, <2>4, <2>5, <2>6 DEF Next
<1> HIDE DEF Harmless, Acquires, Kills
<1>5. Harmless \/ \E w \in Workers : Acquires(w) \/ Kills(w)
  BY <1>1, <1>2, <1>3, <1>4 DEF Harmless
<1> QED BY <1>5 DEF Harmless, Acquires, Kills

------------------------------------------------------------------------------
(* Replay *)

\* Only a step of a replay moves its cursor, over the one entry it deals with.
LEMMA CursorChanges ==
  ASSUME TypeOK, [Next]_vars, NEW r \in Replayers
  PROVE  \/ replay'[r].cursor = replay[r].cursor
         \/ /\ ReplayEntry(r)
            /\ replay'[r].cursor = replay[r].cursor + 1
<1>0. replay \in [Replayers -> [cursor : Nat, upTo : Nat]]
  BY TypeParts DEF ReplayTypeOK
<1>1. CASE UNCHANGED replay
  BY <1>1
<1>2. ASSUME NEW q \in Replayers, ReplayBegin(q) PROVE replay'[r].cursor = replay[r].cursor
  <2>1. replay' = [replay EXCEPT ![q].upTo = ReadUpTo(replay[q].cursor, ReplayLimit)]
    BY <1>2 DEF ReplayBegin
  <2> QED BY <1>0, <2>1
<1>3. ASSUME NEW q \in Replayers, ReplayEntry(q)
      PROVE  \/ replay'[r].cursor = replay[r].cursor
             \/ q = r /\ replay'[r].cursor = replay[r].cursor + 1
  <2>1. \/ replay' = [replay EXCEPT ![q].cursor = replay[q].cursor + 1]
        \/ replay' = [replay EXCEPT ![q].upTo = replay[q].cursor]
    BY <1>3 DEF ReplayEntry
  <2> QED BY <1>0, <2>1
<1>4. UNCHANGED replay \/ \E q \in Replayers : ReplayStep(q)
  <2>1. CASE UNCHANGED vars
    BY <2>1 DEF vars
  <2>2. CASE Tick \/ InjectRejection \/ \E e \in Endpoints : ResetBreaker(e)
    BY <2>2 DEF Tick, InjectRejection, ResetBreaker
  <2>3. ASSUME NEW c \in Clients, SubmitStep(c) \/ \E e \in Events : SubmitBegin(c, e)
        PROVE  UNCHANGED replay
    BY <2>3 DEF SubmitStep, SubmitBegin, SubmitReserve, SubmitAppend, SubmitSchedule,
                SubmitRollback, SubmitLogDead, clientFrame
  <2>4. ASSUME NEW w, WorkerStep(w) PROVE UNCHANGED replay
    BY <2>4 DEF WorkerStep, StepPop, StepAcquire, StepAllow, SendReturns, StepComplete, StepDead,
                StepRetry, StepLogDelivered, StepLogDead, StepRevive, StepLogRetry, StepSchedule,
                workerFrame
  <2>5. ASSUME NEW w, StepBegin(w) \/ \E i \in Ids : StepForBegin(w, i) PROVE UNCHANGED replay
    BY <2>5 DEF StepBegin, StepForBegin, workerFrame
  <2>6. ASSUME NEW s \in Supervisors, SweepStep(s) PROVE UNCHANGED replay
    BY <2>6 DEF SweepStep, OverdueRead, OverdueSchedule, sweepFrame
  <2> QED BY <2>1, <2>2, <2>3, <2>4, <2>5, <2>6 DEF Next
<1> QED BY <1>1, <1>2, <1>3, <1>4 DEF ReplayStep

\* What a step passes over.
LEMMA PassesQueued ==
  ASSUME TypeOK, [Next]_vars
  PROVE  \A r \in Replayers : \A i \in DOMAIN journal :
           /\ replay[r].cursor < i /\ i <= replay'[r].cursor
           /\ journal[i].transition = "pending"
           => journal[i].delivery \in DOMAIN queue'
<1> SUFFICES ASSUME NEW r \in Replayers, NEW i \in DOMAIN journal,
                    replay[r].cursor < i, i <= replay'[r].cursor,
                    journal[i].transition = "pending"
             PROVE  journal[i].delivery \in DOMAIN queue'
  BY Zenon
<1>0. replay[r].cursor \in Nat /\ i \in Nat
  BY TypeParts DEF ReplayTypeOK, JournalTypeOK
<1>1. ReplayEntry(r) /\ replay'[r].cursor = replay[r].cursor + 1
  BY <1>0, CursorChanges
<1>2. i = replay[r].cursor + 1
  BY <1>0, <1>1
<1>3. \/ Schedule(journal[i].delivery, journal[i].at)
      \/ replay' = [replay EXCEPT ![r].upTo = replay[r].cursor]
  BY <1>1, <1>2 DEF ReplayEntry
<1>4. replay' # [replay EXCEPT ![r].upTo = replay[r].cursor]
  <2>1. replay \in [Replayers -> [cursor : Nat, upTo : Nat]]
    BY TypeParts DEF ReplayTypeOK
  <2> QED BY <1>0, <1>1, <2>1
<1> QED BY <1>3, <1>4 DEF Schedule, Queued

\* Replay's cursor passes a pending entry only in the step that puts its delivery in the
\* queue (Replay.Run returns before it counts an entry the scheduler refused).
THEOREM ReplayQueuesEveryPending == Spec => ReplaySkipsNothing
<1> DEFINE Passes == \A r \in Replayers : \A i \in DOMAIN journal :
                       /\ replay[r].cursor < i /\ i <= replay'[r].cursor
                       /\ journal[i].transition = "pending"
                       => journal[i].delivery \in DOMAIN queue'
<1>1. TypeOK /\ [Next]_vars => [Passes]_vars
  BY PassesQueued
<1> QED BY <1>1, TypeCorrect, PTL DEF Spec, ReplaySkipsNothing

------------------------------------------------------------------------------
(* Circuit breakers *)

\* A worker that sends keeps its record until the send returns.
LEMMA SendersKept ==
  ASSUME TypeOK, [Next]_vars, NEW w \in Workers, worker[w].pc = "send"
  PROVE  worker'[w] = worker[w] \/ \E ok \in BOOLEAN : SendReturns(w, ok)
<1>1. WorkerStep(w) => \E ok \in BOOLEAN : SendReturns(w, ok)
  BY DEF WorkerStep, StepPop, StepAcquire, StepAllow, StepComplete, StepDead, StepRetry,
         StepLogDelivered, StepLogDead, StepRevive, StepLogRetry, StepSchedule
<1> QED BY <1>1, WorkerChanges

\* Where the flags of the breakers are written.
LEMMA ProbeChanges ==
  ASSUME TypeOK, [Next]_vars, NEW e \in Endpoints, breakers'[e].probe
  PROVE  \/ /\ breakers[e].probe
            /\ \A w \in Workers :
                 worker[w].pc = "send" /\ EndpointOf[worker[w].event] = e => worker'[w] = worker[w]
         \/ \E w \in Workers :
              worker'[w].pc = "send" /\ EndpointOf[worker'[w].event] = e
<1> DEFINE Kept == /\ breakers[e].probe
                   /\ \A w \in Workers :
                        worker[w].pc = "send" /\ EndpointOf[worker[w].event] = e
                          => worker'[w] = worker[w]
           Begun == \E w \in Workers : worker'[w].pc = "send" /\ EndpointOf[worker'[w].event] = e
<1>0. breakers \in [Endpoints -> [failures : Nat, openUntil : Nat, probe : BOOLEAN]]
  BY TypeParts DEF BreakersTypeOK
<1>1. ASSUME NEW w \in Workers, NEW ok \in BOOLEAN, SendReturns(w, ok) PROVE Kept
  <2>1. Release(EndpointOf[worker[w].event], worker[w].now, ok)
    BY <1>1 DEF SendReturns
  <2>2. EndpointOf[worker[w].event] # e /\ breakers'[e] = breakers[e]
    BY <1>0, <2>1 DEF Release, ZeroBreaker
  <2>3. WorkerStep(w)
    BY <1>1 DEF WorkerStep
  <2>4. \A v \in Workers \ {w} : worker'[v] = worker[v]
    BY <2>3, OtherWorkers
  <2> QED BY <2>2, <2>4
<1>2. ASSUME NEW w \in Workers, StepAllow(w), Allow(EndpointOf[worker[w].event], worker[w].now),
             WorkerGoes(w, "send")
      PROVE  Kept \/ Begun
  <2>1. CASE EndpointOf[worker[w].event] = e
    BY <1>2, <2>1, WorkerRecords
  <2>2. CASE EndpointOf[worker[w].event] # e
    <3>1. breakers'[e] = breakers[e]
      BY <1>0, <1>2, <2>2 DEF Allow
    <3>2. worker[w].pc = "allow" /\ WorkerStep(w)
      BY <1>2 DEF StepAllow, WorkerStep
    <3>3. \A v \in Workers \ {w} : worker'[v] = worker[v]
      BY <3>2, OtherWorkers
    <3> QED BY <3>1, <3>2, <3>3
  <2> QED BY <2>1, <2>2
<1>3. ASSUME UNCHANGED breakers, \A w \in Workers : \A ok \in BOOLEAN : ~SendReturns(w, ok)
      PROVE  Kept
  BY <1>3, SendersKept
<1>4. ASSUME NEW x \in Endpoints, ResetBreaker(x) PROVE Kept
  BY <1>0, <1>4 DEF ResetBreaker, Reset, ZeroBreaker
<1>5. \/ UNCHANGED breakers
      \/ \E x \in Endpoints : ResetBreaker(x)
      \/ \E w \in Workers, ok \in BOOLEAN : SendReturns(w, ok)
      \/ \E w \in Workers : /\ StepAllow(w)
                            /\ Allow(EndpointOf[worker[w].event], worker[w].now)
                            /\ WorkerGoes(w, "send")
  <2>1. CASE UNCHANGED vars
    BY <2>1 DEF vars, sharedVars
  <2>2. CASE Tick \/ InjectRejection
    BY <2>2 DEF Tick, InjectRejection, sharedVars
  <2>3. ASSUME NEW c \in Clients, SubmitStep(c) \/ \E x \in Events : SubmitBegin(c, x)
        PROVE  UNCHANGED breakers
    BY <2>3 DEF SubmitStep, SubmitBegin, SubmitReserve, SubmitAppend, SubmitSchedule,
                SubmitRollback, SubmitLogDead, clientFrame
  <2>4. ASSUME NEW w \in Workers, WorkerStep(w), ~StepAllow(w),
               \A ok \in BOOLEAN : ~SendReturns(w, ok)
        PROVE  UNCHANGED breakers
    BY <2>4 DEF WorkerStep, StepPop, StepAcquire, StepComplete, StepDead, StepRetry,
                StepLogDelivered, StepLogDead, StepRevive, StepLogRetry, StepSchedule
  <2>5. ASSUME NEW w \in Workers, StepAllow(w)
        PROVE  \/ UNCHANGED breakers
               \/ Allow(EndpointOf[worker[w].event], worker[w].now) /\ WorkerGoes(w, "send")
    BY <2>5 DEF StepAllow
  <2>6. ASSUME NEW w, StepBegin(w) \/ \E i \in Ids : StepForBegin(w, i) PROVE UNCHANGED breakers
    BY <2>6 DEF StepBegin, StepForBegin, sharedVars
  <2>7. ASSUME NEW r \in Replayers, ReplayStep(r) PROVE UNCHANGED breakers
    BY <2>7 DEF ReplayStep, ReplayBegin, ReplayEntry, replayFrame
  <2>8. ASSUME NEW s \in Supervisors, SweepStep(s) PROVE UNCHANGED breakers
    BY <2>8 DEF SweepStep, OverdueRead, OverdueSchedule, sweepFrame
  <2> QED BY <2>1, <2>2, <2>3, <2>4, <2>5, <2>6, <2>7, <2>8 DEF Next
<1> QED BY <1>1, <1>2, <1>3, <1>4, <1>5

\* The probe's send is in progress as long as the breaker waits for it.
LEMMA ProbeStep ==
  ASSUME TypeOK, ProbeHasCall, [Next]_vars
  PROVE  ProbeHasCall'
<1> SUFFICES ASSUME NEW e \in Endpoints, breakers'[e].probe
             PROVE  \E w \in Workers : worker'[w].pc = "send" /\ EndpointOf[worker'[w].event] = e
  BY DEF ProbeHasCall
<1>1. CASE \E w \in Workers : worker'[w].pc = "send" /\ EndpointOf[worker'[w].event] = e
  BY <1>1
<1>2. CASE /\ breakers[e].probe
           /\ \A w \in Workers :
                worker[w].pc = "send" /\ EndpointOf[worker[w].event] = e => worker'[w] = worker[w]
  <2>1. PICK w \in Workers : worker[w].pc = "send" /\ EndpointOf[worker[w].event] = e
    BY <1>2 DEF ProbeHasCall
  <2>2. worker'[w] = worker[w]
    BY <1>2, <2>1
  <2> QED BY <2>1, <2>2
<1> QED BY <1>1, <1>2, ProbeChanges

\* A half-open circuit that refuses every other caller has its probe in progress: no
\* interleaving of Allow, the function it returned and Reset leaves a flag without a call.
THEOREM ProbesHaveCalls == Spec => []ProbeHasCall
<1>1. Init => ProbeHasCall
  BY DEF Init, BreakersInit, ZeroBreaker, ProbeHasCall
<1>2. TypeOK /\ ProbeHasCall /\ [Next]_vars => ProbeHasCall'
  BY ProbeStep
<1> QED BY <1>1, <1>2, TypeCorrect, PTL DEF Spec

------------------------------------------------------------------------------
(* Leases *)

\* No worker has read a time that is still to come.
TimesRead == \A w \in Workers : worker[w].now <= clock

LEMMA ClockGrows ==
  ASSUME TypeOK, [Next]_vars
  PROVE  clock <= clock'
<1>0. clock \in Nat
  BY TypeParts DEF EnvTypeOK
<1>1. CASE UNCHANGED vars
  BY <1>0, <1>1 DEF vars, envVars
<1>2. CASE Tick
  BY <1>0, <1>2 DEF Tick
<1>3. CASE InjectRejection \/ \E e \in Endpoints : ResetBreaker(e)
  BY <1>0, <1>3 DEF InjectRejection, ResetBreaker, envVars
<1>4. ASSUME NEW c \in Clients, SubmitStep(c) \/ \E e \in Events : SubmitBegin(c, e)
      PROVE  UNCHANGED clock
  BY <1>4 DEF SubmitStep, SubmitBegin, SubmitReserve, SubmitAppend, SubmitSchedule,
              SubmitRollback, SubmitLogDead, clientFrame
<1>5. ASSUME NEW w, WorkerStep(w) \/ StepBegin(w) \/ \E i \in Ids : StepForBegin(w, i)
      PROVE  UNCHANGED clock
  BY <1>5 DEF WorkerStep, StepPop, StepAcquire, StepAllow, SendReturns, StepComplete, StepDead,
              StepRetry, StepLogDelivered, StepLogDead, StepRevive, StepLogRetry, StepSchedule,
              StepBegin, StepForBegin, workerFrame, envVars
<1>6. ASSUME NEW r \in Replayers, ReplayStep(r) PROVE UNCHANGED clock
  BY <1>6 DEF ReplayStep, ReplayBegin, ReplayEntry, replayFrame, envVars
<1>7. ASSUME NEW s \in Supervisors, SweepStep(s) PROVE UNCHANGED clock
  BY <1>7 DEF SweepStep, OverdueRead, OverdueSchedule, sweepFrame, envVars
<1> QED BY <1>0, <1>1, <1>2, <1>3, <1>4, <1>5, <1>6, <1>7 DEF Next

\* A worker's step keeps the time it read and the id it works on, or ends the call; only the
\* pop gives it an id, and only Acquire the copy of the delivery.
LEMMA WorkerKeeps ==
  ASSUME TypeOK, NEW w \in Workers, WorkerStep(w)
  PROVE  \/ worker'[w] = IdleWorker
         \/ /\ worker'[w].now = worker[w].now
            /\ \/ /\ worker[w].pc = "pop" /\ worker'[w].pc = "acquire"
               \/ /\ worker'[w].id = worker[w].id
                  /\ \/ /\ worker[w].pc = "acquire" /\ worker'[w].pc = "allow"
                        /\ WorkerTakes(w, deliveries[worker[w].id])
                        /\ Acquire(worker[w].id, w, worker[w].now, LeaseTTL)
                     \/ /\ worker[w].pc = "allow" /\ worker'[w].pc \in {"send", "retryOpen"}
                        /\ WorkerGoes(w, worker'[w].pc) /\ UNCHANGED deliveries
                     \/ /\ worker[w].pc = "send"
                        /\ worker'[w].pc \in {"complete", "dead", "retrySend"}
                        /\ worker'[w].pc = "dead" => worker[w].attempt + 1 >= MaxAttempts
                        /\ WorkerGoes(w, worker'[w].pc) /\ UNCHANGED deliveries
                     \/ /\ worker[w].pc \in {"complete", "retryOpen", "retrySend"}
                        /\ worker'[w].pc \in {"logDelivered", "logRetry", "schedule"}
                     \/ /\ worker[w].pc = "dead" /\ worker'[w].pc = "logDead"
                     \/ /\ worker[w].pc = "logDead" /\ worker'[w].pc = "revive"
                        /\ AppendRejected
                     \/ /\ worker[w].pc = "logRetry" /\ worker'[w].pc = "schedule"
                     \/ /\ worker[w].pc = "revive" /\ worker'[w].pc = "schedule"
                        /\ ReviveDead(worker[w].id, worker[w].now + OpenRetryDelay)
<1>0. worker \in [Workers -> WorkerRecord] /\ worker[w] \in WorkerRecord
  BY TypeParts DEF WorkerTypeOK
<1>1. CASE WorkerReturns(w)
  BY <1>1, WorkerRecords
<1>2. CASE StepPop(w)
  <2>1. ASSUME NEW id, worker' = [worker EXCEPT ![w] = [@ EXCEPT !.pc = "acquire", !.id = id]]
        PROVE  /\ worker[w].pc = "pop" /\ worker'[w].pc = "acquire"
               /\ worker'[w].now = worker[w].now
    <3>1. worker'[w] = [worker[w] EXCEPT !.pc = "acquire", !.id = id]
      BY <1>0, <2>1, Zenon
    <3>2. PICK pc : pc = "acquire"
      OBVIOUS
    <3>3. worker'[w] = [worker[w] EXCEPT !.pc = pc, !.id = id]
      BY <3>1, <3>2, Zenon
    <3>4. worker'[w].pc = pc /\ worker'[w].now = worker[w].now
      BY <1>0, <3>3 DEF WorkerRecord
    <3> QED BY <1>2, <3>2, <3>4 DEF StepPop
  <2> QED BY <1>1, <1>2, <2>1 DEF StepPop
<1>3. CASE StepAcquire(w)
  BY <1>1, <1>3, WorkerRecords DEF StepAcquire
<1>4. CASE StepAllow(w)
  BY <1>1, <1>4, WorkerRecords DEF StepAllow, storeVars
<1>5. ASSUME NEW ok \in BOOLEAN, SendReturns(w, ok), ~WorkerReturns(w)
      PROVE  /\ worker'[w].now = worker[w].now /\ worker'[w].id = worker[w].id
             /\ worker[w].pc = "send"
             /\ worker'[w].pc \in {"complete", "dead", "retrySend"}
             /\ worker'[w].pc = "dead" => worker[w].attempt + 1 >= MaxAttempts
             /\ WorkerGoes(w, worker'[w].pc) /\ UNCHANGED deliveries
  <2>1. \/ WorkerGoes(w, "complete") \/ WorkerGoes(w, "retrySend")
        \/ WorkerGoes(w, "dead") /\ worker[w].attempt + 1 >= MaxAttempts
    BY <1>5 DEF SendReturns, AfterFailure
  <2> QED BY <1>5, <2>1, WorkerRecords DEF SendReturns, storeVars
<1>6. CASE StepComplete(w)
  BY <1>1, <1>6, WorkerRecords DEF StepComplete
<1>7. CASE StepDead(w)
  BY <1>1, <1>7, WorkerRecords DEF StepDead
<1>8. CASE StepRetry(w)
  <2>1. \/ WorkerReturns(w)
        \/ \E pc \in {"schedule", "logRetry"} : \E at : WorkerWaits(w, pc, at)
    <3> DEFINE next == IF worker[w].pc = "retryOpen" THEN "schedule" ELSE "logRetry"
    <3>1. WorkerReturns(w) \/ \E at : WorkerWaits(w, next, at)
      BY <1>8, Zenon DEF StepRetry
    <3>2. next \in {"schedule", "logRetry"}
      OBVIOUS
    <3> HIDE DEF next
    <3> QED BY <3>1, <3>2, Zenon
  <2>2. worker[w].pc \in {"retryOpen", "retrySend"}
    BY <1>8 DEF StepRetry
  <2>3. ASSUME NEW pc \in {"schedule", "logRetry"}, NEW at, WorkerWaits(w, pc, at)
        PROVE  /\ worker'[w].pc = pc /\ worker'[w].id = worker[w].id
               /\ worker'[w].now = worker[w].now
    BY <2>3, WorkerRecords, Zenon
  <2>4. \/ WorkerReturns(w)
        \/ /\ worker'[w].pc \in {"schedule", "logRetry"} /\ worker'[w].id = worker[w].id
           /\ worker'[w].now = worker[w].now
    BY <2>1, <2>3, Zenon
  <2> QED BY <1>1, <2>2, <2>4
<1>9. CASE StepRevive(w)
  BY <1>1, <1>9, WorkerRecords DEF StepRevive
<1>10. CASE StepLogDead(w)
  BY <1>1, <1>10, WorkerRecords DEF StepLogDead
<1>11. CASE StepLogRetry(w)
  BY <1>1, <1>11, WorkerRecords DEF StepLogRetry
<1>12. CASE StepLogDelivered(w) \/ StepSchedule(w)
  BY <1>1, <1>12 DEF StepLogDelivered, StepSchedule
<1> QED BY <1>1, <1>2, <1>3, <1>4, <1>5, <1>6, <1>7, <1>8, <1>9, <1>10, <1>11, <1>12
        DEF WorkerStep

LEMMA TimesReadInvariant == Spec => []TimesRead
<1>1. Init => TimesRead
  BY DEF Init, IdleWorker, TimesRead
<1>2. TypeOK /\ TimesRead /\ [Next]_vars => TimesRead'
  <2> SUFFICES ASSUME TypeOK, TimesRead, [Next]_vars, NEW w \in Workers
               PROVE  worker'[w].now <= clock'
    BY DEF TimesRead
  <2>0. worker[w].now \in Nat /\ clock \in Nat /\ clock' \in Nat /\ worker[w].now <= clock
    <3>1. TypeOK'
      BY TypeNext
    <3> QED BY <3>1, TypeParts, WorkerRecords DEF TimesRead, WorkerRecord, TypeOK
  <2>1. clock <= clock'
    BY ClockGrows
  <2>2. worker'[w].now \in {worker[w].now, 0, clock}
    BY WorkerChanges, WorkerKeeps DEF IdleWorker
  <2> QED BY <2>0, <2>1, <2>2
<1> QED BY <1>1, <1>2, TypeCorrect, PTL DEF Spec

\* A leased delivery passes from one lease to the next only once the first ran out, for every
\* worker, however long ago it read the time (store Acquire compares that time).
THEOREM LeasesRunOut == Spec => TakeoverAfterExpiry
<1> DEFINE Waits == \A id \in Ids :
              /\ deliveries[id].state = "leased" /\ deliveries'[id].state = "leased"
              /\ deliveries[id].leaseEpoch # deliveries'[id].leaseEpoch
              => deliveries[id].leaseUntil <= clock
<1>1. TypeOK /\ TimesRead /\ [Next]_vars => Waits
  <2> SUFFICES ASSUME TypeOK, TimesRead, [Next]_vars, NEW id \in Ids,
                      deliveries[id].state = "leased", deliveries'[id].state = "leased",
                      deliveries[id].leaseEpoch # deliveries'[id].leaseEpoch
               PROVE  deliveries[id].leaseUntil <= clock
    BY Zenon
  <2>0. deliveries[id] \in Delivery /\ clock \in Nat
    BY TypeParts DEF StoreTypeOK, Delivery, EnvTypeOK
  <2>1. Failed(deliveries[id], "dead").state = "dead"
    BY <2>0, RecordFields DEF DeliveryStates
  <2>2. PICK w \in Workers : Acquirable(id, worker[w].now)
    BY <2>1, DeliveryChanges
  <2>3. worker[w].now \in Nat /\ worker[w].now <= clock /\ deliveries[id].leaseUntil \in Nat
    BY <2>0, WorkerRecords DEF WorkerRecord, Delivery, DeliveryRecord, TimesRead
  <2>4. ~(deliveries[id].leaseUntil > worker[w].now)
    BY <2>2 DEF Acquirable
  <2> QED BY <2>0, <2>3, <2>4
<1>2. TypeOK /\ TimesRead /\ [Next]_vars => [Waits]_vars
  BY <1>1
<1> QED BY <1>2, TypeCorrect, TimesReadInvariant, PTL DEF Spec, TakeoverAfterExpiry

\* A worker's own step keeps its copy current while its lease stands.
LEMMA OwnLeaseCopy ==
  ASSUME TypeOK, LeaseCopyCurrent, NEW w \in Workers, WorkerStep(w),
         worker'[w].pc \in {"allow", "send", "retryOpen", "retrySend", "complete", "dead"},
         deliveries'[worker'[w].id].state = "leased",
         deliveries'[worker'[w].id].leaseOwner = w,
         deliveries'[worker'[w].id].leaseEpoch = worker'[w].epoch
  PROVE  /\ deliveries'[worker'[w].id].event = worker'[w].event
         /\ deliveries'[worker'[w].id].attempt = worker'[w].attempt
         /\ deliveries'[worker'[w].id].leaseUntil = worker'[w].now + LeaseTTL
<1>1. worker'[w].pc # "idle" /\ worker'[w].pc # "acquire" /\ worker'[w] # IdleWorker
  BY DEF IdleWorker
<1>2. deliveries \in [Ids -> Delivery] /\ worker[w].now \in Nat
  BY TypeParts, WorkerRecords DEF StoreTypeOK, Delivery, WorkerRecord
<1>3. CASE /\ worker[w].pc = "acquire" /\ worker'[w].pc = "allow"
           /\ worker'[w].id = worker[w].id /\ worker'[w].now = worker[w].now
           /\ WorkerTakes(w, deliveries[worker[w].id])
           /\ Acquire(worker[w].id, w, worker[w].now, LeaseTTL)
  <2> DEFINE id == worker[w].id
  <2>1. id \in Ids
    BY <1>3, TypeParts DEF WorkerTypeOK
  <2>2. deliveries'[id] = Leased(deliveries[id], w, worker[w].now + LeaseTTL)
    BY <1>2, <1>3, <2>1, Zenon DEF Acquire
  <2>3. worker[w].now + LeaseTTL \in Nat
    BY <1>2, RelayConstants
  <2>4. /\ deliveries'[id].event = deliveries[id].event
        /\ deliveries'[id].attempt = deliveries[id].attempt
        /\ deliveries'[id].leaseUntil = worker[w].now + LeaseTTL
    BY <1>2, <2>1, <2>2, <2>3, RecordFields
  <2>5. worker'[w].event = deliveries[id].event /\ worker'[w].attempt = deliveries[id].attempt
    BY <1>3, WorkerRecords
  <2> QED BY <1>3, <2>4, <2>5
<1>4. CASE /\ worker[w].pc \in {"allow", "send"} /\ UNCHANGED deliveries
           /\ WorkerGoes(w, worker'[w].pc)
  <2>1. /\ worker'[w].id = worker[w].id /\ worker'[w].now = worker[w].now
        /\ worker'[w].event = worker[w].event /\ worker'[w].epoch = worker[w].epoch
        /\ worker'[w].attempt = worker[w].attempt
    BY <1>4, WorkerRecords
  <2>2. Holding(w) /\ HoldsLease(worker[w].id, w, worker[w].epoch)
    BY <1>4, <2>1 DEF Holding, HoldsLease
  <2> QED BY <1>4, <2>1, <2>2 DEF LeaseCopyCurrent
<1> QED BY <1>1, <1>3, <1>4, WorkerKeeps

\* Only the worker's own step, or the end of its lease, changes what it has a copy of.
LEMMA LeaseCopyStep ==
  ASSUME TypeOK, LeaseCopyCurrent, [Next]_vars
  PROVE  LeaseCopyCurrent'
<1> SUFFICES ASSUME NEW w \in Workers,
                    worker'[w].pc \in {"allow", "send", "retryOpen", "retrySend", "complete", "dead"},
                    deliveries'[worker'[w].id].state = "leased",
                    deliveries'[worker'[w].id].leaseOwner = w,
                    deliveries'[worker'[w].id].leaseEpoch = worker'[w].epoch
             PROVE  /\ deliveries'[worker'[w].id].event = worker'[w].event
                    /\ deliveries'[worker'[w].id].attempt = worker'[w].attempt
                    /\ deliveries'[worker'[w].id].leaseUntil = worker'[w].now + LeaseTTL
  BY DEF LeaseCopyCurrent, Holding, HoldsLease
<1>1. CASE WorkerStep(w)
  BY <1>1, OwnLeaseCopy
<1>2. CASE worker'[w] = worker[w]
  <2> DEFINE id == worker[w].id
  <2>1. id \in Ids /\ deliveries[id] \in Delivery
    BY <1>2, TypeParts DEF WorkerTypeOK, StoreTypeOK, Delivery
  <2>2. "dead" \in DeliveryStates /\ Failed(deliveries[id], "dead").state = "dead"
    BY <2>1, RecordFields DEF DeliveryStates
  <2>3. ASSUME NEW v \in Workers, worker[v].pc = "acquire",
               deliveries'[id] = Leased(deliveries[id], v, worker[v].now + LeaseTTL)
        PROVE  FALSE
    <3>1. v # w
      BY <1>2, <2>3
    <3>2. worker[v].now + LeaseTTL \in Nat
      BY WorkerRecords, RelayConstants DEF WorkerRecord
    <3>3. deliveries'[id].leaseOwner = v
      BY <2>1, <2>3, <3>2, RecordFields
    <3> QED BY <1>2, <3>1, <3>3
  <2>4. deliveries'[id] = deliveries[id]
    BY <1>2, <2>1, <2>2, <2>3, DeliveryChanges
  <2>5. Holding(w) /\ HoldsLease(id, w, worker[w].epoch)
    BY <1>2, <2>4 DEF Holding, HoldsLease
  <2> QED BY <1>2, <2>4, <2>5 DEF LeaseCopyCurrent
<1> QED BY <1>1, <1>2, WorkerChanges

\* While a worker's lease stands, the copy Acquire gave it is current: no other goroutine
\* changes a delivery without ending the lease.
THEOREM LeaseCopies == Spec => []LeaseCopyCurrent
<1>1. Init => LeaseCopyCurrent
  BY DEF Init, IdleWorker, LeaseCopyCurrent, Holding
<1>2. TypeOK /\ LeaseCopyCurrent /\ [Next]_vars => LeaseCopyCurrent'
  BY LeaseCopyStep
<1> QED BY <1>1, <1>2, TypeCorrect, PTL DEF Spec

------------------------------------------------------------------------------
(* Giving up *)

\* A worker about to give a delivery up is at its last attempt.
LastAttempt == \A w \in Workers : worker[w].pc = "dead" => worker[w].attempt + 1 >= MaxAttempts

\* The copy's attempt is compared with MaxAttempts in the step that decides to give up.
LEMMA LastAttemptStep ==
  ASSUME TypeOK, LastAttempt, [Next]_vars
  PROVE  LastAttempt'
<1> SUFFICES ASSUME NEW w \in Workers, worker'[w].pc = "dead"
             PROVE  worker'[w].attempt + 1 >= MaxAttempts
  BY DEF LastAttempt
<1>1. CASE worker'[w] = worker[w]
  BY <1>1 DEF LastAttempt
<1>2. CASE WorkerStep(w)
  <2>1. worker'[w] # IdleWorker
    BY DEF IdleWorker
  <2>2. WorkerGoes(w, "dead") /\ worker[w].attempt + 1 >= MaxAttempts
    BY <1>2, <2>1, WorkerKeeps
  <2> QED BY <2>2, WorkerRecords
<1> QED BY <1>1, <1>2, WorkerChanges

LEMMA LastAttemptInvariant == Spec => []LastAttempt
<1>1. Init => LastAttempt
  BY DEF Init, IdleWorker, LastAttempt
<1>2. TypeOK /\ LastAttempt /\ [Next]_vars => LastAttempt'
  BY LastAttemptStep
<1> QED BY <1>1, <1>2, TypeCorrect, PTL DEF Spec

\* Dead goes through only under the lease, and then counts the attempt the copy shows.
LEMMA ExhaustedStep ==
  ASSUME TypeOK, LeaseCopyCurrent, LastAttempt, DeadIsExhausted, [Next]_vars
  PROVE  DeadIsExhausted'
<1> SUFFICES ASSUME NEW id \in Ids, deliveries'[id].state = "dead"
             PROVE  deliveries'[id].attempt >= MaxAttempts
  BY DEF DeadIsExhausted
<1>0. deliveries[id] \in Delivery
  BY TypeParts DEF StoreTypeOK, Delivery
<1>1. CASE deliveries'[id] = deliveries[id]
  BY <1>1 DEF DeadIsExhausted
<1>2. ASSUME NEW w \in Workers, worker[w].id = id, worker[w].pc = "dead",
             HoldsLease(id, w, worker[w].epoch),
             deliveries'[id] = Failed(deliveries[id], "dead")
      PROVE  deliveries'[id].attempt >= MaxAttempts
  <2>1. deliveries[id].attempt = worker[w].attempt
    BY <1>2 DEF LeaseCopyCurrent, Holding
  <2>2. deliveries'[id].attempt = deliveries[id].attempt + 1
    BY <1>0, <1>2, RecordFields DEF DeliveryStates
  <2> QED BY <1>2, <2>1, <2>2 DEF LastAttempt
<1>3. ASSUME NEW w \in Workers,
             deliveries'[id] = Leased(deliveries[id], w, worker[w].now + LeaseTTL)
      PROVE  FALSE
  <2>1. worker[w].now + LeaseTTL \in Nat
    BY WorkerRecords, RelayConstants DEF WorkerRecord
  <2> QED BY <1>0, <1>3, <2>1, RecordFields
<1> QED BY <1>1, <1>2, <1>3, DeliveryChanges

\* A delivery is dead only after MaxAttempts failed attempts: Worker.Step decides from its
\* copy of the delivery, which LeaseCopies shows to be current when Dead goes through.
THEOREM DeadAreExhausted == Spec => []DeadIsExhausted
<1>1. Init => DeadIsExhausted
  BY DEF Init, StoreInit, ZeroDelivery, DeadIsExhausted
<1>2. TypeOK /\ LeaseCopyCurrent /\ LastAttempt /\ DeadIsExhausted /\ [Next]_vars
        => DeadIsExhausted'
  BY ExhaustedStep
<1> QED BY <1>1, <1>2, TypeCorrect, LeaseCopies, LastAttemptInvariant, PTL DEF Spec

\* The journal only grows, so an entry it has stays.
LEMMA EntriesStay ==
  ASSUME TypeOK, [Next]_vars, NEW id, NEW t, HasEntry(id, t)
  PROVE  HasEntry(id, t)'
<1>1. journal \in Seq(Entry)
  BY TypeParts DEF JournalTypeOK
<1>2. UNCHANGED journal \/ \E entry : journal' = Append(journal, entry)
  <2>1. CASE UNCHANGED vars
    BY <2>1 DEF vars, sharedVars, journalVars
  <2>2. CASE Tick \/ InjectRejection \/ \E e \in Endpoints : ResetBreaker(e)
    BY <2>2 DEF Tick, InjectRejection, RejectNextAppend, ResetBreaker, sharedVars, journalVars
  <2>a. ASSUME NEW i, NEW x, NEW at, AppendAccepted(i, x, at) \/ AppendRejected
        PROVE  UNCHANGED journal \/ \E entry : journal' = Append(journal, entry)
    BY <2>a, Zenon DEF AppendAccepted, AppendRejected
  <2>3. ASSUME NEW c \in Clients, SubmitStep(c) \/ \E e \in Events : SubmitBegin(c, e)
        PROVE  UNCHANGED journal \/ \E entry : journal' = Append(journal, entry)
    <3>1. \/ UNCHANGED journalVars
          \/ \E i, x, at : AppendAccepted(i, x, at) \/ AppendRejected
      BY <2>3 DEF SubmitStep, SubmitBegin, SubmitReserve, SubmitAppend, SubmitSchedule,
                  SubmitRollback, SubmitLogDead
    <3> QED BY <2>a, <3>1 DEF journalVars
  <2>4. ASSUME NEW w, WorkerStep(w) \/ StepBegin(w) \/ \E i \in Ids : StepForBegin(w, i)
        PROVE  UNCHANGED journal \/ \E entry : journal' = Append(journal, entry)
    <3>1. \/ UNCHANGED journalVars
          \/ \E i, x, at : AppendAccepted(i, x, at) \/ AppendRejected
      BY <2>4 DEF WorkerStep, StepPop, StepAcquire, StepAllow, SendReturns, StepComplete,
                  StepDead, StepRetry, StepLogDelivered, StepLogDead, StepRevive, StepLogRetry,
                  StepSchedule, StepBegin, StepForBegin, sharedVars
    <3> QED BY <2>a, <3>1 DEF journalVars
  <2>5. ASSUME NEW r \in Replayers, ReplayStep(r) PROVE UNCHANGED journal
    BY <2>5 DEF ReplayStep, ReplayBegin, ReplayEntry, replayFrame, journalVars
  <2>6. ASSUME NEW s \in Supervisors, SweepStep(s) PROVE UNCHANGED journal
    BY <2>6 DEF SweepStep, OverdueRead, OverdueSchedule, sweepFrame, journalVars
  <2> QED BY <2>1, <2>2, <2>3, <2>4, <2>5, <2>6 DEF Next, Workers
<1>3. PICK i \in DOMAIN journal : journal[i].delivery = id /\ journal[i].transition = t
  BY DEF HasEntry
<1>4. i \in DOMAIN journal' /\ journal'[i] = journal[i]
  <2>1. ASSUME NEW entry, journal' = Append(journal, entry)
        PROVE  i \in DOMAIN journal' /\ journal'[i] = journal[i]
    <3>1. i \in 1..Len(journal)
      BY <1>1, <1>3
    <3> QED BY <1>1, <2>1, <3>1
  <2> QED BY <1>2, <1>3, <2>1
<1> QED BY <1>3, <1>4 DEF HasEntry

\* What the worker that gave a delivery up does next.
LEMMA TerminalEntry ==
  ASSUME TypeOK, [Next]_vars, NEW w \in Workers, NEW id, worker[w].id = id,
         worker[w].pc \in {"logDead", "revive"}
  PROVE  \/ worker'[w].pc \in {"logDead", "revive"} /\ worker'[w].id = id
         \/ HasEntry(id, "dead")'
         \/ deliveries'[id].state # "dead"
<1>0. /\ journal \in Seq(Entry) /\ id \in Ids /\ deliveries \in [Ids -> Delivery]
      /\ worker[w].now \in Nat
  BY TypeParts, WorkerRecords DEF JournalTypeOK, WorkerTypeOK, WorkerRecord, StoreTypeOK, Delivery
<1>1. CASE worker'[w] = worker[w]
  BY <1>1
<1>2. CASE StepLogDead(w)
  <2>1. ASSUME AppendAccepted(id, "dead", worker[w].now)
        PROVE  HasEntry(id, "dead")'
    <3> DEFINE entry == [delivery |-> id, transition |-> "dead", at |-> worker[w].now]
    <3>1. entry.delivery = id /\ entry.transition = "dead" /\ entry \in Entry
      BY <1>0 DEF Entry, Transitions, TerminalStates
    <3>2. journal' = Append(journal, entry)
      BY <2>1 DEF AppendAccepted
    <3> HIDE DEF entry
    <3>3. Len(journal) + 1 \in DOMAIN journal' /\ journal'[Len(journal) + 1] = entry
      BY <1>0, <3>1, <3>2
    <3> QED BY <3>1, <3>3 DEF HasEntry
  <2>2. ASSUME WorkerGoes(w, "revive")
        PROVE  worker'[w].pc = "revive" /\ worker'[w].id = id
    BY <2>2, WorkerRecords
  <2> QED BY <1>2, <2>1, <2>2 DEF StepLogDead
<1>3. CASE StepRevive(w)
  <2>1. ASSUME NEW at, ReviveDead(id, at)
        PROVE  deliveries'[id].state # "dead"
    BY <1>0, <2>1, WrittenStates DEF ReviveDead
  <2> QED BY <1>3, <2>1 DEF StepRevive, storeVars
<1>4. WorkerStep(w) => StepLogDead(w) \/ StepRevive(w)
  BY DEF WorkerStep, StepPop, StepAcquire, StepAllow, SendReturns, StepComplete, StepDead,
         StepRetry, StepLogDelivered, StepLogRetry, StepSchedule
<1> QED BY <1>1, <1>2, <1>3, <1>4, WorkerChanges

\* Whoever gives a delivery up goes on to log it, and revives it where that fails.
LEMMA JournaledStep ==
  ASSUME TypeOK, DeadIsJournaled, [Next]_vars
  PROVE  DeadIsJournaled'
<1> SUFFICES ASSUME NEW id \in Ids, deliveries'[id].state = "dead"
             PROVE  \/ HasEntry(id, "dead")'
                    \/ \E w \in Workers : worker'[w].pc \in {"logDead", "revive"} /\ worker'[w].id = id
  BY DEF DeadIsJournaled
<1>0. deliveries[id] \in Delivery
  BY TypeParts DEF StoreTypeOK, Delivery
<1>1. CASE deliveries'[id] = deliveries[id]
  <2>1. CASE HasEntry(id, "dead")
    BY <2>1, EntriesStay
  <2>2. ASSUME NEW w \in Workers, worker[w].pc \in {"logDead", "revive"}, worker[w].id = id
        PROVE  \/ HasEntry(id, "dead")'
               \/ worker'[w].pc \in {"logDead", "revive"} /\ worker'[w].id = id
    BY <2>2, TerminalEntry
  <2> QED BY <1>1, <2>1, <2>2 DEF DeadIsJournaled
<1>2. ASSUME NEW w \in Workers, worker[w].id = id, WorkerGoes(w, "logDead")
      PROVE  worker'[w].pc = "logDead" /\ worker'[w].id = id
  BY <1>2, WorkerRecords
<1>3. ASSUME NEW w \in Workers,
             deliveries'[id] = Leased(deliveries[id], w, worker[w].now + LeaseTTL)
      PROVE  FALSE
  <2>1. worker[w].now + LeaseTTL \in Nat
    BY WorkerRecords, RelayConstants DEF WorkerRecord
  <2> QED BY <1>0, <1>3, <2>1, RecordFields
<1> QED BY <1>1, <1>2, <1>3, DeliveryChanges

\* A dead delivery has its terminal journal entry, or the worker that gave it up is still to
\* append it or to revive the delivery (Worker.Step after Dead).
THEOREM DeadAreJournaled == Spec => []DeadIsJournaled
<1>1. Init => DeadIsJournaled
  BY DEF Init, StoreInit, ZeroDelivery, DeadIsJournaled
<1>2. TypeOK /\ DeadIsJournaled /\ [Next]_vars => DeadIsJournaled'
  BY JournaledStep
<1> QED BY <1>1, <1>2, TypeCorrect, PTL DEF Spec

==============================================================================
