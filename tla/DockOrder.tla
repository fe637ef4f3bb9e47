------------------------------ MODULE DockOrder ------------------------------
(***************************************************************************)
(* Types of the dock's variables, and the two orders it keeps: that of the *)
(* dead letters, which names each entry once, and that of the priorities   *)
(* by which a supervisor drains the window.                                *)
(***************************************************************************)
EXTENDS DockProofs, SelectionProofs

------------------------------------------------------------------------------
(* The invariant of the types *)

\* The order of the dead letters has each entry, once.
LedgerInOrder ==
  /\ RetentionTypeOK
  /\ IsInjective(deadOrder) /\ ToSet(deadOrder) = Tracked

WindowFits == IsFiniteSet(Waiting) /\ Cardinality(Waiting) <= WindowCapacity

SuperCall == [pc : SuperPCs, now : Nat, todo : SUBSET (Overdue \cup Ids \cup TakePlaces \cup Events)]

\* What a supervisor has to handle is what the part of the pass it is in handles.
SuperFits(call) ==
  /\ call.pc = "requeue" => call.todo \subseteq Overdue
  /\ call.pc = "close" => call.todo \subseteq Ids
  /\ call.pc = "take" => call.todo \subseteq TakePlaces
  /\ call.pc = "scan" => call.todo \subseteq Events
  /\ call.pc \notin {"requeue", "close", "take", "scan"} => call.todo = {}

PassesFit ==
  /\ super \in [Supervisors -> SuperCall]
  /\ \A s \in Supervisors : SuperFits(super[s])

BatchesFit == \A d \in Dispatchers : dispatch[d].todo \subseteq DOMAIN dispatch[d].batch

PartsFit ==
  /\ JournalTypeOK /\ SchedulerTypeOK
  /\ WindowFits /\ PriorityTypeOK /\ ExpiryTypeOK /\ LedgerInOrder

\* Nothing in the dock itself leases a delivery.
Types == Shapes /\ CallsHaveKeys /\ StoreTypeOK({}) /\ PartsFit /\ BatchesFit /\ PassesFit

------------------------------------------------------------------------------
(* The retention ledger *)

LEMMA TrackedInOrder ==
  ASSUME LedgerInOrder, NEW id \in Ids, NEW now \in Nat, TrackDead(id, now)
  PROVE  LedgerInOrder'
<1>1. /\ id \notin Tracked /\ Tracked \subseteq Ids /\ dead \in [Tracked -> Nat]
      /\ dead' = [i \in Tracked \cup {id} |-> IF i = id THEN now ELSE dead[i]]
      /\ lastReap' = lastReap /\ lastReap \in Nat
  BY DEF LedgerInOrder, RetentionTypeOK, TrackDead
<1>2. Tracked' = Tracked \cup {id} /\ dead' \in [Tracked' -> Nat] /\ Tracked' \subseteq Ids
  BY <1>1 DEF Tracked
<1>3. /\ deadOrder' \in Seq(Ids) /\ IsInjective(deadOrder')
      /\ ToSet(deadOrder') = ToSet(deadOrder) \cup {id}
  BY <1>1, AppendKeeps DEF LedgerInOrder, RetentionTypeOK, TrackDead
<1> QED BY <1>1, <1>2, <1>3 DEF LedgerInOrder, RetentionTypeOK

LEMMA PurgedInOrder ==
  ASSUME LedgerInOrder, NEW now, PurgeExpired(now)
  PROVE  LedgerInOrder'
<1>1. PICK expired : /\ expired \subseteq Tracked
                     /\ dead' = [i \in Tracked \ expired |-> dead[i]]
                     /\ deadOrder' = Selected(deadOrder, Ids \ expired)
                     /\ lastReap' = lastReap
  BY DEF PurgeExpired, Without
<1>2. /\ Tracked \subseteq Ids /\ dead \in [Tracked -> Nat] /\ lastReap \in Nat
      /\ deadOrder \in Seq(Ids) /\ IsInjective(deadOrder) /\ ToSet(deadOrder) = Tracked
  BY DEF LedgerInOrder, RetentionTypeOK
<1>3. Tracked' = Tracked \ expired /\ dead' \in [Tracked' -> Nat]
  BY <1>1, <1>2 DEF Tracked
<1>4. /\ deadOrder' \in Seq(Ids) /\ IsInjective(deadOrder')
      /\ ToSet(deadOrder') = Tracked \cap (Ids \ expired)
  BY <1>1, <1>2, SelectedProperties
<1> QED BY <1>1, <1>2, <1>3, <1>4 DEF LedgerInOrder, RetentionTypeOK

LEMMA EvictedInOrder ==
  ASSUME LedgerInOrder, PurgeOverCapacity, lastReap' \in Nat
  PROVE  LedgerInOrder'
<1>1. /\ Tracked \subseteq Ids /\ dead \in [Tracked -> Nat]
      /\ deadOrder \in Seq(Ids) /\ IsInjective(deadOrder) /\ ToSet(deadOrder) = Tracked
  BY DEF LedgerInOrder, RetentionTypeOK
<1>2. Cardinality(Tracked) = Len(deadOrder) /\ Len(deadOrder) \in Nat
  BY <1>1, InjectiveLength
<1>3. PICK n : /\ n = IF MaxDead > 0 /\ Cardinality(Tracked) > MaxDead
                      THEN Cardinality(Tracked) - MaxDead ELSE 0
               /\ dead' = [i \in Tracked \ {deadOrder[j] : j \in 1 .. n} |-> dead[i]]
               /\ deadOrder' = SubSeq(deadOrder, n + 1, Len(deadOrder))
  BY DEF PurgeOverCapacity, Without
<1>4. n \in 0 .. Len(deadOrder)
  BY <1>2, <1>3, RetentionConstants
<1>5. /\ Tracked' = Tracked \ {deadOrder[j] : j \in 1 .. n}
      /\ Tracked' \subseteq Ids /\ dead' \in [Tracked' -> Nat]
  BY <1>1, <1>3 DEF Tracked
<1>6. deadOrder' \in Seq(Ids) /\ IsInjective(deadOrder') /\ ToSet(deadOrder') = Tracked'
  BY <1>1, <1>3, <1>4, <1>5, Rest
<1> QED BY <1>5, <1>6 DEF LedgerInOrder, RetentionTypeOK

------------------------------------------------------------------------------
(* The other parts *)

\* A map stays within its bound.
LEMMA SmallerSet ==
  ASSUME NEW S, IsFiniteSet(S), NEW n \in Nat, Cardinality(S) <= n, NEW T \in SUBSET S
  PROVE  IsFiniteSet(T) /\ Cardinality(T) <= n
<1>1. IsFiniteSet(T) /\ Cardinality(T) <= Cardinality(S)
  BY FS_Subset
<1>2. Cardinality(T) \in Nat /\ Cardinality(S) \in Nat
  BY <1>1, FS_CardinalityType
<1> QED BY <1>1, <1>2

LEMMA LargerSet ==
  ASSUME NEW S, IsFiniteSet(S), NEW n \in Nat, Cardinality(S) <= n, NEW x,
         x \in S \/ Cardinality(S) < n
  PROVE  IsFiniteSet(S \cup {x}) /\ Cardinality(S \cup {x}) <= n
<1>1. CASE x \in S
  <2>1. S \cup {x} = S
    BY <1>1
  <2> QED BY <2>1
<1>2. CASE x \notin S
  <2>1. IsFiniteSet(S \cup {x}) /\ Cardinality(S \cup {x}) = Cardinality(S) + 1
    BY <1>2, FS_AddElement
  <2>2. Cardinality(S) \in Nat
    BY FS_CardinalityType
  <2> QED BY <1>2, <2>1, <2>2
<1> QED BY <1>1, <1>2

LEMMA QueueTypes ==
  ASSUME SchedulerTypeOK
  PROVE  /\ \A id \in Ids, ready \in Int : Schedule(id, ready) => SchedulerTypeOK'
         /\ \A id, now : PopReady(id, now) => SchedulerTypeOK'
         /\ UNCHANGED queue => SchedulerTypeOK'
<1>1. /\ Queued \subseteq Ids /\ queue \in [Queued -> Int]
      /\ IsFiniteSet(Queued) /\ Cardinality(Queued) <= Capacity
  BY DEF SchedulerTypeOK
<1>2. ASSUME NEW id \in Ids, NEW ready \in Int, Schedule(id, ready) PROVE SchedulerTypeOK'
  <2>1. Queued' = Queued \cup {id} /\ queue' \in [Queued' -> Int]
    BY <1>1, <1>2 DEF Schedule, Queued
  <2>2. IsFiniteSet(Queued') /\ Cardinality(Queued') <= Capacity
    BY <1>1, <1>2, <2>1, LargerSet, CapacityIsNat DEF Schedule, HasRoom
  <2> QED BY <1>1, <2>1, <2>2 DEF SchedulerTypeOK
<1>3. ASSUME NEW id, NEW now, PopReady(id, now) PROVE SchedulerTypeOK'
  <2>1. Queued' = Queued \ {id} /\ queue' \in [Queued' -> Int]
    BY <1>1, <1>3 DEF PopReady, Queued
  <2>2. IsFiniteSet(Queued') /\ Cardinality(Queued') <= Capacity
    BY <1>1, <2>1, SmallerSet, CapacityIsNat
  <2> QED BY <1>1, <2>1, <2>2 DEF SchedulerTypeOK
<1> QED BY <1>1, <1>2, <1>3 DEF SchedulerTypeOK, Queued

LEMMA WindowTypes ==
  ASSUME WindowFits
  PROVE  /\ \A id, now : WindowAdd(id, now) => WindowFits'
         /\ Waiting' \subseteq Waiting => WindowFits'
<1>1. ASSUME NEW id, NEW now, WindowAdd(id, now) PROVE WindowFits'
  <2>1. Waiting' = Waiting \cup {id}
    BY <1>1 DEF WindowAdd, Waiting
  <2> QED BY <1>1, <2>1, LargerSet, WindowConstants DEF WindowAdd, WindowFits
<1> QED BY <1>1, SmallerSet, WindowConstants DEF WindowFits

LEMMA PriorityTypes ==
  ASSUME PriorityTypeOK
  PROVE  /\ \A id \in Ids, e \in Events : SetPriority(id, e) => PriorityTypeOK'
         /\ \A id : Take(id) => PriorityTypeOK'
         /\ UNCHANGED priority => PriorityTypeOK'
BY PriorityConstants DEF PriorityTypeOK, SetPriority, Take, Ranked

LEMMA ExpiryTypes ==
  ASSUME ExpiryTypeOK
  PROVE  /\ \A x \in EventIds : Protect(x) => ExpiryTypeOK'
         /\ \A x : Unprotect(x) => ExpiryTypeOK'
         /\ \A events \in SUBSET Events, now \in Nat : RunSweep(events, now) => ExpiryTypeOK'
         /\ UNCHANGED expiryVars => ExpiryTypeOK'
BY ExpiryConstants DEF ExpiryTypeOK, Protect, Unprotect, RunSweep, Scan, expiryVars

LEMMA LedgerSame ==
  ASSUME LedgerInOrder, UNCHANGED retentionVars
  PROVE  LedgerInOrder'
BY DEF LedgerInOrder, RetentionTypeOK, retentionVars, Tracked

LEMMA StoreSame ==
  ASSUME NEW O, StoreTypeOK(O), UNCHANGED storeVars
  PROVE  StoreTypeOK(O)'
BY DEF StoreTypeOK, storeVars

LEMMA StoreTypesInit ==
  ASSUME NEW O, Init
  PROVE  StoreTypeOK(O)
<1>1. /\ deliveries = [id \in Ids |-> ZeroDelivery]
      /\ reserved = [k \in Keys |-> NoId]
  BY Zenon DEF Init, StoreInit
<1>2. deliveries \in [Ids -> DeliveryRecord(O)]
  BY <1>1, RecordTypes, Zenon
<1>3. reserved \in [Keys -> Ids \cup {NoId}]
  BY <1>1
<1> QED BY <1>2, <1>3 DEF StoreTypeOK

LEMMA JournalSame ==
  ASSUME JournalTypeOK, UNCHANGED journalVars
  PROVE  JournalTypeOK'
BY DEF JournalTypeOK, journalVars

------------------------------------------------------------------------------
(* Steps *)

LEMMA ClientKeys ==
  ASSUME Shapes, CallsHaveKeys, NEW c \in Clients,
         SubmitStep(c) \/ \E e \in Events, s \in Specs : SubmitBegin(c, e, s)
  PROVE  CallsHaveKeys'
<1>1. ASSUME \A b \in Clients \ {c} : client'[b] = client[b],
             \/ client'[c].pc = "idle"
             \/ /\ client'[c].event \in Events
                /\ \E s \in Specs : client'[c].id = IdOf[<<s, KeyOf[client'[c].event]>>]
      PROVE  CallsHaveKeys'
  BY <1>1 DEF CallsHaveKeys
<1>2. CASE ClientReturns(c)
  BY <1>1, <1>2, Returns
<1>3. CASE client[c].pc # "idle" /\ \E pc \in ClientPCs : ClientGoes(c, pc)
  <2>1. PICK pc \in ClientPCs : ClientGoes(c, pc)
    BY <1>3
  <2>2. /\ client'[c].event = client[c].event /\ client'[c].id = client[c].id
        /\ \A b \in Clients \ {c} : client'[b] = client[b]
    BY <2>1, GoesOn
  <2> QED BY <1>1, <1>3, <2>2 DEF CallsHaveKeys
<1>4. CASE \E e \in Events, s \in Specs : SubmitBegin(c, e, s)
  <2>1. PICK e \in Events, s \in Specs : SubmitBegin(c, e, s)
    BY <1>4
  <2>2. PICK r : r = [pc |-> "reserve", event |-> e, id |-> IdOf[s, KeyOf[e]], at |-> 0]
    OBVIOUS
  <2>3. client' = [client EXCEPT ![c] = r]
    BY <2>1, <2>2, Zenon DEF SubmitBegin
  <2>4. r.event = e /\ r.id = IdOf[<<s, KeyOf[e]>>]
    BY <2>2
  <2> QED BY <1>1, <2>3, <2>4 DEF Shapes
<1>5. CASE client[c].pc # "idle" /\ client' = [client EXCEPT ![c].pc = "append", ![c].at = clock]
  <2>1. PICK now : now = clock
    OBVIOUS
  <2>2. client' = [client EXCEPT ![c] = [client[c] EXCEPT !.pc = "append", !.at = now]]
    BY <1>5, <2>1, Zenon
  <2>3. /\ client'[c].event = client[c].event /\ client'[c].id = client[c].id
        /\ \A b \in Clients \ {c} : client'[b] = client[b]
    BY <2>2 DEF Shapes, ClientCall
  <2> QED BY <1>1, <1>5, <2>3 DEF CallsHaveKeys
<1>6. CASE \/ SubmitAppend(c) \/ SubmitKeep(c) \/ SubmitSchedule(c) \/ SubmitProtect(c)
           \/ SubmitRank(c)
  BY <1>3, <1>6 DEF SubmitAppend, SubmitKeep, SubmitSchedule, SubmitProtect, SubmitRank, ClientPCs
<1>7. CASE SubmitReserve(c) \/ SubmitPop(c) \/ SubmitRollback(c) \/ SubmitAdd(c)
  BY <1>2, <1>5, <1>7 DEF SubmitReserve, SubmitPop, SubmitRollback, SubmitAdd
<1> QED BY <1>4, <1>6, <1>7 DEF SubmitStep

\* Whoever else works on the deliveries: O is the set of those that may own a lease.
LEMMA ClientStoreTypes ==
  ASSUME Shapes, CallsHaveKeys, NEW O, StoreTypeOK(O), NEW c \in Clients,
         SubmitStep(c) \/ \E e \in Events, s \in Specs : SubmitBegin(c, e, s)
  PROVE  StoreTypeOK(O)'
<1>1. PICK x : x = client[c].id
  OBVIOUS
<1>2. PICK e : e = client[c].event
  OBVIOUS
<1>3. client[c].pc # "idle" => e \in Events /\ x \in Ids /\ KeyOf[e] \in Keys
  BY <1>1, <1>2, CoreConstants, DockConstants DEF CallsHaveKeys
<1>4. clock \in Nat
  BY DEF Shapes
<1>5. \/ UNCHANGED storeVars
      \/ SubmitReserve(c) /\ Reserve(e, x, clock)
      \/ SubmitKeep(c) /\ KeepReservation(KeyOf[e], x)
      \/ SubmitRollback(c) /\ RollbackReservation(KeyOf[e], x)
  BY <1>1, <1>2 DEF SubmitStep, SubmitBegin, SubmitReserve, SubmitAppend, SubmitKeep, SubmitPop,
         SubmitSchedule, SubmitRollback, SubmitProtect, SubmitRank, SubmitAdd
<1>6. deliveries \in [Ids -> DeliveryRecord(O)] /\ reserved \in [Keys -> Ids \cup {NoId}]
  BY DEF StoreTypeOK
<1>7. CASE SubmitReserve(c) /\ Reserve(e, x, clock)
  <2>1. PICK r : r = NewDelivery(e, clock)
    OBVIOUS
  <2>2. x \in Ids /\ r \in DeliveryRecord(O)
    BY <1>3, <1>4, <1>7, <2>1, RecordTypes DEF SubmitReserve
  <2>3. /\ deliveries' = [deliveries EXCEPT ![x] = r]
        /\ reserved' = [reserved EXCEPT ![KeyOf[e]] = x]
    BY <1>7, <2>1 DEF Reserve
  <2> QED BY <1>6, <2>2, <2>3 DEF StoreTypeOK
<1>8. CASE KeepReservation(KeyOf[e], x) \/ RollbackReservation(KeyOf[e], x)
  <2>1. /\ deliveries' = deliveries \/ deliveries' = [deliveries EXCEPT ![x] = ZeroDelivery]
        /\ reserved' = reserved \/ reserved' = [reserved EXCEPT ![KeyOf[e]] = NoId]
    BY <1>8 DEF KeepReservation, RollbackReservation, storeVars
  <2> QED BY <1>6, <2>1, RecordTypes DEF StoreTypeOK
<1> QED BY <1>5, <1>7, <1>8, StoreSame

LEMMA ClientPartsFit ==
  ASSUME Shapes, CallsHaveKeys, PartsFit, NEW c \in Clients,
         SubmitStep(c) \/ \E e \in Events, s \in Specs : SubmitBegin(c, e, s)
  PROVE  PartsFit'
<1>1. PICK x : x = client[c].id
  OBVIOUS
<1>2. PICK e : e = client[c].event
  OBVIOUS
<1>3. client[c].pc # "idle" =>
        e \in Events /\ x \in Ids /\ KeyOf[e] \in Keys /\ EventIdOf[e] \in EventIds
  BY <1>1, <1>2, CoreConstants, DockConstants, ExpiryConstants DEF CallsHaveKeys
<1>4. client[c].at \in Nat /\ clock \in Nat
  BY DEF Shapes, ClientCall
<1>5. LedgerInOrder'
  <2>1. UNCHANGED retentionVars
    BY DEF SubmitStep, SubmitBegin, SubmitReserve, SubmitAppend, SubmitKeep, SubmitPop, SubmitSchedule,
           SubmitRollback, SubmitProtect, SubmitRank, SubmitAdd, partVars
  <2> QED BY <2>1, LedgerSame DEF PartsFit
<1>6. JournalTypeOK'
  <2>1. \/ UNCHANGED journalVars
        \/ SubmitAppend(c) /\ (AppendAccepted(x, "pending", clock) \/ AppendRejected)
    BY <1>1 DEF SubmitStep, SubmitBegin, SubmitReserve, SubmitAppend, SubmitKeep, SubmitPop,
           SubmitSchedule, SubmitRollback, SubmitProtect, SubmitRank, SubmitAdd
  <2>2. CASE SubmitAppend(c) /\ AppendAccepted(x, "pending", clock)
    BY <1>3, <1>4, <2>2, EntryAdded DEF SubmitAppend, PartsFit
  <2>3. CASE AppendRejected
    BY <2>3 DEF AppendRejected, JournalTypeOK, PartsFit
  <2> QED BY <2>1, <2>2, <2>3, JournalSame DEF PartsFit
<1>7. SchedulerTypeOK'
  <2>1. \/ UNCHANGED queue
        \/ \E id \in Queued : PopReady(id, clock)
        \/ SubmitSchedule(c) /\ Schedule(x, client[c].at)
    BY <1>1 DEF SubmitStep, SubmitBegin, SubmitReserve, SubmitAppend, SubmitKeep, SubmitPop, NoneReady,
           SubmitSchedule, ScheduleFull, SubmitRollback, SubmitProtect, SubmitRank, SubmitAdd
  <2> QED BY <1>3, <1>4, <2>1, QueueTypes DEF PartsFit, SubmitSchedule
<1>8. WindowFits'
  <2>1. \/ UNCHANGED window
        \/ WindowAdd(x, clock)
    BY <1>1 DEF SubmitStep, SubmitBegin, SubmitReserve, SubmitAppend, SubmitKeep, SubmitPop, WindowFull,
           SubmitSchedule, SubmitRollback, SubmitProtect, SubmitRank, SubmitAdd, partVars, windowVars
  <2> QED BY <2>1, WindowTypes DEF PartsFit, Waiting
<1>9. PriorityTypeOK'
  <2>1. \/ UNCHANGED priority
        \/ SubmitRank(c) /\ SetPriority(x, e)
    BY <1>1, <1>2 DEF SubmitStep, SubmitBegin, SubmitReserve, SubmitAppend, SubmitKeep, SubmitPop,
           SubmitSchedule, SubmitRollback, SubmitProtect, SubmitRank, SubmitAdd, partVars, windowVars
  <2> QED BY <1>3, <2>1, PriorityTypes DEF PartsFit, SubmitRank
<1>10. ExpiryTypeOK'
  <2>1. \/ UNCHANGED expiryVars
        \/ SubmitProtect(c) /\ Protect(EventIdOf[e])
    BY <1>2 DEF SubmitStep, SubmitBegin, SubmitReserve, SubmitAppend, SubmitKeep, SubmitPop,
           SubmitSchedule, SubmitRollback, SubmitProtect, SubmitRank, SubmitAdd, partVars
  <2> QED BY <1>3, <2>1, ExpiryTypes DEF PartsFit, SubmitProtect
<1> QED BY <1>5, <1>6, <1>7, <1>8, <1>9, <1>10 DEF PartsFit

LEMMA ClientTypes ==
  ASSUME Types, NEW c \in Clients,
         SubmitStep(c) \/ \E e \in Events, s \in Specs : SubmitBegin(c, e, s)
  PROVE  Types'
<1>1. dispatch' = dispatch /\ super' = super
  BY DEF SubmitStep, SubmitBegin, SubmitReserve, SubmitAppend, SubmitKeep, SubmitPop, SubmitSchedule,
         SubmitRollback, SubmitProtect, SubmitRank, SubmitAdd, clientFrame
<1>2. Shapes' /\ CallsHaveKeys' /\ StoreTypeOK({})' /\ PartsFit'
  BY ClientShapes, ClientKeys, ClientStoreTypes, ClientPartsFit DEF Types
<1> QED BY <1>1, <1>2 DEF Types, BatchesFit, PassesFit

\* A dispatcher has only items of its batch to handle.
LEMMA DispatchBatches ==
  ASSUME Shapes, BatchesFit, NEW d \in Dispatchers,
         DispatchStep(d) \/ \E scope \in Scopes : DispatchFlush(d, scope)
  PROVE  BatchesFit'
<1>1. dispatch \in [Dispatchers -> DispatchCall] /\ dispatch[d].todo \subseteq DOMAIN dispatch[d].batch
  BY DEF Shapes, BatchesFit
<1>2. ASSUME NEW r, r.todo \subseteq DOMAIN r.batch, dispatch' = [dispatch EXCEPT ![d] = r]
      PROVE  BatchesFit'
  BY <1>1, <1>2 DEF BatchesFit
<1>3. ASSUME NEW pc, NEW todo, DispatchGoes(d, pc, todo), todo \subseteq DOMAIN dispatch[d].batch
      PROVE  BatchesFit'
  <2>1. PICK r : r = [dispatch[d] EXCEPT !.pc = pc, !.todo = todo]
    OBVIOUS
  <2>2. dispatch' = [dispatch EXCEPT ![d] = r]
    BY <1>3, <2>1, Zenon DEF DispatchGoes
  <2>3. r.todo = todo /\ r.batch = dispatch[d].batch
    BY <1>1, <2>1 DEF DispatchCall
  <2> QED BY <1>2, <1>3, <2>2, <2>3
<1>4. ASSUME DispatchReturns(d) PROVE BatchesFit'
  <2>1. IdleDispatch.todo \subseteq DOMAIN IdleDispatch.batch
    BY DEF IdleDispatch
  <2> QED BY <1>2, <1>4, <2>1 DEF DispatchReturns
<1>5. ASSUME NEW scope \in Scopes, DispatchFlush(d, scope) PROVE BatchesFit'
  <2>1. PICK ids : ids = {id \in Waiting : EndpointOf[deliveries[id].event] \in scope}
    OBVIOUS
  <2>2. PICK batch : batch = [id \in ids |-> window[id]]
    OBVIOUS
  <2>3. PICK r : r = [dispatch[d] EXCEPT !.pc = "remove", !.todo = ids, !.batch = batch]
    OBVIOUS
  <2>4. dispatch' = [dispatch EXCEPT ![d].pc = "remove", ![d].todo = ids, ![d].batch = batch]
    BY <1>5, <2>1, <2>2, Zenon DEF DispatchFlush
  <2>5. dispatch' = [dispatch EXCEPT ![d] = r]
    BY <2>3, <2>4, Zenon
  <2>6. r.todo = ids /\ r.batch = batch /\ DOMAIN batch = ids
    BY <1>1, <2>2, <2>3 DEF DispatchCall
  <2> QED BY <1>2, <2>5, <2>6
<1>6. ASSUME DispatchRemove(d) PROVE BatchesFit'
  BY <1>1, <1>3, <1>4, <1>6 DEF DispatchRemove
<1>7. ASSUME DispatchGet(d) PROVE BatchesFit'
  <2>1. PICK id : \/ dispatch' = [dispatch EXCEPT ![d].pc = "send", ![d].id = id]
                  \/ dispatch' = [dispatch EXCEPT ![d].todo = dispatch[d].todo \ {id}]
    BY <1>7 DEF DispatchGet
  <2>2. dispatch'[d].todo \subseteq dispatch[d].todo /\ dispatch'[d].batch = dispatch[d].batch
    <3>1. CASE dispatch' = [dispatch EXCEPT ![d].pc = "send", ![d].id = id]
      BY <1>1, <3>1 DEF DispatchCall
    <3>2. CASE dispatch' = [dispatch EXCEPT ![d].todo = dispatch[d].todo \ {id}]
      BY <1>1, <3>2 DEF DispatchCall
    <3> QED BY <2>1, <3>1, <3>2
  <2>3. \A m \in Dispatchers \ {d} : dispatch'[m] = dispatch[m]
    BY <1>1, <2>1
  <2> QED BY <1>1, <2>2, <2>3 DEF BatchesFit
<1>8. CASE DispatchRecord(d) \/ DispatchOpen(d) \/ DispatchTrack(d)
  BY <1>1, <1>3, <1>8 DEF DispatchRecord, DispatchOpen, DispatchTrack
<1> QED BY <1>4, <1>5, <1>6, <1>7, <1>8 DEF DispatchStep, DispatchReturn

LEMMA DispatchTypes ==
  ASSUME Types, NEW d \in Dispatchers,
         DispatchStep(d) \/ \E scope \in Scopes : DispatchFlush(d, scope)
  PROVE  Types'
<1>1. PICK x : x = dispatch[d].id
  OBVIOUS
<1>2. UNCHANGED <<storeVars, journalVars, queue, expiryVars, client, super, priority>>
  BY DEF DispatchStep, DispatchFlush, DispatchRemove, DispatchGet, DispatchReturn, DispatchRecord,
         DispatchOpen, DispatchTrack, dispatchFrame, partVars, windowVars
<1>3. /\ UNCHANGED window \/ \E id : WindowRemove(id)
      /\ UNCHANGED retentionVars
         \/ (dispatch[d].pc = "send" /\ TrackDead(x, clock))
  BY <1>1 DEF DispatchStep, DispatchFlush, DispatchRemove, WindowRemoveUnknown, DispatchGet,
              DispatchReturn, DispatchRecord, DispatchOpen, DispatchTrack, AlreadyTracked,
              dispatchFrame, partVars, windowVars
<1>4. WindowFits'
  <2>1. Waiting' \subseteq Waiting
    BY <1>3 DEF WindowRemove, Waiting
  <2> QED BY <2>1, WindowTypes DEF Types, PartsFit
<1>5. LedgerInOrder'
  <2>1. dispatch[d].pc = "send" => x \in Ids /\ clock \in Nat
    BY <1>1 DEF Types, Shapes, DispatchCall
  <2> QED BY <1>3, <2>1, LedgerSame, TrackedInOrder DEF Types, PartsFit
<1>6. StoreTypeOK({})' /\ JournalTypeOK' /\ SchedulerTypeOK' /\ PriorityTypeOK' /\ ExpiryTypeOK'
  BY <1>2, StoreSame, JournalSame, QueueTypes, PriorityTypes, ExpiryTypes DEF Types, PartsFit
<1>7. Shapes' /\ BatchesFit'
  BY DispatchShapes, DispatchBatches DEF Types
<1>8. CallsHaveKeys' /\ PassesFit'
  BY <1>2 DEF Types, CallsHaveKeys, PassesFit
<1> QED BY <1>4, <1>5, <1>6, <1>7, <1>8 DEF Types, PartsFit

LEMMA ConfirmTypes ==
  ASSUME Types, NEW f \in Confirmers, ConfirmStep(f) \/ \E id \in Ids : ConfirmBegin(f, id)
  PROVE  Types'
<1>1. UNCHANGED <<storeVars, journalVars, queue, windowVars, retentionVars, client, dispatch, super>>
  BY DEF ConfirmStep, ConfirmBegin, ConfirmRecord, ConfirmClose, ConfirmUnprotect, confirmFrame
<1>2. ExpiryTypeOK'
  <2>1. UNCHANGED expiryVars \/ \E x : Unprotect(x)
    BY DEF ConfirmStep, ConfirmBegin, ConfirmRecord, ConfirmClose, ConfirmUnprotect
  <2> QED BY <2>1, ExpiryTypes DEF Types, PartsFit
<1>3. WindowFits' /\ PriorityTypeOK'
  BY <1>1, WindowTypes, PriorityTypes DEF Types, PartsFit, windowVars, Waiting
<1>4. StoreTypeOK({})' /\ PartsFit'
  BY <1>1, <1>2, <1>3, StoreSame, JournalSame, QueueTypes, LedgerSame DEF Types, PartsFit
<1>5. Shapes'
  BY ConfirmShapes DEF Types
<1> QED BY <1>1, <1>4, <1>5 DEF Types, CallsHaveKeys, BatchesFit, PassesFit

\* A supervisor that goes on to a part of its pass with what that part handles.
LEMMA PassGoes ==
  ASSUME PassesFit, NEW s \in Supervisors, NEW r \in SuperCall, SuperFits(r),
         super' = [super EXCEPT ![s] = r]
  PROVE  PassesFit'
BY DEF PassesFit, SuperFits

LEMMA PassSteps ==
  ASSUME Types, NEW s \in Supervisors, SuperStep(s) \/ \E lead \in RunLeads : SuperBegin(s, lead)
  PROVE  PassesFit'
<1>1. PICK p : p = super[s]
  OBVIOUS
<1>2. p \in SuperCall /\ SuperFits(p) /\ super \in [Supervisors -> SuperCall]
  BY <1>1 DEF Types, PassesFit
<1>3. ASSUME NEW pc, NEW todo, SuperGoes(s, pc, todo),
             \/ pc = "close" /\ todo \subseteq Ids
             \/ pc = "scan" /\ todo \subseteq Events
             \/ pc = "take" /\ todo \subseteq TakePlaces
             \/ pc \in {"reap", "evict", "drain"} /\ todo = {}
      PROVE  PassesFit'
  <2>1. PICK r : r = [p EXCEPT !.pc = pc, !.todo = todo]
    OBVIOUS
  <2>2. super' = [super EXCEPT ![s] = r]
    BY <1>1, <1>3, <2>1, Zenon DEF SuperGoes
  <2>3. r.pc = pc /\ r.todo = todo /\ r.now = p.now /\ r = [pc |-> pc, now |-> p.now, todo |-> todo]
    BY <1>2, <2>1 DEF SuperCall
  <2>4. r \in SuperCall
    BY <1>2, <1>3, <2>3 DEF SuperCall, SuperPCs
  <2>5. SuperFits(r)
    BY <1>3, <2>3 DEF SuperFits
  <2> QED BY <2>2, <2>4, <2>5, PassGoes DEF Types
<1>4. ASSUME NEW x, SuperDone(s, x) PROVE PassesFit'
  <2>1. PICK r : r = [p EXCEPT !.todo = p.todo \ {x}]
    OBVIOUS
  <2>2. super' = [super EXCEPT ![s] = r]
    BY <1>1, <1>2, <1>4, <2>1 DEF SuperDone
  <2>3. r \in SuperCall /\ r.pc = p.pc /\ r.todo = p.todo \ {x}
    BY <1>2, <2>1 DEF SuperCall
  <2>4. SuperFits(r)
    BY <1>2, <2>3 DEF SuperFits
  <2> QED BY <2>2, <2>3, <2>4, PassGoes DEF Types
<1>5. ASSUME NEW lead \in RunLeads, SuperBegin(s, lead) PROVE PassesFit'
  <2>1. PICK now : now = clock + lead
    OBVIOUS
  <2>2. PICK todo : todo = {[id |-> id, at |-> deliveries[id].nextAttempt] :
                              id \in {x \in Ids : deliveries[x].state = "pending"
                                                  /\ deliveries[x].nextAttempt <= now}}
    OBVIOUS
  <2>3. super' = [super EXCEPT ![s] = [pc |-> "requeue", now |-> now, todo |-> todo]]
    BY <1>5, <2>1, <2>2, Zenon DEF SuperBegin
  <2>4. now \in Nat
    BY <2>1, DockConstants DEF Types, Shapes
  <2>5. \A id \in Ids : deliveries[id].nextAttempt \in Int
    BY DEF Types, PartsFit, StoreTypeOK, DeliveryRecord
  <2>6. todo \subseteq Overdue
    BY <2>2, <2>5 DEF Overdue
  <2>7. PICK r : r = [pc |-> "requeue", now |-> now, todo |-> todo]
    OBVIOUS
  <2>8. r \in SuperCall
    BY <2>4, <2>6, <2>7 DEF SuperCall, SuperPCs
  <2>9. SuperFits(r)
    BY <2>6, <2>7 DEF SuperFits
  <2> QED BY <2>3, <2>7, <2>8, <2>9, PassGoes DEF Types
<1>6. CASE SuperRequeue(s) \/ SuperClose(s) \/ SuperTake(s)
  BY <1>4, <1>6 DEF SuperRequeue, SuperClose, SuperTake
<1>7. CASE SuperStale(s)
  <2>1. OpenSince(super[s].now - Interval) \subseteq Ids
    BY DEF OpenSince, Types, Shapes, ReceiptsTypeOK
  <2> QED BY <1>3, <1>7, <2>1 DEF SuperStale
<1>8. CASE SuperDrain(s)
  <2>1. Places \subseteq TakePlaces
    BY DEF Places, Place, TakePlaces, Types, Shapes, PartsFit, PriorityTypeOK
  <2> QED BY <1>3, <1>8, <2>1 DEF SuperDrain
<1>9. CASE SuperSweep(s) \/ SuperScan(s) \/ SuperReap(s) \/ SuperEvict(s)
  BY <1>3, <1>9 DEF SuperSweep, SuperScan, SuperReap, SuperEvict
<1>10. CASE SuperReturn(s)
  <2>1. IdleSuper \in SuperCall /\ SuperFits(IdleSuper)
    BY DEF IdleSuper, SuperCall, SuperPCs, SuperFits
  <2> QED BY <1>10, <2>1, PassGoes DEF SuperReturn, Types
<1> QED BY <1>5, <1>6, <1>7, <1>8, <1>9, <1>10 DEF SuperStep

LEMMA SuperTypes ==
  ASSUME Types, NEW s \in Supervisors, SuperStep(s) \/ \E lead \in RunLeads : SuperBegin(s, lead)
  PROVE  Types'
<1>1. PICK p : p = super[s]
  OBVIOUS
<1>2. p \in SuperCall /\ SuperFits(p)
  BY <1>1 DEF Types, PassesFit
<1>3. UNCHANGED <<storeVars, journalVars, client, dispatch>>
  BY DEF SuperStep, SuperBegin, SuperRequeue, SuperStale, SuperClose, SuperSweep, SuperScan, SuperReap,
         SuperEvict, SuperDrain, SuperTake, SuperReturn, superFrame
<1>4. SchedulerTypeOK'
  <2>1. \/ UNCHANGED queue
        \/ p.pc = "requeue" /\ \E d \in p.todo : Schedule(d.id, d.at)
    BY <1>1 DEF SuperStep, SuperBegin, SuperRequeue, ScheduleFull, SuperStale, SuperClose, SuperSweep,
                SuperScan, SuperReap, SuperEvict, SuperDrain, SuperTake, SuperReturn
  <2>2. p.pc = "requeue" => \A d \in p.todo : d.id \in Ids /\ d.at \in Int
    BY <1>2 DEF SuperFits, Overdue
  <2> QED BY <2>1, <2>2, QueueTypes DEF Types, PartsFit
<1>5. WindowFits' /\ PriorityTypeOK'
  <2>1. UNCHANGED windowVars \/ \E x : Take(x)
    BY DEF SuperStep, SuperBegin, SuperRequeue, SuperStale, SuperClose, SuperSweep, SuperScan, SuperReap,
           SuperEvict, SuperDrain, SuperTake, WindowRemoveUnknown, SuperReturn, partVars, windowVars
  <2>2. Waiting' \subseteq Waiting
    BY <2>1 DEF Take, WindowRemove, windowVars, Waiting
  <2> QED BY <2>1, <2>2, WindowTypes, PriorityTypes DEF Types, PartsFit, windowVars
<1>6. ExpiryTypeOK'
  <2>1. UNCHANGED expiryVars \/ (p.pc = "scan" /\ RunSweep(p.todo, p.now))
    BY <1>1 DEF SuperStep, SuperBegin, SuperRequeue, SuperStale, SuperClose, SuperSweep, SuperScan,
                SuperReap, SuperEvict, SuperDrain, SuperTake, SuperReturn, partVars
  <2>2. p.now \in Nat /\ (p.pc = "scan" => p.todo \in SUBSET Events)
    BY <1>2 DEF SuperFits, SuperCall
  <2> QED BY <2>1, <2>2, ExpiryTypes DEF Types, PartsFit
<1>7. LedgerInOrder'
  <2>1. \/ UNCHANGED retentionVars
        \/ PurgeExpired(p.now)
        \/ PurgeOverCapacity /\ lastReap' = p.now
    BY <1>1 DEF SuperStep, SuperBegin, SuperRequeue, SuperStale, SuperClose, SuperSweep, SuperScan,
                SuperReap, SuperEvict, SuperDrain, SuperTake, SuperReturn, partVars
  <2>2. p.now \in Nat
    BY <1>2 DEF SuperCall
  <2> QED BY <2>1, <2>2, LedgerSame, PurgedInOrder, EvictedInOrder DEF Types, PartsFit
<1>8. StoreTypeOK({})' /\ PartsFit'
  BY <1>3, <1>4, <1>5, <1>6, <1>7, StoreSame, JournalSame DEF Types, PartsFit
<1>9. Shapes' /\ PassesFit'
  BY SuperSteps, ElsewhereShapes, PassSteps DEF Types
<1> QED BY <1>3, <1>8, <1>9 DEF Types, CallsHaveKeys, BatchesFit

LEMMA OtherTypes ==
  ASSUME Types, \/ Tick \/ InjectRejection \/ PurgeDead \/ PurgeOver
                \/ \E id \in ReportedDead : ReportDead(id)
                \/ UNCHANGED vars
  PROVE  Types'
<1>1. UNCHANGED <<storeVars, journal, queue, windowVars, expiryVars, client, dispatch, super>>
      /\ failNext' \in {failNext, TRUE}
  BY DEF Tick, InjectRejection, RejectNextAppend, PurgeDead, PurgeOver, ReportDead, retentionFrame,
         journalVars, callVars, partVars, vars
<1>2. LedgerInOrder'
  <2>1. \/ UNCHANGED retentionVars
        \/ PurgeExpired(clock)
        \/ PurgeOverCapacity /\ lastReap' = lastReap
        \/ \E id \in ReportedDead : TrackDead(id, clock)
    BY DEF Tick, InjectRejection, PurgeDead, PurgeOver, ReportDead, partVars, vars
  <2>2. ReportedDead \subseteq Ids /\ clock \in Nat /\ lastReap \in Nat
    BY DockConstants DEF Types, Shapes, PartsFit, LedgerInOrder, RetentionTypeOK
  <2> QED BY <2>1, <2>2, LedgerSame, PurgedInOrder, EvictedInOrder, TrackedInOrder DEF Types, PartsFit
<1>3. JournalTypeOK'
  BY <1>1 DEF JournalTypeOK, Types, PartsFit
<1>4. WindowFits' /\ PriorityTypeOK'
  BY <1>1, WindowTypes, PriorityTypes DEF Types, PartsFit, windowVars, Waiting
<1>5. StoreTypeOK({})' /\ PartsFit'
  BY <1>1, <1>2, <1>3, <1>4, StoreSame, QueueTypes, ExpiryTypes DEF Types, PartsFit
<1>6. Shapes'
  BY OtherSteps, ElsewhereShapes DEF Types
<1> QED BY <1>1, <1>5, <1>6 DEF Types, CallsHaveKeys, BatchesFit, PassesFit

LEMMA TypesInit == Init => Types
<1> SUFFICES ASSUME Init PROVE Types
  OBVIOUS
<1> USE DEF Init, PartsInit, CallsInit
<1>1. Shapes
  BY ShapesInit
<1>2. StoreTypeOK({}) /\ JournalTypeOK
  BY StoreTypesInit, RecordsInit DEF Records
<1>3. IsFiniteSet({}) /\ Cardinality({}) = 0
  BY FS_EmptySet
<1>4. SchedulerTypeOK /\ WindowFits /\ PriorityTypeOK
  BY <1>3, CapacityIsNat, WindowConstants DEF SchedulerInit, SchedulerTypeOK, Queued, WindowInit,
       WindowFits, Waiting, PriorityInit, PriorityTypeOK, Ranked
<1>5. ExpiryTypeOK
  BY DEF ExpiryInit, ExpiryTypeOK
<1>6. LedgerInOrder
  <2>1. dead = [id \in {} |-> 0] /\ deadOrder = << >> /\ lastReap = 0
    BY DEF RetentionInit
  <2>2. deadOrder \in Seq(Ids) /\ DOMAIN deadOrder = {}
    BY <2>1
  <2>3. IsInjective(deadOrder) /\ ToSet(deadOrder) = {}
    BY <2>2 DEF IsInjective, ToSet
  <2> QED BY <2>1, <2>2, <2>3 DEF LedgerInOrder, RetentionTypeOK, Tracked
<1>7. CallsHaveKeys
  BY DEF CallsHaveKeys, IdleClient
<1>8. BatchesFit
  BY DEF BatchesFit, IdleDispatch
<1>9. PassesFit
  BY DEF PassesFit, IdleSuper, SuperCall, SuperPCs, SuperFits
<1> QED BY <1>1, <1>2, <1>4, <1>5, <1>6, <1>7, <1>8, <1>9 DEF Types, PartsFit

LEMMA TypesStep == Types /\ [Next]_vars => Types'
<1> SUFFICES ASSUME Types, [Next]_vars PROVE Types'
  OBVIOUS
<1> QED BY ClientTypes, DispatchTypes, ConfirmTypes, SuperTypes, OtherTypes DEF Next

THEOREM TypesHold == Spec => []Types
BY TypesInit, TypesStep, PTL DEF Spec

\* DockTypeOK: every variable has its type, every part its bound, and a call only what its part
\* handles.  It holds whether or not the delivery ids tell keys apart.
THEOREM DockTypesHold == Spec => []DockTypeOK
<1>1. Types => DockTypeOK
  <2> SUFFICES ASSUME Types PROVE DockTypeOK
    OBVIOUS
  <2>1. \A d \in Dispatchers : dispatch[d].pc \in DispatchPCs
    BY DEF Types, Shapes, DispatchCall
  <2>2. ASSUME NEW s \in Supervisors
        PROVE  LET todo == super[s].todo IN
               CASE super[s].pc = "requeue" -> todo \subseteq Overdue
                 [] super[s].pc = "close" -> todo \subseteq Ids
                 [] super[s].pc = "take" -> todo \subseteq TakePlaces
                 [] super[s].pc = "scan" -> todo \subseteq Events
                 [] OTHER -> super[s].pc \in SuperPCs /\ todo = {}
    BY DEF Types, PassesFit, SuperFits, SuperCall
  <2>3. WindowTypeOK /\ ReceiptsTypeOK /\ RetentionTypeOK
    BY DEF Types, Shapes, PartsFit, WindowFits, WindowTypeOK, LedgerInOrder
  <2> QED BY <2>1, <2>2, <2>3 DEF Types, Shapes, PartsFit, BatchesFit, DockTypeOK, ClientCall, ConfirmCall
<1> QED BY <1>1, TypesHold, PTL

\* OrderMatchesEntries: the order of the dead letters has each entry once and nothing else, so
\* that an eviction takes as many entries as it takes places of the order.
THEOREM LedgerKeepsOrder == Spec => []OrderMatchesEntries
<1>1. Types => OrderMatchesEntries
  BY InjectiveLength DEF Types, PartsFit, LedgerInOrder, RetentionTypeOK, OrderMatchesEntries
<1> QED BY <1>1, TypesHold, PTL

------------------------------------------------------------------------------
(* The order of the priorities *)

\* The delivery is stored under its key, and no client is left that could take that back.
Past(id) == Kept(id) /\ \A c \in Clients : ~Holds(c, id)

RankOf(id) == PriorityOf[deliveries[id].event]

\* A waiting delivery has an entry with the priority of its event, from before it is added;
\* and what a supervisor has copied of it stays true, whether it still waits or not.
Ranks ==
  /\ \A c \in Clients : client[c].pc = "add" =>
       client[c].id \in Ranked /\ priority[client[c].id] = PriorityOf[client[c].event]
  /\ \A id \in Ids : id \in Waiting => id \in Ranked /\ priority[id] = RankOf(id)
  /\ \A s \in Supervisors : super[s].pc = "take" =>
       \A x \in super[s].todo : Past(x.id) /\ x.priority = RankOf(x.id)

\* The invariants proved so far.
Base == Types /\ Custody /\ Records

LEMMA AwayIsPast ==
  ASSUME Custody, Records, NEW id \in Ids, Away(id)
  PROVE  Past(id)
BY DEF Custody, OnePlace, Records, Past

LEMMA PastStays ==
  ASSUME IdsTellKeys, Base, [Next]_vars, NEW id \in Ids, Past(id)
  PROVE  Past(id)' /\ deliveries'[id] = deliveries[id]
<1>0. Shapes /\ Shapes' /\ Custody /\ Records
  BY CustodyStep DEF Base, Types
<1>1. PICK k \in Keys : k = KeyOf[deliveries[id].event] /\ reserved[k] = id /\ id # NoId
  BY CoreConstants DEF Past, Kept
<1>2. ASSUME deliveries'[id] = deliveries[id], reserved'[k] = id,
             \A c \in Clients : Holds(c, id)' => Holds(c, id)
      PROVE  Past(id)' /\ deliveries'[id] = deliveries[id]
  BY <1>1, <1>2 DEF Past, Kept, Stored
<1>3. ASSUME NEW c \in Clients, SubmitStep(c) \/ \E e \in Events, s \in Specs : SubmitBegin(c, e, s)
      PROVE  Past(id)' /\ deliveries'[id] = deliveries[id]
  <2>1. PICK x : x = client[c].id
    OBVIOUS
  <2>2. \A b \in Clients \ {c} : client'[b] = client[b]
    BY <1>0, <1>3, OneClient
  <2>3. ASSUME Holds(c, id)' => Holds(c, id) PROVE \A b \in Clients : Holds(b, id)' => Holds(b, id)
    BY <2>2, <2>3 DEF Holds
  <2>4. CASE UNCHANGED storeVars /\ ClientReturns(c)
    <3>1. ~Holds(c, id)'
      BY <1>0, <2>4, Returns DEF Holds
    <3> QED BY <1>1, <1>2, <2>3, <2>4, <3>1 DEF storeVars
  <2>5. CASE \E e \in Events, s \in Specs : SubmitBegin(c, e, s)
    <3>1. PICK e \in Events, s \in Specs : SubmitBegin(c, e, s)
      BY <2>5
    <3>2. PICK r : r = [pc |-> "reserve", event |-> e, id |-> IdOf[s, KeyOf[e]], at |-> 0]
      OBVIOUS
    <3>3. client' = [client EXCEPT ![c] = r] /\ UNCHANGED storeVars
      BY <3>1, <3>2, Zenon DEF SubmitBegin
    <3>4. client'[c].pc = "reserve"
      BY <1>0, <3>2, <3>3 DEF Shapes
    <3>5. ~Holds(c, id)'
      BY <3>4 DEF Holds
    <3> QED BY <1>1, <1>2, <2>3, <3>3, <3>5 DEF storeVars
  <2>6. CASE SubmitReserve(c) /\ Reserve(client[c].event, x, clock)
    <3>1. PICK r : r = NewDelivery(client[c].event, clock)
      OBVIOUS
    <3>2. PICK key : key = KeyOf[client[c].event]
      OBVIOUS
    <3>3. /\ client[c].pc = "reserve" /\ reserved[key] = NoId
          /\ deliveries' = [deliveries EXCEPT ![x] = r]
          /\ reserved' = [reserved EXCEPT ![key] = x]
      BY <2>6, <3>1, <3>2 DEF SubmitReserve, Reserve
    <3>4. x # id
      BY <1>0, <1>1, <2>1, <3>2, <3>3, FreshId
    <3>5. key # k
      BY <1>1, <3>3
    <3>6. deliveries'[id] = deliveries[id] /\ reserved'[k] = id
      BY <1>0, <1>1, <3>3, <3>4, <3>5 DEF Records, StoreIsMap, Shapes
    <3>7. client'[c].id = client[c].id
      <4>1. CASE ClientReturns(c) /\ UNCHANGED storeVars
        <5>1. x \in Ids /\ x # NoId /\ key \in Keys
          BY <1>0, <2>1, <3>2, <3>3, ClientFacts
        <5>2. reserved'[key] = x
          BY <1>0, <3>3, <5>1 DEF Shapes
        <5> QED BY <3>3, <4>1, <5>1, <5>2 DEF storeVars
      <4>2. CASE client' = [client EXCEPT ![c].pc = "append", ![c].at = clock]
        <5>1. PICK now : now = clock
          OBVIOUS
        <5>2. client' = [client EXCEPT ![c] = [client[c] EXCEPT !.pc = "append", !.at = now]]
          BY <4>2, <5>1, Zenon
        <5> QED BY <1>0, <5>2 DEF Shapes, ClientCall
      <4> QED BY <2>6, <4>1, <4>2 DEF SubmitReserve
    <3>8. ~Holds(c, id)'
      BY <2>1, <3>4, <3>7 DEF Holds
    <3> QED BY <1>2, <2>3, <3>6, <3>8
  <2>7. CASE SubmitKeep(c) \/ SubmitRollback(c)
    <3>1. PICK key : key = KeyOf[client[c].event]
      OBVIOUS
    <3>2. Holds(c, x) /\ x # id
      BY <2>1, <2>7 DEF SubmitKeep, SubmitRollback, Holds, Past
    <3>3. x \in Ids /\ reserved[key] = x
      BY <1>0, <2>1, <2>7, <3>1, <3>2, ClientFacts DEF SubmitKeep, SubmitRollback, Custody, KeysAreClaimed
    <3>4. /\ deliveries' = [deliveries EXCEPT ![x] = ZeroDelivery]
          /\ reserved' = reserved \/ reserved' = [reserved EXCEPT ![key] = NoId]
      BY <2>1, <2>7, <3>1, <3>3 DEF SubmitKeep, SubmitRollback, KeepReservation, RollbackReservation
    <3>5. deliveries'[id] = deliveries[id] /\ reserved'[k] = id
      BY <1>0, <1>1, <3>2, <3>3, <3>4 DEF Records, StoreIsMap, Shapes
    <3>6. client'[c].pc \in {"pop", "idle"}
      BY <1>0, <2>7, GoesOn, Returns DEF SubmitKeep, SubmitRollback
    <3>7. ~Holds(c, id)'
      BY <3>6 DEF Holds
    <3> QED BY <1>2, <2>3, <3>5, <3>7
  <2>8. CASE \/ SubmitAppend(c) \/ SubmitSchedule(c) \/ SubmitProtect(c) \/ SubmitRank(c)
    <3>1. PICK pc : ClientGoes(c, pc)
      BY <2>8 DEF SubmitAppend, SubmitSchedule, SubmitProtect, SubmitRank
    <3>2. Holds(c, id)' => Holds(c, id)
      BY <1>0, <2>8, <3>1, GoesOn DEF Holds, SubmitAppend, SubmitSchedule, SubmitProtect, SubmitRank
    <3>3. UNCHANGED storeVars
      BY <2>8 DEF SubmitAppend, SubmitSchedule, SubmitProtect, SubmitRank
    <3> QED BY <1>1, <1>2, <2>3, <3>2, <3>3 DEF storeVars
  <2>9. CASE SubmitPop(c) \/ SubmitAdd(c) \/ (SubmitReserve(c) /\ ~Reserve(client[c].event, x, clock))
    BY <2>1, <2>4, <2>9 DEF SubmitPop, SubmitAdd, SubmitReserve
  <2> QED BY <1>3, <2>5, <2>6, <2>7, <2>8, <2>9 DEF SubmitStep
<1>4. CASE ~\E c \in Clients : SubmitStep(c) \/ \E e \in Events, s \in Specs : SubmitBegin(c, e, s)
  <2>1. UNCHANGED <<deliveries, reserved, client>>
    BY <1>0, <1>4, Transfers
  <2>2. \A c \in Clients : Holds(c, id)' => Holds(c, id)
    BY <2>1, SameClient
  <2> QED BY <1>1, <1>2, <2>1, <2>2
<1> QED BY <1>3, <1>4

\* Only the supervisor that takes the step moves, and what it has to take it copied from the
\* window.
LEMMA OneSupervisor ==
  ASSUME Types, NEW s \in Supervisors, SuperStep(s) \/ \E lead \in RunLeads : SuperBegin(s, lead)
  PROVE  /\ \A t \in Supervisors \ {s} : super'[t] = super[t]
         /\ super'[s].pc = "take" =>
              \/ super[s].pc = "take" /\ super'[s].todo \subseteq super[s].todo
              \/ super'[s].todo \subseteq Places /\ UNCHANGED windowVars
<1>1. PICK p : p = super[s]
  OBVIOUS
<1>2. p \in SuperCall /\ super \in [Supervisors -> SuperCall]
  BY <1>1 DEF Types, PassesFit
<1>3. ASSUME NEW r, super' = [super EXCEPT ![s] = r]
      PROVE  super'[s] = r /\ \A t \in Supervisors \ {s} : super'[t] = super[t]
  BY <1>2, <1>3
<1>4. ASSUME NEW pc, NEW todo, SuperGoes(s, pc, todo)
      PROVE  /\ super'[s].pc = pc /\ super'[s].todo = todo
             /\ \A t \in Supervisors \ {s} : super'[t] = super[t]
  <2>1. PICK r : r = [p EXCEPT !.pc = pc, !.todo = todo]
    OBVIOUS
  <2>2. super' = [super EXCEPT ![s] = r]
    BY <1>1, <1>4, <2>1, Zenon DEF SuperGoes
  <2>3. r.pc = pc /\ r.todo = todo
    BY <1>2, <2>1 DEF SuperCall
  <2> QED BY <1>3, <2>2, <2>3
<1>5. ASSUME NEW x, SuperDone(s, x)
      PROVE  /\ super'[s].pc = p.pc /\ super'[s].todo = p.todo \ {x}
             /\ \A t \in Supervisors \ {s} : super'[t] = super[t]
  <2>1. PICK r : r = [p EXCEPT !.todo = p.todo \ {x}]
    OBVIOUS
  <2>2. super' = [super EXCEPT ![s] = r]
    BY <1>1, <1>2, <1>5, <2>1 DEF SuperDone
  <2>3. r.pc = p.pc /\ r.todo = p.todo \ {x}
    BY <1>2, <2>1 DEF SuperCall
  <2> QED BY <1>3, <2>2, <2>3
<1>6. ASSUME NEW lead \in RunLeads, SuperBegin(s, lead)
      PROVE  super'[s].pc = "requeue" /\ \A t \in Supervisors \ {s} : super'[t] = super[t]
  <2>1. PICK now, todo : super' = [super EXCEPT ![s] = [pc |-> "requeue", now |-> now, todo |-> todo]]
    BY <1>6, Zenon DEF SuperBegin
  <2>2. PICK r : r = [pc |-> "requeue", now |-> now, todo |-> todo]
    OBVIOUS
  <2> QED BY <1>3, <2>1, <2>2
<1>7. CASE SuperRequeue(s) \/ SuperClose(s) \/ SuperTake(s)
  BY <1>1, <1>5, <1>7 DEF SuperRequeue, SuperClose, SuperTake
<1>8. CASE SuperStale(s) \/ SuperSweep(s) \/ SuperScan(s) \/ SuperReap(s) \/ SuperEvict(s)
  BY <1>4, <1>8 DEF SuperStale, SuperSweep, SuperScan, SuperReap, SuperEvict
<1>9. CASE SuperDrain(s)
  BY <1>4, <1>9 DEF SuperDrain, partVars
<1>10. CASE SuperReturn(s)
  BY <1>3, <1>10 DEF SuperReturn, IdleSuper
<1> QED BY <1>6, <1>7, <1>8, <1>9, <1>10 DEF SuperStep

LEMMA SupersSteps ==
  ASSUME [Next]_vars
  PROVE  \/ super' = super
         \/ \E s \in Supervisors : SuperStep(s) \/ \E lead \in RunLeads : SuperBegin(s, lead)
<1>1. ASSUME NEW c \in Clients, SubmitStep(c) \/ \E e \in Events, t \in Specs : SubmitBegin(c, e, t)
      PROVE  super' = super
  BY <1>1 DEF SubmitStep, SubmitBegin, SubmitReserve, SubmitAppend, SubmitKeep, SubmitPop,
         SubmitSchedule, SubmitRollback, SubmitProtect, SubmitRank, SubmitAdd, clientFrame
<1>2. ASSUME NEW d \in Dispatchers, DispatchStep(d) \/ \E scope \in Scopes : DispatchFlush(d, scope)
      PROVE  super' = super
  BY <1>2 DEF DispatchStep, DispatchFlush, DispatchRemove, DispatchGet, DispatchReturn,
         DispatchRecord, DispatchOpen, DispatchTrack, dispatchFrame
<1>3. ASSUME NEW f \in Confirmers, ConfirmStep(f) \/ \E id \in Ids : ConfirmBegin(f, id)
      PROVE  super' = super
  BY <1>3 DEF ConfirmStep, ConfirmBegin, ConfirmRecord, ConfirmClose, ConfirmUnprotect, confirmFrame
<1>4. \/ Tick \/ InjectRejection \/ PurgeDead \/ PurgeOver
      \/ \E id \in ReportedDead : ReportDead(id)
      \/ UNCHANGED vars
      => super' = super
  BY DEF Tick, InjectRejection, PurgeDead, PurgeOver, ReportDead, retentionFrame, callVars, vars
<1> QED BY <1>1, <1>2, <1>3, <1>4 DEF Next

\* What supervisors have copied stays true.
LEMMA CopiesStay ==
  ASSUME IdsTellKeys, Base, Ranks, [Next]_vars
  PROVE  \A s \in Supervisors : super'[s].pc = "take" =>
           \A x \in super'[s].todo : Past(x.id)' /\ x.priority = RankOf(x.id)'
<1>1. ASSUME NEW s \in Supervisors, super'[s].pc = "take", NEW x \in super'[s].todo
      PROVE  \/ super[s].pc = "take" /\ x \in super[s].todo
             \/ x \in Places
  BY <1>1, SupersSteps, OneSupervisor DEF Base
<1>2. ASSUME NEW s \in Supervisors, super'[s].pc = "take", NEW x \in super'[s].todo
      PROVE  Past(x.id)' /\ x.priority = RankOf(x.id)'
  <2>1. PICK id : id = x.id
    OBVIOUS
  <2>2. id \in Ids /\ Past(id) /\ x.priority = RankOf(id)
    <3>1. CASE super[s].pc = "take" /\ x \in super[s].todo
      BY <2>1, <3>1 DEF Ranks, Base, Types, PassesFit, SuperFits, TakePlaces
    <3>2. CASE x \in Places
      <4>1. PICK i \in Waiting : x = Place(i)
        BY <3>2 DEF Places
      <4>2. x.id = i /\ x.priority = (IF i \in Ranked THEN priority[i] ELSE 0)
        BY <4>1 DEF Place
      <4>3. i \in Ids /\ Away(i)
        BY DEF Base, Types, Shapes, Away
      <4> QED BY <2>1, <4>2, <4>3, AwayIsPast DEF Ranks, Base
    <3> QED BY <1>1, <1>2, <3>1, <3>2
  <2>3. Past(id)' /\ deliveries'[id] = deliveries[id]
    BY <2>2, PastStays
  <2>4. Past(x.id)'
    BY <2>1, <2>3 DEF Past, Kept, Stored, Holds
  <2> QED BY <2>1, <2>2, <2>3, <2>4 DEF RankOf
<1> QED BY <1>2

LEMMA RanksInit == Init => Ranks
<1> SUFFICES ASSUME Init PROVE Ranks
  OBVIOUS
<1>1. /\ \A c \in Clients : client[c].pc = "idle"
      /\ \A s \in Supervisors : super[s].pc = "idle"
      /\ Waiting = {}
  BY DEF Init, CallsInit, PartsInit, WindowInit, Waiting, IdleClient, IdleSuper
<1> QED BY <1>1 DEF Ranks

\* A client's id is not waiting, and no other client's that could add it.
LEMMA ClientRanks ==
  ASSUME IdsTellKeys, Base, Ranks, NEW c \in Clients, [Next]_vars,
         SubmitStep(c) \/ \E e \in Events, s \in Specs : SubmitBegin(c, e, s)
  PROVE  /\ \A b \in Clients : client'[b].pc = "add" =>
              client'[b].id \in Ranked' /\ priority'[client'[b].id] = PriorityOf[client'[b].event]
         /\ \A id \in Ids : id \in Waiting' => id \in Ranked' /\ priority'[id] = RankOf(id)'
<1>0. /\ Shapes /\ Custody /\ Records
      /\ \A b \in Clients \ {c} : client'[b] = client[b]
      /\ client'[c].pc \in {"rank", "add"} => SubmitProtect(c) \/ SubmitRank(c)
      /\ \A id \in Ids : Away(id) => deliveries'[id] = deliveries[id]
  BY OneClient, AwayStays DEF Base, Types
<1>1. PICK x : x = client[c].id
  OBVIOUS
<1>2. \A id \in Ids : id \in Waiting => RankOf(id)' = RankOf(id)
  BY <1>0 DEF Away, RankOf
<1>3. CASE SubmitRank(c)
  <2>1. /\ client[c].pc = "rank" /\ ClientGoes(c, "add") /\ window' = window
        /\ SetPriority(x, client[c].event)
    BY <1>1, <1>3 DEF SubmitRank
  <2>2. x \in Ids /\ Holds(c, x)
    BY <1>0, <1>1, <2>1, ClientFacts DEF Holds
  <2>3. x \notin Waiting /\ \A b \in Clients \ {c} : ~Holds(b, x)
    BY <1>0, <2>2 DEF Custody, OnePlace, Away
  <2>4. client'[c].id = x /\ client'[c].event = client[c].event
    BY <1>0, <1>1, <2>1, GoesOn
  <2>5. /\ x \in Ranked' /\ priority'[x] = PriorityOf[client[c].event]
        /\ \A i \in Ranked \ {x} : i \in Ranked' /\ priority'[i] = priority[i]
    BY <2>1 DEF SetPriority, Ranked
  <2>6. \A b \in Clients \ {c} : client[b].pc = "add" => client[b].id # x
    BY <2>3 DEF Holds
  <2>7. Waiting' = Waiting
    BY <2>1 DEF Waiting
  <2> QED BY <1>0, <1>2, <2>3, <2>4, <2>5, <2>6, <2>7 DEF Ranks
<1>4. CASE SubmitAdd(c)
  <2>1. /\ client[c].pc = "add" /\ priority' = priority /\ ClientReturns(c)
        /\ Waiting' \subseteq Waiting \cup {x} /\ deliveries' = deliveries
    BY <1>1, <1>4 DEF SubmitAdd, storeVars, WindowAdd, WindowFull, Waiting
  <2>2. x \in Ids /\ Holds(c, x)
    BY <1>0, <1>1, <2>1, ClientFacts DEF Holds
  <2>3. deliveries[x].event = client[c].event
    BY <1>0, <2>2 DEF Records
  <2>4. x \in Ranked /\ priority[x] = RankOf(x)
    BY <1>1, <2>1, <2>3 DEF Ranks, RankOf
  <2>5. client'[c].pc = "idle"
    BY <1>0, <2>1, Returns
  <2> QED BY <1>0, <2>1, <2>4, <2>5 DEF Ranks, Ranked, RankOf
<1>5. CASE ~(SubmitRank(c) \/ SubmitAdd(c))
  <2>1. UNCHANGED windowVars
    BY <1>5 DEF SubmitStep, SubmitBegin, SubmitReserve, SubmitAppend, SubmitKeep, SubmitPop,
                SubmitSchedule, SubmitRollback, SubmitProtect, partVars
  <2>2. client'[c].pc # "add"
    <3>1. SubmitProtect(c) => client'[c].pc = "rank"
      BY <1>0, GoesOn DEF SubmitProtect
    <3> QED BY <1>0, <1>5, <3>1
  <2> QED BY <1>0, <1>2, <2>1, <2>2 DEF Ranks, Ranked, Waiting, windowVars
<1> QED BY <1>3, <1>4, <1>5

\* Elsewhere items leave the window, with their priorities or without.
LEMMA OtherRanks ==
  ASSUME IdsTellKeys, Base, Ranks, [Next]_vars,
         ~\E c \in Clients : SubmitStep(c) \/ \E e \in Events, s \in Specs : SubmitBegin(c, e, s)
  PROVE  /\ \A b \in Clients : client'[b].pc = "add" =>
              client'[b].id \in Ranked' /\ priority'[client'[b].id] = PriorityOf[client'[b].event]
         /\ \A id \in Ids : id \in Waiting' => id \in Ranked' /\ priority'[id] = RankOf(id)'
<1>0. Shapes /\ Shapes' /\ Custody
  BY CustodyStep DEF Base, Types
<1>1. UNCHANGED <<deliveries, client>>
  BY <1>0, Transfers
<1>2. \/ UNCHANGED priority /\ Waiting' \subseteq Waiting
      \/ \E id : Take(id)
  <2>1. ASSUME NEW d \in Dispatchers, DispatchStep(d) \/ \E scope \in Scopes : DispatchFlush(d, scope)
        PROVE  UNCHANGED priority /\ Waiting' \subseteq Waiting
    BY <2>1 DEF DispatchStep, DispatchFlush, DispatchRemove, WindowRemove, WindowRemoveUnknown,
           DispatchGet, DispatchReturn, DispatchRecord, DispatchOpen, DispatchTrack, partVars,
           windowVars, Waiting
  <2>2. ASSUME NEW f \in Confirmers, ConfirmStep(f) \/ \E id \in Ids : ConfirmBegin(f, id)
        PROVE  UNCHANGED windowVars
    BY <2>2 DEF ConfirmStep, ConfirmBegin, ConfirmRecord, ConfirmClose, ConfirmUnprotect, confirmFrame
  <2>3. ASSUME NEW s \in Supervisors, SuperStep(s) \/ \E lead \in RunLeads : SuperBegin(s, lead)
        PROVE  UNCHANGED windowVars \/ \E id : Take(id)
    BY <2>3 DEF SuperStep, SuperBegin, SuperRequeue, SuperStale, SuperClose, SuperSweep, SuperScan,
           SuperReap, SuperEvict, SuperDrain, SuperTake, WindowRemoveUnknown, SuperReturn, partVars,
           windowVars
  <2>4. \/ Tick \/ InjectRejection \/ PurgeDead \/ PurgeOver
        \/ \E id \in ReportedDead : ReportDead(id)
        \/ UNCHANGED vars
        => UNCHANGED windowVars
    BY DEF Tick, InjectRejection, PurgeDead, PurgeOver, ReportDead, retentionFrame, partVars, vars
  <2> QED BY <2>1, <2>2, <2>3, <2>4 DEF Next, windowVars, Waiting
<1>3. CASE UNCHANGED priority /\ Waiting' \subseteq Waiting
  BY <1>1, <1>3 DEF Ranks, Ranked, RankOf
<1>4. ASSUME NEW id, Take(id)
      PROVE  /\ \A b \in Clients : client[b].pc = "add" =>
                  client[b].id \in Ranked' /\ priority'[client[b].id] = PriorityOf[client[b].event]
             /\ \A i \in Ids : i \in Waiting' => i \in Ranked' /\ priority'[i] = RankOf(i)'
  <2>1. /\ id \in Waiting /\ Waiting' = Waiting \ {id}
        /\ \A i \in Ranked \ {id} : i \in Ranked' /\ priority'[i] = priority[i]
    BY <1>4 DEF Take, WindowRemove, Waiting, Ranked
  <2>2. \A b \in Clients : client[b].pc = "add" => client[b].id # id
    BY <1>0, <2>1, ClientFacts DEF Custody, OnePlace, Holds, Away
  <2> QED BY <1>1, <2>1, <2>2 DEF Ranks, RankOf
<1> QED BY <1>1, <1>2, <1>3, <1>4

LEMMA RanksStep ==
  ASSUME IdsTellKeys, Base, Ranks, [Next]_vars
  PROVE  Ranks'
<1>1. \A s \in Supervisors : super'[s].pc = "take" =>
        \A x \in super'[s].todo : Past(x.id)' /\ x.priority = RankOf(x.id)'
  BY CopiesStay
<1>2. /\ \A b \in Clients : client'[b].pc = "add" =>
           client'[b].id \in Ranked' /\ priority'[client'[b].id] = PriorityOf[client'[b].event]
      /\ \A id \in Ids : id \in Waiting' => id \in Ranked' /\ priority'[id] = RankOf(id)'
  BY ClientRanks, OtherRanks
<1> QED BY <1>1, <1>2 DEF Ranks

\* The foremost of what a supervisor copied is foremost by the events' priorities.
LEMMA TakesForemost ==
  ASSUME Base, Ranks, [Next]_vars, NEW s \in Supervisors, super[s].pc = "take",
         NEW x \in super[s].todo \ super'[s].todo, NEW y \in super[s].todo
  PROVE  RankOf(x.id) <= RankOf(y.id)
<1>1. SuperTake(s)
  <2>1. SuperStep(s) \/ \E lead \in RunLeads : SuperBegin(s, lead)
    <3>1. PICK t \in Supervisors : SuperStep(t) \/ \E lead \in RunLeads : SuperBegin(t, lead)
      BY SupersSteps
    <3>2. t = s
      BY <3>1, OneSupervisor DEF Base
    <3> QED BY <3>1, <3>2
  <2> QED BY <2>1 DEF SuperStep, SuperBegin, SuperRequeue, SuperStale, SuperClose, SuperSweep,
                      SuperScan, SuperReap, SuperEvict, SuperDrain, SuperReturn
<1>2. super \in [Supervisors -> SuperCall]
  BY DEF Base, Types, PassesFit
<1>3. PICK z \in super[s].todo : IsForemost(z, super[s].todo) /\ SuperDone(s, z)
  BY <1>1 DEF SuperTake
<1>4. x = z
  BY <1>2, <1>3 DEF SuperDone, SuperCall
<1>5. x.priority <= y.priority
  <2>1. x \in TakePlaces /\ y \in TakePlaces
    BY DEF Base, Types, PassesFit, SuperFits
  <2>2. x.priority \in Int /\ y.priority \in Int
    BY <2>1 DEF TakePlaces
  <2>3. x.priority < y.priority \/ x.priority = y.priority
    BY <1>3, <1>4 DEF IsForemost
  <2> QED BY <2>2, <2>3
<1>6. x.priority = RankOf(x.id) /\ y.priority = RankOf(y.id)
  BY DEF Ranks
<1> QED BY <1>5, <1>6

\* DrainsByPriority: a supervisor takes nothing out of the window ahead of an item of a higher
\* priority on its list, whatever the others have done to the window and the priorities since.
THEOREM DrainsInOrder == IdsTellKeys => (Spec => DrainsByPriority)
<1> SUFFICES ASSUME IdsTellKeys PROVE Spec => DrainsByPriority
  OBVIOUS
<1>1. Init => Ranks
  BY RanksInit
<1>2. Base /\ Ranks /\ [Next]_vars => Ranks'
  BY RanksStep
<1>3. Base /\ Ranks /\ [Next]_vars =>
        [\A s \in Supervisors : super[s].pc = "take" =>
           \A x \in super[s].todo \ super'[s].todo, y \in super[s].todo :
             {x.id, y.id} \subseteq Waiting =>
               PriorityOf[deliveries[x.id].event] <= PriorityOf[deliveries[y.id].event]]_vars
  BY TakesForemost DEF RankOf
<1>4. Spec => []Base
  <2>1. Types /\ (Shapes /\ Custody) /\ Records => Base
    BY DEF Base
  <2> QED BY <2>1, TypesHold, CustodyHolds, RecordsHold, PTL
<1> QED BY <1>1, <1>2, <1>3, <1>4, PTL DEF Spec, DrainsByPriority

==============================================================================
