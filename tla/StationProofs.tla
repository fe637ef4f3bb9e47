----------------------------- MODULE StationProofs ----------------------------
(***************************************************************************)
(* The dock and the relay together.  The lemmas of the dock's proofs are   *)
(* used as they stand; those of the relay's through A, which is the relay  *)
(* of R with its proofs: the same variables and constants, so that the     *)
(* predicates of R and A say the same word for word, and the lemmas of the *)
(* first section only carry facts from one to the other.                   *)
(*                                                                         *)
(* A step of a client of the dock is one that the dock's proofs know, and  *)
(* leaves the relay's goroutines alone.  What the relay has to learn of it *)
(* is that the types of what the two share stay, that no record becomes    *)
(* leased or dead by it, and that the journal only grows.  A step of the   *)
(* relay is one that the relay's proofs know, and to the dock a step       *)
(* elsewhere: the relay settles deliveries, but takes none out of the      *)
(* store, changes no delivery's event and removes no entry.  The invariant *)
(* of the whole is the two sides' own, with the types of both.             *)
(***************************************************************************)
EXTENDS StationProperties, DockOrder

A == INSTANCE AdmissionProofs WITH
       Clients <- {}, client <- [c \in {} |-> 0], IdOf <- [k \in Keys |-> CHOOSE id \in Ids : TRUE],
       Supervisors <- Sweepers, Batchers <- {}

------------------------------------------------------------------------------
(* R and A: the relay as Station composes it, and as its proofs know it *)

LEMMA SameTypes == R!TypeOK <=> A!TypeOK
BY DEF R!TypeOK, A!TypeOK, R!StoreTypeOK, A!StoreTypeOK, R!Workers, A!Workers, R!JournalTypeOK,
       A!JournalTypeOK, R!SchedulerTypeOK, A!SchedulerTypeOK, R!BreakersTypeOK, A!BreakersTypeOK,
       R!ClientPCs, A!ClientPCs, R!WorkerPCs, A!WorkerPCs, R!DeliveryRecord, A!DeliveryRecord,
       R!Entry, A!Entry, R!Queued, A!Queued, R!DeliveryStates, A!DeliveryStates, R!Transitions,
       A!Transitions, R!TerminalStates, A!TerminalStates, R!IsFiniteSet, A!IsFiniteSet,
       R!Cardinality, A!Cardinality

LEMMA SameWorkers ==
  ASSUME NEW w
  PROVE  /\ R!WorkerStep(w) <=> A!WorkerStep(w)
         /\ R!StepBegin(w) <=> A!StepBegin(w)
<1>1. R!WorkerStep(w) <=> A!WorkerStep(w)
  BY DEF R!WorkerStep, A!WorkerStep, R!StepPop, A!StepPop, R!StepAcquire, A!StepAcquire,
         R!StepAllow, A!StepAllow, R!SendReturns, A!SendReturns, R!StepComplete, A!StepComplete,
         R!StepDead, A!StepDead, R!StepRetry, A!StepRetry, R!StepLogDelivered, A!StepLogDelivered,
         R!StepLogDead, A!StepLogDead, R!StepRevive, A!StepRevive, R!StepLogRetry, A!StepLogRetry,
         R!StepSchedule, A!StepSchedule, R!Queued, A!Queued, R!PopReady, A!PopReady, R!NoneReady,
         A!NoneReady, R!WorkerReturns, A!WorkerReturns, R!storeVars, A!storeVars, R!journalVars,
         A!journalVars, R!workerFrame, A!workerFrame, R!Acquire, A!Acquire, R!WorkerTakes,
         A!WorkerTakes, R!Acquirable, A!Acquirable, R!Allow, A!Allow, R!WorkerGoes, A!WorkerGoes,
         R!Denied, A!Denied, R!Release, A!Release, R!AfterFailure, A!AfterFailure, R!Complete,
         A!Complete, R!HoldsLease, A!HoldsLease, R!Dead, A!Dead, R!OpenRetryDelay, A!OpenRetryDelay,
         R!BackoffFor, A!BackoffFor, R!Retry, A!Retry, R!WorkerWaits, A!WorkerWaits,
         R!AppendAccepted, A!AppendAccepted, R!AppendRejected, A!AppendRejected, R!ReviveDead,
         A!ReviveDead, R!Schedule, A!Schedule, R!ScheduleFull, A!ScheduleFull, R!IsEarliest,
         A!IsEarliest, R!IdleWorker, A!IdleWorker, R!envVars, A!envVars, R!Leased, A!Leased,
         R!Stored, A!Stored, R!Terminal, A!Terminal, R!Tripped, A!Tripped, R!ZeroBreaker,
         A!ZeroBreaker, R!Released, A!Released, R!Failed, A!Failed, R!Postponed, A!Postponed,
         R!HasRoom, A!HasRoom, R!TerminalStates, A!TerminalStates, R!IsFiniteSet, A!IsFiniteSet,
         R!Cardinality, A!Cardinality
<1>2. R!StepBegin(w) <=> A!StepBegin(w)
  BY DEF R!StepBegin, A!StepBegin, R!IdleWorker, A!IdleWorker, R!sharedVars, A!sharedVars,
         R!workerFrame, A!workerFrame, R!storeVars, A!storeVars, R!journalVars, A!journalVars,
         R!envVars, A!envVars
<1> QED BY <1>1, <1>2

LEMMA SameReplays ==
  ASSUME NEW r
  PROVE  R!ReplayStep(r) <=> A!ReplayStep(r)
BY DEF R!ReplayStep, A!ReplayStep, R!ReplayBegin, A!ReplayBegin, R!ReplayEntry, A!ReplayEntry,
       R!ReadUpTo, A!ReadUpTo, R!replayFrame, A!replayFrame, R!Schedule, A!Schedule, R!ScheduleFull,
       A!ScheduleFull, R!storeVars, A!storeVars, R!journalVars, A!journalVars, R!envVars, A!envVars,
       R!HasRoom, A!HasRoom, R!Queued, A!Queued, R!IsFiniteSet, A!IsFiniteSet, R!Cardinality,
       A!Cardinality

LEMMA SameSweeps ==
  ASSUME NEW s
  PROVE  R!SweepStep(s) <=> A!SweepStep(s)
BY DEF R!SweepStep, A!SweepStep, R!OverdueRead, A!OverdueRead, R!OverdueSchedule, A!OverdueSchedule,
       R!sweepFrame, A!sweepFrame, R!Schedule, A!Schedule, R!ScheduleFull, A!ScheduleFull,
       R!storeVars, A!storeVars, R!journalVars, A!journalVars, R!envVars, A!envVars, R!HasRoom,
       A!HasRoom, R!Queued, A!Queued, R!IsFiniteSet, A!IsFiniteSet, R!Cardinality, A!Cardinality

\* A step of the relay's goroutines.
RelayStep ==
  \/ \E w \in Steppers : R!WorkerStep(w) \/ R!StepBegin(w)
  \/ \E r \in Replayers : R!ReplayStep(r)
  \/ \E s \in Sweepers : R!SweepStep(s)

LEMMA RelaySteps == RelayStep => A!Next
BY SameWorkers, SameReplays, SameSweeps DEF RelayStep, A!Next, A!Workers

\* What the relay assumes of its constants, for those it has here.
LEMMA RelayAssumes == A!CoreConstants /\ A!CapacityIsNat /\ A!BreakerConstants /\ A!RelayConstants
<1>1. [k \in Keys |-> CHOOSE id \in Ids : TRUE] \in [Keys -> Ids]
  BY StationConstants
<1> QED BY <1>1, CoreConstants, CapacityIsNat, DockConstants, StationConstants
        DEF A!CoreConstants, A!CapacityIsNat, A!BreakerConstants, A!RelayConstants, A!Workers

LEMMA RelayTypes ==
  ASSUME R!TypeOK, RelayStep
  PROVE  R!TypeOK'
<1>1. A!TypeOK /\ A!Next
  BY SameTypes, RelaySteps
<1>2. A!TypeOK'
  BY <1>1, A!TypeNext, RelayAssumes
<1>3. R!TypeOK' <=> A!TypeOK'
  BY SameTypes, PTL
<1> QED BY <1>2, <1>3

\* What the relay's steps do to what the dock relies on.
LEMMA RelayKeeps ==
  ASSUME R!TypeOK, RelayStep
  PROVE  /\ reserved' = reserved
         /\ \A id \in Ids : deliveries'[id].event = deliveries[id].event /\ (Stored(id)' <=> Stored(id))
         /\ \A id, t : HasEntry(id, t) => HasEntry(id, t)'
         /\ clock' = clock
<1>1. A!TypeOK /\ A!Next
  BY SameTypes, RelaySteps
<1>2. reserved' = reserved
  BY <1>1, A!StoreSteps, RelayAssumes
<1>3. ASSUME NEW id \in Ids
      PROVE  deliveries'[id].event = deliveries[id].event /\ (Stored(id)' <=> Stored(id))
  BY <1>1, A!StoreSteps, RelayAssumes DEF A!Stored, Stored
<1>4. ASSUME NEW id, NEW t, HasEntry(id, t) PROVE HasEntry(id, t)'
  <2>1. A!HasEntry(id, t)
    BY <1>4 DEF HasEntry, A!HasEntry
  <2>2. A!HasEntry(id, t)'
    BY <1>1, <2>1, A!EntriesStay, RelayAssumes
  <2> QED BY <2>2 DEF HasEntry, A!HasEntry
<1>5. clock' = clock
  <2>1. ASSUME NEW w, A!WorkerStep(w) \/ A!StepBegin(w) PROVE clock' = clock
    BY <2>1 DEF A!WorkerStep, A!StepPop, A!StepAcquire, A!StepAllow, A!SendReturns, A!StepComplete,
         A!StepDead, A!StepRetry, A!StepLogDelivered, A!StepLogDead, A!StepRevive, A!StepLogRetry,
         A!StepSchedule, A!StepBegin, A!workerFrame, A!envVars
  <2>2. ASSUME NEW r, A!ReplayStep(r) PROVE clock' = clock
    BY <2>2 DEF A!ReplayStep, A!ReplayBegin, A!ReplayEntry, A!replayFrame, A!envVars
  <2>3. ASSUME NEW s, A!SweepStep(s) PROVE clock' = clock
    BY <2>3 DEF A!SweepStep, A!OverdueRead, A!OverdueSchedule, A!sweepFrame, A!envVars
  <2> QED BY <2>1, <2>2, <2>3, SameWorkers, SameReplays, SameSweeps DEF RelayStep
<1> QED BY <1>2, <1>3, <1>4, <1>5

LEMMA RelayPasses ==
  ASSUME R!TypeOK, RelayStep
  PROVE  \A r \in Replayers : \A i \in DOMAIN journal :
           /\ replay[r].cursor < i /\ i <= replay'[r].cursor
           /\ journal[i].transition = "pending"
           => journal[i].delivery \in DOMAIN queue'
<1>1. A!TypeOK /\ A!Next
  BY SameTypes, RelaySteps
<1> QED BY <1>1, A!PassesQueued, RelayAssumes

------------------------------------------------------------------------------
(* Types *)

\* The types of what the two share, in the dock's words.
LEMMA SharedTypes ==
  R!TypeOK => /\ StoreTypeOK(Steppers) /\ JournalTypeOK /\ SchedulerTypeOK
              /\ submits \in Nat /\ rejects \in Nat
BY DEF R!TypeOK, A!TypeOK, R!StoreTypeOK, A!StoreTypeOK, R!Workers, A!Workers, R!JournalTypeOK,
       A!JournalTypeOK, R!SchedulerTypeOK, A!SchedulerTypeOK, R!BreakersTypeOK, A!BreakersTypeOK,
       R!ClientPCs, A!ClientPCs, R!WorkerPCs, A!WorkerPCs, R!DeliveryRecord, A!DeliveryRecord,
       R!Entry, A!Entry, R!Queued, A!Queued, R!DeliveryStates, A!DeliveryStates, R!Transitions,
       A!Transitions, R!TerminalStates, A!TerminalStates, R!IsFiniteSet, A!IsFiniteSet,
       R!Cardinality, A!Cardinality,
       StoreTypeOK, DeliveryRecord, DeliveryStates, JournalTypeOK, Entry, Transitions, TerminalStates,
       SchedulerTypeOK, Queued, IsFiniteSet, Cardinality

\* The relay's types hold as long as the dock keeps those of what they share.
LEMMA DockKeepsRelayTypes ==
  ASSUME R!TypeOK, UNCHANGED relayVars,
         StoreTypeOK(Steppers)', JournalTypeOK', SchedulerTypeOK',
         journal' = journal \/ Len(journal') = Len(journal) + 1,
         clock' \in Nat, submits' \in Nat, rejects' \in Nat
  PROVE  R!TypeOK'
<1>1. A!TypeOK
  BY SameTypes
<1>2. A!BreakersTypeOK' /\ A!ClientTypeOK' /\ A!WorkerTypeOK' /\ A!SweepTypeOK'
  BY <1>1, A!FrameTypes, RelayAssumes DEF relayVars
<1>3. A!ReplayTypeOK'
  <2>1. A!ReplayTypeOK /\ A!JournalTypeOK
    BY <1>1, A!TypeParts, RelayAssumes
  <2> QED BY <2>1, A!ReplayTypes, RelayAssumes DEF relayVars
<1>4. A!EnvTypeOK'
  BY DEF A!EnvTypeOK
<1>5. A!StoreTypeOK(A!Workers)'
  BY DEF StoreTypeOK, DeliveryRecord, DeliveryStates, A!StoreTypeOK, A!DeliveryRecord,
         A!DeliveryStates, A!Workers
<1>6. A!JournalTypeOK' /\ A!SchedulerTypeOK'
  BY DEF JournalTypeOK, Entry, Transitions, TerminalStates, A!JournalTypeOK, A!Entry, A!Transitions,
         A!TerminalStates, SchedulerTypeOK, Queued, IsFiniteSet, Cardinality, A!SchedulerTypeOK,
         A!Queued, A!IsFiniteSet, A!Cardinality
<1>7. A!TypeOK'
  BY <1>2, <1>3, <1>4, <1>5, <1>6, A!TypePartsNext, RelayAssumes
<1>8. R!TypeOK' <=> A!TypeOK'
  BY SameTypes, PTL
<1> QED BY <1>7, <1>8

\* What is in place when the station starts, and stays so.
StationTypes == R!TypeOK /\ Shapes /\ CallsHaveKeys /\ PartsFit

LEMMA StationTypesInit == StationInit => StationTypes
<1> SUFFICES ASSUME StationInit PROVE StationTypes
  OBVIOUS
<1>1. Shapes /\ CallsHaveKeys /\ PartsFit
  BY TypesInit DEF StationInit, Types
<1>2. A!Init
  BY DEF StationInit, R!Init, A!Init, R!StoreInit, A!StoreInit, R!JournalInit, A!JournalInit,
             R!SchedulerInit, A!SchedulerInit, R!BreakersInit, A!BreakersInit, R!IdleClient,
             A!IdleClient, R!Workers, A!Workers, R!IdleWorker, A!IdleWorker, R!ZeroDelivery,
             A!ZeroDelivery, R!ZeroBreaker, A!ZeroBreaker
<1>3. R!TypeOK
  BY <1>2, SameTypes, A!TypeInit, RelayAssumes
<1> QED BY <1>1, <1>3 DEF StationTypes

\* A step of a client of the dock.
ClientStep ==
  \E c \in Clients : SubmitStep(c) \/ \E e \in Events, s \in Specs : SubmitBegin(c, e, s)

LEMMA ClientKeepsTypes ==
  ASSUME StationTypes, ClientStep, UNCHANGED relayVars
  PROVE  StationTypes'
<1>1. PICK c \in Clients : SubmitStep(c) \/ \E e \in Events, s \in Specs : SubmitBegin(c, e, s)
  BY DEF ClientStep
<1>2. Shapes' /\ CallsHaveKeys' /\ PartsFit'
  BY <1>1, ClientShapes, ClientKeys, ClientPartsFit DEF StationTypes
<1>3. StoreTypeOK(Steppers)'
  BY <1>1, SharedTypes, ClientStoreTypes DEF StationTypes
<1>4. journal' = journal \/ Len(journal') = Len(journal) + 1
  <2>1. UNCHANGED journal \/ \E entry : journal' = Append(journal, entry)
    BY <1>1 DEF SubmitStep, SubmitBegin, SubmitReserve, SubmitAppend, SubmitKeep, SubmitPop,
         SubmitSchedule, SubmitRollback, SubmitProtect, SubmitRank, SubmitAdd, AppendAccepted,
         AppendRejected, journalVars
  <2>2. journal \in Seq(Entry)
    BY SharedTypes DEF StationTypes, JournalTypeOK
  <2> QED BY <2>1, <2>2
<1>5. clock' \in Nat /\ submits' \in Nat /\ rejects' \in Nat
  <2>1. /\ submits' = submits \/ submits' = submits + 1
        /\ clock' = clock /\ rejects' = rejects
    BY <1>1 DEF SubmitStep, SubmitBegin, SubmitReserve, SubmitAppend, SubmitKeep, SubmitPop,
         SubmitSchedule, SubmitRollback, SubmitProtect, SubmitRank, SubmitAdd, clientFrame
  <2> QED BY <2>1, SharedTypes DEF StationTypes, Shapes
<1>6. R!TypeOK'
  BY <1>2, <1>3, <1>4, <1>5, DockKeepsRelayTypes DEF StationTypes, PartsFit
<1> QED BY <1>2, <1>6 DEF StationTypes

\* A rejected append, or no step at all.
LEMMA IdleKeepsTypes ==
  ASSUME StationTypes, InjectRejection \/ UNCHANGED vars, UNCHANGED relayVars
  PROVE  StationTypes'
<1>1. /\ UNCHANGED <<storeVars, journal, queue, partVars, callVars, clock, submits>>
      /\ failNext' \in {failNext, TRUE}
      /\ rejects' \in {rejects, rejects + 1}
  BY DEF InjectRejection, RejectNextAppend, vars, journalVars, envVars
<1>2. Shapes'
  BY OtherSteps, ElsewhereShapes DEF StationTypes
<1>3. CallsHaveKeys'
  BY <1>1 DEF StationTypes, CallsHaveKeys, callVars
<1>4. JournalTypeOK' /\ StoreTypeOK(Steppers)' /\ SchedulerTypeOK'
  BY <1>1, SharedTypes, StoreSame, QueueTypes DEF StationTypes, JournalTypeOK
<1>5. PartsFit'
  BY <1>1, <1>4, WindowTypes, PriorityTypes, ExpiryTypes, LedgerSame
     DEF StationTypes, PartsFit, partVars, windowVars, Waiting
<1>6. clock' \in Nat /\ submits' \in Nat /\ rejects' \in Nat
  BY <1>1, SharedTypes DEF StationTypes, Shapes
<1>7. R!TypeOK'
  BY <1>1, <1>4, <1>6, DockKeepsRelayTypes DEF StationTypes
<1> QED BY <1>2, <1>3, <1>5, <1>7 DEF StationTypes

\* What a step of the relay leaves of the dock.
LEMMA RelayElsewhere ==
  ASSUME StationTypes, RelayStep, UNCHANGED <<partVars, callVars>>
  PROVE  Elsewhere
<1>1. reserved' = reserved /\ clock' = clock
  BY RelayKeeps DEF StationTypes
<1> QED BY <1>1 DEF StationTypes, Shapes, Elsewhere, partVars, callVars, windowVars, receiptVars,
                    retentionVars, Waiting, GivenUp, Tracked

LEMMA RelayKeepsTypes ==
  ASSUME StationTypes, RelayStep, UNCHANGED <<partVars, callVars>>
  PROVE  StationTypes'
<1>1. R!TypeOK'
  BY RelayTypes DEF StationTypes
<1>2. Shapes'
  BY RelayElsewhere, ElsewhereShapes DEF StationTypes
<1>3. CallsHaveKeys'
  BY DEF StationTypes, CallsHaveKeys, callVars
<1>4. JournalTypeOK' /\ SchedulerTypeOK'
  <2>1. R!TypeOK' => JournalTypeOK' /\ SchedulerTypeOK'
    BY SharedTypes, PTL
  <2> QED BY <1>1, <2>1
<1>5. PartsFit'
  BY <1>4, WindowTypes, PriorityTypes, ExpiryTypes, LedgerSame
     DEF StationTypes, PartsFit, partVars, windowVars, Waiting
<1> QED BY <1>1, <1>2, <1>3, <1>5 DEF StationTypes

\* Every step of the station is one of these.
LEMMA StationSteps ==
  ASSUME [StationNext]_stationVars
  PROVE  \/ ClientStep /\ UNCHANGED relayVars
         \/ (InjectRejection \/ UNCHANGED vars) /\ UNCHANGED relayVars
         \/ RelayStep /\ UNCHANGED <<partVars, callVars>>
BY DEF StationNext, stationVars, DockSide, RelaySide, WorkerLoops, ClientStep, RelayStep

LEMMA StationTypesStep ==
  ASSUME StationTypes, [StationNext]_stationVars
  PROVE  StationTypes'
BY StationSteps, ClientKeepsTypes, IdleKeepsTypes, RelayKeepsTypes

LEMMA StationTypesHold == StationSpec => []StationTypes
<1>1. StationTypes /\ [StationNext]_stationVars => StationTypes'
  BY StationTypesStep
<1> QED BY <1>1, StationTypesInit, PTL DEF StationSpec

\* StationTypeOK: with the dock's clients and the relay's goroutines on the same store, journal
\* and queue, every variable keeps its type, the queue and the window stay within their
\* capacities and the replays' cursors within the journal.
THEOREM StationTypesCorrect == StationSpec => []StationTypeOK
<1>1. StationTypes => StationTypeOK
  BY CoreConstants, DockConstants
     DEF StationTypes, PartsFit, WindowFits, WindowTypeOK, CallsHaveKeys, Shapes, StationTypeOK
<1> QED BY <1>1, StationTypesHold, PTL

\* Replay's cursor passes a pending entry only in the step that puts its delivery in the queue,
\* whatever the dock's clients do to the queue and the journal meanwhile.
THEOREM ReplayQueuesTheDocksEntries == StationSpec => ReplaySkipsNothing
<1> DEFINE Passes == \A r \in Replayers : \A i \in DOMAIN journal :
                       /\ replay[r].cursor < i /\ i <= replay'[r].cursor
                       /\ journal[i].transition = "pending"
                       => journal[i].delivery \in DOMAIN queue'
<1>1. ASSUME StationTypes, [StationNext]_stationVars PROVE Passes
  <2>1. CASE RelayStep
    BY <1>1, <2>1, RelayPasses DEF StationTypes
  <2>2. CASE UNCHANGED relayVars
    <3>1. ASSUME NEW r \in Replayers, NEW i \in DOMAIN journal
          PROVE  ~(replay[r].cursor < i /\ i <= replay'[r].cursor)
      <4>1. replay' = replay /\ replay[r].cursor \in Nat /\ i \in Nat
        BY <1>1, <2>2, A!TypeParts, SameTypes, RelayAssumes, SharedTypes
           DEF StationTypes, relayVars, A!ReplayTypeOK, JournalTypeOK
      <4> QED BY <4>1
    <3> QED BY <3>1
  <2> QED BY <1>1, <2>1, <2>2, StationSteps
<1>2. StationTypes /\ [StationNext]_stationVars => [Passes]_(R!vars)
  BY <1>1
<1> QED BY <1>2, StationTypesHold, PTL DEF StationSpec, ReplaySkipsNothing, R!ReplaySkipsNothing

------------------------------------------------------------------------------
(* Custody and records *)

\* The relay moves nothing between the dock's places, changes no delivery's event and takes no
\* entry from the journal.
LEMMA RelayKeepsRecords ==
  ASSUME StationTypes, StationTypes', Custody, Records, RelayStep, UNCHANGED <<partVars, callVars>>
  PROVE  Records'
<1>1. /\ reserved' = reserved
      /\ \A id \in Ids : deliveries'[id].event = deliveries[id].event /\ (Stored(id)' <=> Stored(id))
      /\ \A id, t : HasEntry(id, t) => HasEntry(id, t)'
  BY RelayKeeps DEF StationTypes
<1>2. StoreIsMap' /\ JournalTypeOK'
  <2>1. R!TypeOK' => StoreTypeOK(Steppers)' /\ JournalTypeOK'
    BY SharedTypes, PTL
  <2>2. StoreTypeOK(Steppers)' => StoreIsMap'
    BY DEF StoreTypeOK, StoreIsMap
  <2> QED BY <2>1, <2>2 DEF StationTypes
<1>3. \A id \in Ids : /\ \A c \in Clients : Holds(c, id)' <=> Holds(c, id)
                      /\ Away(id)' <=> Away(id)
                      /\ InBatch(id)' <=> InBatch(id)
  BY SameClient, SameDispatch DEF callVars, partVars, windowVars, receiptVars, retentionVars, Away,
     Settled, InBatch, Waiting, HasReceipt, GivenUp, Tracked
<1>4. \A id \in Ids : Kept(id) => Kept(id)'
  BY <1>1 DEF Kept
<1>5. \A c \in Clients, id \in Ids :
        Holds(c, id)' => Stored(id)' /\ deliveries'[id].event = client'[c].event
  BY <1>1, <1>3 DEF Records, callVars
<1>6. \A id \in Ids : Away(id)' => Kept(id)'
  BY <1>3, <1>4 DEF Records
<1>7. ASSUME NEW c \in Clients, client'[c].pc \in {"schedule", "protect", "rank", "add"}
      PROVE  HasEntry(client[c].id, "pending")'
  <2>1. client' = client
    BY DEF callVars
  <2>2. PICK x : x = client[c].id
    OBVIOUS
  <2>3. HasEntry(x, "pending")
    BY <1>7, <2>1, <2>2 DEF Records
  <2>4. HasEntry(x, "pending")'
    BY <1>1, <2>3
  <2> QED BY <2>1, <2>2, <2>4 DEF HasEntry
<1>8. \A id \in Ids : InBatch(id)' => HasEntry(id, "pending")'
  BY <1>1, <1>3 DEF Records
<1> QED BY <1>2, <1>5, <1>6, <1>7, <1>8 DEF Records

LEMMA CustodyInStation ==
  ASSUME IdsTellKeys, StationTypes, StationTypes', Custody, Records, [StationNext]_stationVars
  PROVE  Custody' /\ Records'
<1>1. Shapes /\ Shapes'
  BY DEF StationTypes
<1>2. CASE ClientStep \/ InjectRejection \/ UNCHANGED vars
  <2>1. [Next]_vars
    BY <1>2 DEF ClientStep, Next
  <2> QED BY <1>1, <2>1, CustodyStep, RecordsStep
<1>3. CASE RelayStep /\ UNCHANGED <<partVars, callVars>>
  BY <1>1, <1>3, RelayElsewhere, ElsewhereCustody, RelayKeepsRecords
<1> QED BY <1>2, <1>3, StationSteps

\* BatchIsAdmitted: with the relay at work on the same store, what waits in the dock's window is
\* still in the store under its reserved key, and in the journal.
THEOREM BatchStaysAdmitted == IdsTellKeys => (StationSpec => []BatchIsAdmitted)
<1> SUFFICES ASSUME IdsTellKeys PROVE StationSpec => []BatchIsAdmitted
  OBVIOUS
<1>1. StationInit => Custody /\ Records
  BY CustodyInit, RecordsInit DEF StationInit
<1>2. StationTypes /\ StationTypes' /\ Custody /\ Records /\ [StationNext]_stationVars
        => Custody' /\ Records'
  BY CustodyInStation
<1>3. Records => BatchIsAdmitted
  BY DEF Records, InBatch, Away, Kept, BatchIsAdmitted
<1> QED BY <1>1, <1>2, <1>3, StationTypesHold, PTL DEF StationSpec

------------------------------------------------------------------------------
(* The relay's word *)

\* What the relay promises of the deliveries it handles, with what its proofs need for it.
Word ==
  /\ A!ProbeHasCall
  /\ A!LeaseCopyCurrent
  /\ A!LastAttempt
  /\ A!DeadIsExhausted
  /\ A!DeadIsJournaled

LEMMA WordInit == StationInit => Word
<1> SUFFICES ASSUME StationInit PROVE Word
  OBVIOUS
<1>1. /\ \A e \in Endpoints : ~breakers[e].probe
      /\ \A w \in A!Workers : worker[w].pc = "idle"
      /\ \A id \in Ids : deliveries[id].state = "absent"
  BY DEF StationInit, R!Init, R!StoreInit, R!BreakersInit, R!ZeroBreaker, R!ZeroDelivery,
         R!IdleWorker, R!Workers, A!Workers
<1> QED BY <1>1 DEF Word, A!ProbeHasCall, A!LeaseCopyCurrent, A!Holding, A!LastAttempt,
                    A!DeadIsExhausted, A!DeadIsJournaled

\* The dock's clients write pending deliveries, take deliveries out of the store, and append
\* to the journal.
LEMMA ClientWrites ==
  ASSUME StationTypes, ClientStep
  PROVE  /\ \A id \in Ids : \/ deliveries'[id] = deliveries[id]
                            \/ deliveries'[id].state \in {"absent", "pending"}
         /\ journal' = journal \/ \E x : journal' = Append(journal, x)
<1>1. PICK c \in Clients : SubmitStep(c) \/ \E e \in Events, s \in Specs : SubmitBegin(c, e, s)
  BY DEF ClientStep
<1>2. PICK x, e : x = client[c].id /\ e = client[c].event
  OBVIOUS
<1>3. \/ UNCHANGED deliveries
      \/ deliveries' = [deliveries EXCEPT ![x] = ZeroDelivery]
      \/ deliveries' = [deliveries EXCEPT ![x] = NewDelivery(e, clock)]
  BY <1>1, <1>2 DEF SubmitStep, SubmitBegin, SubmitReserve, SubmitAppend, SubmitKeep, SubmitPop,
         SubmitSchedule, SubmitRollback, SubmitProtect, SubmitRank, SubmitAdd, storeVars, Reserve,
         KeepReservation, RollbackReservation
<1>4. ZeroDelivery.state = "absent" /\ NewDelivery(e, clock).state = "pending"
  BY DEF ZeroDelivery, NewDelivery
<1>5. deliveries \in [Ids -> DeliveryRecord(Steppers)]
  BY SharedTypes DEF StationTypes, StoreTypeOK
<1>6. \A id \in Ids : \/ deliveries'[id] = deliveries[id]
                      \/ deliveries'[id].state \in {"absent", "pending"}
  BY <1>3, <1>4, <1>5
<1>7. journal' = journal \/ \E entry : journal' = Append(journal, entry)
  BY <1>1 DEF SubmitStep, SubmitBegin, SubmitReserve, SubmitAppend, SubmitKeep, SubmitPop,
         SubmitSchedule, SubmitRollback, SubmitProtect, SubmitRank, SubmitAdd, AppendAccepted,
         AppendRejected, journalVars
<1> QED BY <1>6, <1>7

\* What is no worker's lease and no death does not touch what the relay promises.
LEMMA DockKeepsWord ==
  ASSUME StationTypes, Word, ClientStep \/ InjectRejection \/ UNCHANGED vars, UNCHANGED relayVars
  PROVE  Word'
<1>1. /\ \A id \in Ids : \/ deliveries'[id] = deliveries[id]
                         \/ deliveries'[id].state \in {"absent", "pending"}
      /\ \A id, t : HasEntry(id, t) => HasEntry(id, t)'
  <2>1. CASE ClientStep
    <3>1. JournalTypeOK
      BY SharedTypes DEF StationTypes
    <3>2. journal' = journal => \A id, t : HasEntry(id, t) => HasEntry(id, t)'
      BY DEF HasEntry
    <3>3. \A x : journal' = Append(journal, x) => \A id, t : HasEntry(id, t) => HasEntry(id, t)'
      BY <3>1, EntriesStay
    <3> QED BY <2>1, <3>2, <3>3, ClientWrites
  <2>2. CASE InjectRejection \/ UNCHANGED vars
    BY <2>2 DEF InjectRejection, RejectNextAppend, vars, storeVars, journalVars, HasEntry
  <2> QED BY <2>1, <2>2
<1>2. worker' = worker /\ breakers' = breakers
  BY DEF relayVars
<1>3. A!ProbeHasCall'
  BY <1>2 DEF Word, A!ProbeHasCall
<1>4. A!LeaseCopyCurrent'
  <2> SUFFICES ASSUME NEW w \in A!Workers, A!Holding(w)',
                      deliveries'[worker[w].id].state = "leased",
                      deliveries'[worker[w].id].leaseOwner = w,
                      deliveries'[worker[w].id].leaseEpoch = worker[w].epoch
               PROVE  /\ deliveries'[worker[w].id].event = worker[w].event
                      /\ deliveries'[worker[w].id].attempt = worker[w].attempt
                      /\ deliveries'[worker[w].id].leaseUntil = worker[w].now + LeaseTTL
    BY <1>2 DEF A!LeaseCopyCurrent, A!HoldsLease
  <2>1. worker[w].id \in Ids
    <3>1. A!TypeOK
      BY SameTypes DEF StationTypes
    <3>2. worker[w].pc \notin {"idle", "pop"}
      BY <1>2 DEF A!Holding
    <3> QED BY <3>1, <3>2, A!TypeParts, RelayAssumes DEF A!WorkerTypeOK
  <2>2. deliveries'[worker[w].id] = deliveries[worker[w].id]
    BY <1>1, <2>1
  <2> QED BY <1>2, <2>2 DEF Word, A!LeaseCopyCurrent, A!Holding, A!HoldsLease
<1>5. A!LastAttempt'
  BY <1>2 DEF Word, A!LastAttempt
<1>6. A!DeadIsExhausted'
  BY <1>1 DEF Word, A!DeadIsExhausted
<1>7. A!DeadIsJournaled'
  <2> SUFFICES ASSUME NEW id \in Ids, deliveries'[id].state = "dead"
               PROVE  \/ A!HasEntry(id, "dead")'
                      \/ \E w \in A!Workers : worker[w].pc \in {"logDead", "revive"} /\ worker[w].id = id
    BY <1>2 DEF A!DeadIsJournaled
  <2>1. deliveries[id].state = "dead"
    BY <1>1
  <2>2. A!HasEntry(id, "dead") => A!HasEntry(id, "dead")'
    BY <1>1 DEF HasEntry, A!HasEntry
  <2> QED BY <2>1, <2>2 DEF Word, A!DeadIsJournaled
<1> QED BY <1>3, <1>4, <1>5, <1>6, <1>7 DEF Word

LEMMA RelayKeepsWord ==
  ASSUME StationTypes, Word, RelayStep
  PROVE  Word'
<1>1. A!TypeOK /\ A!Next
  BY SameTypes, RelaySteps DEF StationTypes
<1>2. A!ProbeHasCall' /\ A!LeaseCopyCurrent' /\ A!LastAttempt'
  BY <1>1, A!ProbeStep, A!LeaseCopyStep, A!LastAttemptStep, RelayAssumes DEF Word
<1>3. A!DeadIsExhausted' /\ A!DeadIsJournaled'
  BY <1>1, A!ExhaustedStep, A!JournaledStep, RelayAssumes DEF Word
<1> QED BY <1>2, <1>3 DEF Word

\* With the dock's clients in the place of its own the relay keeps four of its promises: a
\* circuit's probe is a send in progress, a worker's copy of a delivery is current while its
\* lease stands, and a dead delivery has had its attempts and is in the journal as dead, or its
\* worker is still to append that or to revive it.
THEOREM RelayKeepsItsWord ==
  StationSpec => [](R!ProbeHasCall /\ R!LeaseCopyCurrent /\ R!DeadIsExhausted /\ R!DeadIsJournaled)
<1>1. StationTypes /\ Word /\ [StationNext]_stationVars => Word'
  BY StationSteps, DockKeepsWord, RelayKeepsWord
<1>2. Word => R!ProbeHasCall /\ R!LeaseCopyCurrent /\ R!DeadIsExhausted /\ R!DeadIsJournaled
  BY DEF Word, A!ProbeHasCall, A!LeaseCopyCurrent, A!DeadIsExhausted, A!DeadIsJournaled, A!Workers,
         A!Holding, A!HoldsLease, A!HasEntry, R!ProbeHasCall, R!LeaseCopyCurrent, R!DeadIsExhausted,
         R!DeadIsJournaled, R!Workers, R!Holding, R!HoldsLease, R!HasEntry
<1> QED BY <1>1, <1>2, WordInit, StationTypesHold, PTL DEF StationSpec
==============================================================================
