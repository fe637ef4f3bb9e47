------------------------------ MODULE DockProofs ------------------------------
(***************************************************************************)
(* A delivery of the dock has one place at a time: with the client that    *)
(* admits it, in the batch window, with the dispatcher that sends it, or   *)
(* settled by a receipt or a dead letter.  From this follow that it is     *)
(* sent once, that a send has one outcome, and that open deliveries and    *)
(* confirmations have their receipts.                                      *)
(*                                                                         *)
(* The second part follows what else is kept of a delivery from place to   *)
(* place: its record and its entry, and the protection of its event.       *)
(*                                                                         *)
(* All of it needs delivery ids to tell keys apart (IdsTellKeys): an id is *)
(* a hash of the endpoint Submit selects and the key.                      *)
(***************************************************************************)
EXTENDS DockProperties, FiniteSetTheorems, TLAPS

IdsTellKeys ==
  \A s, t \in Specs : \A k, l \in Keys : IdOf[<<s, k>>] = IdOf[<<t, l>>] => k = l

------------------------------------------------------------------------------
(* The invariant *)

ClientCall == [pc : ClientPCs, event : Events \cup {NoEvent}, id : Ids \cup {NoId}, at : Nat]

Batches == UNION {[S -> Nat] : S \in SUBSET Ids}

DispatchCall ==
  [pc : DispatchPCs, batch : Batches, todo : SUBSET Ids, id : Ids \cup {NoId}]

ConfirmCall == [pc : ConfirmPCs, id : Ids \cup {NoId}, at : Nat]

\* The types of what follows.
Shapes ==
  /\ reserved \in [Keys -> Ids \cup {NoId}]
  /\ ReceiptsTypeOK
  /\ Waiting \subseteq Ids /\ window \in [Waiting -> Nat]
  /\ client \in [Clients -> ClientCall]
  /\ dispatch \in [Dispatchers -> DispatchCall]
  /\ \A d \in Dispatchers : dispatch[d].pc \in {"send", "open"} => dispatch[d].id \in dispatch[d].todo
  /\ confirm \in [Confirmers -> ConfirmCall]
  /\ \A f \in Confirmers : confirm[f].pc # "idle" => confirm[f].id \in Ids
  /\ clock \in Nat

\* The client's delivery is reserved and has gone no further than this client.
Holds(c, id) ==
  /\ client[c].pc \in {"append", "keep", "schedule", "rollback", "protect", "rank", "add"}
  /\ client[c].id = id

\* The retention ledger has it, and no caller of TrackDead is to blame.
GivenUp(id) == id \in Tracked \ ReportedDead

Settled(id) == HasReceipt(id) \/ id \in open \/ GivenUp(id)

\* Some client admitted the delivery.
Away(id) ==
  \/ id \in Waiting
  \/ \E d \in Dispatchers : Handles(d, id)
  \/ Settled(id)

\* A client that is in a call works on an id of its event's key.
CallsHaveKeys ==
  \A c \in Clients : client[c].pc # "idle" =>
    /\ client[c].event \in Events
    /\ \E s \in Specs : client[c].id = IdOf[<<s, KeyOf[client[c].event]>>]

\* Keys are reserved for ids of their own, by the clients that hold those, and as long as the
\* id is anywhere.
KeysAreClaimed ==
  /\ \A k \in Keys : reserved[k] # NoId => \E s \in Specs : reserved[k] = IdOf[<<s, k>>]
  /\ \A c \in Clients, id \in Ids : Holds(c, id) => reserved[KeyOf[client[c].event]] = id
  /\ \A id \in Ids : Away(id) => \E k \in Keys : reserved[k] = id

\* One place at a time.
OnePlace ==
  \A id \in Ids :
    /\ \A c, b \in Clients : Holds(c, id) /\ Holds(b, id) => b = c
    /\ \A c \in Clients : Holds(c, id) => ~Away(id)
    /\ id \in Waiting => ~Settled(id) /\ \A d \in Dispatchers : ~Handles(d, id)
    /\ \A d, m \in Dispatchers : Handles(d, id) /\ Handles(m, id) => m = d
    /\ \A d \in Dispatchers : Handles(d, id) /\ ~Sent(d, id) => ~Settled(id)
    /\ \A d \in Dispatchers : Sent(d, id) => HasReceipt(id)

\* What is open or being confirmed has its receipt, and what has one was not given up.
ReceiptsFirst ==
  /\ \A id \in Ids : id \in open => HasReceipt(id)
  /\ \A f \in Confirmers : confirm[f].pc # "idle" => HasReceipt(confirm[f].id)
  /\ \A id \in Ids : ~(HasReceipt(id) /\ GivenUp(id))

Custody == CallsHaveKeys /\ KeysAreClaimed /\ OnePlace /\ ReceiptsFirst

------------------------------------------------------------------------------
(* Steps, by who takes them *)

\* Whatever is not a step of a client, a dispatcher or a confirmer takes items out of the
\* window, closes open entries and changes the retention ledger for ids not reported dead only
\* by purging.
Elsewhere ==
  /\ UNCHANGED <<reserved, receipts, client, dispatch, confirm>>
  /\ window' \in [Waiting' -> Nat] /\ Waiting' \subseteq Waiting
  /\ open' \subseteq open
  /\ \A id \in Ids : GivenUp(id)' => GivenUp(id)
  /\ clock' \in Nat

LEMMA Removed ==
  ASSUME Shapes, NEW id, WindowRemove(id)
  PROVE  window' \in [Waiting' -> Nat] /\ Waiting' = Waiting \ {id}
BY DEF WindowRemove, Waiting, Shapes

LEMMA Purged ==
  ASSUME NEW S, Without(S)
  PROVE  \A id \in Ids : GivenUp(id)' => GivenUp(id)
BY DEF Without, Tracked, GivenUp

LEMMA SuperSteps ==
  ASSUME Shapes, NEW s \in Supervisors, SuperStep(s) \/ \E lead \in RunLeads : SuperBegin(s, lead)
  PROVE  Elsewhere
<1> USE DEF Elsewhere, superFrame, storeVars, envVars, partVars, windowVars, receiptVars,
            expiryVars, retentionVars
<1>0. window \in [Waiting -> Nat] /\ clock \in Nat
  BY DEF Shapes
<1>1. ASSUME UNCHANGED <<partVars, superFrame>> PROVE Elsewhere
  BY <1>0, <1>1 DEF Waiting, GivenUp, Tracked
<1>2. CASE \/ \E lead \in RunLeads : SuperBegin(s, lead)
           \/ SuperRequeue(s) \/ SuperStale(s) \/ SuperSweep(s) \/ SuperDrain(s) \/ SuperReturn(s)
  BY <1>1, <1>2 DEF SuperBegin, SuperRequeue, SuperStale, SuperSweep, SuperDrain, SuperReturn
<1>3. CASE SuperClose(s)
  BY <1>0, <1>3 DEF SuperClose, CloseDelivery, Waiting, GivenUp, Tracked
<1>4. CASE SuperScan(s)
  BY <1>0, <1>4 DEF SuperScan, Waiting, GivenUp, Tracked
<1>5. CASE SuperReap(s)
  <2>1. \A id \in Ids : GivenUp(id)' => GivenUp(id)
    <3>1. PurgeExpired(super[s].now) \/ UNCHANGED retentionVars
      BY <1>5 DEF SuperReap
    <3> QED BY <3>1, Purged DEF PurgeExpired, GivenUp, Tracked
  <2> QED BY <1>0, <1>5, <2>1 DEF SuperReap, Waiting
<1>6. CASE SuperEvict(s)
  BY <1>0, <1>6, Purged DEF SuperEvict, PurgeOverCapacity, Waiting
<1>7. CASE SuperTake(s)
  <2>1. \/ \E x \in super[s].todo : Take(x.id)
        \/ UNCHANGED window
    BY <1>7 DEF SuperTake, WindowRemoveUnknown
  <2>2. window' \in [Waiting' -> Nat] /\ Waiting' \subseteq Waiting
    BY <1>0, <2>1, Removed DEF Take, Waiting
  <2> QED BY <1>0, <1>7, <2>2 DEF SuperTake, GivenUp, Tracked
<1> QED BY <1>2, <1>3, <1>4, <1>5, <1>6, <1>7 DEF SuperStep

LEMMA OtherSteps ==
  ASSUME Shapes, \/ Tick \/ InjectRejection \/ PurgeDead \/ PurgeOver
                 \/ \E id \in ReportedDead : ReportDead(id)
                 \/ UNCHANGED vars
  PROVE  Elsewhere
<1> USE DEF Elsewhere, storeVars, envVars, callVars, partVars, windowVars, receiptVars, expiryVars,
            retentionFrame
<1>0. window \in [Waiting -> Nat] /\ clock \in Nat
  BY DEF Shapes
<1>1. CASE Tick \/ InjectRejection \/ UNCHANGED vars
  BY <1>0, <1>1 DEF Tick, InjectRejection, vars, retentionVars, Waiting, GivenUp, Tracked
<1>2. CASE PurgeDead \/ PurgeOver
  BY <1>0, <1>2, Purged DEF PurgeDead, PurgeOver, PurgeExpired, PurgeOverCapacity, Waiting
<1>3. ASSUME NEW id \in ReportedDead, ReportDead(id) PROVE Elsewhere
  BY <1>0, <1>3 DEF ReportDead, TrackDead, Waiting, GivenUp, Tracked
<1> QED BY <1>1, <1>2, <1>3

\* What a step of a client leaves alone.
ClientFrame == UNCHANGED <<receipts, open, dead, dispatch, confirm, clock>>

LEMMA ClientSteps ==
  ASSUME NEW c \in Clients, SubmitStep(c) \/ \E e \in Events, s \in Specs : SubmitBegin(c, e, s)
  PROVE  ClientFrame
BY DEF ClientFrame, SubmitStep, SubmitBegin, SubmitReserve, SubmitAppend, SubmitKeep, SubmitPop,
       SubmitSchedule, SubmitRollback, SubmitProtect, SubmitRank, SubmitAdd, clientFrame, partVars,
       receiptVars, retentionVars

\* What a step of a dispatcher leaves alone.
DispatchFrame == UNCHANGED <<reserved, client, confirm, clock>>

LEMMA DispatchSteps ==
  ASSUME NEW d \in Dispatchers, DispatchStep(d) \/ \E scope \in Scopes : DispatchFlush(d, scope)
  PROVE  DispatchFrame
BY DEF DispatchFrame, DispatchStep, DispatchFlush, DispatchRemove, DispatchGet, DispatchReturn,
       DispatchRecord, DispatchOpen, DispatchTrack, dispatchFrame, storeVars, envVars

\* What a step of a confirmer leaves alone.
ConfirmFrame == UNCHANGED <<reserved, window, dead, client, dispatch, clock>>

LEMMA ConfirmSteps ==
  ASSUME NEW f \in Confirmers, ConfirmStep(f) \/ \E id \in Ids : ConfirmBegin(f, id)
  PROVE  ConfirmFrame
BY DEF ConfirmFrame, ConfirmStep, ConfirmBegin, ConfirmRecord, ConfirmClose, ConfirmUnprotect,
       confirmFrame, storeVars, envVars, windowVars, retentionVars

------------------------------------------------------------------------------
(* Types *)

LEMMA ShapesInit == Init => Shapes
<1> SUFFICES ASSUME Init PROVE Shapes
  OBVIOUS
<1> USE DEF Init, StoreInit, PartsInit, CallsInit
<1>1. reserved \in [Keys -> Ids \cup {NoId}] /\ clock \in Nat
  OBVIOUS
<1>2. ReceiptsTypeOK
  BY DEF ReceiptsInit, ReceiptsTypeOK, NoReceipt
<1>3. Waiting \subseteq Ids /\ window \in [Waiting -> Nat]
  BY DEF WindowInit, Waiting
<1>4. client \in [Clients -> ClientCall]
  BY DEF IdleClient, ClientCall, ClientPCs
<1>5. IdleDispatch \in DispatchCall /\ IdleDispatch.pc = "idle"
  <2>1. [id \in {} |-> 0] \in Batches
    BY DEF Batches
  <2> QED BY <2>1 DEF IdleDispatch, DispatchCall, DispatchPCs
<1>6. confirm \in [Confirmers -> ConfirmCall]
  BY DEF IdleConfirm, ConfirmCall, ConfirmPCs
<1>7. \A f \in Confirmers : confirm[f].pc = "idle"
  BY DEF IdleConfirm
<1> QED BY <1>1, <1>2, <1>3, <1>4, <1>5, <1>6, <1>7 DEF Shapes

LEMMA IdleDispatchShape == IdleDispatch \in DispatchCall /\ IdleDispatch.pc = "idle"
<1>1. [id \in {} |-> 0] \in Batches
  BY DEF Batches
<1> QED BY <1>1 DEF IdleDispatch, DispatchCall, DispatchPCs

LEMMA ClientShapes ==
  ASSUME Shapes, CallsHaveKeys, NEW c \in Clients,
         SubmitStep(c) \/ \E e \in Events, s \in Specs : SubmitBegin(c, e, s)
  PROVE  Shapes'
<1>0. ClientFrame
  BY ClientSteps
<1>1. reserved' \in [Keys -> Ids \cup {NoId}] /\ client' \in [Clients -> ClientCall]
  <2>1. client \in [Clients -> ClientCall] /\ reserved \in [Keys -> Ids \cup {NoId}] /\ clock \in Nat
    BY DEF Shapes
  <2>2. client[c].pc # "idle" => client[c].event \in Events /\ client[c].id \in Ids
    BY CoreConstants, DockConstants DEF CallsHaveKeys
  <2>3. ASSUME NEW pc \in ClientPCs, ClientGoes(c, pc)
        PROVE  client' \in [Clients -> ClientCall]
    BY <2>1, <2>3 DEF ClientGoes, ClientCall
  <2>4. ASSUME ClientReturns(c) PROVE client' \in [Clients -> ClientCall]
    BY <2>1, <2>4 DEF ClientReturns, IdleClient, ClientCall, ClientPCs
  <2>5. CASE \E e \in Events, s \in Specs : SubmitBegin(c, e, s)
    <3>1. PICK e \in Events, s \in Specs : SubmitBegin(c, e, s)
      BY <2>5
    <3>2. IdOf[s, KeyOf[e]] \in Ids
      BY CoreConstants, DockConstants
    <3>3. [pc |-> "reserve", event |-> e, id |-> IdOf[s, KeyOf[e]], at |-> 0] \in ClientCall
      BY <3>2 DEF ClientCall, ClientPCs
    <3>4. client' = [client EXCEPT ![c] = [pc |-> "reserve", event |-> e, id |-> IdOf[s, KeyOf[e]],
                                           at |-> 0]]
          /\ reserved' = reserved
      BY <3>1 DEF SubmitBegin, storeVars
    <3> QED BY <2>1, <3>3, <3>4
  <2>6. CASE SubmitReserve(c)
    <3>1. CASE /\ Reserve(client[c].event, client[c].id, clock)
               /\ client' = [client EXCEPT ![c].pc = "append", ![c].at = clock]
      <4>1. client' = [client EXCEPT ![c] = [client[c] EXCEPT !.pc = "append", !.at = clock]]
        BY <3>1, Zenon
      <4>2. [client[c] EXCEPT !.pc = "append", !.at = clock] \in ClientCall
        BY <2>1 DEF ClientCall, ClientPCs
      <4>3. client[c].id \in Ids
        BY <2>2, <2>6 DEF SubmitReserve
      <4>4. reserved' = [reserved EXCEPT ![KeyOf[client[c].event]] = client[c].id]
        BY <3>1 DEF Reserve
      <4>5. reserved' \in [Keys -> Ids \cup {NoId}]
        BY <2>1, <4>3, <4>4
      <4> QED BY <2>1, <4>1, <4>2, <4>5
    <3>2. CASE ClientReturns(c) /\ UNCHANGED storeVars
      BY <2>1, <2>4, <3>2 DEF storeVars
    <3> QED BY <2>6, <3>1, <3>2 DEF SubmitReserve
  <2>7. CASE \/ SubmitAppend(c) \/ SubmitKeep(c) \/ SubmitSchedule(c) \/ SubmitProtect(c)
             \/ SubmitRank(c)
    <3>1. reserved' = reserved
      BY <2>7 DEF SubmitAppend, SubmitKeep, SubmitSchedule, SubmitProtect, SubmitRank, storeVars,
                  KeepReservation
    <3>2. \E pc \in ClientPCs : ClientGoes(c, pc)
      BY <2>7 DEF SubmitAppend, SubmitKeep, SubmitSchedule, SubmitProtect, SubmitRank, ClientPCs
    <3> QED BY <2>1, <2>3, <3>1, <3>2
  <2>8. CASE SubmitPop(c) \/ SubmitAdd(c)
    BY <2>1, <2>4, <2>8 DEF SubmitPop, SubmitAdd, storeVars
  <2>9. CASE SubmitRollback(c)
    BY <2>1, <2>4, <2>9 DEF SubmitRollback, RollbackReservation, storeVars
  <2> QED BY <2>5, <2>6, <2>7, <2>8, <2>9 DEF SubmitStep
<1>2. Waiting' \subseteq Ids /\ window' \in [Waiting' -> Nat]
  <2>1. window' = window \/ SubmitAdd(c)
    BY DEF SubmitStep, SubmitBegin, SubmitReserve, SubmitAppend, SubmitKeep, SubmitPop,
           SubmitSchedule, SubmitRollback, SubmitProtect, SubmitRank, partVars, windowVars
  <2>2. CASE SubmitAdd(c)
    <3>1. client[c].id \in Ids
      BY <2>2, CoreConstants, DockConstants DEF CallsHaveKeys, SubmitAdd
    <3>2. WindowAdd(client[c].id, clock) \/ window' = window
      BY <2>2 DEF SubmitAdd, WindowFull
    <3> QED BY <3>1, <3>2 DEF WindowAdd, Waiting, Shapes
  <2> QED BY <2>1, <2>2 DEF Shapes, Waiting
<1> QED BY <1>0, <1>1, <1>2 DEF Shapes, ClientFrame, ReceiptsTypeOK

LEMMA DispatchShapes ==
  ASSUME Shapes, NEW d \in Dispatchers,
         DispatchStep(d) \/ \E scope \in Scopes : DispatchFlush(d, scope)
  PROVE  Shapes'
<1>0. DispatchFrame
  BY DispatchSteps
<1>1. /\ dispatch \in [Dispatchers -> DispatchCall] /\ clock \in Nat
      /\ ReceiptsTypeOK /\ Waiting \subseteq Ids /\ window \in [Waiting -> Nat]
      /\ dispatch[d] \in DispatchCall
      /\ dispatch[d].pc \in {"send", "open"} => dispatch[d].id \in dispatch[d].todo
  BY DEF Shapes
<1> DEFINE Fits == /\ dispatch' \in [Dispatchers -> DispatchCall]
                   /\ \A m \in Dispatchers :
                        dispatch'[m].pc \in {"send", "open"} => dispatch'[m].id \in dispatch'[m].todo
<1>2. ASSUME NEW r \in DispatchCall, r.pc \in {"send", "open"} => r.id \in r.todo,
             dispatch' = [dispatch EXCEPT ![d] = r]
      PROVE  Fits
  BY <1>1, <1>2 DEF Shapes
<1>3. ASSUME NEW pc \in DispatchPCs, NEW todo \in SUBSET Ids, DispatchGoes(d, pc, todo),
             pc = "open" => dispatch[d].id \in todo, pc # "send"
      PROVE  Fits
  <2> DEFINE r == [dispatch[d] EXCEPT !.pc = pc, !.todo = todo]
  <2>1. dispatch' = [dispatch EXCEPT ![d] = r]
    BY <1>3, Zenon DEF DispatchGoes
  <2>2. r \in DispatchCall /\ r.pc = pc /\ r.todo = todo /\ r.id = dispatch[d].id
    BY <1>1 DEF DispatchCall
  <2> HIDE DEF r
  <2> QED BY <1>2, <1>3, <2>1, <2>2
<1>4. ASSUME DispatchReturns(d) PROVE Fits
  BY <1>2, <1>4, IdleDispatchShape DEF DispatchReturns
<1>5. dispatch[d].todo \subseteq Ids /\ DOMAIN dispatch[d].batch \subseteq Ids
  BY <1>1 DEF DispatchCall, Batches
<1>6. /\ Fits
      /\ ReceiptsTypeOK'
      /\ Waiting' \subseteq Ids /\ window' \in [Waiting' -> Nat]
  <2> USE DEF partVars, windowVars, receiptVars, dispatchFrame
  <2>1. CASE \E scope \in Scopes : DispatchFlush(d, scope)
    <3>1. PICK ids \in SUBSET Waiting :
            dispatch' = [dispatch EXCEPT ![d].pc = "remove", ![d].todo = ids,
                                         ![d].batch = [id \in ids |-> window[id]]]
      BY <2>1 DEF DispatchFlush
    <3> DEFINE b == [id \in ids |-> window[id]]
               r == [dispatch[d] EXCEPT !.pc = "remove", !.todo = ids, !.batch = b]
    <3>2. dispatch' = [dispatch EXCEPT ![d] = r]
      BY <3>1, Zenon
    <3>3. b \in Batches /\ ids \in SUBSET Ids
      <4>1. ids \in SUBSET Ids /\ b \in [ids -> Nat]
        BY <1>1
      <4> QED BY <4>1 DEF Batches
    <3>4. r \in DispatchCall /\ r.pc = "remove"
      <4> HIDE DEF b
      <4> QED BY <1>1, <3>3 DEF DispatchCall, DispatchPCs
    <3>5. Fits
      <4> HIDE DEF r
      <4> QED BY <1>2, <3>2, <3>4
    <3> QED BY <1>1, <2>1, <3>5 DEF DispatchFlush, ReceiptsTypeOK, Waiting
  <2>2. CASE DispatchRemove(d)
    <3>1. PICK id \in dispatch[d].todo :
            \/ /\ WindowRemove(id)
               /\ \/ DispatchGoes(d, "get", DOMAIN dispatch[d].batch)
                  \/ DispatchGoes(d, "remove", dispatch[d].todo \ {id})
            \/ /\ WindowRemoveUnknown(id)
               /\ DispatchReturns(d)
      BY <2>2 DEF DispatchRemove
    <3>2. Fits
      BY <1>3, <1>4, <1>5, <3>1 DEF DispatchPCs
    <3>3. Waiting' \subseteq Ids /\ window' \in [Waiting' -> Nat]
      BY <1>1, <3>1, Removed DEF WindowRemoveUnknown, Waiting
    <3> QED BY <1>1, <2>2, <3>2, <3>3 DEF DispatchRemove, ReceiptsTypeOK
  <2>3. CASE DispatchGet(d)
    <3>1. PICK id \in dispatch[d].todo :
            \/ dispatch' = [dispatch EXCEPT ![d].pc = "send", ![d].id = id]
            \/ dispatch' = [dispatch EXCEPT ![d].todo = dispatch[d].todo \ {id}]
      BY <2>3 DEF DispatchGet
    <3>2. CASE dispatch' = [dispatch EXCEPT ![d].pc = "send", ![d].id = id]
      <4> DEFINE r == [dispatch[d] EXCEPT !.pc = "send", !.id = id]
      <4>1. dispatch' = [dispatch EXCEPT ![d] = r]
        BY <3>2, Zenon
      <4>2. r \in DispatchCall /\ r.id = id /\ r.todo = dispatch[d].todo
        BY <1>1, <1>5 DEF DispatchCall, DispatchPCs
      <4> HIDE DEF r
      <4> QED BY <1>1, <1>2, <2>3, <4>1, <4>2 DEF DispatchGet, ReceiptsTypeOK, Waiting
    <3>3. CASE dispatch' = [dispatch EXCEPT ![d].todo = dispatch[d].todo \ {id}]
      <4> DEFINE r == [dispatch[d] EXCEPT !.todo = dispatch[d].todo \ {id}]
      <4>1. dispatch' = [dispatch EXCEPT ![d] = r]
        BY <3>3, Zenon
      <4>2. r \in DispatchCall /\ r.pc = dispatch[d].pc
        BY <1>1, <1>5 DEF DispatchCall, DispatchPCs
      <4>3. dispatch[d].pc = "get"
        BY <2>3 DEF DispatchGet
      <4> HIDE DEF r
      <4> QED BY <1>1, <1>2, <2>3, <4>1, <4>2, <4>3 DEF DispatchGet, ReceiptsTypeOK, Waiting
    <3> QED BY <3>1, <3>2, <3>3
  <2>4. CASE DispatchReturn(d)
    BY <1>1, <1>4, <2>4 DEF DispatchReturn, ReceiptsTypeOK, Waiting
  <2>5. CASE DispatchRecord(d)
    <3>1. Fits
      BY <1>1, <1>3, <1>5, <2>5 DEF DispatchRecord, DispatchPCs
    <3>2. ReceiptsTypeOK'
      BY <1>1, <2>5 DEF DispatchRecord, Record, ReceiptsTypeOK
    <3> QED BY <1>1, <2>5, <3>1, <3>2 DEF DispatchRecord, Waiting
  <2>6. CASE DispatchOpen(d)
    <3>1. Fits
      BY <1>1, <1>3, <1>5, <2>6 DEF DispatchOpen, DispatchPCs
    <3>2. ReceiptsTypeOK'
      BY <1>1, <1>5, <2>6 DEF DispatchOpen, OpenDelivery, ReceiptsTypeOK
    <3> QED BY <1>1, <2>6, <3>1, <3>2 DEF DispatchOpen, Waiting
  <2>7. CASE DispatchTrack(d)
    <3>1. Fits
      BY <1>1, <1>3, <1>5, <2>7 DEF DispatchTrack, DispatchPCs
    <3> QED BY <1>1, <2>7, <3>1 DEF DispatchTrack, ReceiptsTypeOK, Waiting
  <2> QED BY <2>1, <2>2, <2>3, <2>4, <2>5, <2>6, <2>7 DEF DispatchStep
<1> QED BY <1>0, <1>6 DEF DispatchFrame, Shapes

LEMMA ConfirmShapes ==
  ASSUME Shapes, NEW f \in Confirmers, ConfirmStep(f) \/ \E id \in Ids : ConfirmBegin(f, id)
  PROVE  Shapes'
<1>0. ConfirmFrame
  BY ConfirmSteps
<1>1. /\ confirm \in [Confirmers -> ConfirmCall] /\ ReceiptsTypeOK
      /\ \A g \in Confirmers : confirm[g].pc # "idle" => confirm[g].id \in Ids
      /\ confirm[f] \in ConfirmCall
  BY DEF Shapes
<1> DEFINE Fits == /\ confirm' \in [Confirmers -> ConfirmCall]
                   /\ \A g \in Confirmers : confirm'[g].pc # "idle" => confirm'[g].id \in Ids
<1>2. ASSUME NEW pc \in ConfirmPCs, ConfirmGoes(f, pc), confirm[f].pc # "idle" PROVE Fits
  BY <1>1, <1>2 DEF ConfirmGoes, ConfirmCall
<1>3. ASSUME ConfirmReturns(f) PROVE Fits
  BY <1>1, <1>3 DEF ConfirmReturns, IdleConfirm, ConfirmCall, ConfirmPCs
<1>4. Fits /\ ReceiptsTypeOK'
  <2>1. ASSUME NEW id \in Ids, ConfirmBegin(f, id) PROVE Fits /\ ReceiptsTypeOK'
    <3>1. receipts[id].at \in Nat
      BY <1>1 DEF ReceiptsTypeOK
    <3>2. [pc |-> "record", id |-> id, at |-> receipts[id].at] \in ConfirmCall
      BY <3>1 DEF ConfirmCall, ConfirmPCs
    <3>3. confirm' = [confirm EXCEPT ![f] = [pc |-> "record", id |-> id, at |-> receipts[id].at]]
      BY <2>1 DEF ConfirmBegin
    <3>4. Fits
      BY <1>1, <3>2, <3>3
    <3> QED BY <1>1, <2>1, <3>4 DEF ConfirmBegin, ReceiptsTypeOK, receiptVars
  <2>2. CASE ConfirmRecord(f)
    <3>1. confirm[f].id \in Ids /\ confirm[f].at \in Nat
      BY <1>1, <2>2 DEF ConfirmRecord, ConfirmCall
    <3>2. Fits
      BY <1>2, <2>2 DEF ConfirmRecord, ConfirmPCs
    <3> QED BY <1>1, <2>2, <3>1, <3>2 DEF ConfirmRecord, Record, ReceiptsTypeOK
  <2>3. CASE ConfirmClose(f)
    <3>1. Fits
      BY <1>2, <1>3, <2>3 DEF ConfirmClose, ConfirmPCs
    <3> QED BY <1>1, <2>3, <3>1 DEF ConfirmClose, CloseDelivery, ReceiptsTypeOK, receiptVars
  <2>4. CASE ConfirmUnprotect(f)
    BY <1>1, <1>3, <2>4 DEF ConfirmUnprotect, ReceiptsTypeOK, receiptVars
  <2> QED BY <2>1, <2>2, <2>3, <2>4 DEF ConfirmStep
<1> QED BY <1>0, <1>4 DEF ConfirmFrame, Shapes, Waiting

LEMMA ElsewhereShapes == Shapes /\ Elsewhere => Shapes'
BY DEF Elsewhere, Shapes, ReceiptsTypeOK, Waiting

\* Every step is one of these.
LEMMA Kinds ==
  ASSUME Shapes, [Next]_vars
  PROVE  \/ \E c \in Clients : SubmitStep(c) \/ \E e \in Events, s \in Specs : SubmitBegin(c, e, s)
         \/ \E d \in Dispatchers : DispatchStep(d) \/ \E scope \in Scopes : DispatchFlush(d, scope)
         \/ \E f \in Confirmers : ConfirmStep(f) \/ \E id \in Ids : ConfirmBegin(f, id)
         \/ Elsewhere
BY SuperSteps, OtherSteps DEF Next

------------------------------------------------------------------------------
(* Custody *)

LEMMA CustodyInit == Init => Custody
<1> SUFFICES ASSUME Init PROVE Custody
  OBVIOUS
<1> USE DEF Init, StoreInit, PartsInit, CallsInit
<1>1. /\ \A c \in Clients : client[c].pc = "idle"
      /\ \A d \in Dispatchers : dispatch[d].pc = "idle"
      /\ \A f \in Confirmers : confirm[f].pc = "idle"
  BY DEF IdleClient, IdleDispatch, IdleConfirm
<1>2. \A id \in Ids : /\ \A c \in Clients : ~Holds(c, id)
                      /\ \A d \in Dispatchers : ~Handles(d, id) /\ ~Sent(d, id)
  BY <1>1 DEF Holds, Handles, Sent
<1>3. \A id \in Ids : id \notin Waiting /\ ~HasReceipt(id) /\ id \notin open /\ ~GivenUp(id)
  BY DEF WindowInit, ReceiptsInit, RetentionInit, Waiting, HasReceipt, NoReceipt, GivenUp, Tracked
<1>4. \A id \in Ids : ~Away(id)
  BY <1>2, <1>3 DEF Away, Settled
<1> QED
  BY <1>1, <1>2, <1>3, <1>4 DEF Custody, CallsHaveKeys, KeysAreClaimed, OnePlace, ReceiptsFirst

\* Nothing comes to a place that was not there, and what is sent stays so.
NothingNew ==
  /\ \A id \in Ids : /\ id \in Waiting' => id \in Waiting
                     /\ HasReceipt(id)' <=> HasReceipt(id)
                     /\ id \in open' => id \in open
                     /\ GivenUp(id)' => GivenUp(id)
  /\ \A d \in Dispatchers, id \in Ids :
       /\ Handles(d, id)' => Handles(d, id)
       /\ Handles(d, id)' /\ ~Sent(d, id)' => ~Sent(d, id)
       /\ Sent(d, id)' => Sent(d, id)

LEMMA NothingComes ==
  ASSUME NothingNew
  PROVE  \A id \in Ids : (Settled(id)' => Settled(id)) /\ (Away(id)' => Away(id))
BY DEF NothingNew, Settled, Away

LEMMA PlacesKept ==
  ASSUME OnePlace, NothingNew,
         \A c \in Clients, id \in Ids : Holds(c, id)' => Holds(c, id)
  PROVE  OnePlace'
BY NothingComes DEF OnePlace, NothingNew

LEMMA KeysKept ==
  ASSUME KeysAreClaimed, NothingNew, reserved' = reserved,
         \A c \in Clients, id \in Ids :
           Holds(c, id)' => Holds(c, id) /\ client'[c].event = client[c].event
  PROVE  KeysAreClaimed'
BY NothingComes DEF KeysAreClaimed

LEMMA ReceiptsKept ==
  ASSUME ReceiptsFirst, NothingNew, Shapes, Shapes',
         \A f \in Confirmers : confirm'[f].pc # "idle" => HasReceipt(confirm'[f].id)
  PROVE  ReceiptsFirst'
<1>1. \A f \in Confirmers : confirm'[f].pc # "idle" => confirm'[f].id \in Ids
  BY DEF Shapes
<1>2. \A f \in Confirmers : confirm'[f].pc # "idle" => HasReceipt(confirm[f].id)'
  BY <1>1 DEF NothingNew, HasReceipt
<1> QED BY <1>2 DEF ReceiptsFirst, NothingNew

\* Calls that do not move keep what they have.
LEMMA SameDispatch ==
  ASSUME dispatch' = dispatch, NEW d, NEW id
  PROVE  (Handles(d, id)' <=> Handles(d, id)) /\ (Sent(d, id)' <=> Sent(d, id))
BY DEF Handles, Sent

LEMMA SameClient ==
  ASSUME client' = client, NEW c, NEW id
  PROVE  (Holds(c, id)' <=> Holds(c, id)) /\ client'[c].event = client[c].event
BY DEF Holds

LEMMA ElsewhereCustody ==
  ASSUME Shapes, Custody, Elsewhere
  PROVE  Custody'
<1>1. NothingNew
  BY SameDispatch DEF NothingNew, Elsewhere, HasReceipt
<1>2. Shapes'
  BY ElsewhereShapes
<1>3. CallsHaveKeys'
  BY DEF Custody, CallsHaveKeys, Elsewhere
<1>4. KeysAreClaimed' /\ OnePlace'
  BY <1>1, SameClient, KeysKept, PlacesKept DEF Custody, Elsewhere
<1>5. \A f \in Confirmers : confirm'[f].pc # "idle" => HasReceipt(confirm'[f].id)
  BY DEF Elsewhere, Custody, ReceiptsFirst
<1> QED BY <1>1, <1>2, <1>3, <1>4, <1>5, ReceiptsKept DEF Custody

LEMMA ConfirmCustody ==
  ASSUME Shapes, Custody, NEW f \in Confirmers,
         ConfirmStep(f) \/ \E id \in Ids : ConfirmBegin(f, id)
  PROVE  Custody'
<1>0. ConfirmFrame /\ Shapes'
  BY ConfirmSteps, ConfirmShapes
<1>1. confirm \in [Confirmers -> ConfirmCall] /\ receipts \in [Ids -> [status : {"none", "delivered", "confirmed"}, at : Nat]]
  BY DEF Shapes, ReceiptsTypeOK
<1>2. \A g \in Confirmers : confirm[g].pc # "idle" => confirm[g].id \in Ids /\ HasReceipt(confirm[g].id)
  BY DEF Shapes, Custody, ReceiptsFirst
<1>3. /\ \A id \in Ids : (HasReceipt(id)' <=> HasReceipt(id)) /\ (id \in open' => id \in open)
      /\ \A g \in Confirmers : confirm'[g].pc # "idle" => HasReceipt(confirm'[g].id)
  <2>1. ASSUME NEW id \in Ids, ConfirmBegin(f, id)
        PROVE  /\ receipts' = receipts /\ open' = open
               /\ \A g \in Confirmers : confirm'[g].pc # "idle" => HasReceipt(confirm'[g].id)
    <3>1. PICK r : r = [pc |-> "record", id |-> id, at |-> receipts[id].at]
      OBVIOUS
    <3>2. confirm' = [confirm EXCEPT ![f] = r] /\ HasReceipt(id) /\ receipts' = receipts /\ open' = open
      BY <2>1, <3>1, Zenon DEF ConfirmBegin, receiptVars
    <3>3. r.id = id
      BY <3>1
    <3> QED BY <1>1, <1>2, <3>2, <3>3
  <2>2. CASE ConfirmRecord(f)
    <3>1. confirm[f].pc # "idle" /\ ConfirmGoes(f, "close") /\ Record(confirm[f].id, "confirmed", confirm[f].at)
      BY <2>2 DEF ConfirmRecord
    <3>2. \A g \in Confirmers : confirm'[g].pc # "idle" => HasReceipt(confirm'[g].id)
      BY <1>1, <1>2, <3>1 DEF ConfirmGoes, ConfirmCall
    <3>3. open' = open /\ \A id \in Ids : HasReceipt(id)' <=> HasReceipt(id)
      BY <1>1, <1>2, <3>1 DEF Record, HasReceipt
    <3> QED BY <3>2, <3>3
  <2>3. CASE ConfirmClose(f)
    <3>1. confirm[f].pc # "idle" /\ (ConfirmGoes(f, "unprotect") \/ ConfirmReturns(f))
      BY <2>3 DEF ConfirmClose
    <3>2. \A g \in Confirmers : confirm'[g].pc # "idle" => HasReceipt(confirm'[g].id)
      BY <1>1, <1>2, <3>1 DEF ConfirmGoes, ConfirmReturns, IdleConfirm, ConfirmCall
    <3>3. receipts' = receipts /\ open' \subseteq open
      BY <2>3 DEF ConfirmClose, CloseDelivery, receiptVars
    <3> QED BY <3>2, <3>3 DEF HasReceipt
  <2>4. CASE ConfirmUnprotect(f)
    <3>1. \A g \in Confirmers : confirm'[g].pc # "idle" => HasReceipt(confirm'[g].id)
      BY <1>1, <1>2, <2>4 DEF ConfirmUnprotect, ConfirmReturns, IdleConfirm, ConfirmCall
    <3> QED BY <2>4, <3>1 DEF ConfirmUnprotect, receiptVars, HasReceipt
  <2> QED BY <2>1, <2>2, <2>3, <2>4 DEF ConfirmStep, HasReceipt
<1>4. NothingNew
  BY <1>0, <1>3, SameDispatch DEF NothingNew, ConfirmFrame, Waiting, GivenUp, Tracked
<1>5. CallsHaveKeys'
  BY <1>0 DEF Custody, CallsHaveKeys, ConfirmFrame
<1>6. KeysAreClaimed' /\ OnePlace'
  BY <1>0, <1>4, SameClient, KeysKept, PlacesKept DEF Custody, ConfirmFrame
<1> QED BY <1>0, <1>3, <1>4, <1>5, <1>6, ReceiptsKept DEF Custody

------------------------------------------------------------------------------
(* Clients *)

LEMMA ClientFacts ==
  ASSUME Shapes, Custody, NEW c \in Clients, client[c].pc # "idle"
  PROVE  /\ client[c].event \in Events /\ KeyOf[client[c].event] \in Keys
         /\ client[c].id \in Ids /\ client[c].id # NoId
         /\ \E s \in Specs : client[c].id = IdOf[<<s, KeyOf[client[c].event]>>]
<1>1. client[c].event \in Events /\ KeyOf[client[c].event] \in Keys
  BY CoreConstants DEF Custody, CallsHaveKeys
<1>2. PICK s \in Specs : client[c].id = IdOf[<<s, KeyOf[client[c].event]>>]
  BY DEF Custody, CallsHaveKeys
<1>3. client[c].id \in Ids
  BY <1>1, <1>2, DockConstants
<1> QED BY <1>1, <1>2, <1>3, CoreConstants

\* A key is reserved for no id of another key.
LEMMA OwnKey ==
  ASSUME IdsTellKeys, Shapes, Custody, NEW k \in Keys, NEW s \in Specs, NEW l \in Keys,
         reserved[l] = IdOf[<<s, k>>]
  PROVE  l = k
<1>1. IdOf[<<s, k>>] # NoId
  BY CoreConstants, DockConstants
<1>2. PICK t \in Specs : reserved[l] = IdOf[<<t, l>>]
  BY <1>1 DEF Custody, KeysAreClaimed
<1> QED BY <1>2 DEF IdsTellKeys

LEMMA ClientNothingNew ==
  ASSUME ClientFrame, Waiting' \subseteq Waiting
  PROVE  NothingNew
BY SameDispatch DEF ClientFrame, NothingNew, HasReceipt, GivenUp, Tracked

\* A call that moves on within its work or returns.
LEMMA ClientMoves ==
  ASSUME Shapes, Custody, NEW c \in Clients, Shapes', ClientFrame,
         reserved' = reserved, Waiting' = Waiting, client[c].pc # "idle",
         \/ ClientReturns(c)
         \/ /\ \E pc \in ClientPCs : ClientGoes(c, pc)
            /\ \A id \in Ids : Holds(c, id)
                 \/ client[c].id # id \/ ~Holds(c, id)'
  PROVE  Custody'
<1>1. NothingNew
  BY ClientNothingNew
<1>2. client \in [Clients -> ClientCall]
  BY DEF Shapes
<1>3. /\ \A b \in Clients \ {c} : client'[b] = client[b]
      /\ \/ client'[c].pc = "idle"
         \/ /\ client'[c].event = client[c].event /\ client'[c].id = client[c].id
            /\ \A id \in Ids : Holds(c, id) \/ client[c].id # id \/ ~Holds(c, id)'
  <2>1. CASE ClientReturns(c)
    BY <1>2, <2>1 DEF ClientReturns, IdleClient
  <2>2. ASSUME NEW pc \in ClientPCs, ClientGoes(c, pc)
        PROVE  /\ \A b \in Clients \ {c} : client'[b] = client[b]
               /\ client'[c].event = client[c].event /\ client'[c].id = client[c].id
    BY <1>2, <2>2 DEF ClientGoes, ClientCall
  <2> QED BY <2>1, <2>2
<1>4. \A b \in Clients, id \in Ids :
        Holds(b, id)' => Holds(b, id) /\ client'[b].event = client[b].event
  BY <1>3 DEF Holds
<1>5. CallsHaveKeys'
  BY <1>3 DEF Custody, CallsHaveKeys
<1>6. ReceiptsFirst'
  BY <1>1, ReceiptsKept DEF ClientFrame, Custody, ReceiptsFirst
<1> QED BY <1>1, <1>4, <1>5, <1>6, KeysKept, PlacesKept DEF Custody

LEMMA BeginCustody ==
  ASSUME Shapes, Custody, NEW c \in Clients, NEW e \in Events, NEW s \in Specs,
         SubmitBegin(c, e, s), Shapes'
  PROVE  Custody'
<1>0. ClientFrame
  BY ClientSteps
<1>1. reserved' = reserved /\ Waiting' = Waiting
  BY DEF SubmitBegin, storeVars, partVars, windowVars, Waiting
<1>2. NothingNew
  BY <1>0, <1>1, ClientNothingNew
<1>3. PICK r : r = [pc |-> "reserve", event |-> e, id |-> IdOf[s, KeyOf[e]], at |-> 0]
  OBVIOUS
<1>4. client' = [client EXCEPT ![c] = r]
  BY <1>3, Zenon DEF SubmitBegin
<1>5. r.pc = "reserve" /\ r.event = e /\ r.id = IdOf[<<s, KeyOf[e]>>]
  BY <1>3
<1>6. client'[c] = r /\ \A b \in Clients \ {c} : client'[b] = client[b]
  BY <1>4 DEF Shapes
<1>7. CallsHaveKeys'
  BY <1>5, <1>6 DEF Custody, CallsHaveKeys
<1>8. \A b \in Clients, id \in Ids :
        Holds(b, id)' => Holds(b, id) /\ client'[b].event = client[b].event
  BY <1>5, <1>6 DEF Holds
<1>9. ReceiptsFirst'
  BY <1>0, <1>2, ReceiptsKept DEF ClientFrame, Custody, ReceiptsFirst
<1> QED BY <1>1, <1>2, <1>7, <1>8, <1>9, KeysKept, PlacesKept DEF Custody

\* The id a client has for a free key is in no place.
LEMMA FreshId ==
  ASSUME IdsTellKeys, Shapes, Custody, NEW c \in Clients, client[c].pc # "idle",
         reserved[KeyOf[client[c].event]] = NoId
  PROVE  /\ \A k \in Keys : reserved[k] # client[c].id
         /\ \A b \in Clients : ~Holds(b, client[c].id)
         /\ ~Away(client[c].id)
<1>1. /\ KeyOf[client[c].event] \in Keys /\ client[c].id \in Ids /\ client[c].id # NoId
      /\ \E s \in Specs : client[c].id = IdOf[<<s, KeyOf[client[c].event]>>]
  BY ClientFacts
<1>2. \A k \in Keys : reserved[k] # client[c].id
  BY <1>1, OwnKey
<1>3. \A b \in Clients : ~Holds(b, client[c].id)
  <2>1. \A b \in Clients : Holds(b, client[c].id) => KeyOf[client[b].event] \in Keys
    BY ClientFacts DEF Holds
  <2> QED BY <1>1, <1>2, <2>1 DEF Custody, KeysAreClaimed
<1>4. ~Away(client[c].id)
  BY <1>1, <1>2 DEF Custody, KeysAreClaimed
<1> QED BY <1>2, <1>3, <1>4

\* A free key is reserved: its id is in no other place.
LEMMA ReserveCustody ==
  ASSUME IdsTellKeys, Shapes, Custody, NEW c \in Clients, SubmitReserve(c), Shapes',
         Reserve(client[c].event, client[c].id, clock),
         client' = [client EXCEPT ![c].pc = "append", ![c].at = clock]
  PROVE  Custody'
<1>0. ClientFrame
  BY ClientSteps DEF SubmitStep
<1>1. Waiting' = Waiting
  BY DEF SubmitReserve, partVars, windowVars, Waiting
<1>2. NothingNew
  BY <1>0, <1>1, ClientNothingNew
<1>3. PICK key, new : key = KeyOf[client[c].event] /\ new = client[c].id
  OBVIOUS
<1>4. client[c].pc = "reserve"
  BY DEF SubmitReserve
<1>5. /\ key \in Keys /\ new \in Ids /\ new # NoId
      /\ \E s \in Specs : new = IdOf[<<s, key>>]
  BY <1>3, <1>4, ClientFacts
<1>6. reserved[key] = NoId /\ reserved' = [reserved EXCEPT ![key] = new]
  BY <1>3 DEF Reserve
<1>7. reserved'[key] = new /\ \A k \in Keys \ {key} : reserved'[k] = reserved[k]
  BY <1>5, <1>6 DEF Shapes
<1>8. reserved[KeyOf[client[c].event]] = NoId
  BY DEF Reserve
<1>9. /\ client'[c].event = client[c].event /\ client'[c].id = new /\ client'[c].pc = "append"
      /\ \A b \in Clients \ {c} : client'[b] = client[b]
  <2>1. client' = [client EXCEPT ![c] = [client[c] EXCEPT !.pc = "append", !.at = clock]]
    BY Zenon
  <2>2. PICK now : now = clock
    OBVIOUS
  <2>3. client' = [client EXCEPT ![c] = [client[c] EXCEPT !.pc = "append", !.at = now]]
    BY <2>1, <2>2
  <2> QED BY <1>3, <2>3 DEF Shapes, ClientCall
<1>10. \A b \in Clients : ~Holds(b, new)
  BY <1>3, <1>4, <1>8, FreshId
<1>11. ~Away(new)
  BY <1>3, <1>4, <1>8, FreshId
<1>12. /\ \A b \in Clients \ {c}, id \in Ids : Holds(b, id)' <=> Holds(b, id)
       /\ \A id \in Ids : Holds(c, id)' <=> id = new
       /\ \A id \in Ids : ~Holds(c, id)
  BY <1>4, <1>9 DEF Holds
<1>13. \A id \in Ids : (Settled(id)' => Settled(id)) /\ (Away(id)' => Away(id))
  BY <1>2, NothingComes
<1>14. CallsHaveKeys'
  <2>1. /\ client'[c].event \in Events
        /\ \E s \in Specs : client'[c].id = IdOf[<<s, KeyOf[client'[c].event]>>]
    BY <1>3, <1>4, <1>5, <1>9, ClientFacts
  <2>2. \A b \in Clients \ {c} : client'[b].pc # "idle" =>
          /\ client'[b].event \in Events
          /\ \E s \in Specs : client'[b].id = IdOf[<<s, KeyOf[client'[b].event]>>]
    BY <1>9 DEF Custody, CallsHaveKeys
  <2> QED BY <2>1, <2>2 DEF CallsHaveKeys
<1>15. KeysAreClaimed'
  <2>1. \A k \in Keys : reserved'[k] # NoId => \E s \in Specs : reserved'[k] = IdOf[<<s, k>>]
    BY <1>5, <1>7 DEF Custody, KeysAreClaimed
  <2>2. \A b \in Clients, id \in Ids : Holds(b, id)' => reserved'[KeyOf[client'[b].event]] = id
    <3>1. ASSUME NEW b \in Clients \ {c}, NEW id \in Ids, Holds(b, id)'
          PROVE  reserved'[KeyOf[client'[b].event]] = id
      <4>1. Holds(b, id) /\ client'[b] = client[b]
        BY <1>9, <1>12, <3>1
      <4>2. KeyOf[client[b].event] \in Keys
        BY <4>1, ClientFacts DEF Holds
      <4>3. reserved[KeyOf[client[b].event]] = id
        BY <4>1 DEF Custody, KeysAreClaimed
      <4>4. id # NoId
        BY CoreConstants
      <4> QED BY <1>6, <1>7, <4>1, <4>2, <4>3, <4>4
    <3>2. ASSUME NEW id \in Ids, Holds(c, id)' PROVE reserved'[KeyOf[client'[c].event]] = id
      BY <1>3, <1>7, <1>9, <1>12, <3>2
    <3> QED BY <3>1, <3>2
  <2>3. \A id \in Ids : Away(id)' => \E k \in Keys : reserved'[k] = id
    <3>1. ASSUME NEW id \in Ids, Away(id)' PROVE \E k \in Keys : reserved'[k] = id
      <4>1. PICK k \in Keys : reserved[k] = id
        BY <1>13, <3>1 DEF Custody, KeysAreClaimed
      <4> QED BY <1>6, <1>7, <4>1, CoreConstants
    <3> QED BY <3>1
  <2> QED BY <2>1, <2>2, <2>3 DEF KeysAreClaimed
<1>16. OnePlace'
  <2>1. /\ \A id \in Ids : \A a, b \in Clients : Holds(a, id)' /\ Holds(b, id)' => b = a
        /\ \A id \in Ids : \A b \in Clients : Holds(b, id)' => ~Away(id)'
    BY <1>10, <1>11, <1>12, <1>13 DEF Custody, OnePlace
  <2> QED BY <1>2, <1>13, <2>1 DEF Custody, OnePlace, NothingNew
<1>17. ReceiptsFirst'
  BY <1>0, <1>2, ReceiptsKept DEF ClientFrame, Custody, ReceiptsFirst
<1> QED BY <1>14, <1>15, <1>16, <1>17 DEF Custody

\* The holder frees its key, and its id is nowhere.
LEMMA RollbackCustody ==
  ASSUME IdsTellKeys, Shapes, Custody, NEW c \in Clients, SubmitRollback(c), Shapes'
  PROVE  Custody'
<1>0. ClientFrame
  BY ClientSteps DEF SubmitStep
<1>1. Waiting' = Waiting
  BY DEF SubmitRollback, partVars, windowVars, Waiting
<1>2. NothingNew
  BY <1>0, <1>1, ClientNothingNew
<1>3. PICK key, old : key = KeyOf[client[c].event] /\ old = client[c].id
  OBVIOUS
<1>4. client[c].pc = "rollback"
  BY DEF SubmitRollback
<1>5. key \in Keys /\ old \in Ids /\ old # NoId
  BY <1>3, <1>4, ClientFacts
<1>6. Holds(c, old)
  BY <1>3, <1>4 DEF Holds
<1>7. reserved[key] = old /\ ~Away(old)
  BY <1>3, <1>5, <1>6 DEF Custody, KeysAreClaimed, OnePlace
<1>8. reserved'[key] = NoId /\ \A k \in Keys \ {key} : reserved'[k] = reserved[k]
  BY <1>3, <1>5, <1>7 DEF SubmitRollback, RollbackReservation, Shapes
<1>9. client'[c].pc = "idle" /\ \A b \in Clients \ {c} : client'[b] = client[b]
  BY DEF SubmitRollback, ClientReturns, IdleClient, Shapes
<1>10. \A b \in Clients, id \in Ids : Holds(b, id)' => Holds(b, id) /\ b # c
  BY <1>9 DEF Holds
<1>11. \A id \in Ids : Away(id)' => Away(id)
  BY <1>2, NothingComes
<1>12. CallsHaveKeys'
  BY <1>9 DEF Custody, CallsHaveKeys
<1>13. KeysAreClaimed'
  <2>1. \A k \in Keys : reserved'[k] # NoId => \E s \in Specs : reserved'[k] = IdOf[<<s, k>>]
    BY <1>8 DEF Custody, KeysAreClaimed
  <2>2. ASSUME NEW b \in Clients, NEW id \in Ids, Holds(b, id)'
        PROVE  reserved'[KeyOf[client'[b].event]] = id
    <3>1. Holds(b, id) /\ b # c /\ client'[b] = client[b]
      BY <1>9, <1>10, <2>2
    <3>2. id # old
      BY <1>5, <1>6, <3>1 DEF Custody, OnePlace
    <3>3. KeyOf[client[b].event] \in Keys
      BY <3>1, ClientFacts DEF Holds
    <3>4. reserved[KeyOf[client[b].event]] = id
      BY <3>1 DEF Custody, KeysAreClaimed
    <3> QED BY <1>7, <1>8, <3>1, <3>2, <3>3, <3>4
  <2>3. ASSUME NEW id \in Ids, Away(id)' PROVE \E k \in Keys : reserved'[k] = id
    <3>1. Away(id) /\ id # old
      BY <1>7, <1>11, <2>3
    <3>2. PICK k \in Keys : reserved[k] = id
      BY <3>1 DEF Custody, KeysAreClaimed
    <3> QED BY <1>7, <1>8, <3>1, <3>2
  <2> QED BY <2>1, <2>2, <2>3 DEF KeysAreClaimed
<1>14. OnePlace'
  BY <1>2, <1>10, PlacesKept DEF Custody
<1>15. ReceiptsFirst'
  BY <1>0, <1>2, ReceiptsKept DEF ClientFrame, Custody, ReceiptsFirst
<1> QED BY <1>12, <1>13, <1>14, <1>15 DEF Custody

\* The holder puts its delivery into the window.
LEMMA AddCustody ==
  ASSUME Shapes, Custody, NEW c \in Clients, SubmitAdd(c), Shapes'
  PROVE  Custody'
<1>0. ClientFrame
  BY ClientSteps DEF SubmitStep
<1>1. reserved' = reserved
  BY DEF SubmitAdd, storeVars
<1>2. PICK new : new = client[c].id
  OBVIOUS
<1>3. client[c].pc = "add" /\ ClientReturns(c)
  BY DEF SubmitAdd
<1>4. new \in Ids
  BY <1>2, <1>3, ClientFacts
<1>5. Holds(c, new)
  BY <1>2, <1>3 DEF Holds
<1>6. /\ ~Away(new)
      /\ \E k \in Keys : reserved[k] = new
  <2>1. KeyOf[client[c].event] \in Keys
    BY <1>3, ClientFacts
  <2> QED BY <1>4, <1>5, <2>1 DEF Custody, OnePlace, KeysAreClaimed
<1>7. Waiting' \subseteq Waiting \cup {new}
  BY <1>2 DEF SubmitAdd, WindowAdd, WindowFull, Waiting
<1>8. client'[c].pc = "idle" /\ \A b \in Clients \ {c} : client'[b] = client[b]
  BY <1>3 DEF ClientReturns, IdleClient, Shapes
<1>9. \A b \in Clients, id \in Ids :
        Holds(b, id)' => Holds(b, id) /\ b # c /\ client'[b].event = client[b].event
  BY <1>8 DEF Holds
<1>10. \A d \in Dispatchers, id \in Ids :
         (Handles(d, id)' <=> Handles(d, id)) /\ (Sent(d, id)' <=> Sent(d, id))
  BY <1>0, SameDispatch DEF ClientFrame
<1>11. \A id \in Ids : /\ Settled(id)' <=> Settled(id)
                       /\ HasReceipt(id)' <=> HasReceipt(id)
                       /\ GivenUp(id)' <=> GivenUp(id)
  BY <1>0 DEF ClientFrame, Settled, HasReceipt, GivenUp, Tracked
<1>12. \A id \in Ids : Away(id)' => Away(id) \/ id = new
  BY <1>7, <1>10, <1>11 DEF Away
<1>13. CallsHaveKeys'
  BY <1>8 DEF Custody, CallsHaveKeys
<1>14. KeysAreClaimed'
  BY <1>1, <1>6, <1>9, <1>12 DEF Custody, KeysAreClaimed
<1>15. OnePlace'
  <2>1. \A b \in Clients : ~Holds(b, new)'
    BY <1>4, <1>5, <1>9 DEF Custody, OnePlace
  <2>2. \A d \in Dispatchers : ~Handles(d, new)
    BY <1>6 DEF Away
  <2>3. ~Settled(new)
    BY <1>6 DEF Away
  <2> QED BY <1>7, <1>9, <1>10, <1>11, <1>12, <2>1, <2>2, <2>3 DEF Custody, OnePlace
<1>16. ReceiptsFirst'
  BY <1>0, <1>11 DEF ClientFrame, Custody, ReceiptsFirst, HasReceipt
<1> QED BY <1>13, <1>14, <1>15, <1>16 DEF Custody

LEMMA ClientCustody ==
  ASSUME IdsTellKeys, Shapes, Custody, NEW c \in Clients,
         SubmitStep(c) \/ \E e \in Events, s \in Specs : SubmitBegin(c, e, s)
  PROVE  Custody'
<1>0. ClientFrame /\ Shapes'
  BY ClientSteps, ClientShapes DEF Custody
<1>1. CASE \E e \in Events, s \in Specs : SubmitBegin(c, e, s)
  BY <1>0, <1>1, BeginCustody
<1>2. CASE SubmitReserve(c)
  <2>1. \/ /\ Reserve(client[c].event, client[c].id, clock)
           /\ client' = [client EXCEPT ![c].pc = "append", ![c].at = clock]
        \/ ClientReturns(c) /\ reserved' = reserved
    BY <1>2 DEF SubmitReserve, storeVars
  <2>2. CASE ClientReturns(c) /\ reserved' = reserved
    <3>1. client[c].pc # "idle" /\ Waiting' = Waiting
      BY <1>2 DEF SubmitReserve, partVars, windowVars, Waiting
    <3> QED BY <1>0, <2>2, <3>1, ClientMoves
  <2> QED BY <1>0, <1>2, <2>1, <2>2, ReserveCustody
<1>3. CASE SubmitRollback(c)
  BY <1>0, <1>3, RollbackCustody
<1>4. CASE SubmitAdd(c)
  BY <1>0, <1>4, AddCustody
<1>5. CASE SubmitPop(c)
  <2>1. client[c].pc # "idle" /\ Waiting' = Waiting /\ ClientReturns(c) /\ reserved' = reserved
    BY <1>5 DEF SubmitPop, partVars, windowVars, storeVars, Waiting
  <2> QED BY <1>0, <2>1, ClientMoves
<1>6. CASE SubmitAppend(c) \/ SubmitKeep(c) \/ SubmitSchedule(c) \/ SubmitProtect(c) \/ SubmitRank(c)
  <2>1. client[c].pc \in {"append", "keep", "schedule", "protect", "rank"}
    BY <1>6 DEF SubmitAppend, SubmitKeep, SubmitSchedule, SubmitProtect, SubmitRank
  <2>2. reserved' = reserved /\ Waiting' = Waiting
    BY <1>6 DEF SubmitAppend, SubmitKeep, SubmitSchedule, SubmitProtect, SubmitRank, KeepReservation,
                partVars, windowVars, storeVars, Waiting
  <2>3. \E pc \in ClientPCs : ClientGoes(c, pc)
    BY <1>6 DEF SubmitAppend, SubmitKeep, SubmitSchedule, SubmitProtect, SubmitRank, ClientPCs
  <2>4. \A id \in Ids : Holds(c, id) \/ client[c].id # id
    BY <2>1 DEF Holds
  <2> QED BY <1>0, <2>1, <2>2, <2>3, <2>4, ClientMoves
<1> QED BY <1>1, <1>2, <1>3, <1>4, <1>5, <1>6 DEF SubmitStep

------------------------------------------------------------------------------
(* Dispatchers *)

\* The other dispatchers do not move.
LEMMA OtherDispatchers ==
  ASSUME Shapes, Shapes', NEW d \in Dispatchers,
         DispatchStep(d) \/ \E scope \in Scopes : DispatchFlush(d, scope)
  PROVE  \A m \in Dispatchers \ {d} : \A id \in Ids :
           (Handles(m, id)' <=> Handles(m, id)) /\ (Sent(m, id)' <=> Sent(m, id))
<1>1. \A m \in Dispatchers \ {d} : dispatch'[m] = dispatch[m]
  BY DEF Shapes, DispatchStep, DispatchFlush, DispatchRemove, DispatchGet, DispatchReturn,
         DispatchRecord, DispatchOpen, DispatchTrack, DispatchGoes, DispatchReturns
<1> QED BY <1>1 DEF Handles, Sent

\* A step that ends with fewer items in hand and changes nothing else.
LEMMA DispatchLess ==
  ASSUME Shapes, Shapes', Custody, DispatchFrame, Waiting' = Waiting, dead' = dead,
         receipts' = receipts, open' = open,
         \A d \in Dispatchers, id \in Ids :
           /\ Handles(d, id)' => Handles(d, id)
           /\ Handles(d, id)' /\ ~Sent(d, id)' => ~Sent(d, id)
           /\ Sent(d, id)' => Sent(d, id)
  PROVE  Custody'
<1>1. NothingNew
  BY DEF NothingNew, HasReceipt, GivenUp, Tracked
<1>2. CallsHaveKeys'
  BY DEF Custody, CallsHaveKeys, DispatchFrame
<1>3. KeysAreClaimed' /\ OnePlace'
  BY <1>1, SameClient, KeysKept, PlacesKept DEF Custody, DispatchFrame
<1>4. ReceiptsFirst'
  BY <1>1, ReceiptsKept DEF DispatchFrame, Custody, ReceiptsFirst
<1> QED BY <1>2, <1>3, <1>4 DEF Custody

LEMMA FlushCustody ==
  ASSUME Shapes, Shapes', Custody, NEW d \in Dispatchers,
         \/ \E scope \in Scopes : DispatchFlush(d, scope)
         \/ DispatchGet(d) \/ DispatchReturn(d)
  PROVE  Custody'
<1>1. /\ DispatchFrame /\ Waiting' = Waiting /\ dead' = dead
      /\ receipts' = receipts /\ open' = open
  BY DispatchSteps DEF DispatchStep, DispatchFlush, DispatchGet, DispatchReturn, partVars, windowVars,
                       receiptVars, retentionVars, Waiting
<1>2. dispatch \in [Dispatchers -> DispatchCall]
  BY DEF Shapes
<1>3. \A id \in Ids : (Handles(d, id)' => Handles(d, id) /\ ~Sent(d, id)) /\ ~Sent(d, id)'
  <2>1. ASSUME NEW scope, DispatchFlush(d, scope), NEW id \in Ids
        PROVE  ~Handles(d, id)' /\ ~Sent(d, id)'
    <3>1. PICK ids, batch : /\ dispatch' = [dispatch EXCEPT ![d].pc = "remove", ![d].todo = ids,
                                                            ![d].batch = batch]
                            /\ DOMAIN batch = ids
      <4> DEFINE waits == {i \in Waiting : EndpointOf[deliveries[i].event] \in scope}
      <4>1. dispatch' = [dispatch EXCEPT ![d].pc = "remove", ![d].todo = waits,
                                         ![d].batch = [i \in waits |-> window[i]]]
        BY <2>1, Zenon DEF DispatchFlush
      <4>2. DOMAIN [i \in waits |-> window[i]] = waits
        OBVIOUS
      <4> HIDE DEF waits
      <4> QED BY <4>1, <4>2, Zenon
    <3>2. dispatch' = [dispatch EXCEPT ![d] = [dispatch[d] EXCEPT !.pc = "remove", !.todo = ids,
                                                                  !.batch = batch]]
      BY <3>1, Zenon
    <3>3. /\ dispatch'[d].pc = "remove" /\ dispatch'[d].todo = ids
          /\ dispatch'[d].batch = batch
      BY <1>2, <3>2 DEF DispatchCall
    <3> QED BY <3>1, <3>3 DEF Handles, Sent
  <2>2. CASE DispatchGet(d)
    <3>1. dispatch[d].pc = "get"
      BY <2>2 DEF DispatchGet
    <3>2. dispatch'[d].pc \in {"get", "send"} /\ dispatch'[d].todo \subseteq dispatch[d].todo
      <4>1. PICK id : \/ dispatch' = [dispatch EXCEPT ![d].pc = "send", ![d].id = id]
                      \/ dispatch' = [dispatch EXCEPT ![d].todo = dispatch[d].todo \ {id}]
        BY <2>2 DEF DispatchGet
      <4>2. CASE dispatch' = [dispatch EXCEPT ![d].pc = "send", ![d].id = id]
        BY <1>2, <4>2 DEF DispatchCall
      <4>3. CASE dispatch' = [dispatch EXCEPT ![d].todo = dispatch[d].todo \ {id}]
        BY <1>2, <3>1, <4>3 DEF DispatchCall
      <4> QED BY <4>1, <4>2, <4>3
    <3> QED BY <3>1, <3>2 DEF Handles, Sent
  <2>3. CASE DispatchReturn(d)
    <3>1. dispatch'[d].pc = "idle"
      BY <1>2, <2>3 DEF DispatchReturn, DispatchReturns, IdleDispatch
    <3> QED BY <3>1 DEF Handles, Sent
  <2> QED BY <2>1, <2>2, <2>3
<1>4. \A m \in Dispatchers \ {d} : \A id \in Ids :
           (Handles(m, id)' <=> Handles(m, id)) /\ (Sent(m, id)' <=> Sent(m, id))
  BY OtherDispatchers DEF DispatchStep
<1> QED BY <1>1, <1>3, <1>4, DispatchLess

LEMMA Goes ==
  ASSUME Shapes, NEW d \in Dispatchers, NEW pc, NEW todo, DispatchGoes(d, pc, todo)
  PROVE  /\ dispatch'[d].pc = pc /\ dispatch'[d].todo = todo
         /\ dispatch'[d].id = dispatch[d].id /\ dispatch'[d].batch = dispatch[d].batch
<1>1. dispatch' = [dispatch EXCEPT ![d] = [dispatch[d] EXCEPT !.pc = pc, !.todo = todo]]
  BY Zenon DEF DispatchGoes
<1>2. dispatch \in [Dispatchers -> DispatchCall]
  BY DEF Shapes
<1> QED BY <1>1, <1>2 DEF DispatchCall

\* An item goes from the window to the dispatcher.
LEMMA RemoveCustody ==
  ASSUME Shapes, Shapes', Custody, NEW d \in Dispatchers, DispatchRemove(d)
  PROVE  Custody'
<1>1. /\ DispatchFrame /\ dead' = dead /\ receipts' = receipts /\ open' = open
      /\ dispatch[d].pc = "remove"
  BY DispatchSteps DEF DispatchStep, DispatchRemove, receiptVars, retentionVars
<1>2. \A m \in Dispatchers \ {d} : \A x \in Ids :
           (Handles(m, x)' <=> Handles(m, x)) /\ (Sent(m, x)' <=> Sent(m, x))
  BY OtherDispatchers DEF DispatchStep
<1>3. PICK id \in dispatch[d].todo :
        \/ /\ WindowRemove(id)
           /\ \/ dispatch[d].todo = {id} /\ DispatchGoes(d, "get", DOMAIN dispatch[d].batch)
              \/ DispatchGoes(d, "remove", dispatch[d].todo \ {id})
        \/ /\ WindowRemoveUnknown(id)
           /\ DispatchReturns(d)
  BY DEF DispatchRemove
<1>4. CASE WindowRemoveUnknown(id) /\ DispatchReturns(d)
  <2>1. dispatch'[d].pc = "idle"
    BY <1>4 DEF Shapes, DispatchReturns, IdleDispatch
  <2>2. \A x \in Ids : ~Handles(d, x)' /\ ~Sent(d, x)'
    BY <2>1 DEF Handles, Sent
  <2>3. Waiting' = Waiting
    BY <1>4 DEF WindowRemoveUnknown, Waiting
  <2> QED BY <1>1, <1>2, <2>2, <2>3, DispatchLess
<1>5. ASSUME WindowRemove(id),
             \/ dispatch[d].todo = {id} /\ DispatchGoes(d, "get", DOMAIN dispatch[d].batch)
             \/ DispatchGoes(d, "remove", dispatch[d].todo \ {id})
      PROVE  Custody'
  <2>1. id \in Waiting /\ Waiting' = Waiting \ {id} /\ id \in Ids
    BY <1>5, Removed DEF WindowRemove, Shapes
  <2>2. \A x \in Ids : /\ Handles(d, x)' => Handles(d, x) \/ x = id
                       /\ ~Sent(d, x)' /\ ~Sent(d, x)
    BY <1>1, <1>5, Goes DEF Handles, Sent
  <2>3. /\ ~Settled(id) /\ \A m \in Dispatchers : ~Handles(m, id)
        /\ \A c \in Clients : ~Holds(c, id)
        /\ \E k \in Keys : reserved[k] = id
    BY <2>1 DEF Custody, OnePlace, KeysAreClaimed, Away
  <2>4. \A x \in Ids : /\ Settled(x)' <=> Settled(x)
                       /\ HasReceipt(x)' <=> HasReceipt(x)
                       /\ GivenUp(x)' <=> GivenUp(x)
    BY <1>1 DEF Settled, HasReceipt, GivenUp, Tracked
  <2>5. \A c \in Clients, x \in Ids :
          (Holds(c, x)' <=> Holds(c, x)) /\ client'[c].event = client[c].event
    BY <1>1, SameClient DEF DispatchFrame
  <2>6. \A x \in Ids : Away(x)' => Away(x)
    BY <1>2, <2>1, <2>2, <2>4 DEF Away
  <2>7. CallsHaveKeys'
    BY <1>1 DEF Custody, CallsHaveKeys, DispatchFrame
  <2>8. KeysAreClaimed'
    BY <1>1, <2>5, <2>6 DEF Custody, KeysAreClaimed, DispatchFrame
  <2>9. OnePlace'
    <3>1. \A x \in Ids : /\ \A c, b \in Clients : Holds(c, x)' /\ Holds(b, x)' => b = c
                         /\ \A c \in Clients : Holds(c, x)' => ~Away(x)'
      BY <2>5, <2>6 DEF Custody, OnePlace
    <3>2. \A x \in Ids : x \in Waiting' => ~Settled(x)' /\ \A m \in Dispatchers : ~Handles(m, x)'
      BY <1>2, <2>1, <2>2, <2>4 DEF Custody, OnePlace
    <3>3. \A x \in Ids : \A m, n \in Dispatchers : Handles(m, x)' /\ Handles(n, x)' => n = m
      BY <1>2, <2>2, <2>3 DEF Custody, OnePlace
    <3>4. \A x \in Ids : \A m \in Dispatchers : Handles(m, x)' /\ ~Sent(m, x)' => ~Settled(x)'
      BY <1>2, <2>2, <2>3, <2>4 DEF Custody, OnePlace
    <3>5. \A x \in Ids : \A m \in Dispatchers : Sent(m, x)' => HasReceipt(x)'
      BY <1>2, <2>2, <2>4 DEF Custody, OnePlace
    <3> QED BY <3>1, <3>2, <3>3, <3>4, <3>5 DEF OnePlace
  <2>10. ReceiptsFirst'
    BY <1>1, <2>4 DEF DispatchFrame, Custody, ReceiptsFirst, HasReceipt
  <2> QED BY <2>7, <2>8, <2>9, <2>10 DEF Custody
<1> QED BY <1>3, <1>4, <1>5

\* A dispatcher settles the item it is sending, or is done with one that is settled.
LEMMA SettleCustody ==
  ASSUME Shapes, Shapes', Custody, NEW d \in Dispatchers, NEW id \in Ids, Handles(d, id),
         DispatchFrame, Waiting' = Waiting,
         \A x \in Ids \ {id} : /\ HasReceipt(x)' <=> HasReceipt(x)
                               /\ x \in open' <=> x \in open
                               /\ GivenUp(x)' <=> GivenUp(x)
                               /\ Handles(d, x)' => Handles(d, x)
                               /\ ~Sent(d, x)' /\ ~Sent(d, x),
         \A m \in Dispatchers \ {d} : \A x \in Ids :
           (Handles(m, x)' <=> Handles(m, x)) /\ (Sent(m, x)' <=> Sent(m, x)),
         HasReceipt(id) => HasReceipt(id)',
         id \in open' => HasReceipt(id)',
         ~(HasReceipt(id)' /\ GivenUp(id)'),
         Handles(d, id)' => Sent(d, id)',
         Sent(d, id)' => HasReceipt(id)'
  PROVE  Custody'
<1>1. \A x \in Ids \ {id} : (Settled(x)' <=> Settled(x)) /\ (Away(x)' => Away(x))
  BY DEF Settled, Away
<1>2. /\ Away(id) /\ id \notin Waiting
      /\ \A m \in Dispatchers \ {d} : ~Handles(m, id)
      /\ \A c \in Clients : ~Holds(c, id)
  BY DEF Custody, OnePlace, Away
<1>3. \A c \in Clients, x \in Ids :
        (Holds(c, x)' <=> Holds(c, x)) /\ client'[c].event = client[c].event
  BY SameClient DEF DispatchFrame
<1>4. CallsHaveKeys'
  BY DEF Custody, CallsHaveKeys, DispatchFrame
<1>5. KeysAreClaimed'
  BY <1>1, <1>2, <1>3 DEF Custody, KeysAreClaimed, DispatchFrame
<1>6. OnePlace'
  <2>1. \A x \in Ids : /\ \A c, b \in Clients : Holds(c, x)' /\ Holds(b, x)' => b = c
                       /\ \A c \in Clients : Holds(c, x)' => ~Away(x)'
    BY <1>1, <1>2, <1>3 DEF Custody, OnePlace
  <2>2. \A x \in Ids : x \in Waiting' => ~Settled(x)' /\ \A m \in Dispatchers : ~Handles(m, x)'
    BY <1>1, <1>2 DEF Custody, OnePlace
  <2>3. \A x \in Ids : \A m, n \in Dispatchers : Handles(m, x)' /\ Handles(n, x)' => n = m
    BY <1>2 DEF Custody, OnePlace
  <2>4. \A x \in Ids : \A m \in Dispatchers : Handles(m, x)' /\ ~Sent(m, x)' => ~Settled(x)'
    BY <1>1, <1>2 DEF Custody, OnePlace
  <2>5. \A x \in Ids : \A m \in Dispatchers : Sent(m, x)' => HasReceipt(x)'
    BY DEF Custody, OnePlace
  <2> QED BY <2>1, <2>2, <2>3, <2>4, <2>5 DEF OnePlace
<1>7. ReceiptsFirst'
  <2>1. \A x \in Ids : HasReceipt(x) => HasReceipt(x)'
    OBVIOUS
  <2>2. \A f \in Confirmers : confirm'[f].pc # "idle" => HasReceipt(confirm[f].id)'
    <3>1. ASSUME NEW f \in Confirmers, confirm'[f].pc # "idle" PROVE HasReceipt(confirm[f].id)'
      <4>1. PICK x : x = confirm[f].id
        OBVIOUS
      <4>2. confirm'[f].id = x /\ x \in Ids /\ HasReceipt(x)
        BY <3>1, <4>1 DEF DispatchFrame, Custody, ReceiptsFirst, Shapes
      <4>3. HasReceipt(x)'
        BY <2>1, <4>2
      <4> QED BY <4>2, <4>3 DEF HasReceipt
    <3> QED BY <3>1
  <2> QED BY <2>2 DEF Custody, ReceiptsFirst, HasReceipt
<1> QED BY <1>4, <1>5, <1>6, <1>7 DEF Custody

LEMMA SendCustody ==
  ASSUME Shapes, Shapes', Custody, NEW d \in Dispatchers,
         DispatchRecord(d) \/ DispatchOpen(d) \/ DispatchTrack(d)
  PROVE  Custody'
<1>0. PICK id : id = dispatch[d].id
  OBVIOUS
<1>1. /\ DispatchFrame /\ Waiting' = Waiting
      /\ dispatch[d].pc \in {"send", "open"}
  BY DispatchSteps DEF DispatchStep, DispatchRecord, DispatchOpen, DispatchTrack, windowVars, Waiting
<1>2. id \in Ids /\ id \in dispatch[d].todo
  BY <1>0, <1>1 DEF Shapes, DispatchCall
<1>3. /\ Handles(d, id)
      /\ Sent(d, id) <=> dispatch[d].pc = "open"
      /\ \A x \in Ids \ {id} : ~Sent(d, x)
  BY <1>0, <1>1, <1>2 DEF Handles, Sent
<1>4. \A m \in Dispatchers \ {d} : \A x \in Ids :
           (Handles(m, x)' <=> Handles(m, x)) /\ (Sent(m, x)' <=> Sent(m, x))
  BY OtherDispatchers DEF DispatchStep
<1>5. receipts \in [Ids -> [status : {"none", "delivered", "confirmed"}, at : Nat]] /\ clock \in Nat
  BY DEF Shapes, ReceiptsTypeOK
<1>6. CASE DispatchRecord(d)
  <2>1. /\ Record(id, "delivered", clock) /\ DispatchGoes(d, "open", dispatch[d].todo)
        /\ dispatch[d].pc = "send" /\ dead' = dead
    BY <1>0, <1>6 DEF DispatchRecord, retentionVars
  <2>2. ~Settled(id)
    BY <1>2, <1>3, <2>1 DEF Custody, OnePlace
  <2>3. /\ \A x \in Ids \ {id} : Handles(d, x)' => Handles(d, x)
        /\ \A x \in Ids : Sent(d, x)' <=> x = id
    BY <1>0, <1>1, <2>1, Goes DEF Handles, Sent
  <2>4. /\ HasReceipt(id)' /\ open' = open
        /\ \A x \in Ids \ {id} : HasReceipt(x)' <=> HasReceipt(x)
        /\ \A x \in Ids : GivenUp(x)' <=> GivenUp(x)
    BY <1>2, <1>5, <2>1 DEF Record, HasReceipt, GivenUp, Tracked
  <2> QED BY <1>1, <1>2, <1>3, <1>4, <2>2, <2>3, <2>4, SettleCustody DEF Settled
<1>7. CASE DispatchOpen(d)
  <2>1. /\ OpenDelivery(id) /\ DispatchGoes(d, "get", dispatch[d].todo \ {id})
        /\ dispatch[d].pc = "open" /\ dead' = dead
    BY <1>0, <1>7 DEF DispatchOpen, retentionVars
  <2>2. HasReceipt(id) /\ ~GivenUp(id)
    BY <1>2, <1>3, <2>1 DEF Custody, OnePlace, ReceiptsFirst
  <2>3. /\ \A x \in Ids : Handles(d, x)' => Handles(d, x) /\ x # id
        /\ \A x \in Ids : ~Sent(d, x)'
    BY <1>1, <2>1, Goes DEF Handles, Sent
  <2>4. /\ \A x \in Ids : (HasReceipt(x)' <=> HasReceipt(x)) /\ (GivenUp(x)' <=> GivenUp(x))
        /\ open' = open \cup {id}
    BY <2>1 DEF OpenDelivery, HasReceipt, GivenUp, Tracked
  <2> QED BY <1>1, <1>2, <1>3, <1>4, <2>2, <2>3, <2>4, SettleCustody
<1>8. CASE DispatchTrack(d)
  <2>1. /\ TrackDead(id, clock) \/ AlreadyTracked(id)
        /\ DispatchGoes(d, "get", dispatch[d].todo \ {id})
        /\ dispatch[d].pc = "send" /\ receipts' = receipts /\ open' = open
    BY <1>0, <1>8 DEF DispatchTrack, receiptVars
  <2>2. ~Settled(id)
    BY <1>2, <1>3, <2>1 DEF Custody, OnePlace
  <2>3. /\ \A x \in Ids : Handles(d, x)' => Handles(d, x) /\ x # id
        /\ \A x \in Ids : ~Sent(d, x)'
    BY <1>1, <2>1, Goes DEF Handles, Sent
  <2>4. /\ \A x \in Ids : HasReceipt(x)' <=> HasReceipt(x)
        /\ \A x \in Ids \ {id} : GivenUp(x)' <=> GivenUp(x)
    BY <2>1 DEF TrackDead, AlreadyTracked, retentionVars, HasReceipt, GivenUp, Tracked
  <2> QED BY <1>1, <1>2, <1>3, <1>4, <2>1, <2>2, <2>3, <2>4, SettleCustody DEF Settled
<1> QED BY <1>6, <1>7, <1>8

LEMMA DispatchCustody ==
  ASSUME Shapes, Custody, NEW d \in Dispatchers,
         DispatchStep(d) \/ \E scope \in Scopes : DispatchFlush(d, scope)
  PROVE  Custody'
<1>1. Shapes'
  BY DispatchShapes
<1> QED BY <1>1, FlushCustody, RemoveCustody, SendCustody DEF DispatchStep

------------------------------------------------------------------------------
(* Theorems *)

LEMMA CustodyStep ==
  ASSUME IdsTellKeys, Shapes, Custody, [Next]_vars
  PROVE  Shapes' /\ Custody'
<1>1. ASSUME NEW c \in Clients, SubmitStep(c) \/ \E e \in Events, s \in Specs : SubmitBegin(c, e, s)
      PROVE  Shapes' /\ Custody'
  BY <1>1, ClientShapes, ClientCustody DEF Custody
<1>2. ASSUME NEW d \in Dispatchers, DispatchStep(d) \/ \E scope \in Scopes : DispatchFlush(d, scope)
      PROVE  Shapes' /\ Custody'
  BY <1>2, DispatchShapes, DispatchCustody
<1>3. ASSUME NEW f \in Confirmers, ConfirmStep(f) \/ \E id \in Ids : ConfirmBegin(f, id)
      PROVE  Shapes' /\ Custody'
  BY <1>3, ConfirmShapes, ConfirmCustody
<1>4. CASE Elsewhere
  BY <1>4, ElsewhereShapes, ElsewhereCustody
<1> QED BY <1>1, <1>2, <1>3, <1>4, Kinds

\* Every delivery has one place at a time, in every reachable state of the dock.
THEOREM CustodyHolds == IdsTellKeys => (Spec => [](Shapes /\ Custody))
<1> SUFFICES ASSUME IdsTellKeys PROVE Spec => [](Shapes /\ Custody)
  OBVIOUS
<1>1. Init => Shapes /\ Custody
  BY ShapesInit, CustodyInit
<1>2. Shapes /\ Custody /\ [Next]_vars => (Shapes /\ Custody)'
  BY CustodyStep
<1> QED BY <1>1, <1>2, PTL DEF Spec

\* Admits, the window and Handles are places.
LEMMA OnePlaceEach == Custody => SentOnce
<1> SUFFICES ASSUME Custody, NEW id \in Ids
    PROVE  LET clients == {c \in Clients : Admits(c, id)}
               dispatchers == {d \in Dispatchers : Handles(d, id)}
               waiting == {id} \cap Waiting IN
           /\ Cardinality(clients) + Cardinality(dispatchers) + Cardinality(waiting) <= 1
           /\ Unsent(id) => ~HasReceipt(id) /\ id \notin open
  BY DEF SentOnce
<1> DEFINE clients == {c \in Clients : Admits(c, id)}
           dispatchers == {d \in Dispatchers : Handles(d, id)}
           waiting == {id} \cap Waiting
<1>1. \A c \in Clients : Admits(c, id) => Holds(c, id)
  BY DEF Admits, Holds
<1>2. Cardinality({}) = 0 /\ \A x : Cardinality({x}) = 1
  BY FS_EmptySet, FS_Singleton
<1>3. ASSUME NEW c \in Clients, Admits(c, id)
      PROVE  clients = {c} /\ dispatchers = {} /\ waiting = {}
  BY <1>1, <1>3 DEF Custody, OnePlace, Away
<1>4. ASSUME NEW d \in Dispatchers, Handles(d, id), clients = {}
      PROVE  dispatchers = {d} /\ waiting = {}
  BY <1>4 DEF Custody, OnePlace
<1>5. waiting = {} \/ waiting = {id}
  OBVIOUS
<1>6. Cardinality(clients) + Cardinality(dispatchers) + Cardinality(waiting) <= 1
  <2>1. \/ (\E c : clients = {c}) /\ dispatchers = {} /\ waiting = {}
        \/ clients = {} /\ (\E d : dispatchers = {d}) /\ waiting = {}
        \/ clients = {} /\ dispatchers = {} /\ (waiting = {} \/ waiting = {id})
    <3>1. CASE clients # {}
      BY <1>3, <3>1
    <3>2. CASE clients = {} /\ dispatchers # {}
      BY <1>4, <3>2
    <3>3. CASE clients = {} /\ dispatchers = {}
      BY <1>5, <3>3
    <3> QED BY <3>1, <3>2, <3>3
  <2> HIDE DEF clients, dispatchers, waiting
  <2>2. \/ Cardinality(clients) = 1 /\ Cardinality(dispatchers) = 0 /\ Cardinality(waiting) = 0
        \/ Cardinality(clients) = 0 /\ Cardinality(dispatchers) = 1 /\ Cardinality(waiting) = 0
        \/ /\ Cardinality(clients) = 0 /\ Cardinality(dispatchers) = 0
           /\ Cardinality(waiting) = 0 \/ Cardinality(waiting) = 1
    BY <1>2, <2>1, Zenon
  <2> QED BY <2>2
<1>7. Unsent(id) => ~HasReceipt(id) /\ id \notin open
  BY <1>1 DEF Unsent, Custody, OnePlace, Away, Settled
<1> QED BY <1>6, <1>7

\* SentOnce: a delivery is with one client, in the window or with one dispatcher, and until it
\* is sent it has neither a receipt nor an open entry.
THEOREM SentAtMostOnce == IdsTellKeys => (Spec => []SentOnce)
<1> SUFFICES ASSUME IdsTellKeys PROVE Spec => []SentOnce
  OBVIOUS
<1>1. Shapes /\ Custody => SentOnce
  BY OnePlaceEach
<1>2. Spec => [](Shapes /\ Custody)
  BY CustodyHolds
<1> QED BY <1>1, <1>2, PTL

\* OneOutcome: a send ends with a receipt or a dead letter, and not with both.
THEOREM OutcomesExclude == IdsTellKeys => (Spec => []OneOutcome)
<1> SUFFICES ASSUME IdsTellKeys PROVE Spec => []OneOutcome
  OBVIOUS
<1>1. Shapes /\ Custody => OneOutcome
  BY DEF Custody, ReceiptsFirst, OneOutcome, GivenUp
<1>2. Spec => [](Shapes /\ Custody)
  BY CustodyHolds
<1> QED BY <1>1, <1>2, PTL

\* OpenHasReceipt: what is open has been recorded.
THEOREM OpensAreRecorded == IdsTellKeys => (Spec => []OpenHasReceipt)
<1> SUFFICES ASSUME IdsTellKeys PROVE Spec => []OpenHasReceipt
  OBVIOUS
<1>1. Shapes /\ Custody => OpenHasReceipt
  BY DEF Shapes, ReceiptsTypeOK, Custody, ReceiptsFirst, OpenHasReceipt
<1>2. Spec => [](Shapes /\ Custody)
  BY CustodyHolds
<1> QED BY <1>1, <1>2, PTL

\* A receipt is written by the dispatcher that sends the delivery, which has none then, and by
\* a confirmer.
LEMMA ConfirmedStays ==
  ASSUME Shapes, Custody, [Next]_vars, NEW id \in Ids, receipts[id].status = "confirmed"
  PROVE  receipts'[id].status = "confirmed"
<1>0. receipts \in [Ids -> [status : {"none", "delivered", "confirmed"}, at : Nat]] /\ clock \in Nat
  BY DEF Shapes, ReceiptsTypeOK
<1>1. ASSUME NEW c \in Clients, SubmitStep(c) \/ \E e \in Events, s \in Specs : SubmitBegin(c, e, s)
      PROVE  receipts' = receipts
  BY <1>1, ClientSteps DEF ClientFrame
<1>2. ASSUME NEW d \in Dispatchers, DispatchStep(d) \/ \E scope \in Scopes : DispatchFlush(d, scope)
      PROVE  receipts'[id].status = "confirmed"
  <2>1. receipts' = receipts \/ DispatchRecord(d)
    BY <1>2 DEF DispatchStep, DispatchFlush, DispatchRemove, DispatchGet, DispatchReturn, DispatchOpen,
                DispatchTrack, OpenDelivery, partVars, receiptVars
  <2>2. CASE DispatchRecord(d)
    <3>1. PICK sent : sent = dispatch[d].id
      OBVIOUS
    <3>2. dispatch[d].pc = "send" /\ Record(sent, "delivered", clock)
      BY <2>2, <3>1 DEF DispatchRecord
    <3>3. sent \in Ids /\ Handles(d, sent) /\ ~Sent(d, sent)
      BY <3>1, <3>2 DEF Shapes, DispatchCall, Handles, Sent
    <3>4. ~HasReceipt(sent)
      BY <3>3 DEF Custody, OnePlace, Settled
    <3> QED BY <1>0, <3>2, <3>4 DEF Record, HasReceipt
  <2> QED BY <2>1, <2>2
<1>3. ASSUME NEW f \in Confirmers, ConfirmStep(f) \/ \E i \in Ids : ConfirmBegin(f, i)
      PROVE  receipts'[id].status = "confirmed"
  <2>1. receipts' = receipts \/ Record(confirm[f].id, "confirmed", confirm[f].at)
    BY <1>3 DEF ConfirmStep, ConfirmBegin, ConfirmRecord, ConfirmClose, ConfirmUnprotect, CloseDelivery,
                receiptVars
  <2> QED BY <1>0, <2>1 DEF Record
<1>4. CASE Elsewhere
  BY <1>4 DEF Elsewhere
<1> QED BY <1>1, <1>2, <1>3, <1>4, Kinds

\* ConfirmedIsFinal: no dispatcher and no confirmer overwrites a confirmation.
THEOREM ConfirmationsStay == IdsTellKeys => (Spec => ConfirmedIsFinal)
<1> SUFFICES ASSUME IdsTellKeys PROVE Spec => ConfirmedIsFinal
  OBVIOUS
<1>1. Shapes /\ Custody /\ [Next]_vars =>
        [\A id \in Ids :
           receipts[id].status = "confirmed" => receipts'[id].status = "confirmed"]_vars
  BY ConfirmedStays
<1>2. Spec => [](Shapes /\ Custody)
  BY CustodyHolds
<1> QED BY <1>1, <1>2, PTL DEF Spec, ConfirmedIsFinal

------------------------------------------------------------------------------
(* What the dock sends was admitted, and is protected from expiry until it *)
(* is confirmed: only the client that still holds a delivery takes it out  *)
(* of the store, and only the confirmer that closed it ends its            *)
(* protection.                                                             *)

\* Protection is by event id, so events of different keys must not share one.
EventsTellKeys ==
  \A e, f \in Events : EventIdOf[e] = EventIdOf[f] => KeyOf[e] = KeyOf[f]

InBatch(id) == id \in Waiting \/ \E d \in Dispatchers : Handles(d, id)

\* The delivery is in the store, under its key.
Kept(id) ==
  /\ Stored(id)
  /\ deliveries[id].event \in Events
  /\ reserved[KeyOf[deliveries[id].event]] = id

StoreIsMap == deliveries = [id \in Ids |-> deliveries[id]]

\* What is with a client, or anywhere after it, is in the store, and what has got past the
\* journal is in the journal.
Records ==
  /\ StoreIsMap /\ JournalTypeOK
  /\ \A c \in Clients, id \in Ids :
       Holds(c, id) => Stored(id) /\ deliveries[id].event = client[c].event
  /\ \A id \in Ids : Away(id) => Kept(id)
  /\ \A c \in Clients : client[c].pc \in {"schedule", "protect", "rank", "add"} =>
       HasEntry(client[c].id, "pending")
  /\ \A id \in Ids : InBatch(id) => HasEntry(id, "pending")

\* Protected from the client's call of Protect to the confirmer that has closed the delivery,
\* which nobody sends or opens any more.
Guarded ==
  /\ \A c \in Clients : client[c].pc \in {"rank", "add"} => EventIdOf[client[c].event] \in protected
  /\ \A id \in Ids : InBatch(id) \/ id \in open => EventIdOf[deliveries[id].event] \in protected
  /\ \A id \in Ids : id \in open => \A d \in Dispatchers : ~Handles(d, id)
  /\ \A f \in Confirmers : confirm[f].pc = "unprotect" =>
       confirm[f].id \notin open /\ \A d \in Dispatchers : ~Handles(d, confirm[f].id)

------------------------------------------------------------------------------
(* What steps do to the places *)

LEMMA ElsewhereFrame ==
  ASSUME Shapes, [Next]_vars,
         ~\E c \in Clients : SubmitStep(c) \/ \E e \in Events, s \in Specs : SubmitBegin(c, e, s),
         ~\E d \in Dispatchers : DispatchStep(d) \/ \E scope \in Scopes : DispatchFlush(d, scope),
         ~\E f \in Confirmers : ConfirmStep(f) \/ \E id \in Ids : ConfirmBegin(f, id)
  PROVE  /\ Elsewhere
         /\ UNCHANGED <<deliveries, journal, protected>>
         /\ failNext' = failNext \/ failNext' = TRUE
<1>1. Elsewhere
  BY Kinds
<1>2. ASSUME NEW s \in Supervisors, SuperStep(s) \/ \E lead \in RunLeads : SuperBegin(s, lead)
      PROVE  UNCHANGED <<deliveries, journal, failNext, protected>>
  BY <1>2 DEF SuperStep, SuperBegin, SuperRequeue, SuperStale, SuperClose, SuperSweep, SuperScan,
              SuperReap, SuperEvict, SuperDrain, SuperTake, SuperReturn, RunSweep, superFrame,
              storeVars, journalVars, partVars, expiryVars
<1>3. CASE \/ Tick \/ InjectRejection \/ PurgeDead \/ PurgeOver
           \/ \E id \in ReportedDead : ReportDead(id)
           \/ UNCHANGED vars
  BY <1>1, <1>3 DEF Tick, InjectRejection, RejectNextAppend, PurgeDead, PurgeOver, ReportDead, vars,
                    retentionFrame, storeVars, journalVars, partVars, expiryVars
<1> QED BY <1>1, <1>2, <1>3 DEF Next

LEMMA DispatchPlaces ==
  ASSUME Shapes, Shapes', NEW d \in Dispatchers,
         DispatchStep(d) \/ \E scope \in Scopes : DispatchFlush(d, scope)
  PROVE  /\ UNCHANGED <<storeVars, journalVars, expiryVars, client, confirm>>
         /\ \A m \in Dispatchers \ {d} : \A x \in Ids : Handles(m, x)' <=> Handles(m, x)
         /\ \A x \in Ids :
              /\ x \in Waiting' => x \in Waiting
              /\ Handles(d, x)' => Handles(d, x) \/ x \in Waiting
              /\ x \in open' => x \in open \/ (Handles(d, x) /\ ~Handles(d, x)')
              /\ HasReceipt(x)' => HasReceipt(x) \/ Handles(d, x)
              /\ GivenUp(x)' => GivenUp(x) \/ Handles(d, x)
<1>1. UNCHANGED <<storeVars, journalVars, expiryVars, client, confirm>>
  BY DEF DispatchStep, DispatchFlush, DispatchRemove, DispatchGet, DispatchReturn, DispatchRecord,
         DispatchOpen, DispatchTrack, dispatchFrame
<1>2. \A m \in Dispatchers \ {d} : \A x \in Ids : Handles(m, x)' <=> Handles(m, x)
  BY OtherDispatchers
<1>3. dispatch \in [Dispatchers -> DispatchCall] /\ dispatch' \in [Dispatchers -> DispatchCall]
  BY DEF Shapes
<1> DEFINE Places1 == \A x \in Ids : /\ x \in Waiting' => x \in Waiting
                                     /\ Handles(d, x)' => Handles(d, x) \/ x \in Waiting
           Places2 == \A x \in Ids : /\ x \in open' => x \in open \/ (Handles(d, x) /\ ~Handles(d, x)')
                                     /\ HasReceipt(x)' => HasReceipt(x) \/ Handles(d, x)
                                     /\ GivenUp(x)' => GivenUp(x) \/ Handles(d, x)
<1>4. Places1 /\ Places2
  <2>4. ASSUME receipts' = receipts, open' = open, dead' = dead PROVE Places2
    BY <2>4 DEF HasReceipt, GivenUp, Tracked
  <2>5. ASSUME NEW scope \in Scopes, DispatchFlush(d, scope) PROVE Places1 /\ Places2
    <3>1. PICK ids, batch : /\ dispatch' = [dispatch EXCEPT ![d].pc = "remove", ![d].todo = ids,
                                                            ![d].batch = batch]
                            /\ DOMAIN batch = ids
      <4> DEFINE waits == {i \in Waiting : EndpointOf[deliveries[i].event] \in scope}
      <4>1. dispatch' = [dispatch EXCEPT ![d].pc = "remove", ![d].todo = waits,
                                         ![d].batch = [i \in waits |-> window[i]]]
        BY <2>5, Zenon DEF DispatchFlush
      <4>2. DOMAIN [i \in waits |-> window[i]] = waits
        OBVIOUS
      <4> HIDE DEF waits
      <4> QED BY <4>1, <4>2, Zenon
    <3>2. dispatch' = [dispatch EXCEPT ![d] = [dispatch[d] EXCEPT !.pc = "remove", !.todo = ids,
                                                                  !.batch = batch]]
      BY <3>1, Zenon
    <3>3. /\ dispatch'[d].pc = "remove" /\ dispatch'[d].todo = ids
          /\ dispatch'[d].batch = batch
      BY <1>3, <3>2 DEF DispatchCall
    <3>4. \A x \in Ids : ~Handles(d, x)'
      BY <3>1, <3>3 DEF Handles
    <3>5. /\ Waiting' = Waiting /\ receipts' = receipts /\ open' = open /\ dead' = dead
      BY <2>5 DEF DispatchFlush, partVars, windowVars, receiptVars, retentionVars, Waiting
    <3> QED BY <2>4, <3>4, <3>5
  <2>6. CASE DispatchRemove(d)
    <3>1. dispatch[d].pc = "remove" /\ receipts' = receipts /\ open' = open /\ dead' = dead
      BY <2>6 DEF DispatchRemove, receiptVars, retentionVars
    <3>2. PICK id \in dispatch[d].todo :
            \/ /\ WindowRemove(id)
               /\ \/ dispatch[d].todo = {id} /\ DispatchGoes(d, "get", DOMAIN dispatch[d].batch)
                  \/ DispatchGoes(d, "remove", dispatch[d].todo \ {id})
            \/ /\ WindowRemoveUnknown(id)
               /\ DispatchReturns(d)
      BY <2>6 DEF DispatchRemove
    <3>3. CASE WindowRemoveUnknown(id) /\ DispatchReturns(d)
      <4>1. dispatch'[d].pc = "idle" /\ Waiting' = Waiting
        BY <1>3, <3>3 DEF DispatchReturns, IdleDispatch, WindowRemoveUnknown, Waiting
      <4> QED BY <2>4, <3>1, <4>1 DEF Handles
    <3>4. ASSUME WindowRemove(id),
                 \/ dispatch[d].todo = {id} /\ DispatchGoes(d, "get", DOMAIN dispatch[d].batch)
                 \/ DispatchGoes(d, "remove", dispatch[d].todo \ {id})
          PROVE  Places1
      <4>1. id \in Waiting /\ Waiting' = Waiting \ {id}
        BY <3>4, Removed DEF WindowRemove
      <4>2. \A x \in Ids : Handles(d, x)' => Handles(d, x) \/ x = id
        BY <3>1, <3>4, Goes DEF Handles
      <4> QED BY <4>1, <4>2
    <3> QED BY <2>4, <3>1, <3>2, <3>3, <3>4
  <2>7. CASE DispatchGet(d)
    <3>1. dispatch[d].pc = "get"
      BY <2>7 DEF DispatchGet
    <3>2. dispatch'[d].pc \in {"get", "send"} /\ dispatch'[d].todo \subseteq dispatch[d].todo
      <4>1. PICK id : \/ dispatch' = [dispatch EXCEPT ![d].pc = "send", ![d].id = id]
                      \/ dispatch' = [dispatch EXCEPT ![d].todo = dispatch[d].todo \ {id}]
        BY <2>7 DEF DispatchGet
      <4>2. CASE dispatch' = [dispatch EXCEPT ![d].pc = "send", ![d].id = id]
        BY <1>3, <4>2 DEF DispatchCall
      <4>3. CASE dispatch' = [dispatch EXCEPT ![d].todo = dispatch[d].todo \ {id}]
        BY <1>3, <3>1, <4>3 DEF DispatchCall
      <4> QED BY <4>1, <4>2, <4>3
    <3>3. Waiting' = Waiting /\ receipts' = receipts /\ open' = open /\ dead' = dead
      BY <2>7 DEF DispatchGet, partVars, windowVars, receiptVars, retentionVars, Waiting
    <3> QED BY <2>4, <3>1, <3>2, <3>3 DEF Handles
  <2>8. CASE DispatchReturn(d)
    <3>1. dispatch'[d].pc = "idle"
      BY <1>3, <2>8 DEF DispatchReturn, DispatchReturns, IdleDispatch
    <3>2. Waiting' = Waiting /\ receipts' = receipts /\ open' = open /\ dead' = dead
      BY <2>8 DEF DispatchReturn, partVars, windowVars, receiptVars, retentionVars, Waiting
    <3> QED BY <2>4, <3>1, <3>2 DEF Handles
  <2>9. CASE DispatchRecord(d) \/ DispatchOpen(d) \/ DispatchTrack(d)
    <3>0. PICK id : id = dispatch[d].id
      OBVIOUS
    <3>1. dispatch[d].pc \in {"send", "open"} /\ Waiting' = Waiting
      BY <2>9 DEF DispatchRecord, DispatchOpen, DispatchTrack, windowVars, Waiting
    <3>2. id \in Ids /\ id \in dispatch[d].todo /\ Handles(d, id)
      BY <1>3, <3>0, <3>1 DEF Shapes, DispatchCall, Handles
    <3>3. CASE DispatchRecord(d)
      <4>1. Record(id, "delivered", clock) /\ DispatchGoes(d, "open", dispatch[d].todo) /\ dead' = dead
        BY <3>0, <3>3 DEF DispatchRecord, retentionVars
      <4>2. \A x \in Ids : Handles(d, x)' => Handles(d, x)
        BY <3>1, <4>1, Goes DEF Handles
      <4>3. \A x \in Ids : /\ HasReceipt(x)' => HasReceipt(x) \/ x = id
                           /\ (GivenUp(x)' <=> GivenUp(x)) /\ (x \in open' <=> x \in open)
        BY <4>1 DEF Record, HasReceipt, GivenUp, Tracked, Shapes, ReceiptsTypeOK
      <4> QED BY <3>1, <3>2, <4>2, <4>3
    <3>4. CASE DispatchOpen(d)
      <4>1. OpenDelivery(id) /\ DispatchGoes(d, "get", dispatch[d].todo \ {id}) /\ dead' = dead
        BY <3>0, <3>4 DEF DispatchOpen, retentionVars
      <4>2. \A x \in Ids : Handles(d, x)' => Handles(d, x) /\ x # id
        BY <3>1, <4>1, Goes DEF Handles
      <4>3. \A x \in Ids : /\ (HasReceipt(x)' <=> HasReceipt(x)) /\ (GivenUp(x)' <=> GivenUp(x))
                           /\ x \in open' => x \in open \/ x = id
        BY <4>1 DEF OpenDelivery, HasReceipt, GivenUp, Tracked
      <4> QED BY <3>1, <3>2, <4>2, <4>3
    <3>5. CASE DispatchTrack(d)
      <4>1. /\ TrackDead(id, clock) \/ AlreadyTracked(id)
            /\ DispatchGoes(d, "get", dispatch[d].todo \ {id}) /\ receipts' = receipts /\ open' = open
        BY <3>0, <3>5 DEF DispatchTrack, receiptVars
      <4>2. \A x \in Ids : Handles(d, x)' => Handles(d, x)
        BY <3>1, <4>1, Goes DEF Handles
      <4>3. \A x \in Ids : /\ HasReceipt(x)' <=> HasReceipt(x)
                           /\ GivenUp(x)' => GivenUp(x) \/ x = id
        BY <4>1 DEF TrackDead, AlreadyTracked, retentionVars, HasReceipt, GivenUp, Tracked
      <4> QED BY <3>1, <3>2, <4>1, <4>2, <4>3
    <3> QED BY <2>9, <3>3, <3>4, <3>5
  <2> QED BY <2>5, <2>6, <2>7, <2>8, <2>9 DEF DispatchStep
<1> QED BY <1>1, <1>2, <1>4

LEMMA ConfirmPlaces ==
  ASSUME Shapes, Custody, NEW f \in Confirmers, ConfirmStep(f) \/ \E id \in Ids : ConfirmBegin(f, id)
  PROVE  /\ UNCHANGED <<storeVars, journalVars, window, dead, client, dispatch>>
         /\ open' \subseteq open
         /\ \A x \in Ids : HasReceipt(x)' <=> HasReceipt(x)
<1>1. UNCHANGED <<storeVars, journalVars, window, dead, client, dispatch>>
  BY DEF ConfirmStep, ConfirmBegin, ConfirmRecord, ConfirmClose, ConfirmUnprotect, confirmFrame,
         windowVars, retentionVars
<1>2. open' \subseteq open
  BY DEF ConfirmStep, ConfirmBegin, ConfirmRecord, Record, ConfirmClose, CloseDelivery, ConfirmUnprotect,
         receiptVars
<1>3. \A x \in Ids : HasReceipt(x)' <=> HasReceipt(x)
  <2>1. receipts' = receipts \/ ConfirmRecord(f)
    BY DEF ConfirmStep, ConfirmBegin, ConfirmClose, CloseDelivery, ConfirmUnprotect, receiptVars
  <2>2. CASE ConfirmRecord(f)
    <3>1. PICK id : id = confirm[f].id
      OBVIOUS
    <3>2. confirm[f].pc # "idle" /\ Record(id, "confirmed", confirm[f].at)
      BY <2>2, <3>1 DEF ConfirmRecord
    <3>3. HasReceipt(id) /\ id \in Ids
      BY <3>1, <3>2 DEF Custody, ReceiptsFirst, Shapes
    <3> QED BY <3>2, <3>3 DEF Record, HasReceipt, Shapes, ReceiptsTypeOK
  <2> QED BY <2>1, <2>2 DEF HasReceipt
<1> QED BY <1>1, <1>2, <1>3

\* Nothing but a client's Add brings a delivery to a new place, and nothing but its Reserve and
\* what undoes it changes the store.
LEMMA Transfers ==
  ASSUME Shapes, Shapes', Custody, [Next]_vars,
         ~\E c \in Clients : SubmitStep(c) \/ \E e \in Events, s \in Specs : SubmitBegin(c, e, s)
  PROVE  /\ UNCHANGED <<deliveries, reserved, journal, client>>
         /\ failNext' = failNext \/ failNext' = TRUE
         /\ \A id \in Ids : (Away(id)' => Away(id)) /\ (InBatch(id)' => InBatch(id))
<1>1. ASSUME NEW d \in Dispatchers, DispatchStep(d) \/ \E scope \in Scopes : DispatchFlush(d, scope)
      PROVE  /\ UNCHANGED <<deliveries, reserved, journal, failNext, client>>
             /\ \A id \in Ids : (Away(id)' => Away(id)) /\ (InBatch(id)' => InBatch(id))
  BY <1>1, DispatchPlaces DEF storeVars, journalVars, Away, Settled, InBatch
<1>2. ASSUME NEW f \in Confirmers, ConfirmStep(f) \/ \E id \in Ids : ConfirmBegin(f, id)
      PROVE  /\ UNCHANGED <<deliveries, reserved, journal, failNext, client>>
             /\ \A id \in Ids : (Away(id)' => Away(id)) /\ (InBatch(id)' => InBatch(id))
  BY <1>2, ConfirmPlaces, SameDispatch DEF storeVars, journalVars, Away, Settled, InBatch, Waiting,
                                           GivenUp, Tracked
<1>3. CASE /\ ~\E d \in Dispatchers : DispatchStep(d) \/ \E scope \in Scopes : DispatchFlush(d, scope)
           /\ ~\E f \in Confirmers : ConfirmStep(f) \/ \E id \in Ids : ConfirmBegin(f, id)
  BY <1>3, ElsewhereFrame, SameDispatch DEF Elsewhere, Away, Settled, InBatch, HasReceipt
<1> QED BY <1>1, <1>2, <1>3

------------------------------------------------------------------------------
(* Records *)

LEMMA RecordsInit == Init => Records
<1> SUFFICES ASSUME Init PROVE Records
  OBVIOUS
<1>1. StoreIsMap /\ JournalTypeOK
  <2>2. /\ deliveries = [id \in Ids |-> ZeroDelivery]
        /\ reserved = [k \in Keys |-> NoId]
        /\ journal = <<>> /\ failNext = FALSE
    BY Zenon DEF Init, StoreInit, JournalInit
  <2>3. StoreIsMap
    BY <2>2 DEF StoreIsMap
  <2>4. <<>> \in Seq(Entry)
    OBVIOUS
  <2> QED BY <2>2, <2>3, <2>4, Zenon DEF JournalTypeOK
<1>2. /\ \A c \in Clients : client[c].pc = "idle"
      /\ \A d \in Dispatchers : dispatch[d].pc = "idle"
  BY DEF Init, CallsInit, IdleClient, IdleDispatch
<1>3. \A id \in Ids : /\ \A c \in Clients : ~Holds(c, id)
                      /\ ~Away(id) /\ ~InBatch(id)
  <2>1. \A id \in Ids : id \notin Waiting /\ ~HasReceipt(id) /\ id \notin open /\ ~GivenUp(id)
    BY DEF Init, PartsInit, WindowInit, ReceiptsInit, RetentionInit, Waiting, HasReceipt, NoReceipt,
           GivenUp, Tracked
  <2> QED BY <1>2, <2>1 DEF Holds, Handles, Away, Settled, InBatch
<1> QED BY <1>1, <1>2, <1>3 DEF Records

LEMMA EntriesStay ==
  ASSUME JournalTypeOK, NEW x, journal' = Append(journal, x), NEW id, NEW t, HasEntry(id, t)
  PROVE  HasEntry(id, t)'
<1>1. PICK i \in DOMAIN journal : journal[i].delivery = id /\ journal[i].transition = t
  BY DEF HasEntry
<1>2. journal \in Seq(Entry)
  BY DEF JournalTypeOK
<1>3. i \in DOMAIN journal' /\ journal'[i] = journal[i]
  <2>1. Len(journal) \in Nat /\ i \in 1 .. Len(journal)
    BY <1>1, <1>2
  <2> QED BY <1>2, <2>1
<1> QED BY <1>1, <1>3 DEF HasEntry

LEMMA EntryAdded ==
  ASSUME JournalTypeOK, NEW id \in Ids, NEW at \in Nat, AppendAccepted(id, "pending", at)
  PROVE  /\ JournalTypeOK' /\ HasEntry(id, "pending")'
         /\ \A x, t : HasEntry(x, t) => HasEntry(x, t)'
<1>1. PICK e : e = [delivery |-> id, transition |-> "pending", at |-> at]
  OBVIOUS
<1>2. journal' = Append(journal, e) /\ failNext' = failNext
  BY <1>1 DEF AppendAccepted
<1>3. e \in Entry /\ e.delivery = id /\ e.transition = "pending"
  BY <1>1 DEF Entry, Transitions
<1>4. JournalTypeOK'
  BY <1>2, <1>3 DEF JournalTypeOK
<1>5. HasEntry(id, "pending")'
  <2>1. Len(journal) + 1 \in DOMAIN journal' /\ journal'[Len(journal) + 1] = e
    BY <1>2, <1>3 DEF JournalTypeOK
  <2> QED BY <1>3, <2>1 DEF HasEntry
<1> QED BY <1>2, <1>4, <1>5, EntriesStay

\* The client's delivery is in the journal.
Journaled(c) == client[c].pc \in {"schedule", "protect", "rank", "add"}

LEMMA RecordsKept ==
  ASSUME Records, Shapes', StoreIsMap', JournalTypeOK',
         \A id \in Ids : HasEntry(id, "pending") => HasEntry(id, "pending")',
         \A b \in Clients, id \in Ids : Holds(b, id)' =>
           \/ /\ Holds(b, id) /\ deliveries'[id] = deliveries[id]
              /\ client'[b].event = client[b].event
           \/ Stored(id)' /\ deliveries'[id].event = client'[b].event,
         \A id \in Ids : Away(id)' =>
           \/ /\ Away(id) /\ deliveries'[id] = deliveries[id]
              /\ LET k == KeyOf[deliveries[id].event] IN reserved[k] = id => reserved'[k] = id
           \/ Kept(id)',
         \A b \in Clients : Journaled(b)' =>
           \/ Journaled(b) /\ client'[b].id = client[b].id /\ client[b].id \in Ids
           \/ HasEntry(client[b].id, "pending")',
         \A id \in Ids : InBatch(id)' => InBatch(id) \/ HasEntry(id, "pending")'
  PROVE  Records'
<1>1. \A b \in Clients, id \in Ids :
        Holds(b, id)' => Stored(id)' /\ deliveries'[id].event = client'[b].event
  BY DEF Records, Stored
<1>2. \A id \in Ids : Away(id)' => Kept(id)'
  BY DEF Records, Kept, Stored
<1>3. \A b \in Clients : Journaled(b)' => HasEntry(client[b].id, "pending")'
  <2>1. ASSUME NEW b \in Clients, Journaled(b), client'[b].id = client[b].id, client[b].id \in Ids
        PROVE  HasEntry(client[b].id, "pending")'
    <3>1. PICK id \in Ids : id = client[b].id
      BY <2>1
    <3>2. HasEntry(id, "pending")'
      BY <2>1, <3>1 DEF Records, Journaled
    <3>3. client'[b].id = id
      BY <2>1, <3>1
    <3> QED BY <3>2, <3>3 DEF HasEntry
  <2> QED BY <2>1
<1>4. \A id \in Ids : InBatch(id)' => HasEntry(id, "pending")'
  BY DEF Records
<1> QED BY <1>1, <1>2, <1>3, <1>4 DEF Records, Journaled

LEMMA TransferRecords ==
  ASSUME Shapes, Shapes', Custody, Records, [Next]_vars,
         ~\E c \in Clients : SubmitStep(c) \/ \E e \in Events, s \in Specs : SubmitBegin(c, e, s)
  PROVE  Records'
<1>1. /\ UNCHANGED <<deliveries, reserved, journal, client>>
      /\ failNext' = failNext \/ failNext' = TRUE
      /\ \A id \in Ids : (Away(id)' => Away(id)) /\ (InBatch(id)' => InBatch(id))
  BY Transfers
<1>2. StoreIsMap'
  BY <1>1 DEF Records, StoreIsMap
<1>3. JournalTypeOK'
  BY <1>1 DEF Records, JournalTypeOK
<1>4. \A id \in Ids : HasEntry(id, "pending") => HasEntry(id, "pending")'
  BY <1>1 DEF HasEntry
<1>5. \A b \in Clients : Journaled(b)' => Journaled(b) /\ client[b].id \in Ids
  BY <1>1, ClientFacts DEF Journaled
<1> QED BY <1>1, <1>2, <1>3, <1>4, <1>5, SameClient, RecordsKept

\* What a client's step leaves of the places.
LEMMA ClientPlaces ==
  ASSUME NEW c \in Clients, ClientFrame
  PROVE  /\ \A id \in Ids : Away(id)' => Away(id) \/ id \in Waiting' \ Waiting
         /\ \A id \in Ids : InBatch(id)' => InBatch(id) \/ id \in Waiting' \ Waiting
BY SameDispatch DEF ClientFrame, Away, Settled, InBatch, HasReceipt, GivenUp, Tracked

\* A step of the call that leaves the store as it is.
LEMMA MovesRecords ==
  ASSUME Shapes, Shapes', Custody, Records, NEW c \in Clients, ClientFrame,
         UNCHANGED <<deliveries, reserved>>, JournalTypeOK',
         \A id \in Ids : HasEntry(id, "pending") => HasEntry(id, "pending")',
         \A b \in Clients \ {c} : client'[b] = client[b],
         \A id \in Ids : Holds(c, id)' => Holds(c, id) /\ client'[c].event = client[c].event,
         NEW x, x = client[c].id,
         Journaled(c)' => client'[c].id = x /\ (Journaled(c) \/ HasEntry(x, "pending")'),
         \A id \in Ids : id \in Waiting' => id \in Waiting \/ (id = x /\ Journaled(c))
  PROVE  Records'
<1>1. StoreIsMap'
  BY DEF Records, StoreIsMap
<1>2. \A b \in Clients, id \in Ids : Holds(b, id)' =>
        /\ Holds(b, id) /\ deliveries'[id] = deliveries[id]
        /\ client'[b].event = client[b].event
  BY DEF Holds
<1>3. ASSUME NEW id \in Ids, id = x, Journaled(c)
      PROVE  Kept(id)' /\ HasEntry(id, "pending")'
  <2>1. Holds(c, id) /\ client[c].pc # "idle"
    BY <1>3 DEF Holds, Journaled
  <2>2. client[c].event \in Events /\ reserved[KeyOf[client[c].event]] = id
    BY <2>1, ClientFacts DEF Custody, KeysAreClaimed
  <2>3. Stored(id) /\ deliveries[id].event = client[c].event
    BY <2>1 DEF Records
  <2>4. HasEntry(id, "pending")
    BY <1>3 DEF Records, Journaled
  <2> QED BY <2>2, <2>3, <2>4 DEF Kept, Stored
<1>4. \A id \in Ids : Away(id)' => Away(id) \/ (id = x /\ Journaled(c))
  BY ClientPlaces
<1>5. \A id \in Ids : InBatch(id)' => InBatch(id) \/ (id = x /\ Journaled(c))
  BY ClientPlaces
<1>6. \A b \in Clients : Journaled(b)' =>
        \/ Journaled(b) /\ client'[b].id = client[b].id /\ client[b].id \in Ids
        \/ HasEntry(client[b].id, "pending")'
  <2>1. \A b \in Clients \ {c} : Journaled(b)' =>
          Journaled(b) /\ client'[b].id = client[b].id /\ client[b].id \in Ids
    BY ClientFacts DEF Journaled
  <2>2. Journaled(c) => x \in Ids
    BY ClientFacts DEF Journaled
  <2>3. client'[c].id = x /\ HasEntry(x, "pending")' => HasEntry(client[c].id, "pending")'
    BY DEF HasEntry
  <2> QED BY <2>1, <2>2, <2>3
<1> QED BY <1>1, <1>2, <1>3, <1>4, <1>5, <1>6, RecordsKept

\* A step of the call that changes the store at an id that is in no other place.
LEMMA StoreRecords ==
  ASSUME Shapes, Shapes', Custody, Records, NEW c \in Clients, ClientFrame,
         UNCHANGED <<journal, failNext, window>>, StoreIsMap',
         \A b \in Clients \ {c} : client'[b] = client[b],
         NEW x \in Ids, ~Away(x), \A b \in Clients \ {c} : ~Holds(b, x),
         \A id \in Ids \ {x} : deliveries'[id] = deliveries[id],
         \A k \in Keys : reserved[k] \notin {NoId, x} => reserved'[k] = reserved[k],
         \A id \in Ids : Holds(c, id)' =>
           Stored(id)' /\ deliveries'[id].event = client'[c].event,
         ~Journaled(c)'
  PROVE  Records'
<1>1. JournalTypeOK'
  BY DEF Records, JournalTypeOK
<1>2. \A id \in Ids : HasEntry(id, "pending") => HasEntry(id, "pending")'
  BY DEF HasEntry
<1>3. \A b \in Clients, id \in Ids : Holds(b, id)' =>
        \/ /\ Holds(b, id) /\ deliveries'[id] = deliveries[id]
           /\ client'[b].event = client[b].event
        \/ Stored(id)' /\ deliveries'[id].event = client'[b].event
  BY DEF Holds
<1>4. \A id \in Ids : (Away(id)' => Away(id)) /\ (InBatch(id)' => InBatch(id))
  BY ClientPlaces DEF Waiting
<1>5. \A id \in Ids : Away(id)' => Kept(id)'
  <2>1. ASSUME NEW id \in Ids, Away(id)' PROVE Kept(id)'
    <3>1. Away(id) /\ id # x /\ deliveries'[id] = deliveries[id] /\ Kept(id)
      BY <1>4, <2>1 DEF Records
    <3>2. KeyOf[deliveries[id].event] \in Keys /\ id # NoId
      BY <3>1, CoreConstants DEF Kept
    <3> QED BY <3>1, <3>2 DEF Kept, Stored
  <2> QED BY <2>1
<1>6. \A b \in Clients : Journaled(b)' =>
        Journaled(b) /\ client'[b].id = client[b].id /\ client[b].id \in Ids
  BY ClientFacts DEF Journaled
<1> QED BY <1>1, <1>2, <1>3, <1>4, <1>5, <1>6, RecordsKept

\* A call that goes on to another point, and one that returns.
LEMMA GoesOn ==
  ASSUME Shapes, NEW c \in Clients, NEW pc, ClientGoes(c, pc)
  PROVE  /\ client'[c].pc = pc /\ client'[c].event = client[c].event /\ client'[c].id = client[c].id
         /\ \A b \in Clients \ {c} : client'[b] = client[b]
BY DEF Shapes, ClientGoes, ClientCall

LEMMA Returns ==
  ASSUME Shapes, NEW c \in Clients, ClientReturns(c)
  PROVE  /\ client'[c].pc = "idle"
         /\ \A b \in Clients \ {c} : client'[b] = client[b]
BY DEF Shapes, ClientReturns, IdleClient

LEMMA SameJournal ==
  ASSUME Records, UNCHANGED <<journal, failNext>>
  PROVE  JournalTypeOK' /\ \A id : HasEntry(id, "pending") => HasEntry(id, "pending")'
BY DEF Records, JournalTypeOK, HasEntry

LEMMA BeginRecords ==
  ASSUME Shapes, Shapes', Custody, Records, NEW c \in Clients, ClientFrame,
         NEW e \in Events, NEW s \in Specs, SubmitBegin(c, e, s)
  PROVE  Records'
<1>1. UNCHANGED <<deliveries, reserved, journal, failNext, window>>
  BY DEF SubmitBegin, storeVars, journalVars, partVars, windowVars
<1>2. PICK r : r = [pc |-> "reserve", event |-> e, id |-> IdOf[s, KeyOf[e]], at |-> 0]
  OBVIOUS
<1>3. client' = [client EXCEPT ![c] = r]
  BY <1>2, Zenon DEF SubmitBegin
<1>4. client'[c].pc = "reserve" /\ \A b \in Clients \ {c} : client'[b] = client[b]
  BY <1>2, <1>3 DEF Shapes
<1>5. ~Journaled(c)' /\ \A id \in Ids : ~Holds(c, id)'
  BY <1>4 DEF Journaled, Holds
<1>6. PICK x : x = client[c].id
  OBVIOUS
<1> QED BY <1>1, <1>4, <1>5, <1>6, SameJournal, MovesRecords DEF Waiting

LEMMA AppendRecords ==
  ASSUME Shapes, Shapes', Custody, Records, NEW c \in Clients, ClientFrame, SubmitAppend(c)
  PROVE  Records'
<1>1. PICK x : x = client[c].id
  OBVIOUS
<1>2. client[c].pc = "append" /\ x \in Ids /\ clock \in Nat
  BY <1>1, ClientFacts DEF SubmitAppend, Shapes
<1>3. UNCHANGED <<deliveries, reserved, window>>
  BY DEF SubmitAppend, storeVars, partVars, windowVars
<1>4. \/ AppendAccepted(x, "pending", clock) /\ ClientGoes(c, "schedule")
      \/ AppendRejected /\ ClientGoes(c, "keep")
  BY <1>1 DEF SubmitAppend
<1>5. Holds(c, x) /\ \A id \in Ids : Holds(c, id)' => id = x
  BY <1>1, <1>2, <1>4, GoesOn DEF Holds
<1>6. CASE AppendAccepted(x, "pending", clock) /\ ClientGoes(c, "schedule")
  <2>1. /\ JournalTypeOK' /\ HasEntry(x, "pending")'
        /\ \A id : HasEntry(id, "pending") => HasEntry(id, "pending")'
    BY <1>2, <1>6, EntryAdded DEF Records
  <2> QED BY <1>1, <1>3, <1>5, <1>6, <2>1, GoesOn, MovesRecords DEF Waiting
<1>7. CASE AppendRejected /\ ClientGoes(c, "keep")
  <2>1. JournalTypeOK' /\ \A id : HasEntry(id, "pending") => HasEntry(id, "pending")'
    BY <1>7 DEF Records, JournalTypeOK, AppendRejected, HasEntry
  <2>2. ~Journaled(c)'
    BY <1>7, GoesOn DEF Journaled
  <2> QED BY <1>1, <1>3, <1>5, <1>7, <2>1, <2>2, GoesOn, MovesRecords DEF Waiting
<1> QED BY <1>4, <1>6, <1>7

LEMMA OnwardRecords ==
  ASSUME Shapes, Shapes', Custody, Records, NEW c \in Clients, ClientFrame,
         SubmitPop(c) \/ SubmitSchedule(c) \/ SubmitProtect(c) \/ SubmitRank(c) \/ SubmitAdd(c)
  PROVE  Records'
<1>1. PICK x : x = client[c].id
  OBVIOUS
<1>2. UNCHANGED <<deliveries, reserved, journal, failNext>>
  BY DEF SubmitPop, SubmitSchedule, SubmitProtect, SubmitRank, SubmitAdd, storeVars, journalVars
<1>3. \A id \in Waiting' : id \in Waiting \/ (id = x /\ Journaled(c))
  BY <1>1 DEF SubmitPop, SubmitSchedule, SubmitProtect, SubmitRank, SubmitAdd, WindowAdd, WindowFull,
              partVars, windowVars, Waiting, Journaled
<1>4. CASE ClientReturns(c)
  <2>1. ~Journaled(c)' /\ \A id \in Ids : ~Holds(c, id)'
    BY <1>4, Returns DEF Journaled, Holds
  <2> QED BY <1>1, <1>2, <1>3, <1>4, <2>1, Returns, SameJournal, MovesRecords
<1>5. CASE Journaled(c) /\ \E pc \in ClientPCs : ClientGoes(c, pc)
  <2>1. PICK pc \in ClientPCs : ClientGoes(c, pc)
    BY <1>5
  <2>2. \A id \in Ids : Holds(c, id)' => Holds(c, id) /\ client'[c].event = client[c].event
    BY <1>5, <2>1, GoesOn DEF Journaled, Holds
  <2> QED BY <1>1, <1>2, <1>3, <1>5, <2>1, <2>2, GoesOn, SameJournal, MovesRecords
<1>6. ClientReturns(c) \/ (Journaled(c) /\ \E pc \in ClientPCs : ClientGoes(c, pc))
  BY DEF SubmitPop, SubmitSchedule, SubmitProtect, SubmitRank, SubmitAdd, Journaled, ClientPCs
<1> QED BY <1>4, <1>5, <1>6

\* A record that is written.
LEMMA Written ==
  ASSUME Records, NEW x \in Ids, NEW r, deliveries' = [deliveries EXCEPT ![x] = r]
  PROVE  /\ StoreIsMap' /\ deliveries'[x] = r
         /\ \A id \in Ids \ {x} : deliveries'[id] = deliveries[id]
BY DEF Records, StoreIsMap

LEMMA NewRecord ==
  ASSUME NEW e, NEW t
  PROVE  NewDelivery(e, t).state = "pending" /\ NewDelivery(e, t).event = e
BY DEF NewDelivery, ZeroDelivery

LEMMA RecordTypes ==
  ASSUME NEW O
  PROVE  /\ ZeroDelivery \in DeliveryRecord(O)
         /\ \A e \in Events, t \in Int : NewDelivery(e, t) \in DeliveryRecord(O)
<1>1. ZeroDelivery \in DeliveryRecord(O)
  BY DEF ZeroDelivery, DeliveryRecord, DeliveryStates
<1>2. PICK pending : pending = "pending" /\ pending \in DeliveryStates
  BY DEF DeliveryStates
<1>3. ASSUME NEW e \in Events, NEW t \in Int
      PROVE  NewDelivery(e, t) \in DeliveryRecord(O)
  <2>1. NewDelivery(e, t) = [ZeroDelivery EXCEPT !.state = pending, !.event = e, !.nextAttempt = t]
    BY <1>2 DEF NewDelivery
  <2> QED BY <1>1, <1>2, <2>1 DEF DeliveryRecord
<1> QED BY <1>1, <1>3

LEMMA ReserveRecords ==
  ASSUME IdsTellKeys, Shapes, Shapes', Custody, Records, NEW c \in Clients, ClientFrame,
         SubmitReserve(c)
  PROVE  Records'
<1>1. PICK x : x = client[c].id
  OBVIOUS
<1>2. client[c].pc = "reserve" /\ x \in Ids /\ client[c].event \in Events
  BY <1>1, ClientFacts DEF SubmitReserve
<1>3. UNCHANGED <<journal, failNext, window>>
  BY DEF SubmitReserve, journalVars, partVars, windowVars
<1>4. CASE ClientReturns(c) /\ UNCHANGED storeVars
  <2>1. ~Journaled(c)' /\ \A id \in Ids : ~Holds(c, id)'
    BY <1>4, Returns DEF Journaled, Holds
  <2> QED BY <1>1, <1>3, <1>4, <2>1, Returns, SameJournal, MovesRecords DEF storeVars, Waiting
<1>5. CASE /\ Reserve(client[c].event, client[c].id, clock)
           /\ client' = [client EXCEPT ![c].pc = "append", ![c].at = clock]
  <2>1. PICK r : r = NewDelivery(client[c].event, clock)
    OBVIOUS
  <2>2. /\ reserved[KeyOf[client[c].event]] = NoId
        /\ deliveries' = [deliveries EXCEPT ![x] = r]
        /\ reserved' = [reserved EXCEPT ![KeyOf[client[c].event]] = x]
    BY <1>1, <1>5, <2>1 DEF Reserve
  <2>3. r.state = "pending" /\ r.event = client[c].event
    BY <2>1, NewRecord
  <2>4. /\ StoreIsMap' /\ deliveries'[x] = r
        /\ \A id \in Ids \ {x} : deliveries'[id] = deliveries[id]
    BY <1>2, <2>2, Written
  <2>5. ~Away(x) /\ \A b \in Clients : ~Holds(b, x)
    BY <1>1, <1>2, <2>2, FreshId
  <2>6. /\ client'[c].pc = "append" /\ client'[c].event = client[c].event /\ client'[c].id = x
        /\ \A b \in Clients \ {c} : client'[b] = client[b]
    <3>1. PICK now : now = clock
      OBVIOUS
    <3>2. client' = [client EXCEPT ![c] = [client[c] EXCEPT !.pc = "append", !.at = now]]
      BY <1>5, <3>1, Zenon
    <3> QED BY <1>1, <3>2 DEF Shapes, ClientCall
  <2>7. \A id \in Ids : Holds(c, id)' => Stored(id)' /\ deliveries'[id].event = client'[c].event
    BY <2>3, <2>4, <2>6 DEF Holds, Stored
  <2>8. ~Journaled(c)' /\ \A k \in Keys : reserved[k] \notin {NoId, x} => reserved'[k] = reserved[k]
    BY <2>2, <2>6 DEF Journaled, Shapes
  <2> QED BY <1>2, <1>3, <2>4, <2>5, <2>6, <2>7, <2>8, StoreRecords
<1> QED BY <1>4, <1>5 DEF SubmitReserve

\* The delivery goes.
LEMMA DropRecords ==
  ASSUME Shapes, Shapes', Custody, Records, NEW c \in Clients, ClientFrame,
         SubmitKeep(c) \/ SubmitRollback(c)
  PROVE  Records'
<1>1. PICK x : x = client[c].id
  OBVIOUS
<1>2. PICK key : key = KeyOf[client[c].event]
  OBVIOUS
<1>3. client[c].pc \in {"keep", "rollback"}
  BY DEF SubmitKeep, SubmitRollback
<1>4. x \in Ids /\ key \in Keys
  BY <1>1, <1>2, <1>3, ClientFacts
<1>5. Holds(c, x)
  BY <1>1, <1>3 DEF Holds
<1>6. reserved[key] = x /\ ~Away(x) /\ \A b \in Clients \ {c} : ~Holds(b, x)
  BY <1>2, <1>4, <1>5 DEF Custody, KeysAreClaimed, OnePlace
<1>7. /\ deliveries' = [deliveries EXCEPT ![x] = ZeroDelivery]
      /\ \A k \in Keys : reserved[k] # x => reserved'[k] = reserved[k]
      /\ UNCHANGED <<journal, failNext, window>>
  BY <1>1, <1>2, <1>6 DEF SubmitKeep, SubmitRollback, KeepReservation, RollbackReservation,
                          journalVars, partVars, windowVars, Shapes
<1>8. /\ StoreIsMap'
      /\ \A id \in Ids \ {x} : deliveries'[id] = deliveries[id]
  BY <1>4, <1>7, Written
<1>9. client'[c].pc \in {"pop", "idle"} /\ \A b \in Clients \ {c} : client'[b] = client[b]
  BY GoesOn, Returns DEF SubmitKeep, SubmitRollback
<1>10. ~Journaled(c)' /\ \A id \in Ids : ~Holds(c, id)'
  BY <1>9 DEF Journaled, Holds
<1> QED BY <1>4, <1>6, <1>7, <1>8, <1>9, <1>10, StoreRecords

LEMMA RecordsStep ==
  ASSUME IdsTellKeys, Shapes, Shapes', Custody, Records, [Next]_vars
  PROVE  Records'
<1>1. ASSUME NEW c \in Clients, SubmitStep(c) \/ \E e \in Events, s \in Specs : SubmitBegin(c, e, s)
      PROVE  Records'
  <2>1. ClientFrame
    BY <1>1, ClientSteps
  <2> QED BY <1>1, <2>1, BeginRecords, ReserveRecords, AppendRecords, OnwardRecords, DropRecords
          DEF SubmitStep
<1> QED BY <1>1, TransferRecords

\* Every delivery past its client is in the store, under its key.
THEOREM RecordsHold == IdsTellKeys => (Spec => []Records)
<1> SUFFICES ASSUME IdsTellKeys PROVE Spec => []Records
  OBVIOUS
<1>1. Init => Records
  BY RecordsInit
<1>2. Shapes /\ Shapes' /\ Custody /\ Records /\ [Next]_vars => Records'
  BY RecordsStep
<1>3. Spec => [](Shapes /\ Custody)
  BY CustodyHolds
<1> QED BY <1>1, <1>2, <1>3, PTL DEF Spec

\* BatchIsAdmitted: what waits in the window or is with a dispatcher was admitted by Submit: it is
\* in the store under its reserved key, and in the journal.
THEOREM BatchesAreAdmitted == IdsTellKeys => (Spec => []BatchIsAdmitted)
<1> SUFFICES ASSUME IdsTellKeys PROVE Spec => []BatchIsAdmitted
  OBVIOUS
<1>1. Records => BatchIsAdmitted
  BY DEF Records, InBatch, Away, Kept, BatchIsAdmitted
<1>2. Spec => []Records
  BY RecordsHold
<1> QED BY <1>1, <1>2, PTL

------------------------------------------------------------------------------
(* Protection *)

LEMMA GuardedInit == Init => Guarded
<1> SUFFICES ASSUME Init PROVE Guarded
  OBVIOUS
<1>1. /\ \A c \in Clients : client[c].pc = "idle"
      /\ \A d \in Dispatchers : dispatch[d].pc = "idle"
      /\ \A f \in Confirmers : confirm[f].pc = "idle"
  BY DEF Init, CallsInit, IdleClient, IdleDispatch, IdleConfirm
<1>2. \A id \in Ids : id \notin Waiting /\ id \notin open
  BY DEF Init, PartsInit, WindowInit, ReceiptsInit, Waiting
<1> QED BY <1>1, <1>2 DEF Guarded, InBatch, Handles

LEMMA InFlightIsAway ==
  ASSUME NEW id \in Ids, InBatch(id) \/ id \in open
  PROVE  Away(id)
BY DEF InBatch, Away, Settled

\* A client unprotects nothing.
LEMMA ClientGuarded ==
  ASSUME Shapes, Shapes', Custody, Records, Records', Guarded, NEW c \in Clients, ClientFrame,
         protected \subseteq protected',
         \A b \in Clients \ {c} : client'[b] = client[b],
         client'[c].pc \in {"rank", "add"} => EventIdOf[client'[c].event] \in protected',
         \A id \in Ids : Away(id) => deliveries'[id] = deliveries[id],
         \A id \in Ids : id \in Waiting' =>
           \/ id \in Waiting
           \/ EventIdOf[deliveries'[id].event] \in protected'
  PROVE  Guarded'
<1>1. /\ \A d, id : Handles(d, id)' <=> Handles(d, id)
      /\ open' = open /\ confirm' = confirm
  BY SameDispatch DEF ClientFrame
<1>2. \A b \in Clients : client'[b].pc \in {"rank", "add"} => EventIdOf[client'[b].event] \in protected'
  BY DEF Guarded
<1>3. ASSUME NEW id \in Ids, InBatch(id)' \/ id \in open'
      PROVE  EventIdOf[deliveries'[id].event] \in protected'
  <2>1. CASE InBatch(id) \/ id \in open
    BY <2>1, InFlightIsAway DEF Guarded
  <2>2. CASE id \in Waiting' \ Waiting
    BY <2>2
  <2> QED BY <1>1, <1>3, <2>1, <2>2, ClientPlaces
<1> QED BY <1>1, <1>2, <1>3 DEF Guarded

LEMMA DispatchGuarded ==
  ASSUME Shapes, Shapes', Custody, Guarded, NEW d \in Dispatchers,
         DispatchStep(d) \/ \E scope \in Scopes : DispatchFlush(d, scope)
  PROVE  Guarded'
<1>1. /\ UNCHANGED <<deliveries, protected, client, confirm>>
      /\ \A m \in Dispatchers \ {d} : \A x \in Ids : Handles(m, x)' <=> Handles(m, x)
      /\ \A x \in Ids :
           /\ x \in Waiting' => x \in Waiting
           /\ Handles(d, x)' => Handles(d, x) \/ x \in Waiting
           /\ x \in open' => x \in open \/ (Handles(d, x) /\ ~Handles(d, x)')
  BY DispatchPlaces DEF storeVars, expiryVars
<1>2. \A id \in Ids : InBatch(id)' \/ id \in open' => InBatch(id) \/ id \in open
  BY <1>1 DEF InBatch
<1>3. ASSUME NEW id \in Ids, HasReceipt(id), \A m \in Dispatchers : ~Handles(m, id)
      PROVE  \A m \in Dispatchers : ~Handles(m, id)'
  <2>1. id \notin Waiting
    BY <1>3 DEF Custody, OnePlace, Settled
  <2> QED BY <1>1, <1>3, <2>1
<1>4. ASSUME NEW id \in Ids, id \in open' PROVE \A m \in Dispatchers : ~Handles(m, id)'
  <2>1. CASE id \in open
    BY <1>3, <2>1 DEF Guarded, Custody, ReceiptsFirst
  <2>2. CASE Handles(d, id) /\ ~Handles(d, id)'
    BY <1>1, <2>2 DEF Custody, OnePlace
  <2> QED BY <1>1, <1>4, <2>1, <2>2
<1>5. ASSUME NEW f \in Confirmers, confirm'[f].pc = "unprotect", NEW x, x = confirm[f].id
      PROVE  x \notin open' /\ \A m \in Dispatchers : ~Handles(m, x)'
  <2>1. /\ x \in Ids /\ HasReceipt(x)
        /\ x \notin open /\ \A m \in Dispatchers : ~Handles(m, x)
    BY <1>1, <1>5 DEF Guarded, Shapes, Custody, ReceiptsFirst
  <2> QED BY <1>1, <1>3, <2>1
<1>6. /\ \A c \in Clients : client'[c].pc \in {"rank", "add"} => EventIdOf[client'[c].event] \in protected'
      /\ \A id \in Ids : InBatch(id)' \/ id \in open' => EventIdOf[deliveries'[id].event] \in protected'
  BY <1>1, <1>2 DEF Guarded
<1>7. \A f \in Confirmers : confirm'[f].pc = "unprotect" =>
        (confirm[f].id \notin open)' /\ \A m \in Dispatchers : ~Handles(m, confirm[f].id)'
  <2>1. confirm' = confirm
    BY <1>1
  <2> QED BY <1>5, <2>1 DEF Handles
<1> QED BY <1>4, <1>6, <1>7 DEF Guarded

\* A delivery being confirmed is in the store under its key, as everything in flight is: no other
\* of those has its event id.
LEMMA EventTells ==
  ASSUME EventsTellKeys, Records, NEW id \in Ids, NEW x \in Ids, Away(id), Away(x),
         EventIdOf[deliveries[id].event] = EventIdOf[deliveries[x].event]
  PROVE  id = x
BY DEF EventsTellKeys, Records, Kept

\* Only closing a delivery makes a confirmer unprotect it.
LEMMA OneConfirmer ==
  ASSUME Shapes, NEW f \in Confirmers, ConfirmStep(f) \/ \E id \in Ids : ConfirmBegin(f, id)
  PROVE  \A g \in Confirmers :
           \/ confirm'[g] = confirm[g]
           \/ g = f /\ (confirm'[g].pc = "unprotect" => ConfirmClose(f))
<1>1. ASSUME NEW pc, ConfirmGoes(f, pc)
      PROVE  confirm'[f].pc = pc /\ \A g \in Confirmers \ {f} : confirm'[g] = confirm[g]
  BY <1>1 DEF ConfirmGoes, Shapes, ConfirmCall
<1>2. ASSUME ConfirmReturns(f)
      PROVE  confirm'[f].pc = "idle" /\ \A g \in Confirmers \ {f} : confirm'[g] = confirm[g]
  BY <1>2 DEF ConfirmReturns, IdleConfirm, Shapes
<1>3. CASE ConfirmRecord(f) \/ ConfirmClose(f) \/ ConfirmUnprotect(f)
  BY <1>1, <1>2, <1>3 DEF ConfirmRecord, ConfirmClose, ConfirmUnprotect
<1>4. CASE \E id \in Ids : ConfirmBegin(f, id)
  <2>1. PICK id \in Ids : ConfirmBegin(f, id)
    BY <1>4
  <2>2. PICK r : r = [pc |-> "record", id |-> id, at |-> receipts[id].at]
    OBVIOUS
  <2>3. confirm' = [confirm EXCEPT ![f] = r] /\ r.pc = "record"
    BY <2>1, <2>2 DEF ConfirmBegin
  <2> QED BY <2>3 DEF Shapes
<1> QED BY <1>3, <1>4 DEF ConfirmStep

LEMMA ConfirmGuarded ==
  ASSUME EventsTellKeys, Shapes, Shapes', Custody, Records, Guarded, NEW f \in Confirmers,
         ConfirmStep(f) \/ \E id \in Ids : ConfirmBegin(f, id)
  PROVE  Guarded'
<1>1. /\ UNCHANGED <<deliveries, window, client, dispatch>>
      /\ open' \subseteq open
  BY ConfirmPlaces DEF storeVars
<1>2. \A d, id : Handles(d, id)' <=> Handles(d, id)
  BY <1>1, SameDispatch
<1>3. \A id \in Ids : InBatch(id)' \/ id \in open' => InBatch(id) \/ id \in open
  BY <1>1, <1>2 DEF InBatch, Waiting
<1>4. \A id \in Ids : id \in open' => \A d \in Dispatchers : ~Handles(d, id)'
  BY <1>1, <1>2 DEF Guarded
<1>5. \A g \in Confirmers : confirm'[g].pc = "unprotect" =>
        (confirm[g].id \notin open)' /\ \A d \in Dispatchers : ~Handles(d, confirm[g].id)'
  <2>1. ASSUME NEW g \in Confirmers, confirm'[g].pc = "unprotect", NEW x, x = confirm'[g].id
        PROVE  x \notin open' /\ \A d \in Dispatchers : ~Handles(d, x)
    <3>1. CASE confirm'[g] = confirm[g]
      BY <1>1, <2>1, <3>1 DEF Guarded
    <3>2. CASE g = f /\ ConfirmClose(f)
      <4>1. ConfirmReturns(f) => confirm'[f].pc = "idle"
        BY DEF ConfirmReturns, IdleConfirm, Shapes
      <4>2. CloseDelivery(confirm[f].id) /\ ConfirmGoes(f, "unprotect") /\ confirm[f].pc = "close"
        BY <2>1, <3>2, <4>1 DEF ConfirmClose
      <4>3. x = confirm[f].id /\ x \in Ids
        BY <2>1, <3>2, <4>2 DEF ConfirmGoes, Shapes, ConfirmCall
      <4> QED BY <4>2, <4>3 DEF CloseDelivery, Guarded
    <3> QED BY <2>1, <3>1, <3>2, OneConfirmer
  <2> QED BY <1>2, <2>1 DEF Handles
<1>6. /\ \A c \in Clients : client[c].pc \in {"rank", "add"} => EventIdOf[client[c].event] \in protected'
      /\ \A id \in Ids : InBatch(id) \/ id \in open => EventIdOf[deliveries[id].event] \in protected'
  <2>1. CASE protected' = protected
    BY <2>1 DEF Guarded
  <2>2. CASE protected' # protected
    <3>1. PICK id : id = confirm[f].id
      OBVIOUS
    <3>2. ConfirmUnprotect(f)
      BY <2>2 DEF ConfirmStep, ConfirmBegin, ConfirmRecord, ConfirmClose, expiryVars
    <3>3. /\ confirm[f].pc = "unprotect"
          /\ protected' = protected \ {EventIdOf[deliveries[id].event]}
      BY <2>2, <3>1, <3>2 DEF ConfirmUnprotect, Unprotect, expiryVars
    <3>4. /\ id \in Ids /\ HasReceipt(id)
          /\ id \notin open /\ \A d \in Dispatchers : ~Handles(d, id)
      BY <3>1, <3>3 DEF Guarded, Shapes, Custody, ReceiptsFirst
    <3>5. Away(id) /\ ~InBatch(id)
      BY <3>4 DEF Away, Settled, InBatch, Custody, OnePlace
    <3>6. Kept(id)
      BY <3>4, <3>5 DEF Records
    <3>7. ASSUME NEW c \in Clients, client[c].pc \in {"rank", "add"}
          PROVE  EventIdOf[client[c].event] \in protected'
      <4>1. PICK x : x = client[c].id
        OBVIOUS
      <4>2. Holds(c, x) /\ x \in Ids /\ client[c].event \in Events
        BY <3>7, <4>1, ClientFacts DEF Holds
      <4>3. reserved[KeyOf[client[c].event]] = x /\ ~Away(x)
        BY <4>2 DEF Custody, KeysAreClaimed, OnePlace
      <4>4. EventIdOf[client[c].event] # EventIdOf[deliveries[id].event]
        BY <3>5, <3>6, <4>2, <4>3 DEF EventsTellKeys, Kept
      <4> QED BY <3>3, <3>7, <4>4 DEF Guarded
    <3>8. ASSUME NEW x \in Ids, InBatch(x) \/ x \in open
          PROVE  EventIdOf[deliveries[x].event] \in protected'
      <4>1. Away(x) /\ x # id
        BY <3>4, <3>5, <3>8, InFlightIsAway
      <4>2. EventIdOf[deliveries[x].event] # EventIdOf[deliveries[id].event]
        BY <3>4, <3>5, <4>1, EventTells
      <4> QED BY <3>3, <3>8, <4>2 DEF Guarded
    <3> QED BY <3>7, <3>8
  <2> QED BY <2>1, <2>2
<1>7. /\ \A c \in Clients : client'[c].pc \in {"rank", "add"} => EventIdOf[client'[c].event] \in protected'
      /\ \A id \in Ids : InBatch(id)' \/ id \in open' => EventIdOf[deliveries'[id].event] \in protected'
  BY <1>1, <1>3, <1>6
<1> QED BY <1>4, <1>5, <1>7 DEF Guarded

LEMMA ElsewhereGuarded ==
  ASSUME Guarded, Elsewhere, UNCHANGED <<deliveries, protected>>
  PROVE  Guarded'
<1>1. \A d, id : Handles(d, id)' <=> Handles(d, id)
  BY SameDispatch DEF Elsewhere
<1>2. \A id \in Ids : InBatch(id)' \/ id \in open' => InBatch(id) \/ id \in open
  BY <1>1 DEF InBatch, Elsewhere
<1> QED BY <1>1, <1>2 DEF Guarded, Elsewhere

\* Of the clients only the one that takes the step moves.
LEMMA OneClient ==
  ASSUME Shapes, NEW c \in Clients,
         SubmitStep(c) \/ \E e \in Events, s \in Specs : SubmitBegin(c, e, s)
  PROVE  /\ \A b \in Clients \ {c} : client'[b] = client[b]
         /\ client'[c].pc \in {"rank", "add"} => SubmitProtect(c) \/ SubmitRank(c)
<1>1. CASE \E e \in Events, s \in Specs : SubmitBegin(c, e, s)
  <2>1. PICK e \in Events, s \in Specs : SubmitBegin(c, e, s)
    BY <1>1
  <2>2. PICK r : r = [pc |-> "reserve", event |-> e, id |-> IdOf[s, KeyOf[e]], at |-> 0]
    OBVIOUS
  <2>3. client' = [client EXCEPT ![c] = r]
    BY <2>1, <2>2, Zenon DEF SubmitBegin
  <2>4. r.pc = "reserve"
    BY <2>2
  <2> QED BY <2>3, <2>4 DEF Shapes
<1>2. CASE client' = [client EXCEPT ![c].pc = "append", ![c].at = clock]
  <2>1. PICK now : now = clock
    OBVIOUS
  <2>2. client' = [client EXCEPT ![c] = [client[c] EXCEPT !.pc = "append", !.at = now]]
    BY <1>2, <2>1, Zenon
  <2>3. client'[c].pc = "append" /\ \A b \in Clients \ {c} : client'[b] = client[b]
    BY <2>2 DEF Shapes, ClientCall
  <2> QED BY <2>3
<1>3. CASE ClientReturns(c)
  BY <1>3, Returns
<1>4. CASE \/ SubmitAppend(c) \/ SubmitKeep(c) \/ SubmitSchedule(c) \/ SubmitProtect(c)
           \/ SubmitRank(c)
  BY <1>3, <1>4, GoesOn DEF SubmitAppend, SubmitKeep, SubmitSchedule, SubmitProtect, SubmitRank
<1>5. CASE SubmitReserve(c) \/ SubmitPop(c) \/ SubmitRollback(c) \/ SubmitAdd(c)
  <2>1. ClientReturns(c) \/ client' = [client EXCEPT ![c].pc = "append", ![c].at = clock]
    BY <1>5 DEF SubmitReserve, SubmitPop, SubmitRollback, SubmitAdd
  <2> QED BY <1>2, <1>3, <2>1
<1> QED BY <1>1, <1>4, <1>5 DEF SubmitStep

\* A client changes no delivery that is past its client.
LEMMA AwayStays ==
  ASSUME IdsTellKeys, Shapes, Custody, Records, NEW c \in Clients,
         SubmitStep(c) \/ \E e \in Events, s \in Specs : SubmitBegin(c, e, s)
  PROVE  \A id \in Ids : Away(id) => deliveries'[id] = deliveries[id]
<1>0. deliveries = [id \in Ids |-> deliveries[id]]
  BY DEF Records, StoreIsMap
<1>1. PICK x : x = client[c].id
  OBVIOUS
<1>2. CASE SubmitReserve(c)
  <2>1. CASE UNCHANGED storeVars
    BY <2>1 DEF storeVars
  <2>2. CASE Reserve(client[c].event, client[c].id, clock)
    <3>1. PICK r : deliveries' = [deliveries EXCEPT ![x] = r]
      BY <1>1, <2>2 DEF Reserve
    <3>2. ~Away(x)
      BY <1>1, <1>2, <2>2, FreshId DEF SubmitReserve, Reserve
    <3> QED BY <1>0, <3>1, <3>2
  <2> QED BY <1>2, <2>1, <2>2 DEF SubmitReserve
<1>3. CASE SubmitKeep(c) \/ SubmitRollback(c)
  <2>1. Holds(c, x) /\ x \in Ids
    BY <1>1, <1>3, ClientFacts DEF SubmitKeep, SubmitRollback, Holds
  <2>2. ~Away(x)
    BY <2>1 DEF Custody, OnePlace
  <2>3. deliveries' = [deliveries EXCEPT ![x] = ZeroDelivery] \/ deliveries' = deliveries
    BY <1>1, <1>3 DEF SubmitKeep, SubmitRollback, KeepReservation, RollbackReservation, storeVars
  <2> QED BY <1>0, <2>2, <2>3
<1>4. CASE ~(SubmitReserve(c) \/ SubmitKeep(c) \/ SubmitRollback(c))
  BY <1>4 DEF SubmitStep, SubmitBegin, SubmitAppend, SubmitPop, SubmitSchedule, SubmitProtect,
              SubmitRank, SubmitAdd, storeVars
<1> QED BY <1>2, <1>3, <1>4

LEMMA ProtectGuarded ==
  ASSUME IdsTellKeys, Shapes, Shapes', Custody, Records, Records', Guarded, NEW c \in Clients,
         SubmitStep(c) \/ \E e \in Events, s \in Specs : SubmitBegin(c, e, s)
  PROVE  Guarded'
<1>0. /\ ClientFrame /\ \A b \in Clients \ {c} : client'[b] = client[b]
      /\ \A id \in Ids : Away(id) => deliveries'[id] = deliveries[id]
  BY ClientSteps, OneClient, AwayStays
<1>1. PICK x : x = client[c].id
  OBVIOUS
<1>2. CASE SubmitProtect(c)
  <2>1. /\ protected' = protected \cup {EventIdOf[client[c].event]}
        /\ ClientGoes(c, "rank") /\ deliveries' = deliveries /\ Waiting' = Waiting
    BY <1>2 DEF SubmitProtect, Protect, storeVars, windowVars, Waiting
  <2> QED BY <1>0, <2>1, GoesOn, ClientGuarded
<1>3. CASE SubmitRank(c)
  <2>1. /\ client[c].pc = "rank" /\ protected' = protected
        /\ ClientGoes(c, "add") /\ deliveries' = deliveries /\ Waiting' = Waiting
    BY <1>3 DEF SubmitRank, storeVars, expiryVars, Waiting
  <2>2. EventIdOf[client'[c].event] \in protected'
    BY <2>1, GoesOn DEF Guarded
  <2> QED BY <1>0, <2>1, <2>2, ClientGuarded
<1>4. CASE SubmitAdd(c)
  <2>1. /\ client[c].pc = "add" /\ protected' = protected /\ ClientReturns(c)
        /\ deliveries' = deliveries /\ Waiting' \subseteq Waiting \cup {x}
    BY <1>1, <1>4 DEF SubmitAdd, storeVars, expiryVars, WindowAdd, WindowFull, Waiting
  <2>2. x \in Ids /\ Holds(c, x)
    BY <1>1, <2>1, ClientFacts DEF Holds
  <2>3. deliveries[x].event = client[c].event
    BY <2>2 DEF Records
  <2>4. EventIdOf[deliveries'[x].event] \in protected'
    BY <2>1, <2>3 DEF Guarded
  <2>5. client'[c].pc \notin {"rank", "add"}
    BY <2>1, Returns
  <2> QED BY <1>0, <2>1, <2>4, <2>5, ClientGuarded
<1>5. CASE ~(SubmitProtect(c) \/ SubmitRank(c) \/ SubmitAdd(c))
  <2>1. protected' = protected /\ Waiting' = Waiting
    BY <1>5 DEF SubmitStep, SubmitBegin, SubmitReserve, SubmitAppend, SubmitKeep, SubmitPop,
                SubmitSchedule, SubmitRollback, partVars, windowVars, expiryVars, Waiting
  <2>2. client'[c].pc \notin {"rank", "add"}
    BY <1>5, OneClient
  <2> QED BY <1>0, <2>1, <2>2, ClientGuarded
<1> QED BY <1>2, <1>3, <1>4, <1>5

LEMMA GuardedStep ==
  ASSUME IdsTellKeys, EventsTellKeys, Shapes, Shapes', Custody, Records, Records', Guarded,
         [Next]_vars
  PROVE  Guarded'
<1>1. CASE \E c \in Clients : SubmitStep(c) \/ \E e \in Events, s \in Specs : SubmitBegin(c, e, s)
  BY <1>1, ProtectGuarded
<1>2. CASE \E d \in Dispatchers : DispatchStep(d) \/ \E scope \in Scopes : DispatchFlush(d, scope)
  BY <1>2, DispatchGuarded
<1>3. CASE \E f \in Confirmers : ConfirmStep(f) \/ \E id \in Ids : ConfirmBegin(f, id)
  BY <1>3, ConfirmGuarded
<1> QED BY <1>1, <1>2, <1>3, ElsewhereFrame, ElsewhereGuarded

\* InFlightProtected: from the window to the confirmation, the event of a delivery is protected
\* from expiry.
THEOREM InFlightIsProtected == IdsTellKeys /\ EventsTellKeys => (Spec => []InFlightProtected)
<1> SUFFICES ASSUME IdsTellKeys, EventsTellKeys PROVE Spec => []InFlightProtected
  OBVIOUS
<1>1. Init => Guarded
  BY GuardedInit
<1>2. Shapes /\ Shapes' /\ Custody /\ Records /\ Records' /\ Guarded /\ [Next]_vars => Guarded'
  BY GuardedStep
<1>3. Guarded => InFlightProtected
  BY DEF Guarded, InBatch, InFlightProtected
<1>4. Spec => [](Shapes /\ Custody) /\ []Records
  BY CustodyHolds, RecordsHold
<1> QED BY <1>1, <1>2, <1>3, <1>4, PTL DEF Spec

==============================================================================
