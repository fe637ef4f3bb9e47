--------------------------------- MODULE Dock --------------------------------
(***************************************************************************)
(* internal/relaydock: the Service that admits events into the store, the  *)
(* journal, the queue and a batch window (Submit), sends the window's      *)
(* items (Dispatch), takes confirmations (ConfirmDelivery), and the        *)
(* Supervisor that looks after all of it (Supervisor.Run).                 *)
(*                                                                         *)
(* As in Relay, an action is one call on a shared component, which its     *)
(* mutex makes atomic, with the local code up to the next one; a call of   *)
(* Now is taken together with the call it is an argument of.  Routing is   *)
(* the module of that name: Submit's choice among the registered endpoints *)
(* is any here, and the outcomes reported to the health tracker, which     *)
(* nothing here reads, are left out.                                       *)
(***************************************************************************)
EXTENDS DeliveryStore, Journal, Scheduler, PriorityWindow, Receipts, Expiry, Retention

CONSTANTS
  Specs,       \* registered endpoints Submit may select
  IdOf,        \* delivery id of a selected endpoint and an idempotency key
  Clients,     \* goroutines calling Submit, alone or from SubmitBatch
  Dispatchers, \* goroutines calling Dispatch or DispatchByEndpoint
  Confirmers,  \* goroutines calling ConfirmDelivery
  Supervisors, \* goroutines calling Supervisor.Run
  ReportedDead, \* delivery ids that callers of TrackDead name
  RunLeads,    \* how far ahead of the clock the argument of Supervisor.Run may be
  Interval,    \* Supervisor.Interval, also the sweeper's and the reaper's
  MaxTime,     \* bound: the clock stops here
  LastCall,    \* bound: no Submit and no TrackDead starts after this time
  MaxSubmits,  \* bound: calls of Submit
  MaxRejects   \* bound: appends the journal rejects

ASSUME DockConstants ==
  /\ IdOf \in [Specs \X Keys -> Ids] /\ ReportedDead \subseteq Ids
  /\ RunLeads \subseteq Nat /\ Interval \in Nat /\ MaxTime \in Nat /\ LastCall \in Nat
  /\ MaxSubmits \in Nat /\ MaxRejects \in Nat

VARIABLES
  client,   \* per client: the call of Submit it is in
  dispatch, \* per dispatcher: the call of Dispatch it is in
  confirm,  \* per confirmer: the call of ConfirmDelivery it is in
  super,    \* per supervisor: the pass of Run it is in
  clock,    \* the time Now returns
  submits,  \* calls of Submit so far
  rejects   \* injected journal failures so far

callVars == <<client, dispatch, confirm, super>>
envVars == <<clock, submits, rejects>>
partVars == <<windowVars, receiptVars, expiryVars, retentionVars>>
vars == <<storeVars, journalVars, queue, partVars, callVars, envVars>>

IdleClient == [pc |-> "idle", event |-> NoEvent, id |-> NoId, at |-> 0]

\* batch: the items of the window's snapshot with the time they were added.  todo: those
\* still to be removed from the window, then those still to be sent.  id: the one being sent.
IdleDispatch ==
  [pc |-> "idle", batch |-> [id \in {} |-> 0], todo |-> {}, id |-> NoId]

IdleConfirm == [pc |-> "idle", id |-> NoId, at |-> 0]

\* now: the argument of Run.  todo: what the current part of the pass has still to handle.
IdleSuper == [pc |-> "idle", now |-> 0, todo |-> {}]

ClientPCs == {"idle", "reserve", "append", "keep", "pop", "schedule", "rollback", "protect", "rank",
              "add"}
DispatchPCs == {"idle", "remove", "get", "send", "open"}
ConfirmPCs == {"idle", "record", "close", "unprotect"}
SuperPCs == {"idle", "requeue", "close", "scan", "reap", "evict", "drain", "take"}

\* Overdue is what RetryOverdue copies of a delivery.
Overdue == [id : Ids, at : Int]

\* What PriorityOrder knows of an item it has put in its place.
TakePlaces == [id : Ids, priority : Int, added : Nat]

\* Every variable has its type; what a call has still to handle is of the kind its part handles.
DockTypeOK ==
  /\ StoreTypeOK({}) /\ JournalTypeOK /\ SchedulerTypeOK
  /\ WindowTypeOK /\ PriorityTypeOK /\ ReceiptsTypeOK /\ ExpiryTypeOK /\ RetentionTypeOK
  /\ client \in [Clients -> [pc : ClientPCs, event : Events \cup {NoEvent},
                             id : Ids \cup {NoId}, at : Nat]]
  /\ \A d \in Dispatchers :
       /\ dispatch[d].pc \in DispatchPCs
       /\ dispatch[d].todo \subseteq DOMAIN dispatch[d].batch
       /\ dispatch[d].pc \in {"send", "open"} => dispatch[d].id \in dispatch[d].todo
  /\ confirm \in [Confirmers -> [pc : ConfirmPCs, id : Ids \cup {NoId}, at : Nat]]
  /\ \A s \in Supervisors :
       LET todo == super[s].todo IN
       CASE super[s].pc = "requeue" -> todo \subseteq Overdue
         [] super[s].pc = "close" -> todo \subseteq Ids
         [] super[s].pc = "take" -> todo \subseteq TakePlaces
         [] super[s].pc = "scan" -> todo \subseteq Events
         [] OTHER -> super[s].pc \in SuperPCs /\ todo = {}

PartsInit == WindowInit /\ PriorityInit /\ ReceiptsInit /\ ExpiryInit /\ RetentionInit

CallsInit ==
  /\ client = [c \in Clients |-> IdleClient]
  /\ dispatch = [d \in Dispatchers |-> IdleDispatch]
  /\ confirm = [f \in Confirmers |-> IdleConfirm]
  /\ super = [s \in Supervisors |-> IdleSuper]

Init ==
  /\ StoreInit /\ JournalInit /\ SchedulerInit /\ PartsInit /\ CallsInit
  /\ clock = 1 /\ submits = 0 /\ rejects = 0

Tick ==
  /\ clock < MaxTime
  /\ clock' = clock + 1
  /\ UNCHANGED <<storeVars, journalVars, queue, partVars, callVars, submits, rejects>>

InjectRejection ==
  /\ rejects < MaxRejects
  /\ RejectNextAppend
  /\ rejects' = rejects + 1
  /\ UNCHANGED <<storeVars, queue, partVars, callVars, clock, submits>>

------------------------------------------------------------------------------
(* Submit.  A context that is done, an event that is not valid and a       *)
(* tenant without an enabled endpoint return before anything changes.      *)

clientFrame == <<dispatch, confirm, super, clock, rejects>>

ClientGoes(c, pc) == client' = [client EXCEPT ![c].pc = pc]

ClientReturns(c) == client' = [client EXCEPT ![c] = IdleClient]

SubmitBegin(c, e, s) ==
  /\ client[c].pc = "idle"
  /\ submits < MaxSubmits /\ clock <= LastCall
  /\ client' = [client EXCEPT ![c] = [pc |-> "reserve", event |-> e, id |-> IdOf[s, KeyOf[e]],
                                      at |-> 0]]
  /\ submits' = submits + 1
  /\ UNCHANGED <<storeVars, journalVars, queue, partVars, clientFrame>>

\* The existing delivery of a reserved key is admitted again.
SubmitReserveIgnoresExisting(c) ==
  /\ client[c].pc = "reserve"
  /\ \/ Reserve(client[c].event, client[c].id, clock)
     \/ reserved[KeyOf[client[c].event]] # NoId /\ UNCHANGED storeVars
  /\ client' = [client EXCEPT ![c].pc = "append", ![c].at = clock]
  /\ UNCHANGED <<journalVars, queue, partVars, submits, clientFrame>>

\* A key that is reserved already answers with the existing delivery.
SubmitReserve(c) ==
  /\ client[c].pc = "reserve"
  /\ \/ /\ Reserve(client[c].event, client[c].id, clock)
        /\ client' = [client EXCEPT ![c].pc = "append", ![c].at = clock]
     \/ /\ reserved[KeyOf[client[c].event]] # NoId
        /\ ClientReturns(c)
        /\ UNCHANGED storeVars
  /\ UNCHANGED <<journalVars, queue, partVars, submits, clientFrame>>

\* A rejected append is not noticed.
SubmitAppendIgnoresError(c) ==
  /\ client[c].pc = "append"
  /\ AppendAccepted(client[c].id, "pending", clock) \/ AppendRejected
  /\ ClientGoes(c, "schedule")
  /\ UNCHANGED <<storeVars, queue, partVars, submits, clientFrame>>

SubmitAppend(c) ==
  /\ client[c].pc = "append"
  /\ \/ /\ AppendAccepted(client[c].id, "pending", clock)
        /\ ClientGoes(c, "schedule")
     \/ /\ AppendRejected
        /\ ClientGoes(c, "keep")
  /\ UNCHANGED <<storeVars, queue, partVars, submits, clientFrame>>

SubmitKeep(c) ==
  /\ client[c].pc = "keep"
  /\ KeepReservation(KeyOf[client[c].event], client[c].id)
  /\ ClientGoes(c, "pop")
  /\ UNCHANGED <<journalVars, queue, partVars, submits, clientFrame>>

\* Whatever is ready is taken off the queue and dropped.
SubmitPop(c) ==
  /\ client[c].pc = "pop"
  /\ (\E id \in Queued : PopReady(id, clock)) \/ NoneReady(clock)
  /\ ClientReturns(c)
  /\ UNCHANGED <<storeVars, journalVars, partVars, submits, clientFrame>>

SubmitSchedule(c) ==
  /\ client[c].pc = "schedule"
  /\ \/ /\ Schedule(client[c].id, client[c].at)
        /\ ClientGoes(c, "protect")
     \/ /\ ScheduleFull(client[c].id)
        /\ ClientGoes(c, "rollback")
  /\ UNCHANGED <<storeVars, journalVars, partVars, submits, clientFrame>>

SubmitRollback(c) ==
  /\ client[c].pc = "rollback"
  /\ RollbackReservation(KeyOf[client[c].event], client[c].id)
  /\ ClientReturns(c)
  /\ UNCHANGED <<journalVars, queue, partVars, submits, clientFrame>>

\* The priority is not set.
SubmitProtectUnranked(c) ==
  /\ client[c].pc = "protect"
  /\ Protect(EventIdOf[client[c].event])
  /\ ClientGoes(c, "add")
  /\ UNCHANGED <<storeVars, journalVars, queue, windowVars, receiptVars, retentionVars, submits,
                 clientFrame>>

SubmitProtect(c) ==
  /\ client[c].pc = "protect"
  /\ Protect(EventIdOf[client[c].event])
  /\ ClientGoes(c, "rank")
  /\ UNCHANGED <<storeVars, journalVars, queue, windowVars, receiptVars, retentionVars, submits,
                 clientFrame>>

SubmitRank(c) ==
  /\ client[c].pc = "rank"
  /\ SetPriority(client[c].id, client[c].event)
  /\ ClientGoes(c, "add")
  /\ UNCHANGED <<storeVars, journalVars, queue, window, receiptVars, expiryVars, retentionVars,
                 submits, clientFrame>>

\* A full window is reported as an error, with the delivery admitted all the same.
SubmitAdd(c) ==
  /\ client[c].pc = "add"
  /\ WindowAdd(client[c].id, clock) \/ WindowFull(client[c].id)
  /\ ClientReturns(c)
  /\ UNCHANGED <<storeVars, journalVars, queue, priority, receiptVars, expiryVars, retentionVars, submits,
                 clientFrame>>

SubmitStep(c) ==
  \/ SubmitReserve(c)
  \/ SubmitAppend(c)
  \/ SubmitKeep(c)
  \/ SubmitPop(c)
  \/ SubmitSchedule(c)
  \/ SubmitRollback(c)
  \/ SubmitProtect(c)
  \/ SubmitRank(c)
  \/ SubmitAdd(c)

------------------------------------------------------------------------------
(* Dispatch and DispatchByEndpoint.  Window.Ready and the snapshot that    *)
(* follows are one action: a snapshot that is not empty implies Ready at   *)
(* its time, and an empty one ends the call as Ready would.                *)

dispatchFrame == <<storeVars, journalVars, queue, expiryVars, client, confirm, super, envVars>>

DispatchGoes(d, pc, todo) == dispatch' = [dispatch EXCEPT ![d].pc = pc, ![d].todo = todo]

DispatchReturns(d) == dispatch' = [dispatch EXCEPT ![d] = IdleDispatch]

\* Dispatch flushes the items of every endpoint, DispatchByEndpoint those of one.
Scopes == {Endpoints} \cup {{e} : e \in Endpoints}

\* The Flusher's mutex is held until every item has been removed from the window.
Flushing == \E d \in Dispatchers : dispatch[d].pc = "remove"

DispatchFlush(d, scope) ==
  LET ids == {id \in Waiting : EndpointOf[deliveries[id].event] \in scope} IN
  /\ dispatch[d].pc = "idle"
  /\ ~Flushing
  /\ WindowReady(clock) /\ ids # {}
  /\ dispatch' = [dispatch EXCEPT ![d].pc = "remove", ![d].todo = ids,
                                  ![d].batch = [id \in ids |-> window[id]]]
  /\ UNCHANGED <<partVars, dispatchFrame>>

\* An item that somebody else removed ends the flush with an error; the items it has removed
\* so far are in nobody's hands.
DispatchRemove(d) ==
  LET batch == dispatch[d].batch
      todo == dispatch[d].todo IN
  /\ dispatch[d].pc = "remove"
  /\ \E id \in todo :
       /\ IsOldest(batch, todo, id)
       /\ \/ /\ WindowRemove(id)
             /\ IF todo = {id} THEN DispatchGoes(d, "get", DOMAIN batch)
                ELSE DispatchGoes(d, "remove", todo \ {id})
          \/ /\ WindowRemoveUnknown(id)
             /\ DispatchReturns(d)
  /\ UNCHANGED <<priority, receiptVars, retentionVars, dispatchFrame>>

\* The delivery is opened before it is sent.
DispatchGetOpens(d) ==
  LET todo == dispatch[d].todo IN
  /\ dispatch[d].pc = "get"
  /\ \E id \in todo :
       /\ IsOldest(dispatch[d].batch, todo, id)
       /\ OpenDelivery(id)
       /\ dispatch' = [dispatch EXCEPT ![d].pc = "send", ![d].id = id]
  /\ UNCHANGED <<windowVars, retentionVars, dispatchFrame>>

\* The next item.  One whose delivery is gone is passed over.
DispatchGet(d) ==
  LET todo == dispatch[d].todo IN
  /\ dispatch[d].pc = "get"
  /\ \E id \in todo :
       /\ IsOldest(dispatch[d].batch, todo, id)
       /\ dispatch' = IF Stored(id)
                      THEN [dispatch EXCEPT ![d].pc = "send", ![d].id = id]
                      ELSE [dispatch EXCEPT ![d].todo = todo \ {id}]
  /\ UNCHANGED <<partVars, dispatchFrame>>

\* No item is left, or the context is done.
DispatchReturn(d) ==
  /\ dispatch[d].pc = "get"
  /\ DispatchReturns(d)
  /\ UNCHANGED <<partVars, dispatchFrame>>

\* The send succeeded.
DispatchRecord(d) ==
  /\ dispatch[d].pc = "send"
  /\ Record(dispatch[d].id, "delivered", clock)
  /\ DispatchGoes(d, "open", dispatch[d].todo)
  /\ UNCHANGED <<windowVars, retentionVars, dispatchFrame>>

DispatchOpen(d) ==
  /\ dispatch[d].pc = "open"
  /\ OpenDelivery(dispatch[d].id)
  /\ DispatchGoes(d, "get", dispatch[d].todo \ {dispatch[d].id})
  /\ UNCHANGED <<windowVars, retentionVars, dispatchFrame>>

\* A failed send goes on to the receipt.
DispatchTrackRecords(d) ==
  /\ dispatch[d].pc = "send"
  /\ TrackDead(dispatch[d].id, clock) \/ AlreadyTracked(dispatch[d].id)
  /\ Record(dispatch[d].id, "delivered", clock)
  /\ DispatchGoes(d, "open", dispatch[d].todo)
  /\ UNCHANGED <<windowVars, dispatchFrame>>

\* The send failed.
DispatchTrack(d) ==
  /\ dispatch[d].pc = "send"
  /\ TrackDead(dispatch[d].id, clock) \/ AlreadyTracked(dispatch[d].id)
  /\ DispatchGoes(d, "get", dispatch[d].todo \ {dispatch[d].id})
  /\ UNCHANGED <<windowVars, receiptVars, dispatchFrame>>

DispatchStep(d) ==
  \/ DispatchRemove(d)
  \/ DispatchGet(d)
  \/ DispatchReturn(d)
  \/ DispatchRecord(d)
  \/ DispatchOpen(d)
  \/ DispatchTrack(d)

------------------------------------------------------------------------------
(* ConfirmDelivery. *)

confirmFrame ==
  <<storeVars, journalVars, queue, windowVars, retentionVars, client, dispatch, super, envVars>>

ConfirmGoes(f, pc) == confirm' = [confirm EXCEPT ![f].pc = pc]

ConfirmReturns(f) == confirm' = [confirm EXCEPT ![f] = IdleConfirm]

\* Without a receipt there is nothing to confirm.
ConfirmBegin(f, id) ==
  /\ confirm[f].pc = "idle"
  /\ HasReceipt(id)
  /\ confirm' = [confirm EXCEPT ![f] = [pc |-> "record", id |-> id, at |-> receipts[id].at]]
  /\ UNCHANGED <<receiptVars, expiryVars, confirmFrame>>

ConfirmRecord(f) ==
  /\ confirm[f].pc = "record"
  /\ Record(confirm[f].id, "confirmed", confirm[f].at)
  /\ ConfirmGoes(f, "close")
  /\ UNCHANGED <<expiryVars, confirmFrame>>

\* A delivery that is not open goes on to be unprotected.
ConfirmCloseAnyway(f) ==
  /\ confirm[f].pc = "close"
  /\ CloseDelivery(confirm[f].id) \/ (confirm[f].id \notin open /\ UNCHANGED receiptVars)
  /\ ConfirmGoes(f, "unprotect")
  /\ UNCHANGED <<expiryVars, confirmFrame>>

\* A delivery that is not open, not yet or not any more, ends the call with an error.
ConfirmClose(f) ==
  /\ confirm[f].pc = "close"
  /\ \/ /\ CloseDelivery(confirm[f].id)
        /\ ConfirmGoes(f, "unprotect")
     \/ /\ confirm[f].id \notin open
        /\ ConfirmReturns(f)
        /\ UNCHANGED receiptVars
  /\ UNCHANGED <<expiryVars, confirmFrame>>

ConfirmUnprotect(f) ==
  LET id == confirm[f].id IN
  /\ confirm[f].pc = "unprotect"
  /\ IF Stored(id) THEN Unprotect(EventIdOf[deliveries[id].event]) ELSE UNCHANGED expiryVars
  /\ ConfirmReturns(f)
  /\ UNCHANGED <<receiptVars, confirmFrame>>

ConfirmStep(f) == ConfirmRecord(f) \/ ConfirmClose(f) \/ ConfirmUnprotect(f)

------------------------------------------------------------------------------
(* Supervisor.Run(now), part by part; the last part, which publishes       *)
(* health scores, is in Routing.  The pass goes on to the next part when   *)
(* todo is empty.                                                          *)

superFrame == <<storeVars, journalVars, client, dispatch, confirm, envVars>>

SuperGoes(s, pc, todo) == super' = [super EXCEPT ![s].pc = pc, ![s].todo = todo]

SuperDone(s, id) == super' = [super EXCEPT ![s].todo = @ \ {id}]

\* RetryOverdue copies the pending deliveries that are due.
SuperBegin(s, lead) ==
  LET now == clock + lead
      due == {id \in Ids : deliveries[id].state = "pending" /\ deliveries[id].nextAttempt <= now}
  IN
  /\ super[s].pc = "idle"
  /\ super' = [super EXCEPT ![s] = [pc |-> "requeue", now |-> now,
                 todo |-> {[id |-> id, at |-> deliveries[id].nextAttempt] : id \in due}]]
  /\ UNCHANGED <<queue, partVars, superFrame>>

SuperRequeue(s) ==
  /\ super[s].pc = "requeue"
  /\ \E d \in super[s].todo :
       /\ Schedule(d.id, d.at) \/ ScheduleFull(d.id)
       /\ SuperDone(s, d)
  /\ UNCHANGED <<partVars, superFrame>>

\* reconfirmStale finds the deliveries that have been open for the interval.
SuperStale(s) ==
  /\ super[s].pc = "requeue" /\ super[s].todo = {}
  /\ SuperGoes(s, "close", OpenSince(super[s].now - Interval))
  /\ UNCHANGED <<queue, partVars, superFrame>>

SuperClose(s) ==
  /\ super[s].pc = "close"
  /\ \E id \in super[s].todo :
       /\ CloseDelivery(id) \/ (id \notin open /\ UNCHANGED receiptVars)
       /\ SuperDone(s, id)
  /\ UNCHANGED <<queue, windowVars, expiryVars, retentionVars, superFrame>>

\* What Store.Events returns: one event per event id.
ListsEvents(events) ==
  LET all == {deliveries[id].event : id \in {i \in Ids : Stored(i)}} IN
  /\ events \subseteq all
  /\ \A e \in all : Cardinality({f \in events : EventIdOf[f] = EventIdOf[e]}) = 1

SuperSweep(s) ==
  /\ super[s].pc = "close" /\ super[s].todo = {}
  /\ IF SweepDue(super[s].now, Interval)
     THEN \E events \in SUBSET Events : ListsEvents(events) /\ SuperGoes(s, "scan", events)
     ELSE SuperGoes(s, "reap", {})
  /\ UNCHANGED <<queue, partVars, superFrame>>

SuperScan(s) ==
  /\ super[s].pc = "scan"
  /\ RunSweep(super[s].todo, super[s].now)
  /\ SuperGoes(s, "reap", {})
  /\ UNCHANGED <<queue, windowVars, receiptVars, retentionVars, superFrame>>

SuperReap(s) ==
  /\ super[s].pc = "reap"
  /\ IF ReapDue(super[s].now, Interval)
     THEN PurgeExpired(super[s].now) /\ SuperGoes(s, "evict", {})
     ELSE UNCHANGED retentionVars /\ SuperGoes(s, "drain", {})
  /\ UNCHANGED <<queue, windowVars, receiptVars, expiryVars, superFrame>>

SuperEvict(s) ==
  /\ super[s].pc = "evict"
  /\ PurgeOverCapacity
  /\ lastReap' = super[s].now
  /\ SuperGoes(s, "drain", {})
  /\ UNCHANGED <<queue, windowVars, receiptVars, expiryVars, superFrame>>

\* The items of a ready window, which are then taken out of it in the order of their
\* priorities.
SuperDrain(s) ==
  /\ super[s].pc = "drain"
  /\ SuperGoes(s, "take", IF WindowReady(super[s].now) THEN Places ELSE {})
  /\ UNCHANGED <<queue, partVars, superFrame>>

SuperTake(s) ==
  /\ super[s].pc = "take"
  /\ \E x \in super[s].todo :
       /\ IsForemost(x, super[s].todo)
       /\ Take(x.id) \/ (WindowRemoveUnknown(x.id) /\ UNCHANGED priority)
       /\ SuperDone(s, x)
  /\ UNCHANGED <<queue, receiptVars, expiryVars, retentionVars, superFrame>>

SuperReturn(s) ==
  /\ super[s].pc = "take" /\ super[s].todo = {}
  /\ super' = [super EXCEPT ![s] = IdleSuper]
  /\ UNCHANGED <<queue, partVars, superFrame>>

SuperStep(s) ==
  \/ SuperRequeue(s)
  \/ SuperStale(s)
  \/ SuperClose(s)
  \/ SuperSweep(s)
  \/ SuperScan(s)
  \/ SuperReap(s)
  \/ SuperEvict(s)
  \/ SuperDrain(s)
  \/ SuperTake(s)
  \/ SuperReturn(s)

------------------------------------------------------------------------------
(* Calls that are one call on the retention ledger. *)

retentionFrame ==
  <<storeVars, journalVars, queue, windowVars, receiptVars, expiryVars, callVars, envVars>>

ReportDead(id) ==
  /\ clock <= LastCall
  /\ TrackDead(id, clock)
  /\ UNCHANGED retentionFrame

PurgeDead ==
  /\ PurgeExpired(clock)
  /\ UNCHANGED retentionFrame

PurgeOver ==
  /\ PurgeOverCapacity
  /\ UNCHANGED <<lastReap, retentionFrame>>

------------------------------------------------------------------------------

Next ==
  \/ Tick
  \/ InjectRejection
  \/ \E c \in Clients : SubmitStep(c) \/ \E e \in Events, s \in Specs : SubmitBegin(c, e, s)
  \/ \E d \in Dispatchers : DispatchStep(d) \/ \E scope \in Scopes : DispatchFlush(d, scope)
  \/ \E f \in Confirmers : ConfirmStep(f) \/ \E id \in Ids : ConfirmBegin(f, id)
  \/ \E s \in Supervisors : SuperStep(s) \/ \E lead \in RunLeads : SuperBegin(s, lead)
  \/ \E id \in ReportedDead : ReportDead(id)
  \/ PurgeDead
  \/ PurgeOver

Spec == Init /\ [][Next]_vars

==============================================================================
