-------------------------------- MODULE Relay --------------------------------
(***************************************************************************)
(* internal/relay over the store, the journal, the queue and the breakers: *)
(* clients that submit events (Service.Submit), workers that deliver them  *)
(* (Worker.Step, Worker.StepFor), journal replay (Replay.Run) and the      *)
(* supervisor's requeueing of overdue deliveries (RetryOverdue).           *)
(*                                                                         *)
(* Each of these is a goroutine, and each call it makes on a shared        *)
(* component is one critical section of that component's mutex.  An action *)
(* is one such call together with the local code up to the next one, and   *)
(* pc names the call that comes next.  Values a goroutine read earlier     *)
(* (now, the Delivery copy Acquire returned, the entries ReadAfter copied) *)
(* are fields of its record and may be stale.                              *)
(***************************************************************************)
EXTENDS DeliveryStore, Journal, Scheduler, Breakers

CONSTANTS
  IdOf,        \* delivery id of an idempotency key (Submit hashes the key)
  Clients,     \* goroutines calling Service.Submit
  Steppers,    \* workers running Step
  Batchers,    \* workers running StepFor, alone or from StepBatch
  Replayers,   \* Replay values
  Supervisors, \* goroutines calling RetryOverdue
  LeaseTTL,    \* Worker.LeaseTTL
  MaxAttempts, \* Worker.MaxAttempts
  ReplayLimit, \* limit of Replay.Run
  SweepLeads,  \* how far ahead of the clock RetryOverdue's argument may be
  MaxTime,     \* bound: the clock stops here
  LastCall,    \* bound: no Submit starts after this time
  MaxSubmits,  \* bound: calls of Submit
  MaxRejects   \* bound: appends the journal rejects

Workers == Steppers \cup Batchers

ASSUME RelayConstants ==
  /\ IdOf \in [Keys -> Ids]
  /\ NoOwner \notin Workers
  /\ LeaseTTL \in Nat /\ MaxAttempts \in Nat /\ ReplayLimit \in Nat
  /\ MaxTime \in Nat /\ MaxSubmits \in Nat /\ MaxRejects \in Nat
  /\ LastCall \in Nat /\ SweepLeads \subseteq Nat

VARIABLES
  client,  \* per client: the call of Submit it is in
  worker,  \* per worker: the call of Step or StepFor it is in
  replay,  \* per Replay: its cursor and the run it is in
  sweep,   \* per supervisor: deliveries RetryOverdue has still to schedule
  clock,   \* the time Now returns
  submits, \* calls of Submit so far
  rejects  \* injected journal failures so far

sharedVars == <<storeVars, journalVars, queue, breakers>>
envVars == <<clock, submits, rejects>>
vars == <<sharedVars, client, worker, replay, sweep, envVars>>

IdleClient == [pc |-> "idle", event |-> NoEvent, now |-> 0]

IdleWorker ==
  [pc |-> "idle", forced |-> FALSE, id |-> NoId, now |-> 0, event |-> NoEvent,
   epoch |-> 0, attempt |-> 0, at |-> 0]

ClientPCs == {"idle", "reserve", "append", "schedule", "rollback", "rollbackFull", "logDead"}

WorkerPCs ==
  {"idle", "pop", "acquire", "allow", "send", "retryOpen", "retrySend", "complete", "dead",
   "logDelivered", "logDead", "logRetry", "revive", "schedule"}

\* Every variable has its type; a call in progress has its event or its delivery id; a
\* replay run is between entries that the journal has.
TypeOK ==
  /\ StoreTypeOK(Workers)
  /\ JournalTypeOK
  /\ SchedulerTypeOK
  /\ BreakersTypeOK
  /\ client \in [Clients -> [pc : ClientPCs, event : Events \cup {NoEvent}, now : Nat]]
  /\ worker \in [Workers -> [pc : WorkerPCs, forced : BOOLEAN, id : Ids \cup {NoId}, now : Nat,
                             event : Events \cup {NoEvent}, epoch : Nat, attempt : Nat, at : Int]]
  /\ replay \in [Replayers -> [cursor : Nat, upTo : Nat]]
  /\ sweep \in [Supervisors -> SUBSET [id : Ids, at : Int]]
  /\ clock \in Nat /\ submits \in Nat /\ rejects \in Nat
  /\ \A c \in Clients : client[c].pc # "idle" => client[c].event \in Events
  /\ \A w \in Workers : worker[w].pc \notin {"idle", "pop"} => worker[w].id \in Ids
  /\ \A r \in Replayers : replay[r].cursor <= replay[r].upTo /\ replay[r].upTo <= Len(journal)

Init ==
  /\ StoreInit /\ JournalInit /\ SchedulerInit /\ BreakersInit
  /\ client = [c \in Clients |-> IdleClient]
  /\ worker = [w \in Workers |-> IdleWorker]
  /\ replay = [r \in Replayers |-> [cursor |-> 0, upTo |-> 0]]
  /\ sweep = [s \in Supervisors |-> {}]
  /\ clock = 1 /\ submits = 0 /\ rejects = 0

------------------------------------------------------------------------------
(* The environment: time passes, the journal fails, an operator resets a   *)
(* breaker.                                                                *)

Tick ==
  /\ clock < MaxTime
  /\ clock' = clock + 1
  /\ UNCHANGED <<sharedVars, client, worker, replay, sweep, submits, rejects>>

InjectRejection ==
  /\ rejects < MaxRejects
  /\ RejectNextAppend
  /\ rejects' = rejects + 1
  /\ UNCHANGED <<storeVars, queue, breakers, client, worker, replay, sweep, clock, submits>>

ResetBreaker(e) ==
  /\ Reset(e)
  /\ UNCHANGED <<storeVars, journalVars, queue, client, worker, replay, sweep, envVars>>

------------------------------------------------------------------------------
(* Service.Submit.  Events are valid: Submit returns at once for others.   *)

clientFrame == <<breakers, worker, replay, sweep, clock, rejects>>

SubmissionId(c) == IdOf[KeyOf[client[c].event]]

ClientGoes(c, pc) == client' = [client EXCEPT ![c].pc = pc]

ClientReturns(c) == client' = [client EXCEPT ![c] = IdleClient]

SubmitBegin(c, e) ==
  /\ client[c].pc = "idle"
  /\ submits < MaxSubmits /\ clock <= LastCall
  /\ client' = [client EXCEPT ![c] = [pc |-> "reserve", event |-> e, now |-> clock]]
  /\ submits' = submits + 1
  /\ UNCHANGED <<storeVars, journalVars, queue, clientFrame>>

\* The existing delivery of a reserved key is admitted again.
SubmitReserveIgnoresExisting(c) ==
  /\ client[c].pc = "reserve"
  /\ \/ Reserve(client[c].event, SubmissionId(c), client[c].now)
     \/ reserved[KeyOf[client[c].event]] # NoId /\ UNCHANGED storeVars
  /\ ClientGoes(c, "append")
  /\ UNCHANGED <<journalVars, queue, submits, clientFrame>>

\* A key that is reserved already answers with the existing delivery.
SubmitReserve(c) ==
  /\ client[c].pc = "reserve"
  /\ \/ /\ Reserve(client[c].event, SubmissionId(c), client[c].now)
        /\ ClientGoes(c, "append")
     \/ /\ reserved[KeyOf[client[c].event]] # NoId
        /\ ClientReturns(c)
        /\ UNCHANGED storeVars
  /\ UNCHANGED <<journalVars, queue, submits, clientFrame>>

\* A rejected append is reported and the reservation is kept.
SubmitAppendKeepsReservation(c) ==
  /\ client[c].pc = "append"
  /\ \/ /\ AppendAccepted(SubmissionId(c), "pending", client[c].now)
        /\ ClientGoes(c, "schedule")
     \/ /\ AppendRejected
        /\ ClientReturns(c)
  /\ UNCHANGED <<storeVars, queue, submits, clientFrame>>

SubmitAppend(c) ==
  /\ client[c].pc = "append"
  /\ \/ /\ AppendAccepted(SubmissionId(c), "pending", client[c].now)
        /\ ClientGoes(c, "schedule")
     \/ /\ AppendRejected
        /\ ClientGoes(c, "rollback")
  /\ UNCHANGED <<storeVars, queue, submits, clientFrame>>

\* The delivery Submit scheduled is its own copy: NextAttempt is the time of admission.
SubmitSchedule(c) ==
  /\ client[c].pc = "schedule"
  /\ \/ /\ Schedule(SubmissionId(c), client[c].now)
        /\ ClientReturns(c)
     \/ /\ ScheduleFull(SubmissionId(c))
        /\ ClientGoes(c, "rollbackFull")
  /\ UNCHANGED <<storeVars, journalVars, submits, clientFrame>>

SubmitRollback(c) ==
  /\ client[c].pc \in {"rollback", "rollbackFull"}
  /\ RollbackReservation(KeyOf[client[c].event], SubmissionId(c))
  /\ \/ /\ client[c].pc = "rollback"
        /\ ClientReturns(c)
     \/ /\ client[c].pc = "rollbackFull"
        /\ ClientGoes(c, "logDead")
  /\ UNCHANGED <<journalVars, queue, submits, clientFrame>>

\* The result of this append is ignored.
SubmitLogDead(c) ==
  /\ client[c].pc = "logDead"
  /\ AppendAccepted(SubmissionId(c), "dead", client[c].now) \/ AppendRejected
  /\ ClientReturns(c)
  /\ UNCHANGED <<storeVars, queue, submits, clientFrame>>

SubmitStep(c) ==
  \/ SubmitReserve(c)
  \/ SubmitAppend(c)
  \/ SubmitSchedule(c)
  \/ SubmitRollback(c)
  \/ SubmitLogDead(c)

------------------------------------------------------------------------------
(* Worker.Step, and Worker.StepFor (forced) which skips the queue.         *)

workerFrame == <<client, replay, sweep, envVars>>

WorkerGoes(w, pc) == worker' = [worker EXCEPT ![w].pc = pc]

\* The delivery is pending again and is to be queued for the time at.
WorkerWaits(w, pc, at) == worker' = [worker EXCEPT ![w] = [@ EXCEPT !.pc = pc, !.at = at]]

WorkerReturns(w) == worker' = [worker EXCEPT ![w] = IdleWorker]

\* The delay before a delivery refused by an open circuit is tried again.
OpenRetryDelay == 1

BackoffFor(attempt) == IF attempt >= 30 THEN 3600 ELSE 2 ^ attempt

StepBegin(w) ==
  /\ worker[w].pc = "idle"
  /\ worker' = [worker EXCEPT ![w] = [IdleWorker EXCEPT !.pc = "pop", !.now = clock]]
  /\ UNCHANGED <<sharedVars, workerFrame>>

StepForBegin(w, id) ==
  /\ worker[w].pc = "idle"
  /\ worker' = [worker EXCEPT ![w] = [IdleWorker EXCEPT !.pc = "acquire", !.now = clock,
                                                        !.forced = TRUE, !.id = id]]
  /\ UNCHANGED <<sharedVars, workerFrame>>

StepPop(w) ==
  /\ worker[w].pc = "pop"
  /\ \/ \E id \in Queued :
          /\ PopReady(id, worker[w].now)
          /\ worker' = [worker EXCEPT ![w] = [@ EXCEPT !.pc = "acquire", !.id = id]]
     \/ /\ NoneReady(worker[w].now)
        /\ WorkerReturns(w)
  /\ UNCHANGED <<storeVars, journalVars, breakers, workerFrame>>

\* The copy of the acquired delivery, of which d is the record before.
WorkerTakes(w, d) ==
  worker' = [worker EXCEPT ![w] = [@ EXCEPT !.pc = "allow", !.event = d.event,
                                            !.epoch = d.leaseEpoch + 1, !.attempt = d.attempt]]

\* A refused Acquire puts the id back in the queue.
StepAcquireRequeues(w) ==
  LET id == worker[w].id IN
  /\ worker[w].pc = "acquire"
  /\ \/ /\ Acquire(id, w, worker[w].now, LeaseTTL)
        /\ WorkerTakes(w, deliveries[id])
     \/ /\ ~Acquirable(id, worker[w].now)
        /\ WorkerWaits(w, "schedule", worker[w].now)
        /\ UNCHANGED storeVars
  /\ UNCHANGED <<journalVars, queue, breakers, workerFrame>>

\* A refused Acquire ends the call: an id that was popped is in no queue any more.
StepAcquire(w) ==
  LET id == worker[w].id IN
  /\ worker[w].pc = "acquire"
  /\ \/ /\ Acquire(id, w, worker[w].now, LeaseTTL)
        /\ WorkerTakes(w, deliveries[id])
     \/ /\ ~Acquirable(id, worker[w].now)
        /\ WorkerReturns(w)
        /\ UNCHANGED storeVars
  /\ UNCHANGED <<journalVars, queue, breakers, workerFrame>>

StepAllow(w) ==
  LET endpoint == EndpointOf[worker[w].event] IN
  /\ worker[w].pc = "allow"
  /\ \/ /\ Allow(endpoint, worker[w].now)
        /\ WorkerGoes(w, "send")
     \/ /\ Denied(endpoint, worker[w].now)
        /\ WorkerGoes(w, "retryOpen")
        /\ UNCHANGED breakers
  /\ UNCHANGED <<storeVars, journalVars, queue, workerFrame>>

\* Given up one attempt early.
AfterFailureEarly(w) ==
  IF worker[w].forced THEN "idle"
  ELSE IF worker[w].attempt + 2 >= MaxAttempts THEN "dead" ELSE "retrySend"

\* What follows a failed send.  StepFor returns the error and leaves the lease as it is.
AfterFailure(w) ==
  IF worker[w].forced THEN "idle"
  ELSE IF worker[w].attempt + 1 >= MaxAttempts THEN "dead" ELSE "retrySend"

\* Sender.Send returned; the outcome goes to the breaker's release function.
SendReturns(w, ok) ==
  /\ worker[w].pc = "send"
  /\ Release(EndpointOf[worker[w].event], worker[w].now, ok)
  /\ IF ~ok /\ AfterFailure(w) = "idle" THEN WorkerReturns(w)
     ELSE WorkerGoes(w, IF ok THEN "complete" ELSE AfterFailure(w))
  /\ UNCHANGED <<storeVars, journalVars, queue, workerFrame>>

\* The completed delivery is not journaled.
StepCompleteUnlogged(w) ==
  LET id == worker[w].id IN
  /\ worker[w].pc = "complete"
  /\ \/ Complete(id, w, worker[w].epoch)
     \/ ~HoldsLease(id, w, worker[w].epoch) /\ UNCHANGED storeVars
  /\ WorkerReturns(w)
  /\ UNCHANGED <<journalVars, queue, breakers, workerFrame>>

StepComplete(w) ==
  LET id == worker[w].id IN
  /\ worker[w].pc = "complete"
  /\ \/ /\ Complete(id, w, worker[w].epoch)
        /\ WorkerGoes(w, "logDelivered")
     \/ /\ ~HoldsLease(id, w, worker[w].epoch)
        /\ WorkerReturns(w)
        /\ UNCHANGED storeVars
  /\ UNCHANGED <<journalVars, queue, breakers, workerFrame>>

StepDead(w) ==
  LET id == worker[w].id IN
  /\ worker[w].pc = "dead"
  /\ \/ /\ Dead(id, w, worker[w].epoch)
        /\ WorkerGoes(w, "logDead")
     \/ /\ ~HoldsLease(id, w, worker[w].epoch)
        /\ WorkerReturns(w)
        /\ UNCHANGED storeVars
  /\ UNCHANGED <<journalVars, queue, breakers, workerFrame>>

\* A delivery the breaker refused is not queued again.
StepRetryOpenUnqueued(w) ==
  LET id == worker[w].id
      at == worker[w].now + OpenRetryDelay IN
  /\ worker[w].pc \in {"retryOpen", "retrySend"}
  /\ \/ /\ Retry(id, w, worker[w].epoch, at)
        /\ IF worker[w].pc = "retryOpen" THEN WorkerReturns(w)
           ELSE WorkerWaits(w, "logRetry", at)
     \/ /\ ~HoldsLease(id, w, worker[w].epoch)
        /\ WorkerReturns(w)
        /\ UNCHANGED storeVars
  /\ UNCHANGED <<journalVars, queue, breakers, workerFrame>>

\* The retry of a delivery the breaker refused is not journaled.
StepRetry(w) ==
  LET id == worker[w].id
      open == worker[w].pc = "retryOpen"
      at == worker[w].now + IF open THEN OpenRetryDelay ELSE BackoffFor(worker[w].attempt) IN
  /\ worker[w].pc \in {"retryOpen", "retrySend"}
  /\ \/ /\ Retry(id, w, worker[w].epoch, at)
        /\ WorkerWaits(w, IF open THEN "schedule" ELSE "logRetry", at)
     \/ /\ ~HoldsLease(id, w, worker[w].epoch)
        /\ WorkerReturns(w)
        /\ UNCHANGED storeVars
  /\ UNCHANGED <<journalVars, queue, breakers, workerFrame>>

StepLogDelivered(w) ==
  /\ worker[w].pc = "logDelivered"
  /\ AppendAccepted(worker[w].id, "delivered", worker[w].now) \/ AppendRejected
  /\ WorkerReturns(w)
  /\ UNCHANGED <<storeVars, queue, breakers, workerFrame>>

\* A rejected terminal entry is reported and the delivery stays dead.
StepLogDeadNoRevive(w) ==
  /\ worker[w].pc = "logDead"
  /\ AppendAccepted(worker[w].id, "dead", worker[w].now) \/ AppendRejected
  /\ WorkerReturns(w)
  /\ UNCHANGED <<storeVars, queue, breakers, workerFrame>>

\* A rejected terminal entry takes the delivery back from the dead.
StepLogDead(w) ==
  /\ worker[w].pc = "logDead"
  /\ \/ /\ AppendAccepted(worker[w].id, "dead", worker[w].now)
        /\ WorkerReturns(w)
     \/ /\ AppendRejected
        /\ WorkerGoes(w, "revive")
  /\ UNCHANGED <<storeVars, queue, breakers, workerFrame>>

StepRevive(w) ==
  LET at == worker[w].now + OpenRetryDelay IN
  /\ worker[w].pc = "revive"
  /\ \/ /\ ReviveDead(worker[w].id, at)
        /\ WorkerWaits(w, "schedule", at)
     \/ /\ deliveries[worker[w].id].state # "dead"
        /\ WorkerReturns(w)
        /\ UNCHANGED storeVars
  /\ UNCHANGED <<journalVars, queue, breakers, workerFrame>>

\* A rejected retry entry ends the call before the delivery is queued again.
StepLogRetry(w) ==
  /\ worker[w].pc = "logRetry"
  /\ \/ /\ AppendAccepted(worker[w].id, "pending", worker[w].now)
        /\ WorkerGoes(w, "schedule")
     \/ /\ AppendRejected
        /\ WorkerReturns(w)
  /\ UNCHANGED <<storeVars, queue, breakers, workerFrame>>

\* When the queue is full the delivery stays pending outside it.
StepSchedule(w) ==
  /\ worker[w].pc = "schedule"
  /\ Schedule(worker[w].id, worker[w].at) \/ ScheduleFull(worker[w].id)
  /\ WorkerReturns(w)
  /\ UNCHANGED <<storeVars, journalVars, breakers, workerFrame>>

WorkerStep(w) ==
  \/ StepPop(w)
  \/ StepAcquire(w)
  \/ StepAllow(w)
  \/ \E ok \in BOOLEAN : SendReturns(w, ok)
  \/ StepComplete(w)
  \/ StepDead(w)
  \/ StepRetry(w)
  \/ StepLogDelivered(w)
  \/ StepLogDead(w)
  \/ StepRevive(w)
  \/ StepLogRetry(w)
  \/ StepSchedule(w)

------------------------------------------------------------------------------
(* Replay.Run.  RunAll is a sequence of Runs.  The entries that ReadAfter  *)
(* copied are cursor+1 .. upTo; no run is in progress when upTo = cursor.  *)

replayFrame == <<storeVars, journalVars, breakers, client, worker, sweep, envVars>>

ReplayBegin(r) ==
  LET cursor == replay[r].cursor IN
  /\ replay[r].upTo = cursor
  /\ replay' = [replay EXCEPT ![r].upTo = ReadUpTo(cursor, ReplayLimit)]
  /\ UNCHANGED <<queue, replayFrame>>

\* Every entry read is counted done, scheduled or not.
ReplayEntrySkipsFull(r) ==
  LET cursor == replay[r].cursor
      entry == journal[cursor + 1] IN
  /\ cursor < replay[r].upTo
  /\ replay' = [replay EXCEPT ![r].cursor = cursor + 1]
  /\ \/ entry.transition = "pending" /\ Schedule(entry.delivery, entry.at)
     \/ entry.transition = "pending" /\ ScheduleFull(entry.delivery)
     \/ entry.transition # "pending" /\ UNCHANGED queue
  /\ UNCHANGED replayFrame

\* A full queue ends the run with the cursor before the entry.
ReplayEntry(r) ==
  LET cursor == replay[r].cursor
      entry == journal[cursor + 1] IN
  /\ cursor < replay[r].upTo
  /\ \/ /\ entry.transition = "pending"
        /\ Schedule(entry.delivery, entry.at)
        /\ replay' = [replay EXCEPT ![r].cursor = cursor + 1]
     \/ /\ entry.transition = "pending"
        /\ ScheduleFull(entry.delivery)
        /\ replay' = [replay EXCEPT ![r].upTo = cursor]
     \/ /\ entry.transition # "pending"
        /\ replay' = [replay EXCEPT ![r].cursor = cursor + 1]
        /\ UNCHANGED queue
  /\ UNCHANGED replayFrame

ReplayStep(r) == ReplayBegin(r) \/ ReplayEntry(r)

------------------------------------------------------------------------------
(* RetryOverdue.  ByState copies the pending deliveries; those due are     *)
(* then scheduled one by one, in no particular order, at the NextAttempt   *)
(* they had in the copy.                                                   *)

sweepFrame == <<storeVars, journalVars, breakers, client, worker, replay, envVars>>

\* Only deliveries that were not tried yet.
OverdueReadUntried(s, lead) ==
  LET due == {id \in Ids : /\ deliveries[id].state = "pending" /\ deliveries[id].attempt = 0
                           /\ deliveries[id].nextAttempt <= clock + lead} IN
  /\ sweep[s] = {}
  /\ sweep' = [sweep EXCEPT ![s] = {[id |-> id, at |-> deliveries[id].nextAttempt] : id \in due}]
  /\ UNCHANGED <<queue, sweepFrame>>

\* Only deliveries that failed an attempt.
OverdueReadFailed(s, lead) ==
  LET due == {id \in Ids : /\ deliveries[id].state = "pending" /\ deliveries[id].attempt > 0
                           /\ deliveries[id].nextAttempt <= clock + lead} IN
  /\ sweep[s] = {}
  /\ sweep' = [sweep EXCEPT ![s] = {[id |-> id, at |-> deliveries[id].nextAttempt] : id \in due}]
  /\ UNCHANGED <<queue, sweepFrame>>

OverdueRead(s, lead) ==
  LET due == {id \in Ids : deliveries[id].state = "pending"
                           /\ deliveries[id].nextAttempt <= clock + lead} IN
  /\ sweep[s] = {}
  /\ sweep' = [sweep EXCEPT ![s] = {[id |-> id, at |-> deliveries[id].nextAttempt] : id \in due}]
  /\ UNCHANGED <<queue, sweepFrame>>

OverdueSchedule(s) ==
  /\ \E d \in sweep[s] :
       /\ Schedule(d.id, d.at) \/ ScheduleFull(d.id)
       /\ sweep' = [sweep EXCEPT ![s] = @ \ {d}]
  /\ UNCHANGED sweepFrame

SweepStep(s) == (\E lead \in SweepLeads : OverdueRead(s, lead)) \/ OverdueSchedule(s)

------------------------------------------------------------------------------

Next ==
  \/ Tick
  \/ InjectRejection
  \/ \E e \in Endpoints : ResetBreaker(e)
  \/ \E c \in Clients : SubmitStep(c) \/ \E e \in Events : SubmitBegin(c, e)
  \/ \E w \in Workers : WorkerStep(w)
  \/ \E w \in Steppers : StepBegin(w)
  \/ \E w \in Batchers, id \in Ids : StepForBegin(w, id)
  \/ \E r \in Replayers : ReplayStep(r)
  \/ \E s \in Supervisors : SweepStep(s)

Spec == Init /\ [][Next]_vars

\* Time passes, a call that was started goes on, and the loops that call Step, Replay.Run
\* and RetryOverdue are kept going.  Nothing makes a client submit or the journal fail.
Fairness ==
  /\ WF_vars(Tick)
  /\ \A c \in Clients : WF_vars(SubmitStep(c))
  /\ \A w \in Workers : WF_vars(WorkerStep(w))
  /\ \A w \in Steppers : WF_vars(StepBegin(w))
  /\ \A r \in Replayers : WF_vars(ReplayStep(r))
  /\ \A s \in Supervisors : WF_vars(SweepStep(s))

FairSpec == Spec /\ Fairness

==============================================================================
