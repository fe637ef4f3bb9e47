# RelayDock in TLA+

RelayDock (`src/`, a Go module) accepts webhook events idempotently, keeps them in an
in-memory delivery store and an append-only journal, queues them, delivers them under
leases with retries and per-endpoint circuit breakers, and wraps this core in a "dock"
with a batch window, receipts, expiry, retention, routing and a supervisor.  The modules here
describe what that code does when its goroutines interleave, TLC checks the properties
it should have on small instances, and TLAPS proves nearly all of the safety properties for
every instance.

- `tlc -workers 2 -config MCSteady.cfg MCRelay` checks one run,
- `tlapm RelayProofs.tla` checks the proofs of one module,
- `PROJECT.json` lists the runs, the mutants that show that each property can fail, the
  source lines behind each definition, the hazards, the findings and the theorems.

## 1. Inventory of the system

### Components, their state and operations

| Component | State | Operations that change it | Correct when |
|---|---|---|---|
| `internal/core` | none: `Event`, `Delivery`, the five delivery states | `Validate` | values only |
| `internal/store` (`Memory`) | `deliveries` by id, `reserved` key → id | `Reserve`, `RollbackReservation`, `KeepReservation`, `Acquire`, `Complete`, `Retry`, `Dead`, `ReviveDead` | the two maps agree; leases exclude each other and are fenced by owner and epoch; terminal states are final |
| `internal/journal` | `entries`, `failNext` | `Append`, `RejectNextAppend`; `ReadAfter` copies | what is stored was journaled; the last entry of a delivery tells its state |
| `internal/queue` (`Scheduler`) | a heap and an index `byID`, a capacity | `Schedule`, `PopReady` | never above capacity; one place per id; earliest first |
| `internal/relay/breaker.go` | failures, openUntil, probe per endpoint | `Allow` and the release function it returns, `Reset` | an open circuit refuses; the flag of a probe never outlives its call |
| `internal/relay/service.go` | none of its own | `Submit` | idempotent; all or nothing over store, journal and queue |
| `internal/relay/worker.go` | lease length, attempts | `Step`, `StepFor`, `StepBatch` | at-least-once with bounded attempts; no delivery lost or handled twice |
| `internal/relay/replay.go` | a cursor | `Run`, `RunAll` | skips no pending entry; catches up |
| `internal/batch` window, flusher | window items by id, their order, the times; the flusher's mutex | `Add`, `Remove`, `Flush`, `FlushFor` | an item leaves the window once and reaches one sender |
| `internal/batch/priority.go` | priorities by id | `SetPriority`, `PriorityOrder`, `Take` | the supervisor drains the more urgent item first |
| `internal/receipt` | receipts by id; the ledger's open ids | `Record`; `Open`, `Confirm` | open implies a receipt; a confirmation is final |
| `internal/expiry` | protected event ids, expired ids, last sweep | `Protect`, `Unprotect`, `Scan`, `Sweeper.Run` | an event in flight does not expire |
| `internal/retention` | dead-letter entries and their order, last reap | `TrackDead`, `PurgeExpired`, `PurgeOverCapacity` | the two structures agree; the limits hold |
| `internal/route` registry, planner | endpoints by id, their order | `Register`, `Deregister`, `Enable`, `Disable`, `UpdateHealth`; `Select`, `Fallback`, `Healthy` read | map and order agree; the best usable endpoint is taken |
| `internal/route/health.go` | outcomes per endpoint | `Observe`, `SuccessRate`, `Apply` | a verdict counts every recent outcome, and nobody is blamed without a failure |
| `internal/relaydock/service.go` | wires all of the above | `Submit`, `Dispatch`, `DispatchByEndpoint`, `ConfirmDelivery`, `RetryOverdue`, `TrackDead`, `PurgeDead`, `HealthAdjust`, … | what is in the window was admitted everywhere; sent at most once per admission |
| `internal/relaydock/supervisor.go` | last run | `Run`: requeue, re-confirm, sweep, reap, drain, health | helps the parts above, undoes nothing |

### How they interact

Everything is one process and in memory.  `Submit`, the workers, `Replay.Run`, the
dispatchers, the confirmers and the supervisor are goroutines (or may be: the types are
built for it, with one mutex per component); they share the components above and call
them one at a time, so nothing is atomic across two components.  There are no callbacks
except the release function of the breaker, and no messages: the interactions are

- `Submit`: `Reserve` → `Append` → `Schedule` (the dock: → `Protect` → `Window.Add`), with
  compensations on failure (`RollbackReservation`, in the dock `KeepReservation` and a pop);
- `Worker.Step`: `PopReady` → `Acquire` → `Allow` → `Send` → release → `Complete`, `Dead` or
  `Retry` → `Append` → `Schedule`, with `ReviveDead` when the terminal entry is refused;
- `Replay.Run`: `ReadAfter`, then one `Schedule` per pending entry;
- `RetryOverdue`: a copy of the pending deliveries, then one `Schedule` per due one;
- `Dispatch`: a snapshot of the window, one `Remove` per item, then per item a send,
  `Record`, `Open`, or `TrackDead`;
- `ConfirmDelivery`: `Get` → `Record` → `Confirm` → `Unprotect`;
- `HealthTracker.Apply`, called by the supervisor: a list of the observed endpoints, then per
  endpoint a look at the registry, a judgement that drops old outcomes, and an `UpdateHealth`.

### What is hard

Two components are changed in two steps and a third goroutine sees the state between them;
values read earlier (`now`, the `Delivery` copy, the snapshot of the window, a receipt) are
used later; the journal refuses an append, the queue or the window is full in the middle of
an operation; leases run out while a send is under way; the clock read before a pop is used
after it.  `hazards` in `PROJECT.json` lists each at its line, with the properties that
watch it, or the reason why none does.

## 2. The modules

| Module | Models | Form |
|---|---|---|
| `Core` | `internal/core` | constants, delivery states |
| `DeliveryStore` | `internal/store` | one operator per method of `Memory` |
| `Journal`, `Scheduler`, `Breakers` | journal, queue, breakers | same |
| `Relay` | `internal/relay` and `RetryOverdue` | state machine over those four |
| `RelayProperties` | — | what the relay promises, and the mapping to `Leasing` |
| `Leasing` | — | abstract specification: the life of deliveries under leases |
| `BatchWindow`, `PriorityWindow`, `Receipts`, `Expiry`, `Retention` | the dock's parts | one operator per method |
| `Dock` | `internal/relaydock` | state machine over the store, journal, queue and those five |
| `DockProperties` | — | what the dock promises |
| `Selection` | the loops that filter a slice, in the ledger, the registry and the planner | a recursive function |
| `Registry`, `Health` | `internal/route` | one operator per method; the planner's choices as functions of the registry |
| `Routing` | operators, senders and `Supervisor.Run`'s health part | state machine over those two |
| `RoutingProperties` | — | what routing promises |
| `Station` | `cmd/relaydock`'s wiring | `Dock` and `Relay` (`INSTANCE`) on one store, journal and queue, and a restart |
| `StationProperties` | — | what dock and relay promise together |
| `MCRelay`, `MCDock`, `MCRouting`, `MCStation` | — | instances for TLC, with the `MC*.cfg` files |
| `RelayProofs` | — | type correctness of `Relay`, and what needs no assumption on the ids |
| `AdmissionProofs` | — | store, journal and queue agree |
| `RefinementProofs` | — | leases are fenced, and `Relay` implements `Leasing` |
| `SelectionProofs` | — | what a filter keeps, and that every list can be sorted |
| `DockProofs` | — | safety theorems of `Dock`: places, outcomes, records, protection |
| `DockOrder` | — | the types of `Dock` and its two orders |
| `RoutingProofs` | — | safety theorems of `Routing` |
| `StationProofs` | — | safety theorems of `Station`, from those of the relay and the dock |

### Correspondence

*One action is one call on a shared component together with the goroutine's local code up
to the next such call.*  Each component guards all its state with one mutex, so a call is
atomic; nothing larger is.  A goroutine is a record (`client[c]`, `worker[w]`, `replay[r]`,
`sweep[s]`, `dispatch[d]`, `confirm[f]`, `super[s]`) whose `pc` names the call that comes
next and whose other fields are its local variables, stale ones included.  For instance

| `Worker.Step` | action | `pc` before → after |
|---|---|---|
| `now := w.Now()` | `StepBegin` | idle → pop |
| `w.Queue.PopReady(now)` | `StepPop` | pop → acquire, idle |
| `w.Store.Acquire(id, w.ID, now, w.LeaseTTL)` | `StepAcquire` | acquire → allow, idle |
| `w.Breakers.Allow(endpoint, now)` | `StepAllow` | allow → send, retryOpen |
| `w.Sender.Send`, `release(err == nil)` | `SendReturns` | send → complete, dead, retrySend |
| `w.Store.Complete` / `Dead` / `Retry` | `StepComplete`, `StepDead`, `StepRetry` | → logDelivered, logDead, logRetry, schedule |
| `w.Journal.Append` | `StepLogDelivered`, `StepLogDead`, `StepLogRetry` | → idle, revive, schedule |
| `w.Store.ReviveDead` | `StepRevive` | revive → schedule |
| `w.Queue.Schedule` | `StepSchedule` | schedule → idle |

`StepFor` is the same with `forced` set: it begins at `Acquire` with an id of the caller's
choice, and after a failed send it returns.  `StepBatch` is a loop of `StepFor`.  A method
that can refuse is two operators, the guard and the update, and the caller's action has a
disjunct for each answer.

Abstractions, and why they lose nothing the properties see:

- *Time* is whole seconds, 0 is the zero `time.Time`, `Tick` advances it by one.  In `Relay`
  `Now` is read where the code reads it; in `Dock` together with the call it is an argument of.
- *The heap* of the scheduler is the function from queued ids to ready times; `PopReady`
  takes an item that no other precedes, any of them on a tie.
- *The send* has any outcome at any time; its latency is the time that passes before
  `SendReturns`.
- *Delivery ids*: `IdOf` is any function of the key (in the dock, of the selected endpoint
  and the key); the code's is a 32-bit hash.  Properties that need it injective say so.
- *Routing* in the dock is `\E s \in Specs`: whatever the planner selects.  The dock reads
  nothing else of it, and routing nothing of the dock but the outcomes of sends, which `Routing`
  takes to be any; so the two are checked apart.
- *Observations* of an endpoint are a set, numbered so that equal ones count twice: only their
  number matters.  A tenant's candidates are sorted once, by the planner's order; `ForTenant`'s
  order by id, which that sort undoes, is left out.
- *The argument of `Supervisor.Run`* is, in `Dock` and in `Routing`, the clock plus a lead from
  `RunLeads`: the code takes any `now` from its caller, and both callers in the repository
  (`cmd/relaydock/main.go:74`, `public_test.go:112`) run a minute ahead, the whole health window.
  In `Routing` a lead of one is the whole window too.
- *Observation variables*: `Routing`'s `history` (every outcome ever reported) and `judged` (the
  furthest time a pass judged an endpoint with) are read by no action; properties need them.
- *The composition* `Station` leaves out the calls of the dock that the relay's goroutines neither
  see nor are seen by (`Dispatch` and `ConfirmDelivery` only look deliveries up), and freezes the
  clock: leases, retries and timeouts are `Relay`'s and `Dock`'s.
- *Ready and the snapshot* of a flush are one action: a window that is not empty at the
  snapshot was ready, and an empty snapshot ends the call as `Ready` does.
- `Leasing` knows none of this: deliveries are admitted, granted for a time, and delivered, put
  back or given up by their latest holder.  It is stated for the case without failures, because
  a rollback of a delivery in use breaks it as it breaks `LeaseMutex`.
- Payloads, URLs, error texts, and the histories kept only for reports are left out.

## 3. What TLC checks

Deadlock is checked in every run but `routing`, where operators, senders and passes are all
counted and the system really comes to rest.  The bounds: clocks stop at `MaxTime`; calls of
Submit are counted (`MaxSubmits`) and none starts after `LastCall`, so that what was admitted
can run its course; injected rejections (`MaxRejects`), and in `Routing` outcomes, passes and
changes by operators (`MaxSends`, `MaxPasses`, `MaxChanges`), are counted.  The worker,
dispatcher and supervisor loops are not bounded.

| Run (cfg) | Instance | Properties |
|---|---|---|
| admission (`MCAdmission`) | 2 clients, 3 events under 2 keys, 2 workers, a queue of one place, one rejection | `TypeOK`, `ReservationsAgree`, `AdmissionJournaled`, `OneHandler`, `DeadIsJournaled`, `PendingIsTracked`, `JournalTracksState` |
| steady (`MCSteady`) | one delivery; 2 queue workers, a `StepFor` worker, replay, sweep; no rejection, room in the queue | `LeaseMutex`, `LeaseCopyCurrent`, `DeadIsExhausted`, `ProbeHasCall`, `DeliveredIsFinal`, `TakeoverAfterExpiry`, `ImplementsLeasing` |
| liveness (`MCLiveness`) | one delivery, worker, replay, sweep, one rejection, under `FairSpec` | `NothingIsStuck` |
| dock (`MCDock`) | 2 deliveries of different priority, a client, 2 dispatchers, a confirmer, a supervisor one ahead of the clock, one id reported dead | `InFlightProtected`, `OpenHasReceipt`, `OneOutcome`, `SentOnce`, `OrderMatchesEntries`, `DrainsByPriority` |
| dock_full (`MCDockFull`) | the same goroutines, 3 deliveries for one place in the queue and one in the window, one rejection, 4 submissions; the supervisor one ahead of a clock that stands still | `DockTypeOK`, `SentOnce`, `BatchIsAdmitted`, `ConfirmedIsFinal` |
| routing (`MCRouting`) | 2 endpoint ids, a tenant, 2 specifications; 3 changes by operators, 2 outcomes, 2 passes at the clock's time or a window ahead | `RoutingTypeOK`, `OrderedIsRegistry`, `PlannerIsRight`, `VerdictsFromHistory`, `NoBlameWithoutFailure` |
| station (`MCStation`) | a client of the dock, a relay worker, replay, sweep; 2 deliveries for one place in the queue, a window of one, one rejection, under `FairStationSpec` | `StationTypeOK`, `BatchIsAdmitted`, `ReplaySkipsNothing`, `NothingIsLeftBehind`, `ReplayCatchesUp` |

What the runs show:

- `admission`: with duplicate submissions, a full queue and a rejected append at any point, the
  store and the journal agree, a delivery is in one place at a time, and a pending delivery that
  no goroutine and no queue knows has a refused append or a full queue behind it, and a last entry
  that is not the delivery's state one of those or a Submit that rolled back late.
- `steady`: leases that run out at any point of the holder's work never let two workers hold a
  delivery, nor a late holder write to it.  Nothing is rejected here, so `DeadIsExhausted` does not
  meet `ReviveDead` (its theorem does), and `ProbeHasCall` has one delivery's calls to go by.
- `dock` and `dock_full`: client, flusher, supervisor and callers of `TrackDead` pass a delivery
  from hand to hand without losing its protection, sending it twice, or giving it two outcomes.
  `InFlightProtected` is stated for distinct event ids: protection is by event id, and the first
  of two deliveries that share one ends it for both.  `OneOutcome` exempts the reported ids.
  `dock_full` needs three deliveries to fill a window of one behind a queue of one: a rejected
  append pops the first from the queue while it waits in the window, the third then passes the
  queue and is refused by the window (`DockTypeOK`), and the fourth Submit repeats it (`SentOnce`).
- `routing`: the planner's filters and sorts, in all registries reached, give the best usable
  endpoint; a supervision pass that works through a list copied before operators deregister and
  re-register an endpoint neither corrupts the registry nor blames the wrong outcome.
  Judging prunes: a pass run ahead of the clock by the window, as the demo and the tests run it,
  drops all that was reported so far, and a pass at the clock's time that comes after it finds the
  endpoint without news.  So `VerdictsFromHistory` says of which passes the verdict is the one the
  whole history gives: of every pass that no pass with a later time preceded at the endpoint.
- `station`: the mishaps of one client (a popped delivery of another, `service.go:115`; a rolled
  back reservation whose entry stays in the journal, `service.go:119`) are healed by the overdue
  sweep or skipped by the workers, unless the queue is full of deliveries that are not due.
  Replay meets that full queue in the middle of the journal, with the place taken by the other
  delivery, and still catches up (`ReplayCatchesUp`).

Why the bounds are enough to be interesting: with `LeaseTTL = 1` and a clock that starts at 1 and
reaches 2 a lease runs out and is taken over within a run; `MaxAttempts` of 1 or 2 lets deliveries
die and retry; `Threshold = Cooldown = 1` opens a circuit with the first failure and half-opens
it a tick later; two submissions of one key meet at every point of each other; one rejection
can hit any append (admission, retry, delivered, dead); a queue or window one smaller than the
number of deliveries is full at every point where that matters; three changes suffice to
register, deregister and register an endpoint again within a pass, and a window of one second
with times 1 and 2 ages an outcome.  A mutant is recorded for every
property (`mutants` in `PROJECT.json`): a definition named for the slip it makes, such as
`AcquirableIgnoringLease` or `ReplayEntrySkipsFull`, under which the run finds the property
violated.  Symmetry is used for workers, clients, dispatchers and supervisors in the runs without
liveness; nothing in the modules tells them apart.

`steady` rules failures out because `LeaseMutex`, `DeliveredIsFinal` and the refinement are only
promised then; `fencing` below is what happens to `LeaseMutex` otherwise.  The other properties
of that run hold with failures too, which section 4 proves.

### Fairness

`FairSpec` makes `Tick`, the continuation of every started call (`SubmitStep`, `WorkerStep`,
`ReplayStep`, `SweepStep`) and the beginning of `Step`, of a replay run and of a sweep weakly
fair.  The code justifies the first two by being ordinary goroutines that return from every
call (a send returns: `Sender` is given a context; its outcome is any).  The loops that call
`Step`, `Replay.Run` and `RetryOverdue` are the caller's, as in `cmd/relaydock` and
`Supervisor.Run`; the properties say what they achieve if they are kept running.  No fairness
makes a client submit, the journal fail or an operator reset a breaker, and no step needs
strong fairness.  `NothingIsStuck` says that a due or leased delivery comes to an outcome or a
later retry; it does not say that it is delivered, which a sender that keeps failing prevents,
and it is checked with room in the queue, because within the bounded clock a full queue need
not drain.  `StationFairness` is the same for the composition, with its clock standing still:
`NothingIsLeftBehind` and `ReplayCatchesUp` therefore allow a queue full of deliveries that are not
due yet.  A retried delivery is never due again under such a clock: retries that meet a full queue
while time passes are in neither liveness run.

### Disagreements found

Each is a run that TLC ends with a counterexample.

- `fencing` (`LeaseMutex`): one rejected append suffices to break the fencing of leases that
  the source's README promises.  `Submit` reserves; `RetryOverdue`, which scans the store and
  not the journal, queues the delivery; a worker leases and sends it; the append is refused and
  `Submit` rolls the reservation back, deleting the leased record; a second `Submit` of the key
  creates the same id with epoch 0, and a second worker acquires it with the first worker's epoch.
- `step_for` (`ExpiredLeaseEnds`): `StepFor` returns after a failed send with the lease in place
  and nothing queued; `RetryOverdue` looks at pending deliveries only, so the delivery stays
  leased for ever unless somebody names its id again.
- `resubmit` (`DuplicateFindsDelivery`): when the journal refuses an admission the dock keeps the
  key reserved and deletes the delivery; every later Submit of the event reports success with an
  empty delivery.
- `flush_race` (`FailedFlushTakesNothing`): the supervisor removes items from the window without
  the flusher's lock; a flush then fails half-way and the items it has removed are neither sent
  nor tracked.
- `restart` (`ReplayedWorkIsThere`): the source's README says journaled work can be replayed after
  a restart.  Replay puts the ids of pending entries into the queue and does nothing else; the
  store that a restart emptied is not rebuilt, so the worker that pops such an id finds no
  delivery and drops it.

Met on the way, and modelled as the code has it:

- `Planner.Fallback` returns the best endpoint other than the preferred one; its comment
  (`planner.go:77`) speaks of the next after it, which differs when the preferred is not the best.
  `PlannerIsRight` speaks of the endpoint that `Select` took, where the two agree.
- The registry's comment promises a stable registration order; `ForTenant` sorts by id.
- "Higher priorities first" (`priority.go:9`) are the lower numbers, as its tests have it.
- No news counts as good news: `Apply` adds one to the score of an endpoint without recent
  outcomes at every pass, so scores grow without bound.
- `SubmitBatch` returns existing deliveries too, not only the newly created ones its comment names.

## 4. What TLAPS proves

For all values of the constants that satisfy the modules' assumptions (`CoreConstants`,
`CapacityIsNat`, `BreakerConstants`, `RelayConstants`, `DockConstants` and those of the dock's
parts, `RegistryConstants`, `HealthConstants`, `RoutingConstants`, `StationConstants`), any number of
goroutines included, and finite or infinite sets of events, keys and ids:

| Theorem | Module | States |
|---|---|---|
| `TypeCorrect` | `RelayProofs` | `[]TypeOK` |
| `ReplayQueuesEveryPending` | `RelayProofs` | `ReplaySkipsNothing` |
| `ProbesHaveCalls` | `RelayProofs` | `[]ProbeHasCall` |
| `LeasesRunOut` | `RelayProofs` | `TakeoverAfterExpiry` |
| `LeaseCopies` | `RelayProofs` | `[]LeaseCopyCurrent` |
| `DeadAreExhausted` | `RelayProofs` | `[]DeadIsExhausted` |
| `DeadAreJournaled` | `RelayProofs` | `[]DeadIsJournaled` |
| `MapsAgree` | `AdmissionProofs` | `[]ReservationsAgree`, if `IdsDistinct` |
| `AdmissionsAreJournaled` | `AdmissionProofs` | `[]AdmissionJournaled`, if `IdsDistinct` |
| `HandledOnce` | `AdmissionProofs` | `[]OneHandler`, if `IdsDistinct` and `QueueOnly` |
| `LossesHaveCauses` | `AdmissionProofs` | `PendingIsTracked`, if `IdsDistinct` and `QueueOnly` |
| `JournalKeepsUp` | `AdmissionProofs` | `JournalTracksState`, if `IdsDistinct` and `QueueOnly` |
| `LeasesAreFenced` | `RefinementProofs` | `[]LeaseMutex`, if `IdsDistinct` and `NoFailures` |
| `DeliveredStays` | `RefinementProofs` | `DeliveredIsFinal`, if `IdsDistinct` and `NoFailures` |
| `RelayImplementsLeasing` | `RefinementProofs` | `ImplementsLeasing`, if `IdsDistinct` and `NoFailures` |
| `CustodyHolds` | `DockProofs` | `[](Shapes /\ Custody)`, if `IdsTellKeys` |
| `SentAtMostOnce` | `DockProofs` | `[]SentOnce`, if `IdsTellKeys` |
| `OutcomesExclude` | `DockProofs` | `[]OneOutcome`, if `IdsTellKeys` |
| `OpensAreRecorded` | `DockProofs` | `[]OpenHasReceipt`, if `IdsTellKeys` |
| `ConfirmationsStay` | `DockProofs` | `ConfirmedIsFinal`, if `IdsTellKeys` |
| `BatchesAreAdmitted` | `DockProofs` | `[]BatchIsAdmitted`, if `IdsTellKeys` |
| `InFlightIsProtected` | `DockProofs` | `[]InFlightProtected`, if `IdsTellKeys` and `EventsTellKeys` |
| `DockTypesHold` | `DockOrder` | `[]DockTypeOK` |
| `LedgerKeepsOrder` | `DockOrder` | `[]OrderMatchesEntries` |
| `DrainsInOrder` | `DockOrder` | `DrainsByPriority`, if `IdsTellKeys` |
| `TrackerHolds` | `RoutingProofs` | `[](Forms /\ Faithful /\ Justified)` |
| `TrackerRemembers` | `RoutingProofs` | `VerdictsFromHistory` |
| `BlameIsEarned` | `RoutingProofs` | `NoBlameWithoutFailure` |
| `ListMatchesMap` | `RoutingProofs` | `[]OrderedIsRegistry` |
| `RoutingTypes` | `RoutingProofs` | `[]RoutingTypeOK` |
| `PlannerChoosesRight` | `RoutingProofs` | `[]PlannerIsRight` |
| `StationTypesCorrect` | `StationProofs` | `[]StationTypeOK` |
| `ReplayQueuesTheDocksEntries` | `StationProofs` | `ReplaySkipsNothing`, of the composition |
| `BatchStaysAdmitted` | `StationProofs` | `[]BatchIsAdmitted`, of the composition, if `IdsTellKeys` |
| `RelayKeepsItsWord` | `StationProofs` | `[]` of `ProbeHasCall`, `LeaseCopyCurrent`, `DeadIsExhausted`, `DeadIsJournaled`, of the composition |

`IdsDistinct` says that `IdOf` is injective; `NoFailures` that the journal rejects nothing and
the queue has a place for every id.  Both are assumptions of the theorems, not of the modules:
the run `fencing` shows that `LeasesAreFenced` fails without `NoFailures`.  `QueueOnly` says
that there are no `StepFor` workers, replays and sweeps, which bring a delivery to a second worker;
rejected appends and a full queue are included.  `IdsTellKeys` is
`IdsDistinct` for the dock, where an id is made of the endpoint and the key: ids of different keys
differ, whatever endpoints were selected.  The theorems about the dock need no `NoFailures`: they
hold with rejected appends and a full queue.  `EventsTellKeys` says that events of different keys
have different event ids, because protection is by event id.

The arguments:

- `TypeOK` is inductive as it stands, because it contains the two facts the step proofs need:
  a call in progress has its event or id, and `cursor <= upTo <= Len(journal)` for replays
  (`ReplayEntry` reads `journal[cursor + 1]`).  There is one lemma for each component
  (`StoreTypes`, `JournalTypes`, …), one for each kind of goroutine, and `TypeNext` puts them
  together.  The bound on the queue needs the cardinality theorems.
- `RelayProofs` then says what a step may do to one worker (`WorkerChanges`, `WorkerKeeps`), one
  delivery (`DeliveryChanges`: it becomes leased or dead only by `StepAcquire` or `StepDead` of a
  worker that handles it), one probe flag and the journal.  `LeaseCopyCurrent` is then inductive:
  a lease in the store with this owner and epoch was written by the worker's own `Acquire`.
  `DeadIsExhausted` follows from it and `LastAttempt` (a worker about to give up is at its last
  attempt by its copy).  `TakeoverAfterExpiry` needs `TimesRead`: no worker holds a time that is
  still to come.
- `AdmissionProofs` strengthens `ReservationsAgree` with `OwnIdReserved` (a key is reserved only
  for its own id), without which a rollback could clear the reservation of another key.
  Its second part is one more inductive invariant, `OneHolder`: a delivery is with one client, with
  one worker or in the queue, and the store's record is what that place stands for (`Stage`: a
  worker before `Acquire` finds it pending and due, one with a lease is the one the store names,
  and so on; a queued one is pending with its ready time).  So no answer of the store can surprise
  a worker, and the queue, the place of a delivery and its last entry change together:
  `ClientMove` and `WorkerMove` say so once for all steps.
- `RefinementProofs` shows that nothing is rolled back (`NothingRolledBack`), and then that a worker
  whose lease has not run out by the clock is the one the store names (`StandingLeases`): the
  second worker's `now` is at most the clock, so `Acquire` refuses it.  This is the invariant
  `LeaseMutex` is too weak to carry by itself.
- It then maps the store's records to `phase`, `holder` and `attempts` of `Leasing`, the
  workers between `Acquire` and the end of their call to its `grants`, and the clock to its `time`.
  The steps that matter are `SubmitReserve` (the id is new, by `ReservationsAgree`),
  `StepAcquire` (no grant of the delivery has time left, by `StandingLeases`) and `StepDead` (the
  attempt counted in the store is the last, by `LeaseCopyCurrent` and `LastAttempt`); a refused
  write and `StepFor`'s return after a failed send are `Abandon`.

- `DockProofs` rests on one inductive invariant, `Custody`: a delivery has one place (`OnePlace`:
  with one client from its reservation to `Add`, in the window, with one dispatcher until its
  receipt, or settled), and a key is reserved for an id of its own as long as the id is anywhere
  (`KeysAreClaimed`).  `OnePlace` alone is not inductive: that a client's new id is in no place
  follows from its key being free (`FreshId`).  `ReceiptsFirst` adds that what is open or being
  confirmed has its receipt, and that nothing with a receipt was given up; it makes the
  confirmer's late write harmless, because nobody holds the delivery any more.  Steps that bring
  nothing to a place (`NothingNew`: supervisors, callers of the ledger, the clock) are
  dealt with together.
- Its second part adds the store and the journal (`Records`): past its client, a delivery is in the
  store under its key, since only the client that still holds it takes it out, and past the append
  it has its entry.  `Guarded` then follows a delivery's protection from `Protect` to the confirmer
  that closed it: when that one unprotects the event, nobody sends or opens the delivery again,
  and any other delivery of the same event id would have the same key, hence be the same.
- `DockOrder` has the types the runs check, without an assumption on the ids: `Types` adds to
  `Shapes` what the goroutines carry (`SuperFits`: what a supervisor has to handle is what its part
  of the pass handles) and `LedgerInOrder`, which is `OrderMatchesEntries` in a form that is
  inductive: the list of dead letters names each entry once (`IsInjective`), and what the purge
  drops from the list is what it drops from the map.  `DrainsByPriority` needs `Ranks`: a delivery
  in the window has the priority its event was submitted with, and so has every copy a supervisor
  took of it, because a priority is set before the window has the delivery and by nobody else
  while it waits, the delivery being in one place (`Custody`).  An item that left the window after
  the copy does not come back (`Past`).
- `SelectionProofs` says what the filters keep (`SelectedProperties`) and that a transitive and
  irreflexive relation can put any list in order (`Sortable`, by insertion), which the planner's
  `Sorted`, a CHOOSE, needs to choose anything.  The library's induction theorems are of no use
  here (section on what is only model-checked), so these lemmas are by the least counterexample:
  a set of naturals that is not empty has a least element (`Least`), hence what holds of 0 and goes
  from n - 1 to n holds up to the length (`Climbs`), for a property that is given as a set.
- `RoutingProofs` carries two facts about the tracker.  `Faithful`: it keeps only reported
  outcomes, and all that are recent at the furthest time any pass has judged the endpoint with
  (`judged`).  No pass is assumed to be at or behind the clock: what `Judge` drops is old at a time
  that `judged` then has reached, so a later pass with at least that time misses nothing
  (`VerdictsFromHistory`).  `Justified`: a pass that judged an
  endpoint bad has a failure in the history that was recent at the pass's time, because a share
  of successes below one half means that not all outcomes are successes (`BadVerdict`); the
  endpoint it then writes to is the one it judged (`IsNext`).  `Orderly` is the registry's
  invariant: no id twice in the list, which is what makes `RemoveFirst` remove the id
  (`FirstRemoved`) and not merely one of its places.  `PlannerIsRight` follows from it and from
  `SortedProperties`: the candidates are the tenant's enabled endpoints, none after one it is
  preferred to, so the first of them, and the first other than the one to replace, is the best
  (`FirstIsBest`).  With `Listed` (a pass at an endpoint still has
  it on its list, and the tracker never drops an endpoint it has seen) they give the types.

- `StationProofs` puts the two together without proving either again.  The dock's lemmas are about
  steps of its clients and hold as they stand; the relay's are taken over by an INSTANCE of
  `AdmissionProofs` with the dock's store, journal and queue and no clients of its own (`A`; the
  first lemmas carry facts between it and the relay `R` of `Station`).  What is left to show is
  that each side is harmless to the other.  To the dock, a step of the relay is one `Elsewhere`: it
  settles deliveries, but takes none out of the store, changes no event, removes no entry and
  touches no call and no part of the dock (`RelayKeeps`); so `Custody` and `Records` stay, and a
  batch stays admitted although workers complete and give up its deliveries meanwhile.  To the
  relay, a step of the dock keeps the types of what they share (`DockKeepsRelayTypes`), writes only
  records that are pending or absent, and appends at most one entry (`ClientWrites`); so the
  invariants behind `RelayKeepsItsWord` stay, with the dock's own ways to fail an admission (a key
  that stays reserved for a deleted record, an id popped for another) included.  What the relay
  promises only if the store's two maps agree does not carry over: the dock breaks that
  agreement (the run `resubmit`).

Only model-checked: liveness (`NothingIsStuck`, `ReplayCatchesUp`, `NothingIsLeftBehind`), which is
out of reach of the prover, as are ENABLED and the theorems of the library that take an operator
as a parameter, those of induction among them.  Every invariant and every action property of the
runs that pass is the subject of a theorem.

## 5. What is not modelled

- `core/errors.go`, `core/status.go` and the reports and listings: formatting, no state.
- `internal/receipt/verifier.go`: a digest of its arguments, no state.
- `cmd/relaydock`: its wiring is `Station`; the one order of calls it makes and its output are left
  out.
- In `Station`: `StepFor`, the dispatchers, confirmers and supervisors, and the passing of time.
  Each is in `Relay` or `Dock`; together they are beyond what TLC can enumerate.
- Data races: the receipt ledger and the priority window are maps without a lock; the modules
  take each access as atomic, which the code does not ensure when goroutines share them.
- The heap of the scheduler and the hash behind delivery ids, abstracted as section 2 says.
- Numeric ends: `ReadAfter` with a limit near the largest `int`, and `BackoffFor` at attempts
  beyond those a bounded clock reaches (both listed under `hazards`).
- `Worker.Step`'s and `Submit`'s contexts are done or not when the code looks at them, which
  nothing in the properties depends on: a call that returns at once changes nothing.

## 6. Plan

The model is complete up to section 5, and so are the proofs of the safety properties the runs
check.  What is left is proof about the composition: that without rejected appends, and with room
in the queue, the relay of `Station` implements `Leasing` too, from `StandingLeases` on the relay's
side and, on the dock's, that nothing is then kept or rolled back.
