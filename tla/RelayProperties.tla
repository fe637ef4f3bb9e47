-------------------------- MODULE RelayProperties ---------------------------
(***************************************************************************)
(* What the relay promises: properties of Relay.  Those of the first part  *)
(* hold for every mix of goroutines and with failing appends and a full    *)
(* queue; the later parts say what each of them assumes.                   *)
(***************************************************************************)
EXTENDS Relay

\* The worker has acquired a delivery and has not yet released it.
Holding(w) ==
  worker[w].pc \in {"allow", "send", "retryOpen", "retrySend", "complete", "dead"}

KeyOfDelivery(id) == KeyOf[deliveries[id].event]

------------------------------------------------------------------------------
(* Idempotent admission *)

\* The two maps of the store agree: a reserved key names a stored delivery of an event with
\* that key, and the key of every stored delivery is reserved for it.  (Reserve writes both
\* maps and RollbackReservation clears both, from goroutines that read neither in between.)
ReservationsAgree ==
  /\ \A k \in Keys : reserved[k] # NoId =>
       /\ Stored(reserved[k])
       /\ KeyOfDelivery(reserved[k]) = k
  /\ \A id \in Ids : Stored(id) => reserved[KeyOfDelivery(id)] = id

\* Whoever has reserved a key, and has neither been admitted nor rolled back.
Admitting(c) == client[c].pc \in {"append", "rollback"}

\* Every delivery a worker can find was journaled as pending, except while the Submit that
\* reserved it has not heard from the journal or is about to roll it back.
AdmissionJournaled ==
  \A id \in Ids : Stored(id) =>
    \/ HasEntry(id, "pending")
    \/ \E c \in Clients : Admitting(c) /\ SubmissionId(c) = id

------------------------------------------------------------------------------
(* Leases *)

\* While a worker's lease stands, the copy of the delivery that Acquire gave it is current:
\* what it decides from the copy (the event it sends, whether this attempt is the last, when
\* the lease runs out) is what it would decide from the store.
LeaseCopyCurrent ==
  \A w \in Workers :
    Holding(w) /\ HoldsLease(worker[w].id, w, worker[w].epoch) =>
      /\ deliveries[worker[w].id].event = worker[w].event
      /\ deliveries[worker[w].id].attempt = worker[w].attempt
      /\ deliveries[worker[w].id].leaseUntil = worker[w].now + LeaseTTL

\* A delivery that is leased passes from one lease to the next only once the first ran out,
\* whatever time the second worker had read and however long ago.
TakeoverAfterExpiry ==
  [][\A id \in Ids :
       /\ deliveries[id].state = "leased" /\ deliveries'[id].state = "leased"
       /\ deliveries[id].leaseEpoch # deliveries'[id].leaseEpoch
       => deliveries[id].leaseUntil <= clock]_vars

------------------------------------------------------------------------------
(* Giving up *)

\* A delivery is dead only after MaxAttempts attempts, those a takeover or an unjournaled
\* death interrupted included.
DeadIsExhausted ==
  \A id \in Ids : deliveries[id].state = "dead" => deliveries[id].attempt >= MaxAttempts

\* A dead delivery has its terminal journal entry, or the worker that gave it up is still
\* appending it or reviving the delivery because the append was rejected.
DeadIsJournaled ==
  \A id \in Ids : deliveries[id].state = "dead" =>
    \/ HasEntry(id, "dead")
    \/ \E w \in Workers : worker[w].pc \in {"logDead", "revive"} /\ worker[w].id = id

------------------------------------------------------------------------------
(* Circuit breakers *)

\* A half-open circuit refuses every other caller, so the probe it waits for must be a send
\* in progress to that endpoint: a probe flag that outlives its call shuts the endpoint off
\* for good.
ProbeHasCall ==
  \A e \in Endpoints : breakers[e].probe =>
    \E w \in Workers : worker[w].pc = "send" /\ EndpointOf[worker[w].event] = e

------------------------------------------------------------------------------
(* Replay *)

\* Replay's cursor passes a pending entry only in the step that put its delivery in the
\* queue, so a run cut short by a full queue is taken up again at the entry it stopped at.
ReplaySkipsNothing ==
  [][\A r \in Replayers : \A i \in DOMAIN journal :
       /\ replay[r].cursor < i /\ i <= replay'[r].cursor
       /\ journal[i].transition = "pending"
       => journal[i].delivery \in DOMAIN queue']_vars

------------------------------------------------------------------------------
(* When no append is rejected and the queue holds every delivery, nothing  *)
(* is rolled back.                                                         *)

\* The worker's lease has not run out.
Unexpired(w) == worker[w].now + LeaseTTL > clock

\* Delivery leases are fenced: two workers never both work on a delivery under a lease that
\* has not run out, however often the supervisor, Replay and StepFor bring the delivery up.
LeaseMutex ==
  \A v, w \in Workers :
    v # w /\ Holding(v) /\ Holding(w) /\ worker[v].id = worker[w].id
      => ~(Unexpired(v) /\ Unexpired(w))

\* A delivery that was delivered stays delivered: no duplicate submission, replayed entry,
\* overdue sweep or late worker brings it back.
DeliveredIsFinal ==
  [][\A id \in Ids :
       deliveries[id].state = "delivered" => deliveries'[id].state = "delivered"]_vars

\* Leasing says the whole of it, with the calls of Relay cut down to these few steps.
Phases ==
  [id \in Ids |-> IF ~Stored(id) THEN "none" ELSE IF Terminal(id) THEN deliveries[id].state
                  ELSE "open"]

GrantOf(w) == [owner |-> w, id |-> worker[w].id, until |-> worker[w].now + LeaseTTL]

Grants == {GrantOf(w) : w \in {v \in Workers : Holding(v)}}

Holders == [id \in Ids |-> deliveries[id].leaseOwner]

FailedAttempts == [id \in Ids |-> deliveries[id].attempt]

L == INSTANCE Leasing WITH
       Owners <- Workers, Nobody <- NoOwner, Term <- LeaseTTL, phase <- Phases,
       holder <- Holders, attempts <- FailedAttempts, grants <- Grants, time <- clock

\* The store, the queue, the journal and the goroutines' stale copies together do what
\* Leasing does: every write of Memory to a delivery is a step its latest holder may take,
\* attempts are counted in the store once per failure, and no call does anything else.
ImplementsLeasing == L!Spec

------------------------------------------------------------------------------
(* When only Submit and Step run, the queue is the one way a worker comes  *)
(* by a delivery.                                                          *)

ClientTracks(c, id) ==
  /\ client[c].pc \in {"append", "schedule", "rollback", "rollbackFull"}
  /\ SubmissionId(c) = id

WorkerTracks(w, id) == worker[w].pc \notin {"idle", "pop"} /\ worker[w].id = id

\* A delivery is in one place at a time: in the queue, with the client that is admitting it,
\* or with one worker.  Rejected appends and a full queue may lose it, nothing doubles it.
OneHandler ==
  \A id \in Ids :
    LET clients == {c \in Clients : ClientTracks(c, id)}
        workers == {w \in Workers : WorkerTracks(w, id)}
        queued == {id} \cap Queued IN
    Cardinality(clients) + Cardinality(workers) + Cardinality(queued) <= 1

\* The journal refused an append in this step.
Refusal == failNext /\ ~failNext'

\* A pending delivery that is neither in the queue nor with a goroutine that will schedule it.
Lost(id) ==
  /\ deliveries[id].state = "pending"
  /\ id \notin Queued
  /\ ~\E c \in Clients : ClientTracks(c, id)
  /\ ~\E w \in Workers : WorkerTracks(w, id)

\* Nothing else loses a delivery: it gets lost only in a step in which the journal refused an
\* append or the queue had no room for it.
PendingIsTracked == [][\A id \in Ids : Lost(id)' => Lost(id) \/ Refusal \/ ~HasRoom(id)]_vars

\* Nobody is about to append an entry for a stored delivery, and the last entry about it does
\* not say what the store says: pending until it is terminal.
Misjournaled(id) ==
  /\ Stored(id)
  /\ ~\E c \in Clients : Admitting(c) /\ SubmissionId(c) = id
  /\ ~\E w \in Workers :
        worker[w].pc \in {"logDelivered", "logDead", "logRetry"} /\ worker[w].id = id
  /\ ~LastTransitionIs(id, IF Terminal(id) THEN deliveries[id].state ELSE "pending")

\* The journal falls out of step with the store only where it refused an append (a delivery
\* that was revived for it included), or where a Submit that was rolled back because of a full
\* queue appends its terminal entry after another Submit has admitted the same delivery.
JournalTracksState ==
  [][\A id \in Ids : Misjournaled(id)' =>
       \/ Misjournaled(id)
       \/ Refusal
       \/ \E w \in Workers : worker[w].pc = "revive" /\ worker[w].id = id
       \/ \E c \in Clients : /\ client[c].pc = "logDead" /\ client'[c].pc = "idle"
                             /\ SubmissionId(c) = id]_vars

------------------------------------------------------------------------------
(* Liveness, under FairSpec *)

\* Work that could go on now: a delivery that is due, or that a worker has leased.
Unsettled(id) ==
  \/ deliveries[id].state = "pending" /\ deliveries[id].nextAttempt <= clock
  \/ deliveries[id].state = "leased"

\* Steps and the supervisor's sweep between them get to every delivery that is due, and
\* every lease ends, by an outcome or by a retry later on; also when the journal rejected
\* an append or an id was popped from the queue too early.
NothingIsStuck == \A id \in Ids : Unsettled(id) ~> ~Unsettled(id)

\* README.md of the sources: the core "schedules retries", and the supervisor "requeues
\* overdue deliveries".  A delivery whose lease ran out does not stay leased for ever.
\* StepFor breaks this: after a failed send it returns with the lease in place, and
\* RetryOverdue looks at pending deliveries only.
ExpiredLeaseEnds ==
  \A id \in Ids :
    (deliveries[id].state = "leased" /\ deliveries[id].leaseUntil <= clock)
      ~> deliveries[id].state # "leased"

==============================================================================
