---------------------------- MODULE DeliveryStore ----------------------------
(***************************************************************************)
(* The delivery table of internal/store (Memory) and the records it holds  *)
(* (core.Delivery).  Every operation below runs under Memory.mu in the     *)
(* code, so each is one atomic action; the modules that extend this one    *)
(* conjoin them with the state of the goroutine that makes the call.       *)
(*                                                                         *)
(* An operation that can be refused is split in two: a predicate that is   *)
(* its guard (the early return of the code is its negation) and the update *)
(* made when the guard holds.                                              *)
(***************************************************************************)
EXTENDS Core

CONSTANT NoOwner \* the empty LeaseOwner

VARIABLES
  deliveries, \* Memory.deliveries; an id that is not in the map reads as ZeroDelivery
  reserved    \* Memory.reserved: key -> delivery id, NoId when the key is free

storeVars == <<deliveries, reserved>>

\* ID and LastError are left out.
DeliveryRecord(Owners) ==
  [state : DeliveryStates, event : Events \cup {NoEvent}, attempt : Nat, nextAttempt : Int,
   leaseOwner : Owners \cup {NoOwner}, leaseEpoch : Nat, leaseUntil : Nat]

ZeroDelivery ==
  [state |-> "absent", event |-> NoEvent, attempt |-> 0, nextAttempt |-> 0,
   leaseOwner |-> NoOwner, leaseEpoch |-> 0, leaseUntil |-> 0]

StoreTypeOK(Owners) ==
  /\ deliveries \in [Ids -> DeliveryRecord(Owners)]
  /\ reserved \in [Keys -> Ids \cup {NoId}]

StoreInit ==
  /\ deliveries = [id \in Ids |-> ZeroDelivery]
  /\ reserved = [k \in Keys |-> NoId]

Stored(id) == deliveries[id].state # "absent"

Terminal(id) == deliveries[id].state \in TerminalStates

------------------------------------------------------------------------------
(* Reservation of an idempotency key. *)

NewDelivery(e, now) ==
  [ZeroDelivery EXCEPT !.state = "pending", !.event = e, !.nextAttempt = now]

Reserve(e, id, now) ==
  /\ reserved[KeyOf[e]] = NoId
  /\ deliveries' = [deliveries EXCEPT ![id] = NewDelivery(e, now)]
  /\ reserved' = [reserved EXCEPT ![KeyOf[e]] = id]

\* The key is freed and the record stays.
RollbackKeepsRecord(key, id) ==
  /\ reserved' = IF reserved[key] = id THEN [reserved EXCEPT ![key] = NoId] ELSE reserved
  /\ UNCHANGED deliveries

RollbackReservation(key, id) ==
  IF reserved[key] = id
  THEN /\ reserved' = [reserved EXCEPT ![key] = NoId]
       /\ deliveries' = [deliveries EXCEPT ![id] = ZeroDelivery]
  ELSE UNCHANGED storeVars

\* The delivery goes and the key stays reserved for its id.
KeepReservation(key, id) ==
  /\ deliveries' = IF reserved[key] = id THEN [deliveries EXCEPT ![id] = ZeroDelivery]
                   ELSE deliveries
  /\ UNCHANGED reserved

------------------------------------------------------------------------------
(* Leases.  A token is the owner and the epoch that Acquire wrote. *)

\* A live lease no longer refuses a second owner.
AcquirableIgnoringLease(id, now) ==
  /\ Stored(id) /\ ~Terminal(id)
  /\ deliveries[id].nextAttempt <= now

\* A terminal record may be acquired again.
AcquirableWhenTerminal(id, now) ==
  /\ Stored(id)
  /\ deliveries[id].nextAttempt <= now
  /\ ~(deliveries[id].state = "leased" /\ deliveries[id].leaseUntil > now)

Acquirable(id, now) ==
  /\ Stored(id) /\ ~Terminal(id)
  /\ deliveries[id].nextAttempt <= now
  /\ ~(deliveries[id].state = "leased" /\ deliveries[id].leaseUntil > now)

Leased(d, owner, until) ==
  [d EXCEPT !.state = "leased", !.leaseOwner = owner, !.leaseEpoch = @ + 1, !.leaseUntil = until]

\* The attempt is counted when it starts.
AcquireCountsAttempt(id, owner, now, ttl) ==
  /\ Acquirable(id, now)
  /\ deliveries' = [deliveries EXCEPT
                      ![id] = [Leased(@, owner, now + ttl) EXCEPT !.attempt = @ + 1]]
  /\ UNCHANGED reserved

Acquire(id, owner, now, ttl) ==
  /\ Acquirable(id, now)
  /\ deliveries' = [deliveries EXCEPT ![id] = Leased(@, owner, now + ttl)]
  /\ UNCHANGED reserved

\* The owner and the epoch are not compared: any lease passes.
HoldsLeaseAnyone(id, owner, epoch) ==
  deliveries[id].state = "leased"

HoldsLease(id, owner, epoch) ==
  /\ deliveries[id].state = "leased"
  /\ deliveries[id].leaseOwner = owner
  /\ deliveries[id].leaseEpoch = epoch

\* The record at the end of a lease, and the same with the attempt counted as failed.
Released(d, state) == [d EXCEPT !.state = state, !.leaseOwner = NoOwner, !.leaseUntil = 0]

Failed(d, state) == [Released(d, state) EXCEPT !.attempt = @ + 1]

Postponed(d, at) == [d EXCEPT !.nextAttempt = at]

Complete(id, owner, epoch) ==
  /\ HoldsLease(id, owner, epoch)
  /\ deliveries' = [deliveries EXCEPT ![id] = Released(@, "delivered")]
  /\ UNCHANGED reserved

Retry(id, owner, epoch, at) ==
  /\ HoldsLease(id, owner, epoch)
  /\ deliveries' = [deliveries EXCEPT ![id] = Postponed(Failed(@, "pending"), at)]
  /\ UNCHANGED reserved

Dead(id, owner, epoch) ==
  /\ HoldsLease(id, owner, epoch)
  /\ deliveries' = [deliveries EXCEPT ![id] = Failed(@, "dead")]
  /\ UNCHANGED reserved

ReviveDead(id, at) ==
  /\ deliveries[id].state = "dead"
  /\ deliveries' = [deliveries EXCEPT ![id] = Postponed(Released(@, "pending"), at)]
  /\ UNCHANGED reserved

==============================================================================
