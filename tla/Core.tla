-------------------------------- MODULE Core ---------------------------------
(***************************************************************************)
(* The values internal/core names and every component passes around:       *)
(* events, their idempotency keys, delivery identities, delivery states.   *)
(* Payloads, tenants and priorities are left out here.                     *)
(*                                                                         *)
(* Times are whole seconds; 0 is Go's zero time.Time, so real times are    *)
(* positive.                                                               *)
(***************************************************************************)
EXTENDS Integers

CONSTANTS
  Events,     \* submitted events
  Keys,       \* idempotency keys
  Endpoints,  \* webhook destinations
  KeyOf,      \* Event.IdempotencyKey
  EndpointOf, \* Event.Endpoint
  Ids,        \* delivery identities
  NoEvent,    \* the zero Event
  NoId        \* the empty delivery id

ASSUME CoreConstants ==
  /\ KeyOf \in [Events -> Keys]
  /\ EndpointOf \in [Events -> Endpoints]
  /\ NoEvent \notin Events
  /\ NoId \notin Ids

\* DeliveryState, and "absent" for an id that no map holds.
DeliveryStates == {"absent", "pending", "leased", "delivered", "dead"}

TerminalStates == {"delivered", "dead"}

==============================================================================
