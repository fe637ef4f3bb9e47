------------------------------ MODULE Breakers -------------------------------
(***************************************************************************)
(* The endpoint circuit breakers of internal/relay/breaker.go.  Allow      *)
(* hands the caller a release function; the caller invokes it once with    *)
(* the outcome of the call, and it uses the time Allow was given, not the  *)
(* time of the release.  An endpoint that is not in the map has the zero   *)
(* state.                                                                  *)
(***************************************************************************)
EXTENDS Core

CONSTANTS
  Threshold,  \* consecutive failures that open a circuit
  Cooldown    \* how long it stays open, in seconds

ASSUME BreakerConstants == Threshold \in Nat /\ Cooldown \in Nat

VARIABLE breakers

ZeroBreaker == [failures |-> 0, openUntil |-> 0, probe |-> FALSE]

BreakersTypeOK ==
  breakers \in [Endpoints -> [failures : Nat, openUntil : Nat, probe : BOOLEAN]]

BreakersInit == breakers = [e \in Endpoints |-> ZeroBreaker]

\* openUntil is not the zero time: the circuit was opened and has not been closed.
Tripped(e) == breakers[e].openUntil # 0

Denied(e, now) ==
  \/ breakers[e].openUntil > now
  \/ Tripped(e) /\ breakers[e].probe

Allow(e, now) ==
  /\ ~Denied(e, now)
  /\ breakers' = IF Tripped(e) THEN [breakers EXCEPT ![e].probe = TRUE] ELSE breakers

\* The probe flag is cleared by a success only.
ReleaseKeepsProbe(e, now, success) ==
  LET failures == breakers[e].failures + 1 IN
  breakers' = [breakers EXCEPT ![e] =
    IF success THEN ZeroBreaker
    ELSE [@ EXCEPT !.failures = failures,
                   !.openUntil = IF failures >= Threshold THEN now + Cooldown ELSE @]]

\* The function Allow returned, called with the outcome.
Release(e, now, success) ==
  LET failures == breakers[e].failures + 1 IN
  breakers' = [breakers EXCEPT ![e] =
    IF success THEN ZeroBreaker
    ELSE [failures |-> failures, probe |-> FALSE,
          openUntil |-> IF failures >= Threshold THEN now + Cooldown
                        ELSE breakers[e].openUntil]]

Reset(e) == breakers' = [breakers EXCEPT ![e] = ZeroBreaker]

==============================================================================
