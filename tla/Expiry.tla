-------------------------------- MODULE Expiry -------------------------------
(***************************************************************************)
(* internal/expiry: the scanner that reports the events past their time to *)
(* live, except protected ones, and the sweeper that runs it.  The history *)
(* of sweeps is kept as the set of event ids they reported (ExpiredIDs);   *)
(* its bound of 32 sweeps and the limit of a scan, far above the number of *)
(* events, are left out.                                                   *)
(***************************************************************************)
EXTENDS Core

CONSTANTS
  EventIds,  \* Event.ID, which events of different keys may share
  EventIdOf,
  CreatedAt, \* Event.CreatedAt, before or after the event is submitted
  EventTTL   \* Policy.TTL

ASSUME ExpiryConstants ==
  /\ EventIdOf \in [Events -> EventIds]
  /\ CreatedAt \in [Events -> Int]
  /\ EventTTL \in Nat

VARIABLES
  protected, \* Scanner.protected
  reported,  \* Sweeper.ExpiredIDs
  lastSweep  \* Sweeper.lastRun

expiryVars == <<protected, reported, lastSweep>>

ExpiryTypeOK ==
  /\ protected \subseteq EventIds
  /\ reported \subseteq EventIds
  /\ lastSweep \in Nat

ExpiryInit == protected = {} /\ reported = {} /\ lastSweep = 0

Protect(x) ==
  /\ protected' = protected \cup {x}
  /\ UNCHANGED <<reported, lastSweep>>

Unprotect(x) ==
  /\ protected' = protected \ {x}
  /\ UNCHANGED <<reported, lastSweep>>

Expired(e, now) == EventTTL > 0 /\ now - CreatedAt[e] >= EventTTL

\* The ids Scan returns for a list of events.
Scan(events, now) ==
  {EventIdOf[e] : e \in {f \in events : Expired(f, now) /\ EventIdOf[f] \notin protected}}

SweepDue(now, interval) == lastSweep = 0 \/ now - lastSweep >= interval

RunSweep(events, now) ==
  /\ reported' = reported \cup Scan(events, now)
  /\ lastSweep' = now
  /\ UNCHANGED protected

==============================================================================
