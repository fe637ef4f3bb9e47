-------------------------------- MODULE Station -------------------------------
(***************************************************************************)
(* The dock and the relay on one store, one journal and one queue, as      *)
(* cmd/relaydock wires them: clients submit through the dock, and relay    *)
(* workers running Step, Replay values and callers of RetryOverdue handle  *)
(* what was admitted.  R is Relay without clients of its own.              *)
(*                                                                         *)
(* Left out are the dock's calls that change nothing these goroutines      *)
(* read: Dispatch and ConfirmDelivery only look deliveries up, and what a  *)
(* supervision pass does after RetryOverdue stays within the dock.  The    *)
(* clock stands still: how leases, retries and the parts of the dock       *)
(* depend on the time is in Relay and Dock, and the question here is how   *)
(* the goroutines of one moment get into each other's way.                 *)
(*                                                                         *)
(* A restart ends every call and leaves only the journal, since the store  *)
(* and the queue exist in memory alone.                                    *)
(***************************************************************************)
EXTENDS DockProperties

CONSTANTS
  Steppers,    \* as in Relay
  Replayers,
  Sweepers,    \* goroutines calling RetryOverdue
  Threshold,
  Cooldown,
  LeaseTTL,
  MaxAttempts,
  ReplayLimit,
  SweepLeads,
  MaxRestarts  \* bound: restarts

ASSUME StationConstants ==
  /\ Ids # {} /\ NoOwner \notin Steppers
  /\ LeaseTTL \in Nat /\ MaxAttempts \in Nat /\ ReplayLimit \in Nat /\ SweepLeads \subseteq Nat
  /\ Threshold \in Nat /\ Cooldown \in Nat /\ MaxRestarts \in Nat

VARIABLES
  breakers, \* as in Relay
  worker,
  replay,
  sweep,
  restarts  \* restarts so far

R == INSTANCE RelayProperties WITH
       Clients <- {}, client <- [c \in {} |-> 0], IdOf <- [k \in Keys |-> CHOOSE id \in Ids : TRUE],
       Supervisors <- Sweepers, Batchers <- {}

relayVars == <<breakers, worker, replay, sweep>>
stationVars == <<vars, relayVars, restarts>>

StationTypeOK ==
  /\ R!TypeOK
  /\ WindowTypeOK /\ PriorityTypeOK /\ ExpiryTypeOK
  /\ \A c \in Clients : client[c].pc # "idle" => client[c].event \in Events /\ client[c].id \in Ids

StationInit == Init /\ R!Init /\ restarts = 0

------------------------------------------------------------------------------

\* A step of the dock, and a step of the relay.
DockSide(step) == step /\ UNCHANGED <<relayVars, restarts>>

RelaySide(step) == step /\ UNCHANGED <<partVars, callVars, restarts>>

\* The steps of a goroutine that loops.
WorkerLoops(w) == RelaySide(R!WorkerStep(w) \/ R!StepBegin(w))

StationNext ==
  \/ DockSide(InjectRejection)
  \/ \E c \in Clients :
       DockSide(SubmitStep(c)) \/ \E e \in Events, s \in Specs : DockSide(SubmitBegin(c, e, s))
  \/ \E w \in Steppers : WorkerLoops(w)
  \/ \E r \in Replayers : RelaySide(R!ReplayStep(r))
  \/ \E s \in Sweepers : RelaySide(R!SweepStep(s))

StationSpec == StationInit /\ [][StationNext]_stationVars

\* As in Relay.  Nothing makes a client submit or the journal fail.
StationFairness ==
  /\ \A c \in Clients : WF_stationVars(DockSide(SubmitStep(c)))
  /\ \A w \in Steppers : WF_stationVars(WorkerLoops(w))
  /\ \A r \in Replayers : WF_stationVars(RelaySide(R!ReplayStep(r)))
  /\ \A s \in Sweepers : WF_stationVars(RelaySide(R!SweepStep(s)))

FairStationSpec == StationSpec /\ StationFairness

------------------------------------------------------------------------------

Restart ==
  /\ restarts < MaxRestarts
  /\ restarts' = restarts + 1
  /\ deliveries' = [id \in Ids |-> ZeroDelivery] /\ reserved' = [k \in Keys |-> NoId]
  /\ queue' = [id \in {} |-> 0]
  /\ window' = [id \in {} |-> 0] /\ priority' = [id \in {} |-> 0]
  /\ receipts' = [id \in Ids |-> NoReceipt] /\ open' = {}
  /\ protected' = {} /\ reported' = {} /\ lastSweep' = 0
  /\ dead' = [id \in {} |-> 0] /\ deadOrder' = <<>> /\ lastReap' = 0
  /\ client' = [c \in Clients |-> IdleClient]
  /\ dispatch' = [d \in Dispatchers |-> IdleDispatch]
  /\ confirm' = [f \in Confirmers |-> IdleConfirm]
  /\ super' = [s \in Supervisors |-> IdleSuper]
  /\ breakers' = [e \in Endpoints |-> R!ZeroBreaker]
  /\ worker' = [w \in Steppers |-> R!IdleWorker]
  /\ replay' = [r \in Replayers |-> [cursor |-> 0, upTo |-> 0]]
  /\ sweep' = [s \in Sweepers |-> {}]
  /\ UNCHANGED <<journalVars, envVars>>

RestartSpec == StationInit /\ [][StationNext \/ Restart]_stationVars

==============================================================================
