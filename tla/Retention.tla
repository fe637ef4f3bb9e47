------------------------------ MODULE Retention ------------------------------
(***************************************************************************)
(* internal/retention: the ledger of dead letters (a map of entries and    *)
(* the order they were tracked in) and the reaper that purges it.  An      *)
(* entry's reason, the list of purged ids and the history of reaps only    *)
(* serve reports and are left out.                                         *)
(***************************************************************************)
EXTENDS Core, FiniteSets, Selection

CONSTANTS
  MaxDead,    \* Policy.MaxDead
  RetainFor   \* Policy.RetentionDays, in the unit of the clock

ASSUME RetentionConstants == MaxDead \in Nat /\ RetainFor \in Nat

VARIABLES
  dead,      \* Ledger.entries: id -> RecordedAt
  deadOrder, \* Ledger.order
  lastReap   \* Reaper.lastRun

retentionVars == <<dead, deadOrder, lastReap>>

Tracked == DOMAIN dead

RetentionTypeOK ==
  /\ Tracked \subseteq Ids /\ dead \in [Tracked -> Nat]
  /\ deadOrder \in Seq(Ids)
  /\ lastReap \in Nat

RetentionInit ==
  /\ dead = [id \in {} |-> 0]
  /\ deadOrder = <<>>
  /\ lastReap = 0

\* TrackDead: an id that is tracked already is refused.
TrackDead(id, now) ==
  /\ id \notin Tracked
  /\ dead' = [i \in Tracked \cup {id} |-> IF i = id THEN now ELSE dead[i]]
  /\ deadOrder' = Append(deadOrder, id)
  /\ UNCHANGED lastReap

AlreadyTracked(id) ==
  /\ id \in Tracked
  /\ UNCHANGED retentionVars

Retained(id, now) == RetainFor > 0 /\ now - dead[id] < RetainFor

Without(ids) == dead' = [i \in Tracked \ ids |-> dead[i]]

\* The purged ids stay in the order.
PurgeExpiredKeepsOrder(now) ==
  /\ Without({id \in Tracked : ~Retained(id, now)})
  /\ UNCHANGED <<deadOrder, lastReap>>

PurgeExpired(now) ==
  LET expired == {id \in Tracked : ~Retained(id, now)} IN
  /\ Without(expired)
  /\ deadOrder' = Selected(deadOrder, Ids \ expired)
  /\ UNCHANGED lastReap

\* The first ids of the order go until MaxDead entries are left.
PurgeOverCapacity ==
  LET count == Cardinality(Tracked)
      excess == IF MaxDead > 0 /\ count > MaxDead THEN count - MaxDead ELSE 0 IN
  /\ Without({deadOrder[i] : i \in 1 .. excess})
  /\ deadOrder' = SubSeq(deadOrder, excess + 1, Len(deadOrder))

ReapDue(now, interval) == lastReap = 0 \/ now - lastReap >= interval

==============================================================================
