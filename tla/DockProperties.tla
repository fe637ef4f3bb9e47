---------------------------- MODULE DockProperties ---------------------------
(***************************************************************************)
(* What the Dock promises: properties of Dock.  Those of the first part    *)
(* hold for every mix of goroutines; each of the last part is a sentence   *)
(* of the sources that some behaviour of the code contradicts.             *)
(***************************************************************************)
EXTENDS Dock, SequencesExt

------------------------------------------------------------------------------
(* Sending *)

\* The client is admitting the delivery and has not put it into the window yet.
Admits(c, id) ==
  client[c].pc \in {"append", "schedule", "protect", "rank", "add"} /\ client[c].id = id

\* The dispatcher took the delivery out of the window and has still to settle it.
Handles(d, id) ==
  LET call == dispatch[d] IN
  \/ call.pc = "remove" /\ id \in DOMAIN call.batch \ call.todo
  \/ call.pc \in {"get", "send", "open"} /\ id \in call.todo

\* The dispatcher has recorded a receipt for the delivery and is about to open it.
Sent(d, id) == dispatch[d].pc = "open" /\ dispatch[d].id = id

Unsent(id) ==
  \/ id \in Waiting
  \/ \E c \in Clients : Admits(c, id)
  \/ \E d \in Dispatchers : Handles(d, id) /\ ~Sent(d, id)

\* A delivery is sent once: it is with one client, in the window or with one dispatcher, and
\* until it is sent there is neither a receipt nor an open entry for it, whatever flushes,
\* sweeps and duplicate submissions overlap.
SentOnce ==
  \A id \in Ids :
    LET clients == {c \in Clients : Admits(c, id)}
        dispatchers == {d \in Dispatchers : Handles(d, id)}
        waiting == {id} \cap Waiting IN
    /\ Cardinality(clients) + Cardinality(dispatchers) + Cardinality(waiting) <= 1
    /\ Unsent(id) => ~HasReceipt(id) /\ id \notin open

\* What waits or is being sent was admitted: it is in the store under its reserved key and
\* in the journal.
BatchIsAdmitted ==
  \A id \in Ids :
    (id \in Waiting \/ \E d \in Dispatchers : Handles(d, id)) =>
      /\ Stored(id)
      /\ reserved[KeyOf[deliveries[id].event]] = id
      /\ HasEntry(id, "pending")

\* A send has one outcome, a receipt or a dead letter, for the deliveries that no caller of
\* TrackDead reports.
OneOutcome == \A id \in Ids \ ReportedDead : ~(HasReceipt(id) /\ id \in Tracked)

\* batch/priority.go:9: the window "drains higher priorities first", which in its tests are
\* the lower numbers.  What a supervisor takes is of no lower priority than any other item
\* of its list still in the window, whatever Submit, the flusher and other supervisors did
\* to the window and the priorities since, and before.
DrainsByPriority ==
  [][\A s \in Supervisors : super[s].pc = "take" =>
       \A x \in super[s].todo \ super'[s].todo, y \in super[s].todo :
         {x.id, y.id} \subseteq Waiting =>
           PriorityOf[deliveries[x.id].event] <= PriorityOf[deliveries[y.id].event]]_vars

------------------------------------------------------------------------------
(* Receipts *)

\* A delivery is open only once its receipt is there, so that a supervisor that reads the
\* receipts of open deliveries takes none for stale because its receipt is missing.
OpenHasReceipt == \A id \in open : HasReceipt(id)

\* A confirmation is never overwritten, by a late dispatcher or by a confirmer that read the
\* receipt before.
ConfirmedIsFinal ==
  [][\A id \in Ids :
       receipts[id].status = "confirmed" => receipts'[id].status = "confirmed"]_vars

------------------------------------------------------------------------------
(* Expiry *)

\* When no two deliveries share an event id: from the window to the confirmation, the event
\* of a delivery is protected from expiry without a gap.
InFlightProtected ==
  \A id \in Ids :
    (id \in Waiting \/ id \in open \/ \E d \in Dispatchers : Handles(d, id)) =>
      EventIdOf[deliveries[id].event] \in protected

------------------------------------------------------------------------------
(* Retention *)

\* The order of the dead letters lists each tracked entry once and nothing else, through
\* both ways of purging: the eviction takes the head of the order for an entry.
OrderMatchesEntries ==
  /\ ToSet(deadOrder) = Tracked
  /\ Len(deadOrder) = Cardinality(Tracked)

------------------------------------------------------------------------------
(* Sentences the code contradicts *)

\* relaydock/target_test.go:40: after an admission the journal rejected, the "second submit
\* must create a fresh delivery".  Here: a Submit that answers with the delivery that exists
\* finds one.
DuplicateFindsDelivery ==
  [][\A c \in Clients :
       client[c].pc = "reserve" /\ client'[c].pc = "idle" =>
         Stored(reserved[KeyOf[client[c].event]])]_vars

\* relaydock/service.go:130: Dispatch drains the window "and delivers every item".  Here: a
\* flush that gives up has not taken an item out of the window.
FailedFlushTakesNothing ==
  [][\A d \in Dispatchers :
       dispatch[d].pc = "remove" /\ dispatch'[d].pc = "idle" =>
         dispatch[d].todo = DOMAIN dispatch[d].batch]_vars

==============================================================================
