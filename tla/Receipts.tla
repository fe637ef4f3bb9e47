------------------------------- MODULE Receipts ------------------------------
(***************************************************************************)
(* internal/receipt: the latest receipt per delivery (Store) and the       *)
(* deliveries that were sent and not confirmed (Ledger).  A receipt's      *)
(* endpoint and attempt are those of its delivery and are left out, and so *)
(* is the Verifier, which only reads.                                      *)
(*                                                                         *)
(* The ledger's map has no lock.  Its operations are taken to be atomic,   *)
(* as they are when the callers keep them apart.                           *)
(***************************************************************************)
EXTENDS Core

VARIABLES
  receipts, \* Store.receipts
  open      \* Ledger.open

receiptVars == <<receipts, open>>

NoReceipt == [status |-> "none", at |-> 0]

ReceiptsTypeOK ==
  /\ receipts \in [Ids -> [status : {"none", "delivered", "confirmed"}, at : Nat]]
  /\ open \subseteq Ids

ReceiptsInit ==
  /\ receipts = [id \in Ids |-> NoReceipt]
  /\ open = {}

HasReceipt(id) == receipts[id].status # "none"

\* Record replaces whatever receipt the delivery had.
Record(id, status, at) ==
  /\ receipts' = [receipts EXCEPT ![id] = [status |-> status, at |-> at]]
  /\ UNCHANGED open

OpenDelivery(id) ==
  /\ open' = open \cup {id}
  /\ UNCHANGED receipts

\* Ledger.Confirm.
CloseDelivery(id) ==
  /\ id \in open
  /\ open' = open \ {id}
  /\ UNCHANGED receipts

OpenSince(deadline) == {id \in open : ~HasReceipt(id) \/ receipts[id].at < deadline}

==============================================================================
