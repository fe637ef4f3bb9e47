------------------------------- MODULE Journal -------------------------------
(***************************************************************************)
(* The append-only journal of internal/journal (Memory).  An entry's       *)
(* Sequence is its position: Append numbers it len(entries)+1.  The event  *)
(* an entry carries is left out, nothing reads it back.                    *)
(***************************************************************************)
EXTENDS Core, Sequences

VARIABLES
  journal,    \* Memory.entries
  failNext    \* Memory.failNext: the next Append is refused

journalVars == <<journal, failNext>>

Transitions == {"pending"} \cup TerminalStates

Entry == [delivery : Ids, transition : Transitions, at : Nat]

JournalTypeOK ==
  /\ journal \in Seq(Entry)
  /\ failNext \in BOOLEAN

JournalInit ==
  /\ journal = <<>>
  /\ failNext = FALSE

RejectNextAppend ==
  /\ failNext' = TRUE
  /\ UNCHANGED journal

AppendAccepted(id, transition, at) ==
  /\ ~failNext
  /\ journal' = Append(journal, [delivery |-> id, transition |-> transition, at |-> at])
  /\ UNCHANGED failNext

AppendRejected ==
  /\ failNext
  /\ failNext' = FALSE
  /\ UNCHANGED journal

\* The sequence of the last entry ReadAfter(sequence, limit) returns, and sequence
\* itself when it returns none.  The journal only grows, so the copy ReadAfter makes
\* is the entries sequence+1 .. ReadUpTo(sequence, limit) at any later time too.
ReadUpTo(sequence, limit) ==
  IF limit <= 0 \/ sequence >= Len(journal) THEN sequence
  ELSE IF sequence + limit > Len(journal) THEN Len(journal) ELSE sequence + limit

\* The transition of the last entry about id is t.
LastTransitionIs(id, t) ==
  \E i \in DOMAIN journal :
    /\ journal[i].delivery = id /\ journal[i].transition = t
    /\ \A j \in DOMAIN journal : j > i => journal[j].delivery # id

HasEntry(id, t) ==
  \E i \in DOMAIN journal : journal[i].delivery = id /\ journal[i].transition = t

==============================================================================
