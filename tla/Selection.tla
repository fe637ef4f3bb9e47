------------------------------ MODULE Selection ------------------------------
(***************************************************************************)
(* The loops of the ledger of dead letters, the registry and the planner   *)
(* that go through a slice and append what they keep to a new one.         *)
(*                                                                         *)
(* A recursive function, where SelectSeq would do, because its value can   *)
(* be reasoned about (SelectionProofs).                                    *)
(***************************************************************************)
EXTENDS Integers, Sequences

\* The elements of s that are in kept, in their order.
Selected(s, kept) ==
  LET upTo[n \in 0 .. Len(s)] ==
        IF n = 0 THEN <<>>
        ELSE IF s[n] \in kept THEN Append(upTo[n - 1], s[n]) ELSE upTo[n - 1]
  IN upTo[Len(s)]

==============================================================================
