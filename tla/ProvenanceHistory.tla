------------------------- MODULE ProvenanceHistory -------------------------
(***************************************************************************)
(* What the provenance index promises (docs of internal/pai/index.go): a   *)
(* round gives each of a set of transactions one more redaction, all of    *)
(* them at once, and each redaction starts from the state the previous one *)
(* left.  Nothing is ever removed, and rounds are numbered without a gap.  *)
(***************************************************************************)
EXTENDS Integers, Sequences

CONSTANTS Tx, Content, Initial

VARIABLES
  history, \* the redactions of every transaction, oldest first
  rounds   \* rounds committed so far

(* The state a transaction is in after the redactions h: a version, and the *)
(* content of that version.                                                 *)
StateAfter(h) == IF h = <<>> THEN <<0, Initial>> ELSE h[Len(h)].new

Redaction(h, content) ==
  [round |-> rounds + 1,
   old   |-> StateAfter(h),
   new   |-> <<Len(h) + 1, content>>]

Init ==
  /\ history = [t \in Tx |-> <<>>]
  /\ rounds = 0

(* One round over a nonempty set of transactions. *)
Round(S) ==
  /\ \E content \in [S -> Content] :
       history' = [t \in Tx |-> IF t \in S
                                THEN Append(history[t], Redaction(history[t], content[t]))
                                ELSE history[t]]
  /\ rounds' = rounds + 1

Next == \E S \in (SUBSET Tx) \ {{}} : Round(S)

Spec == Init /\ [][Next]_<<history, rounds>>
=============================================================================
