--------------------------- MODULE VerdictService ---------------------------
(***************************************************************************)
(* What the verification layer promises its callers (internal/pvl): a      *)
(* request is answered with the verdict of its own proof, whatever batch,  *)
(* shard or service it went through, or not at all if its caller's context *)
(* ended first.                                                            *)
(***************************************************************************)
EXTENDS Naturals

CONSTANTS
  Callers,  \* concurrent callers of Authorize
  Queries,  \* the proofs they may submit
  Valid     \* those that verify

VARIABLES
  asking,   \* the callers that wait
  question, \* the query each caller submitted last
  answer    \* what it was last told

vars == <<asking, question, answer>>

(* What zk.Verify says of a proof. *)
VerdictOf(q) == IF q \in Valid THEN "verified" ELSE "rejected"

Init ==
  /\ asking = {}
  /\ question \in [Callers -> Queries]
  /\ answer = [c \in Callers |-> "none"]

Ask(c, q) ==
  /\ c \notin asking
  /\ asking' = asking \cup {c}
  /\ question' = [question EXCEPT ![c] = q]
  /\ answer' = [answer EXCEPT ![c] = "none"]

Tell(c, what) ==
  /\ c \in asking
  /\ asking' = asking \ {c}
  /\ answer' = [answer EXCEPT ![c] = what]
  /\ UNCHANGED question

Answer(c) == Tell(c, VerdictOf(question[c]))

GiveUp(c) == Tell(c, "context")

Next == \E c \in Callers :
          \/ \E q \in Queries : Ask(c, q)
          \/ Answer(c)
          \/ GiveUp(c)

Spec == Init /\ [][Next]_vars

(* Every caller that waits is answered. *)
FairSpec == Spec /\ \A c \in Callers : WF_vars(Answer(c))
=============================================================================
