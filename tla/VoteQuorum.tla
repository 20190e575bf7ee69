----------------------------- MODULE VoteQuorum -----------------------------
(***************************************************************************)
(* What one instance of the redaction contract promises, without Fabric:   *)
(* a node votes once, and at most one result is ever decided, for one      *)
(* certificate, from the votes of enough nodes that approved exactly it.   *)
(***************************************************************************)
EXTENDS Naturals, FiniteSets

CONSTANTS Nodes,        \* Every node that may ever be registered
          Certs,        \* The certificates a ballot may be about
          Threshold,    \* RoundPolicy.Threshold
          None          \* No vote, no result

VARIABLES vote,         \* What each node voted on: a certificate and yes or no
          result        \* The certificate decided and the nodes counted for it

vars == <<vote, result>>

Votes == [cert : Certs, approve : BOOLEAN]

Init ==
    /\ vote = [n \in Nodes |-> None]
    /\ result = None

\* Vote: one member, one vote.
Cast(n, v) ==
    /\ vote[n] = None
    /\ vote' = [vote EXCEPT ![n] = v]
    /\ UNCHANGED result

\* Close: a threshold of one certificate, once.
Decide(c, sigma) ==
    /\ result = None
    /\ \A n \in sigma : vote[n] = [cert |-> c, approve |-> TRUE]
    /\ Cardinality(sigma) >= Threshold
    /\ result' = [cert |-> c, sigma |-> sigma]
    /\ UNCHANGED vote

Next ==
    \/ \E n \in Nodes, v \in Votes : Cast(n, v)
    \/ \E c \in Certs, sigma \in SUBSET Nodes : Decide(c, sigma)

Spec == Init /\ [][Next]_vars
=============================================================================
