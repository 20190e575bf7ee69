---------------------------- MODULE MCVoteRounds ----------------------------
(* Two clients of one request: with one seed and two certificates, as two runs
   that race or follow one another, or with different seeds and datasets, as a
   run on a network that holds the registration of another one. *)
EXTENDS VoteRounds, TLC

CONSTANTS c1, c2, n1, n2, n3

MCRank == n3 :> 1 @@ n1 :> 2 @@ n2 :> 3

Client(ids, seed, cert, transport) ==
    [ids |-> ids, seed |-> seed, cert |-> cert, transport |-> transport, granted |-> TRUE]

MCDeployments ==
    { c1 :> Client(Nodes, 1, 1, "fabric") @@ c2 :> Client(Nodes, 1, 2, "fabric"),
      c1 :> Client(Nodes \ {n3}, 1, 1, "in_process") @@ c2 :> Client(Nodes, 2, 2, "fabric"),
      c1 :> [Client(Nodes, 1, 1, "in_process") EXCEPT !.granted = FALSE]
        @@ c2 :> Client(Nodes, 1, 2, "in_process") }
=============================================================================
