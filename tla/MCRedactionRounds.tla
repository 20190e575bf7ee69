------------------------- MODULE MCRedactionRounds -------------------------
(***************************************************************************)
(* A small instance of RedactionRounds: batches of up to two requests,     *)
(* with the conflicts, stale versions, stale policies and missing proofs   *)
(* that Run tells apart.                                                   *)
(***************************************************************************)
EXTENDS RedactionRounds

CONSTANTS t1, t2, original, redacted, p1, p2

MCTx == {t1, t2}

(* Requests authorized at either version; those against t1 as it starts     *)
(* come with any proof, so that two can share a deduplication identifier.   *)
Granted == {it \in [tx: MCTx, from: 0 .. 1, content: {redacted},
                    policy: {CurrentPolicy}, proof: Proofs] :
              it.proof = p2 => it.tx = t1 /\ it.from = 0}

(* One authorized under an older policy, and one that lost its proof. *)
OldPolicy == [tx |-> t1, from |-> 0, content |-> redacted, policy |-> 1, proof |-> p1]
Unproved  == [OldPolicy EXCEPT !.policy = 2, !.proof = NoProof]

MCBatches ==
  {<<>>, <<OldPolicy>>, <<Unproved>>}
    \cup {<<a>> : a \in Granted}
    \cup {<<a, b>> : a, b \in Granted}
    \cup {<<OldPolicy, a>> : a \in Granted}
    \cup {<<Unproved, a>> : a \in Granted}
=============================================================================
