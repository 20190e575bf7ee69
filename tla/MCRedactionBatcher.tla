------------------------- MODULE MCRedactionBatcher -------------------------
(***************************************************************************)
(* Small runs of the batcher: a number of requests that is not a multiple  *)
(* of the batch size, and submitters that cannot all be in one batch.      *)
(***************************************************************************)
EXTENDS RedactionBatcher, TLC

CONSTANTS s1, s2, s3

SubmitterSymmetry == Permutations(Submitters)
=============================================================================
