--------------------------- MODULE MCProofService ---------------------------
(***************************************************************************)
(* Small instances of ProofService: queries with valid and with invalid    *)
(* proofs that hash to different shards, and reconfigurations that widen,  *)
(* narrow, rebatch, rebuild and tear down.                                 *)
(***************************************************************************)
EXTENDS ProofService, TLC

CONSTANTS c1, c2, good, bad

MCHash == [q \in {good, bad} |-> IF q = good THEN 0 ELSE 1]

Change(op, arg) == [op |-> op, arg |-> arg]

(* What Exp 1 and the experiments that rebuild the scheme ask for. *)
Sweep == {Change("reshard", 1), Change("reshard", 2), Change("rebatch", 1),
          Change("native", 0), Change("setup", 2), Change("teardown", 0)}

(* ...arguments that are refused after the service has been stopped... *)
OutOfRange == {Change("reshard", 0), Change("rebatch", 0)}

(* ...and a Setup that fails after it has dropped the service. *)
AllChanges == Sweep \cup OutOfRange \cup {Change("setupFails", 0)}

CallerSymmetry == Permutations(Callers)
=============================================================================
