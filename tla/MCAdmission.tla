---------------------------- MODULE MCAdmission ----------------------------
(***************************************************************************)
(* A small instance of Admission: two requesters ask for the same          *)
(* redaction.                                                              *)
(***************************************************************************)
EXTENDS Admission, TLC

CONSTANTS t1, alice, bob, m1, m2, c1, c2, x1, x2

Ask(who, mod) == [by |-> who, tx |-> t1, mod |-> mod]

TwoRequests == {Ask(alice, m1), Ask(bob, m1)}

TwoTraces == {TwoRequests}

Symmetry == Permutations(Callers) \cup Permutations(Redactors)
=============================================================================
