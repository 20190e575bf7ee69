---------------------------- MODULE MCEvaluation ----------------------------
(* Values for the constants of the compared ledgers, their structures and the
   harness that measures them. *)
EXTENDS EvaluationProofs, TLC

CONSTANTS t1, t2, t3, t4, r1, r2

MCOrder == <<t1, t2, t3, t4>>
MCTarget == r1 :> t2 @@ r2 :> t2

\* A scheme without knobs, one that votes over two transports, and one with
\* shards and batches.
Plain ==
    [transport |-> <<NotApplicable>>, shards |-> <<NotApplicable>>,
     batch |-> <<NotApplicable>>, native |-> <<NotApplicable>>,
     policyBound |-> FALSE, prepares |-> FALSE]

MCSchemes ==
    {Plain,
     [Plain EXCEPT !.transport = <<"in_process", "fabric">>, !.policyBound = TRUE],
     [Plain EXCEPT !.shards = <<1, 2>>, !.batch = <<1, 2>>, !.native = <<"record", "batch">>,
                   !.policyBound = TRUE, !.prepares = TRUE]}

MCConcurrency == <<1, 2>>

\* Two shapes of a tree, of which one scales; a trace that repeats a target.
MCAxes == << <<2, 10>>, <<1>> >>
MCTraces == << <<1, 2, 3>>, <<1, 2, 1>> >>
MCWorkloads == <<2, 3, 9>>
MCLedgerSizes == <<1, 10>>
MCSizes == <<1, 2>>
MCCost == <<2, 1>> :> (1 :> 10 @@ 10 :> 10) @@ <<10, 1>> :> (1 :> 10 @@ 10 :> 40)

None0 == [s \in {} |-> 0]
Written(ps, results) ==
    [run |-> 1, machine |-> 1, commit |-> 1, config |-> 1, dirty |-> FALSE,
     points |-> ps, extras |-> results]
Rate(s, level, throughput) == [scheme |-> s, level |-> level, throughput |-> throughput]
First == Written({Rate("a", 1, 40)}, None0)

\* One host's levels in each stamp, two whole sweeps that saturate differently,
\* and every pair of verdicts on one scheme.
MCDocuments ==
    "exp1" :> {First, Written({Rate("a", 2, 41), Rate("a", 4, 80)}, None0),
               Written({Rate("b", 1, 80), Rate("b", 2, 82)}, "b" :> 1),
               Written({Rate("b", 1, 60), Rate("b", 2, 90)}, "b" :> 0),
               [First EXCEPT !.dirty = TRUE], [First EXCEPT !.commit = 2],
               [First EXCEPT !.config = 2], [First EXCEPT !.run = 2], [First EXCEPT !.machine = 2]}
    @@ "exp2" :> {Written({}, "a" :> n) : n \in {1, 2}}
    @@ "exp3" :> {Written({}, "a" :> [holds |-> b, ratio |-> n]) : b \in BOOLEAN, n \in {100, 200}}
=============================================================================
