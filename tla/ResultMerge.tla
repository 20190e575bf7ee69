---------------------------- MODULE ResultMerge ----------------------------
(***************************************************************************)
(* cmd/merge-results: the documents of one experiment, written by several  *)
(* hosts, are pooled one by one into the document a single run would have  *)
(* written.  What belongs to the pooled sweep is decided on it.            *)
(***************************************************************************)
EXTENDS Naturals, Sequences, FiniteSets, TLC, SequencesExt

CONSTANTS
    Experiments,    \* For each experiment, the documents its hosts may write
    MaxDocuments

VARIABLES
    experiment,
    shards,         \* The documents, in the order of their paths
    allowed,        \* Which of -allow-dirty, -commit-drift, -config-drift are given
    pooled,         \* How many documents are pooled
    points,         \* Their points
    extras,         \* The results beside the points, by scheme
    outcome,        \* "pooling", "refused" or "written"
    document        \* What is written beside the points

vars == <<experiment, shards, allowed, pooled, points, extras, outcome, document>>

Base == shards[1]

\* What a document of experiment 3 says of a scheme's audits.
ScalingVerdict == [holds : BOOLEAN, ratio : Nat]

\* The documents of experiment 3 carry such verdicts, by scheme.
CarryVerdicts ==
    "exp3" \in DOMAIN Experiments =>
        \A d \in Experiments["exp3"] : d.extras \in [DOMAIN d.extras -> ScalingVerdict]

-----------------------------------------------------------------------------
(* Extras *)

\* Faulty variant of WorseScaling: the larger cost ratio wins.
WorseScalingByRatio(a, b) == IF b.ratio > a.ratio THEN b ELSE a

\* worseScaling: a broken claim beats an intact one, then the ratio decides.
WorseScaling(a, b) ==
    IF ~a.holds THEN a ELSE IF ~b.holds THEN b ELSE IF b.ratio > a.ratio THEN b ELSE a

\* What is pooled of the results beside a document's points: not the saturation
\* points of experiment 1, which are decided anew on the pooled sweep.
Carried(d) == IF experiment = "exp1" THEN [s \in {} |-> 0] ELSE d.extras

\* Two documents have different values for one scheme.
Disagree(next) == \E s \in DOMAIN extras \cap DOMAIN next : extras[s] # next[s]

\* mergeExtras: only scaling verdicts that disagree are pooled.
MergeExtras(next) ==
    [s \in DOMAIN extras \cup DOMAIN next |->
        IF s \notin DOMAIN next THEN extras[s]
        ELSE IF s \notin DOMAIN extras \/ extras[s] = next[s] THEN next[s]
        ELSE WorseScaling(extras[s], next[s])]

-----------------------------------------------------------------------------
(* The pooled sweep of experiment 1 *)

LevelsSeen == {p.level : p \in points}

\* checkSweepIsComplete, over all schemes together.
SweepIsComplete == experiment = "exp1" /\ points # {} => 1 \in LevelsSeen

\* The best throughput of a scheme at a level.
Best(s, level) ==
    CHOOSE x \in {p.throughput : p \in {r \in points : r.scheme = s /\ r.level = level}} :
        \A p \in points : p.scheme = s /\ p.level = level => p.throughput <= x

\* recomputeSaturation: the lowest level that no higher one improves on by
\* more than 5%, not counting the highest; 0 when there is none.
RecomputeSaturation ==
    [s \in {p.scheme : p \in points} |->
        LET levels == {p.level : p \in {r \in points : r.scheme = s}}
            flat == {l \in levels :
                        /\ \E m \in levels : m > l
                        /\ \A m \in levels : m > l => 100 * Best(s, m) <= 105 * Best(s, l)}
        IN  IF flat = {} THEN 0 ELSE CHOOSE l \in flat : \A m \in flat : l <= m]

-----------------------------------------------------------------------------
(* Pooling *)

\* The documents describe one run, on machines of one kind, or the caller has
\* said why they may differ.
Poolable(d) ==
    /\ ~d.dirty \/ "dirty" \in allowed
    /\ d.run = Base.run /\ d.machine = Base.machine
    /\ d.commit = Base.commit \/ "commits" \in allowed
    /\ d.config = Base.config \/ "config" \in allowed
    /\ Disagree(Carried(d)) => experiment = "exp3"

\* One turn of mergeOne's loop.
Pool ==
    /\ outcome = "pooling"
    /\ pooled < Len(shards)
    /\ Poolable(shards[pooled + 1])
    /\ pooled' = pooled + 1
    /\ points' = points \cup shards[pooled + 1].points
    /\ extras' = MergeExtras(Carried(shards[pooled + 1]))
    /\ UNCHANGED <<experiment, shards, allowed, outcome, document>>

\* The rest of it.
Write ==
    /\ outcome = "pooling"
    /\ pooled = Len(shards)
    /\ SweepIsComplete
    /\ outcome' = "written"
    /\ document' =
        [extras |-> IF experiment = "exp1" THEN RecomputeSaturation ELSE extras,
         commits |-> IF "commits" \in allowed THEN {d.commit : d \in ToSet(shards)} ELSE {Base.commit},
         drift |-> \E d \in ToSet(shards) : d.config # Base.config]
    /\ UNCHANGED <<experiment, shards, allowed, pooled, points, extras>>

\* A document that cannot be pooled, or a sweep without its first level.
Refuse ==
    /\ outcome = "pooling"
    /\ IF pooled < Len(shards) THEN ~Poolable(shards[pooled + 1]) ELSE ~SweepIsComplete
    /\ outcome' = "refused"
    /\ UNCHANGED <<experiment, shards, allowed, pooled, points, extras, document>>

-----------------------------------------------------------------------------

Init ==
    /\ experiment \in DOMAIN Experiments
    /\ \E n \in 1 .. MaxDocuments : shards \in [1 .. n -> Experiments[experiment]]
    /\ allowed \in SUBSET {"dirty", "commits", "config"}
    /\ pooled = 0
    /\ points = {}
    /\ extras = [s \in {} |-> 0]
    /\ outcome = "pooling"
    /\ document = [extras |-> extras, commits |-> {}, drift |-> FALSE]

Next == Pool \/ Write \/ Refuse

Spec == Init /\ [][Next]_vars

-----------------------------------------------------------------------------
(* Properties *)

TypeOK ==
    /\ allowed \subseteq {"dirty", "commits", "config"}
    /\ pooled \in 0 .. Len(shards)
    /\ outcome \in {"pooling", "refused", "written"}

Verdicts(s) == {d.extras[s] : d \in {e \in ToSet(shards) : s \in DOMAIN e.extras}}

\* A claim that one host found broken is broken in the pooled document, in
\* whatever order the documents come, and among intact ones the worst ratio
\* stands (merge-results/main.go:463-469, "keep the LEAST favourable").
BrokenClaimSurvives ==
    outcome = "written" /\ experiment = "exp3" =>
        \A s \in DOMAIN document.extras :
            LET merged == document.extras[s]
            IN  /\ merged \in Verdicts(s)
                /\ merged.holds <=> \A v \in Verdicts(s) : v.holds
                /\ merged.holds => \A v \in Verdicts(s) : v.ratio <= merged.ratio
=============================================================================
