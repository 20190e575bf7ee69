----------------------------- MODULE ArmSweeps -----------------------------
(***************************************************************************)
(* Experiments 2 and 3 for one scheme (experiments/exp2_redaction and      *)
(* exp3_audit, runner.go, with what cmd/run-experiment hands them), spread *)
(* over hosts by -arms i/N.  Every host goes through the whole sweep, with *)
(* a scheme of its own, and measures its share.                            *)
(*                                                                         *)
(* Experiment 2 redacts one trace again in every arm: what is redacted has *)
(* a new version, so it must be authorized again.  Experiment 3 sets the   *)
(* scheme up at each ledger size and redacts targets to a depth.           *)
(***************************************************************************)
EXTENDS Naturals, Sequences, FiniteSets, SequencesExt

CONSTANTS
    Axes,           \* The values of each setup parameter that is swept
    NoSetup,
    Traces,         \* For each conflict ratio, the targets of its trace
    Sizes, Waits,   \* Batch sizes and wait bounds, in order
    Workloads,      \* Lengths of prefixes, or <<>>
    LedgerSizes,    \* In blocks, at least two that are ten times apart
    Depths, Repetitions,
    Cost,           \* Cost[setup][ledger]: what an audit takes
    Claiming,       \* The scheme declares ledger-independent audits
    Total           \* N of -arms i/N

VARIABLES
    experiment,     \* "redaction" or "audit"
    arms,           \* The whole sweep, in order
    host,           \* The process of each host
    points,         \* Result.Points of each host
    verdict         \* LedgerScaling of each host

vars == <<experiment, arms, host, points, verdict>>

\* What the theorems assume of the constants: the values of an axis are all
\* different, and at least one repetition of one arm is measured by a host.
Spreadable ==
    /\ Total \in Nat \ {0} /\ Repetitions \in Nat \ {0}
    /\ \A axis \in {Sizes, Waits, LedgerSizes} \cup ToSet(Axes) :
        axis \in Seq(ToSet(axis)) /\ IsInjective(axis)
    /\ Axes \in Seq(ToSet(Axes)) /\ Traces \in Seq(ToSet(Traces))
    /\ \A trace \in ToSet(Traces) : trace \in Seq(ToSet(trace))
    /\ Workloads \in Seq(Nat)
    /\ Depths \in Seq(Nat) /\ Depths # <<>> /\ IsInjective(Depths)

Hosts == 0 .. Total - 1
Txs == (UNION {ToSet(Traces[i]) : i \in DOMAIN Traces}) \cup DOMAIN Depths

-----------------------------------------------------------------------------
(* The sweeps *)

SmallerOf(a, b) == IF a < b THEN a ELSE b

\* Every setup so far with every value of one more axis.
Combined(setups, values) ==
    FlattenSeq([i \in DOMAIN setups |-> [v \in DOMAIN values |-> Append(setups[i], values[v])]])

\* setupSweeps: every combination of the axes, the last one fastest.
Sweeps ==
    LET out[n \in 0 .. Len(Axes)] ==
            IF n = 0 THEN << <<>> >> ELSE Combined(out[n - 1], Axes[n])
    IN  IF Axes = <<>> THEN <<NoSetup>> ELSE out[Len(Axes)]

\* A clamped workload that is measured already is left out.
Once(s, n) == IF n \in ToSet(s) THEN s ELSE Append(s, n)

\* workloadsFor: prefixes on the first ratio and wait bound only, each once.
WorkloadsFor(i, w) ==
    LET whole == Len(Traces[i])
        out[k \in 0 .. Len(Workloads)] ==
            IF k = 0 THEN <<>> ELSE Once(out[k - 1], SmallerOf(Workloads[k], whole))
    IN  IF Workloads = <<>> \/ i # 1 \/ w # 1 THEN <<whole>> ELSE out[Len(Workloads)]

\* The arms of experiment 2, the workload innermost.
RedactionArms ==
    FlattenSeq([s \in DOMAIN Sweeps |->
     FlattenSeq([i \in DOMAIN Traces |->
      FlattenSeq([b \in DOMAIN Sizes |->
       FlattenSeq([w \in DOMAIN Waits |->
        [n \in DOMAIN WorkloadsFor(i, w) |->
          [sweep |-> s, ratio |-> i, size |-> Sizes[b], wait |-> Waits[w],
           workload |-> WorkloadsFor(i, w)[n]]]])])])])

\* The ledgers of experiment 3, each with every depth.
AuditArms ==
    FlattenSeq([s \in DOMAIN Sweeps |->
     [l \in DOMAIN LedgerSizes |-> [sweep |-> s, ledger |-> LedgerSizes[l]]]])

Arms == IF experiment = "redaction" THEN RedactionArms ELSE AuditArms

\* runsArm
RunsArm(h, index) == Total <= 1 \/ index % Total = h

\* Faulty variant of NextIndex: only the arms of this host are counted.
NextIndexOwn(index, runs) == IF runs THEN index + 1 ELSE index

\* The arm index is counted over the full sweep.
NextIndex(index, runs) == index + 1

-----------------------------------------------------------------------------
(* One host *)

Fresh == [tx \in Txs |-> 0]

Idle == [pc |-> "next", arm |-> 0, index |-> 0, setup |-> NoSetup, version |-> Fresh,
         auths |-> <<>>, depth |-> 1, rep |-> 1]

Arm(h) == arms[host[h].arm]
Setup(arm) == Sweeps[arm.sweep]
Move(h, state) == host' = [host EXCEPT ![h] = state]
Measure(h, point) == [points EXCEPT ![h] = Append(@, point)]

\* The next arm of experiment 2: a new sweep rebuilds the scheme, on every
\* host, and an arm of another host is passed over.
NextRedactionArm(h) ==
    /\ experiment = "redaction"
    /\ host[h].pc = "next" /\ host[h].arm < Len(arms)
    /\ LET arm == arms[host[h].arm + 1]
           new == Setup(arm) # NoSetup /\ Setup(arm) # host[h].setup
           runs == RunsArm(h, host[h].index)
       IN  Move(h, [host[h] EXCEPT
                !.arm = @ + 1,
                !.index = NextIndex(@, runs),
                !.setup = Setup(arm),
                !.version = IF new THEN Fresh ELSE @,
                !.auths = IF new THEN <<>> ELSE @,
                !.pc = IF runs THEN "authorize" ELSE "next",
                !.rep = 1])
    /\ UNCHANGED <<experiment, arms, points, verdict>>

\* What a prefix of a trace is authorized to redact now.
Authorized(h) ==
    [k \in 1 .. Arm(h).workload |->
        LET tx == Traces[Arm(h).ratio][k] IN [tx |-> tx, version |-> host[h].version[tx]]]

\* Faulty variant of Pass: one pass of authorizations for the whole sweep.
PassOnce(h) == IF host[h].auths = <<>> THEN Authorized(h) ELSE host[h].auths

Pass(h) == Authorized(h)

\* authorizeAll
AuthorizeAll(h) ==
    /\ host[h].pc = "authorize"
    /\ Move(h, [host[h] EXCEPT !.pc = "redact", !.auths = Pass(h)])
    /\ UNCHANGED <<experiment, arms, points, verdict>>

\* Executed or, when its version has passed, stale.
Redacted(version, auth) ==
    IF version[auth.tx] = auth.version THEN [version EXCEPT ![auth.tx] = @ + 1] ELSE version

\* What a repetition redacts, in the order of its trace.
RedactedAll(version, auths) ==
    LET after[k \in 0 .. Len(auths)] ==
            IF k = 0 THEN version ELSE Redacted(after[k - 1], auths[k])
    IN  after[Len(auths)]

\* After a repetition: another one, or the next arm.
Repeat(state, again) ==
    IF state.rep < Repetitions THEN [state EXCEPT !.pc = again, !.rep = @ + 1]
    ELSE [state EXCEPT !.pc = "next"]

\* runOne, whose rounds are RedactionBatcher: each authorization is executed
\* unless an earlier one of the same target was.
RunOne(h) ==
    /\ host[h].pc = "redact"
    /\ LET after == RedactedAll(host[h].version, host[h].auths)
       IN  /\ points' = Measure(h,
                [arm |-> Arm(h), rep |-> host[h].rep,
                 executed |-> {tx \in Txs : after[tx] > host[h].version[tx]}])
           /\ Move(h, Repeat([host[h] EXCEPT !.version = after], "authorize"))
    /\ UNCHANGED <<experiment, arms, verdict>>

\* The next sweep and ledger of experiment 3, sharded by sweep.
NextAuditArm(h) ==
    /\ experiment = "audit"
    /\ host[h].pc = "next" /\ host[h].arm < Len(arms)
    /\ Move(h, [host[h] EXCEPT
            !.arm = @ + 1,
            !.pc = IF RunsArm(h, arms[host[h].arm + 1].sweep - 1) THEN "prepare" ELSE "next"])
    /\ UNCHANGED <<experiment, arms, points, verdict>>

\* A revision that is authorized at the version it finds.
RedactedNow(version, tx) == Redacted(version, [tx |-> tx, version |-> version[tx]])

\* Revisions of a target, each authorized at what the last one left.
Revised(version, tx, depth) ==
    LET after[i \in 0 .. depth] ==
            IF i = 0 THEN version ELSE RedactedNow(after[i - 1], tx)
    IN  after[depth]

\* Every target of Depths, revised to its depth.
Deepened ==
    LET after[k \in 0 .. Len(Depths)] ==
            IF k = 0 THEN Fresh ELSE Revised(after[k - 1], k, Depths[k])
    IN  after[Len(Depths)]

\* prepareLedger: the scheme is set up again, and target k gets depth k.
Prepare(h) ==
    /\ host[h].pc = "prepare"
    /\ Move(h, [host[h] EXCEPT
            !.setup = Setup(Arm(h)),
            !.version = Deepened,
            !.pc = "audit", !.depth = 1, !.rep = 1])
    /\ UNCHANGED <<experiment, arms, points, verdict>>

\* runOne, at each depth as often as there are repetitions.
Audit(h) ==
    /\ host[h].pc = "audit"
    /\ LET k == host[h].depth
           state == Repeat(host[h], "audit")
       IN  /\ points' = Measure(h,
                [setup |-> host[h].setup, ledger |-> Arm(h).ledger,
                 depth |-> Depths[k], rep |-> host[h].rep, found |-> host[h].version[k],
                 cost |-> Cost[host[h].setup][Arm(h).ledger]])
           /\ Move(h, IF state.pc = "next" /\ k < Len(Depths)
                      THEN [state EXCEPT !.pc = "audit", !.depth = @ + 1, !.rep = 1]
                      ELSE state)
    /\ UNCHANGED <<experiment, arms, verdict>>

-----------------------------------------------------------------------------
(* Scaling *)

\* A mean cost, in hundredths.
MeanAt(ps, ledger) ==
    LET at == SelectSeq(ps, LAMBDA p : p.ledger = ledger)
    IN  (100 * FoldLeft(LAMBDA sum, p : sum + p.cost, 0, at)) \div Len(at)

Unclassified == [ratio |-> 0, class |-> "", holds |-> FALSE]

\* classifyScaling, of some of a host's points: at the shallowest depth, the
\* largest ledger against the smallest.
ClassifyScaling(ps) ==
    LET shallow == SelectSeq(ps, LAMBDA p : \A r \in ToSet(ps) : p.depth <= r.depth)
        ledgers == {p.ledger : p \in ToSet(shallow)}
        small == CHOOSE n \in ledgers : \A m \in ledgers : n <= m
        large == CHOOSE n \in ledgers : \A m \in ledgers : n >= m
        ratio == (100 * MeanAt(shallow, large)) \div MeanAt(shallow, small)
        class == IF ratio < 120 THEN "flat"
                 ELSE IF ratio < 50 * (large \div small) THEN "sublinear" ELSE "linear"
    IN  IF Cardinality(ledgers) < 2 THEN Unclassified
        ELSE [ratio |-> ratio, class |-> class, holds |-> ~Claiming \/ class # "linear"]

\* The sweep is over: experiment 3 publishes one verdict for the scheme.
Finish(h) ==
    /\ host[h].pc = "next" /\ host[h].arm = Len(arms)
    /\ Move(h, [host[h] EXCEPT !.pc = "done"])
    /\ verdict' = IF experiment = "redaction" THEN verdict
                  ELSE [verdict EXCEPT ![h] = ClassifyScaling(points[h])]
    /\ UNCHANGED <<experiment, arms, points>>

-----------------------------------------------------------------------------

Init ==
    /\ experiment \in {"redaction", "audit"}
    /\ arms = Arms
    /\ host = [h \in Hosts |-> Idle]
    /\ points = [h \in Hosts |-> <<>>]
    /\ verdict = [h \in Hosts |-> Unclassified]

Next ==
    \E h \in Hosts :
        \/ NextRedactionArm(h) \/ AuthorizeAll(h) \/ RunOne(h)
        \/ NextAuditArm(h) \/ Prepare(h) \/ Audit(h)
        \/ Finish(h)

Spec == Init /\ [][Next]_vars

-----------------------------------------------------------------------------
(* Properties *)

TypeOK ==
    /\ experiment \in {"redaction", "audit"}
    /\ \A h \in Hosts :
        /\ host[h].pc \in {"next", "authorize", "redact", "prepare", "audit", "done"}
        /\ host[h].arm \in 0 .. Len(arms) /\ host[h].index <= host[h].arm
        /\ host[h].setup \in ToSet(Sweeps) \cup {NoSetup}
        /\ host[h].version \in [Txs -> Nat]

\* What a measurement is of: the point without what was found.
Measured(p) ==
    IF experiment = "redaction" THEN <<p.arm, p.rep>> ELSE <<p.setup, p.ledger, p.depth, p.rep>>

\* No arm is measured twice, by the same host or by two, and when the hosts are
\* through none is missing (exp2 runner.go:354-356, "every shard agrees on which
\* arm is which and no arm is measured twice").
ArmsMeasuredOnce ==
    LET all == FlattenSeq([n \in 1 .. Total |->
                    [i \in DOMAIN points[n - 1] |-> Measured(points[n - 1][i])]])
        depths == IF experiment = "audit" THEN Len(Depths) ELSE 1
    IN  /\ IsInjective(all)
        /\ (\A h \in Hosts : host[h].pc = "done") => Len(all) = Len(arms) * Repetitions * depths

\* No measurement lives off an earlier one: each arm of experiment 2 redacts
\* every target of its workload, whatever earlier arms redacted, and a target
\* of experiment 3 has exactly the history its point is labelled with (exp2
\* runner.go:363-371; authorizeOne).
MeasuredAfresh ==
    \A p \in UNION {ToSet(points[h]) : h \in Hosts} :
        IF experiment = "redaction"
        THEN p.executed = ToSet(SubSeq(Traces[p.arm.ratio], 1, p.arm.workload))
        ELSE p.found = p.depth

\* A published verdict is that of one setup configuration (exp3 runner.go:207,
\* "Scaling is classified per setup configuration").
ScalingPerConfiguration ==
    \A h \in Hosts : experiment = "audit" /\ host[h].pc = "done" =>
        \E setup \in ToSet(Sweeps) :
            verdict[h] = ClassifyScaling(SelectSeq(points[h], LAMBDA p : p.setup = setup))
=============================================================================
