------------------------- MODULE VerificationSweep -------------------------
(***************************************************************************)
(* Experiment 1 (experiments/exp1_verification/runner.go) for one scheme:  *)
(* the nested sweeps over what the scheme can be reconfigured to, and in   *)
(* each arm, at each concurrency level and repetition, a closed loop of    *)
(* workers that draw the requests of one trace from a shared cursor.       *)
(*                                                                         *)
(* A contract round of Ref[10] is named by the request's identifier, so    *)
(* each replay of the trace tags its identifiers.                          *)
(***************************************************************************)
EXTENDS Naturals, Sequences, FiniteSets, TLC, SequencesExt

CONSTANTS
    Knobs,          \* The schemes: for each knob the values it is swept over,
                    \* whether it declares PolicyBound and prepares traces
    NotApplicable,  \* What a knob is that the scheme does not have
    Levels,         \* concurrency_levels of the configuration, in order
    Picks,          \* What hosts are told to measure by -levels: some of the
                    \* levels, or {} without the flag
    Repetitions, TraceLen

VARIABLES
    knobs,          \* The scheme under test
    levels,         \* The levels this host measures
    cells,          \* What it measures with it, in order
    system,         \* The configuration the scheme is in
    cell,           \* Index in cells of what is measured, 0 before the first
    cursor,         \* next: the shared cursor into the trace
    worker,         \* The request each worker has drawn, or where it is
    tally,          \* Answers of this replay
    cancelled,      \* The first error has ended runCtx
    interrupted,    \* The caller's context has ended, and with it every runCtx
    opened,         \* Authorize calls made, each under its transport and tag
    points,         \* Result.Points
    base,           \* Answers of the points whose throughput is in baseSamples
    status,         \* The run is "on", "done", or has failed
    claims          \* What is derived from the points afterwards

vars == <<knobs, levels, cells, system, cell, cursor, worker, tally, cancelled, interrupted,
          opened, points, base, status, claims>>

KnobNames == <<"transport", "shards", "batch", "native">>

\* What the theorems assume of the constants: the values of an axis are all
\* different, a scheme either has a knob or does not, and one with transports
\* has no other knob.
Sweepable ==
    /\ Levels \in Seq(Nat \ {0}) /\ Levels # <<>> /\ IsInjective(Levels)
    /\ Repetitions \in Nat /\ TraceLen \in Nat
    /\ \A s \in Knobs :
        /\ \A k \in ToSet(KnobNames) :
            /\ s[k] \in Seq(ToSet(s[k])) /\ s[k] # <<>> /\ IsInjective(s[k])
            /\ s[k] = <<NotApplicable>> \/ NotApplicable \notin ToSet(s[k])
        /\ \/ s.transport = <<NotApplicable>>
           \/ \A k \in ToSet(KnobNames) \ {"transport"} : s[k] = <<NotApplicable>>

\* restrictLevels: a subset, in the order of the configuration.
RestrictLevels(picked) ==
    LET kept[n \in 0 .. Len(Levels)] ==
            IF n = 0 THEN <<>>
            ELSE IF Levels[n] \in picked THEN Append(kept[n - 1], Levels[n]) ELSE kept[n - 1]
    IN  kept[Len(Levels)]

\* The values of a knob: those configured, or the one of a scheme without it.
Swept(k) == knobs[k]

\* The arms, in the order of the nested loops, the last knob innermost.
Arms ==
    FlattenSeq([t \in DOMAIN Swept("transport") |->
     FlattenSeq([s \in DOMAIN Swept("shards") |->
      FlattenSeq([b \in DOMAIN Swept("batch") |->
       [n \in DOMAIN Swept("native") |->
        [transport |-> Swept("transport")[t], shards |-> Swept("shards")[s],
         batch |-> Swept("batch")[b], native |-> Swept("native")[n]]]])])])

\* What one replay measures.
Cells ==
    FlattenSeq([a \in DOMAIN Arms |->
     FlattenSeq([l \in DOMAIN levels |->
      [r \in 1 .. Repetitions |-> [arm |-> Arms[a], level |-> levels[l], rep |-> r]]])])

Current == cells[cell]

Applicable(arm) == {k \in ToSet(KnobNames) : arm[k] # NotApplicable}

\* Retransport, Reshard, Rebatch and SetNativeBatchVerify, as their loops turn:
\* each moves its own knob and keeps the others.
Reconfigured(arm) ==
    [k \in ToSet(KnobNames) |-> IF k \in Applicable(arm) THEN arm[k] ELSE system[k]]

-----------------------------------------------------------------------------

NoAnswers == [granted |-> 0, denied |-> 0, errors |-> 0]

Workers == 1 .. (CHOOSE c \in ToSet(Levels) : \A d \in ToSet(Levels) : d <= c)

\* Run refuses a sweep that does not begin at 1, unless it is a part of one.
Partial == levels # Levels

\* The next cell: the arm is entered, and the trace prepared and replayed at
\* this level.  Only a preparation asks whether the context has ended.
NextCell ==
    /\ status = "on"
    /\ \A w \in Workers : worker[w] = "none"
    /\ cell < Len(cells)
    /\ ~(knobs.prepares /\ interrupted /\ TraceLen # 0)
    /\ cell' = cell + 1
    /\ system' = Reconfigured(cells[cell + 1].arm)
    /\ cursor' = 0
    /\ tally' = NoAnswers
    /\ worker' = [w \in Workers |-> IF w <= cells[cell + 1].level THEN "drawing" ELSE "none"]
    /\ cancelled' = FALSE
    /\ status' = "measuring"
    /\ UNCHANGED <<knobs, levels, cells, interrupted, opened, points, base, claims>>

\* The arm's configuration cannot be reached, or the trace not prepared.
SwitchFails ==
    /\ status = "on"
    /\ cell < Len(cells)
    /\ \/ knobs.prepares
       \/ /\ cell # 0 => cells[cell + 1].arm # Current.arm
          /\ Applicable(cells[cell + 1].arm) # {}
    /\ status' = "failed"
    /\ UNCHANGED <<knobs, levels, cells, system, cell, cursor, worker, tally, cancelled,
                   interrupted, opened, points, base, claims>>

\* Faulty variant of ReplayTag: the trace as it is.
ReplayTagNone(c) == <<>>

\* replayTrace
ReplayTag(c) == <<c.level, c.rep>>

Leave(w) == worker' = [worker EXCEPT ![w] = "left"]

\* Ctrl-C or SIGTERM: the context that runExp1 was given ends.  Run itself does
\* not ask.
Interrupt ==
    /\ status \in {"on", "measuring"}
    /\ ~interrupted
    /\ interrupted' = TRUE
    /\ UNCHANGED <<knobs, levels, cells, system, cell, cursor, worker, tally, cancelled, opened,
                   points, base, status, claims>>

\* A worker draws the next request, and leaves without an error when there is
\* none or runCtx has ended.  It draws and asks in one step: what comes between
\* the two only shows in which requests of an abandoned replay are opened.
Draw(w) ==
    /\ worker[w] = "drawing"
    /\ cursor' = cursor + 1
    /\ IF cursor >= TraceLen \/ cancelled \/ interrupted
       THEN Leave(w) /\ UNCHANGED opened
       ELSE /\ worker' = [worker EXCEPT ![w] = "asking"]
            /\ opened' = Append(opened, [transport |-> system.transport,
                                         tag |-> ReplayTag(Current), request |-> cursor])
    /\ UNCHANGED <<knobs, levels, cells, system, cell, tally, cancelled, interrupted, points, base,
                   status, claims>>

\* Authorize answers.
Answer(w, answer) ==
    /\ worker[w] = "asking"
    /\ worker' = [worker EXCEPT ![w] = "drawing"]
    /\ tally' = [tally EXCEPT ![answer] = @ + 1]
    /\ UNCHANGED <<knobs, levels, cells, system, cell, cursor, cancelled, interrupted, opened,
                   points, base, status, claims>>

\* Faulty variant of Fails: the run is cancelled, the error not recorded.
FailsUnrecorded(w) ==
    /\ worker[w] = "asking"
    /\ cancelled' = TRUE
    /\ Leave(w)
    /\ UNCHANGED <<knobs, levels, cells, system, cell, cursor, tally, interrupted, opened, points,
                   base, status, claims>>

\* Authorize fails: the first error ends the run, the worker leaves.
Fails(w) ==
    /\ worker[w] = "asking"
    /\ tally' = [tally EXCEPT !.errors = @ + 1]
    /\ cancelled' = TRUE
    /\ Leave(w)
    /\ UNCHANGED <<knobs, levels, cells, system, cell, cursor, interrupted, opened, points, base,
                   status, claims>>

\* baselineShards, and the first batch size and mode.
IsBaseline(c) ==
    /\ c.level = 1
    /\ c.arm.shards = Head(Swept("shards"))
    /\ c.arm.native = Head(Swept("native")) /\ c.arm.batch = Head(Swept("batch"))

\* "interrupted" is not in the code: it keeps whether the context had ended.
Point ==
    [label |-> Current.arm, measured |-> system, level |-> Current.level, rep |-> Current.rep,
     answers |-> tally, interrupted |-> interrupted]

\* runOne returns: an error if a request failed, if everything answered was
\* granted by a scheme that checks policies, or if everything was denied.
Measured ==
    /\ status = "measuring"
    /\ \A w \in Workers : worker[w] \in {"left", "none"}
    /\ worker' = [w \in Workers |-> "none"]
    /\ IF \/ tally.errors > 0
          \/ knobs.policyBound /\ tally.granted > 0 /\ tally.denied = 0
          \/ tally.denied > 0 /\ tally.granted = 0
       THEN status' = "failed" /\ UNCHANGED <<points, base>>
       ELSE /\ status' = "on"
            /\ points' = Append(points, Point)
            /\ base' = IF IsBaseline(Current) THEN Append(base, Point.answers) ELSE base
    /\ UNCHANGED <<knobs, levels, cells, system, cell, cursor, tally, cancelled, interrupted, opened,
                   claims>>

\* After the sweep: efficiencies from the baseline, if its throughput is not 0,
\* and a saturation point unless this is a part of the sweep.
Finish ==
    /\ status = "on"
    /\ cell = Len(cells)
    /\ status' = "done"
    /\ claims' = [efficiency |-> \E i \in DOMAIN base : base[i].granted + base[i].denied > 0,
                  saturation |-> ~Partial]
    /\ UNCHANGED <<knobs, levels, cells, system, cell, cursor, worker, tally, cancelled,
                   interrupted, opened, points, base>>

-----------------------------------------------------------------------------

Init ==
    /\ knobs \in Knobs
    /\ \E picked \in Picks : levels = IF picked = {} THEN Levels ELSE RestrictLevels(picked)
    /\ cells = Cells
    /\ system = [k \in ToSet(KnobNames) |-> Head(knobs[k])]
    /\ cell = 0
    /\ cursor = 0
    /\ worker = [w \in Workers |-> "none"]
    /\ tally = NoAnswers
    /\ cancelled = FALSE /\ interrupted = FALSE
    /\ opened = <<>> /\ points = <<>> /\ base = <<>>
    /\ status = "on"
    /\ claims = [efficiency |-> FALSE, saturation |-> FALSE]

Next ==
    \/ NextCell \/ SwitchFails \/ Interrupt \/ Measured \/ Finish
    \/ \E w \in Workers : Draw(w) \/ Fails(w)
    \/ \E w \in Workers, answer \in {"granted", "denied"} : Answer(w, answer)

Spec == Init /\ [][Next]_vars

-----------------------------------------------------------------------------
(* Properties *)

TypeOK ==
    /\ cell \in 0 .. Len(cells)
    /\ worker \in [Workers -> {"none", "drawing", "asking", "left"}]
    /\ tally \in [DOMAIN NoAnswers -> 0 .. TraceLen]
    /\ status \in {"on", "measuring", "done", "failed"}
    /\ Len(points) <= cell /\ Len(base) <= Len(points)

\* Every point was measured in the configuration it is labelled with, and unless
\* the caller's context had ended before runOne returned it, it has an answer to
\* every request of the trace: a worker only leaves at the end of the trace or
\* after an error, and an error fails the point.  And no contract round was
\* opened twice on one transport (replayTrace, "an untagged replay reopens a
\* round that already exists").
PointsAsLabelled ==
    /\ \A i \in DOMAIN points :
        LET p == points[i] IN
        /\ \A k \in Applicable(p.label) : p.measured[k] = p.label[k]
        /\ p.interrupted \/ p.answers.granted + p.answers.denied = TraceLen
    /\ \A i, j \in DOMAIN opened :
        opened[i] = opened[j] /\ opened[i].transport # NotApplicable => i = j
=============================================================================
