-------------------------- MODULE RedactionBatcher --------------------------
(***************************************************************************)
(* How Exp 2 offers redactions (experiments/exp2_redaction): runOne hands  *)
(* the authorized requests to a fixed number of submitters over an         *)
(* unbuffered channel, each submitter blocks in batcher.submit until the   *)
(* batch that carries its request was executed, and one worker closes a    *)
(* batch when it is full, when its oldest request has waited long enough,  *)
(* or when every request the run offers is in hand.  Once all submitters   *)
(* have left, runOne stops the worker, which drains what is left.          *)
(*                                                                         *)
(* Requests are numbered in the order in which they are offered.           *)
(***************************************************************************)
EXTENDS Integers, Sequences, FiniteSets

CONSTANTS
  Submitters, \* the submitters, concurrency many; also the depth of the queue
  Total,      \* requests the run offers
  BatchSize,  \* B_R
  Waits,      \* of a run, whether it may have a wait bound Delta_R
  Failing,    \* whether Redact may return an error
  Cancels     \* whether the context of the run may end

ASSUME RunAssumption ==
  /\ IsFiniteSet(Submitters) /\ Submitters # {}
  /\ Total \in Nat /\ BatchSize \in Nat \ {0}
  /\ Waits \subseteq BOOLEAN /\ Failing \in BOOLEAN /\ Cancels \in BOOLEAN

VARIABLES
  bounded,   \* the run has a wait bound
  offered,   \* requests handed to a submitter so far
  feeding,   \* the goroutine that offers them is alive
  ended,     \* the context of the run has ended
  stage,     \* where each submitter stands
  carries,   \* the request it carries
  done,      \* what its submission was told
  queue,     \* submissions the worker has not received
  worker,    \* where the worker stands
  open,      \* the batch it accumulates
  received,  \* submissions received before the worker was stopped
  executed,  \* how often each request was part of a batch
  closed,    \* batches closed,
  short,     \* batches counted as closed on the wait bound,
  timeouts,  \* (only for the properties) batches that were,
  failures   \* and batches whose Redact failed

offerVars  == <<bounded, offered, feeding, ended>>
submitVars == <<stage, carries, done>>
statVars   == <<executed, closed, short, timeouts, failures>>
workerVars == <<queue, worker, open, received>>
vars       == <<offerVars, submitVars, statVars, workerVars>>

Req == 1 .. Total

Submission == [by: Submitters, req: Req]

Init ==
  /\ bounded \in Waits
  /\ offered = 0 /\ feeding = TRUE /\ ended = FALSE
  /\ stage = [s \in Submitters |-> "drawing"]
  /\ carries = [s \in Submitters |-> 0]
  /\ done = [s \in Submitters |-> "none"]
  /\ queue = <<>> /\ worker = "running" /\ open = <<>> /\ received = 0
  /\ executed = [r \in Req |-> 0]
  /\ closed = 0 /\ short = 0 /\ timeouts = 0 /\ failures = 0

-----------------------------------------------------------------------------
(* runOne: the feeder and the submitters. *)

(* The unbuffered channel: a submitter draws what the feeder offers. *)
Draw(s) ==
  /\ stage[s] = "drawing"
  /\ feeding /\ offered < Total
  /\ offered' = offered + 1
  /\ carries' = [carries EXCEPT ![s] = offered + 1]
  /\ stage' = [stage EXCEPT ![s] = "submitting"]
  /\ UNCHANGED <<bounded, feeding, ended, done, statVars, workerVars>>

(* Faulty variant of FeederEnds: an off-by-one in what was offered.         *)
FeederEndsEarly ==
  /\ feeding
  /\ offered >= Total - 1 \/ ended
  /\ feeding' = FALSE
  /\ UNCHANGED <<bounded, offered, ended, submitVars, statVars, workerVars>>

(* Everything is handed over, or the context ended: the channel is closed. *)
FeederEnds ==
  /\ feeding
  /\ offered = Total \/ ended
  /\ feeding' = FALSE
  /\ UNCHANGED <<bounded, offered, ended, submitVars, statVars, workerVars>>

Leave(s) == stage' = [stage EXCEPT ![s] = "left"]

(* The channel is closed and empty. *)
NoneLeft(s) ==
  /\ stage[s] = "drawing"
  /\ ~feeding
  /\ Leave(s)
  /\ UNCHANGED <<offerVars, carries, done, statVars, workerVars>>

(* batcher.submit *)
Submit(s) ==
  /\ stage[s] = "submitting"
  /\ Len(queue) < Cardinality(Submitters)
  /\ queue' = Append(queue, [by |-> s, req |-> carries[s]])
  /\ stage' = [stage EXCEPT ![s] = "waiting"]
  /\ done' = [done EXCEPT ![s] = "none"]
  /\ UNCHANGED <<offerVars, carries, statVars, worker, open, received>>

(* The round is over: back for the next request... *)
Executed(s) ==
  /\ stage[s] = "waiting"
  /\ done[s] = "ok"
  /\ stage' = [stage EXCEPT ![s] = "drawing"]
  /\ UNCHANGED <<offerVars, carries, done, statVars, workerVars>>

(* ...but a submitter whose round failed, or whose context ended, leaves. *)
Failed(s) ==
  /\ \/ stage[s] = "waiting" /\ done[s] = "error"
     \/ stage[s] \in {"submitting", "waiting"} /\ ended
  /\ Leave(s)
  /\ UNCHANGED <<offerVars, carries, done, statVars, workerVars>>

ContextEnds ==
  /\ Cancels /\ ~ended
  /\ ended' = TRUE
  /\ UNCHANGED <<bounded, offered, feeding, submitVars, statVars, workerVars>>

-----------------------------------------------------------------------------
(* batcher.run and batcher.execute. *)

InBatch(b, s) == \E k \in DOMAIN b : b[k].by = s /\ b[k].req = carries[s]

(* Faulty variant of Told: only the first submitter of a batch is answered. *)
FirstTold(b, s) == b[1].by = s

(* The submitters whose done channel the batch answers. *)
Told(b, s) == InBatch(b, s) /\ stage[s] = "waiting"

(* execute: one round, its statistics, and the answers.  An empty batch is  *)
(* not executed.                                                            *)
Execute(b, asShort) ==
  IF b = <<>> THEN UNCHANGED <<executed, closed, short, failures, done>>
  ELSE \E outcome \in IF Failing THEN {"ok", "error"} ELSE {"ok"} :
         /\ executed' = [r \in Req |->
              executed[r] + Cardinality({k \in DOMAIN b : b[k].req = r})]
         /\ closed' = closed + 1
         /\ short' = short + (IF asShort THEN 1 ELSE 0)
         /\ failures' = failures + (IF outcome = "error" THEN 1 ELSE 0)
         /\ done' = [s \in Submitters |-> IF Told(b, s) THEN outcome ELSE done[s]]

(* Faulty variant of IsFinal: one request too early.                        *)
FinalTooEarly == received + 2 >= Total

(* Every request of the run has been received with this one. *)
IsFinal == received + 1 >= Total

(* Faulty variant of IsFull: a batch closes one request late.               *)
IsOverfull(b) == Len(b) > BatchSize

IsFull(b) == Len(b) >= BatchSize

KeepOpen(b) == open' = b /\ UNCHANGED <<executed, closed, short, failures, done>>

(* A submission joins the open batch; the batch closes when it is the last  *)
(* one, and counts as short then, full or not; else when it is full.        *)
Receive ==
  LET b == Append(open, Head(queue))
  IN /\ worker = "running"
     /\ queue # <<>>
     /\ queue' = Tail(queue)
     /\ received' = received + 1
     /\ \/ IsFinal /\ Execute(b, TRUE) /\ open' = <<>>
        \/ ~IsFinal /\ IsFull(b) /\ Execute(b, FALSE) /\ open' = <<>>
        \/ ~IsFinal /\ ~IsFull(b) /\ KeepOpen(b)
     /\ UNCHANGED <<offerVars, stage, carries, worker, timeouts>>

(* Delta_R after the oldest request of the open batch. *)
TimesOut ==
  /\ bounded
  /\ worker = "running"
  /\ open # <<>>
  /\ Execute(open, TRUE)
  /\ open' = <<>>
  /\ timeouts' = timeouts + 1
  /\ UNCHANGED <<offerVars, stage, carries, queue, worker, received>>

(* finish: all submitters have left, and the stop channel is closed. *)
Finish ==
  /\ worker = "running"
  /\ \A s \in Submitters : stage[s] = "left"
  /\ worker' = "draining"
  /\ UNCHANGED <<offerVars, submitVars, statVars, queue, open, received>>

Drain ==
  LET b == Append(open, Head(queue))
  IN /\ worker = "draining"
     /\ queue # <<>>
     /\ queue' = Tail(queue)
     /\ \/ IsFull(b) /\ Execute(b, FALSE) /\ open' = <<>>
        \/ ~IsFull(b) /\ KeepOpen(b)
     /\ UNCHANGED <<offerVars, stage, carries, worker, received, timeouts>>

(* Faulty variant of Drained: the open batch is not closed.                 *)
DroppedOpen ==
  /\ worker = "draining"
  /\ queue = <<>>
  /\ worker' = "exited"
  /\ UNCHANGED <<offerVars, submitVars, statVars, queue, open, received>>

Drained ==
  /\ worker = "draining"
  /\ queue = <<>>
  /\ Execute(open, TRUE)
  /\ open' = <<>>
  /\ worker' = "exited"
  /\ UNCHANGED <<offerVars, stage, carries, queue, received, timeouts>>

-----------------------------------------------------------------------------
SubmitterStep(s) == Draw(s) \/ NoneLeft(s) \/ Submit(s) \/ Executed(s) \/ Failed(s)

WorkerStep == Receive \/ TimesOut \/ Finish \/ Drain \/ Drained

Next ==
  \/ \E s \in Submitters : SubmitterStep(s)
  \/ FeederEnds
  \/ ContextEnds
  \/ WorkerStep

Spec == Init /\ [][Next]_vars

(* Goroutines that can run do, and an armed timer fires. *)
FairSpec ==
  /\ Spec
  /\ \A s \in Submitters : WF_vars(SubmitterStep(s))
  /\ WF_vars(FeederEnds)
  /\ WF_vars(WorkerStep)

-----------------------------------------------------------------------------
(* Properties. *)

(* Type correctness; the worker never sits on a full batch. *)
TypeOK ==
  /\ bounded \in Waits
  /\ offered \in 0 .. Total
  /\ feeding \in BOOLEAN /\ ended \in BOOLEAN
  /\ stage \in [Submitters -> {"drawing", "submitting", "waiting", "left"}]
  /\ carries \in [Submitters -> 0 .. Total]
  /\ done \in [Submitters -> {"none", "ok", "error"}]
  /\ queue \in Seq(Submission) /\ Len(queue) <= Cardinality(Submitters)
  /\ worker \in {"running", "draining", "exited"}
  /\ open \in Seq(Submission) /\ Len(open) < BatchSize
  /\ received \in 0 .. Total
  /\ executed \in [Req -> Nat]
  /\ closed \in Nat /\ short \in 0 .. closed
  /\ timeouts \in 0 .. short /\ failures \in 0 .. closed

(* A request whose submission reached the worker is in exactly one place:   *)
(* queued, in the open batch, or part of one round.                         *)
Places(r) == executed[r] + Cardinality({k \in DOMAIN queue : queue[k].req = r})
                         + Cardinality({k \in DOMAIN open : open[k].req = r})

(* No request is part of two rounds, and none that was handed in is lost:   *)
(* each is executed once by the time the worker has exited, also when       *)
(* rounds failed and submitters left (batcher.go, finish).                  *)
ExecutedOnce ==
  /\ \A r \in Req : Places(r) <= 1
  /\ \A s \in Submitters : stage[s] = "waiting" => Places(carries[s]) = 1
  /\ worker = "exited" => queue = <<>> /\ open = <<>>

(* A measurement without an error is a measurement of every request:        *)
(* runOne returns a point only if the rounds it counts carried all of them. *)
(* The short closes it counts are those of the wait bound, and at most one  *)
(* more for the end of the run (batcher_test.go, "one short close is        *)
(* expected").                                                              *)
PointIsComplete ==
  /\ worker = "exited" /\ failures = 0 /\ ~ended => \A r \in Req : executed[r] = 1
  /\ short <= timeouts + 1

(* runOne returns: every submitter leaves and the worker exits, whichever   *)
(* rounds fail and whenever the context ends.  Without a wait bound it does *)
(* if no round fails and the submitters can fill a batch, whatever is left  *)
(* for the last one (batcher.go, newBatcher: "Depending on a knob's value   *)
(* for termination is not a property to rely on").                          *)
RunEnds ==
  bounded \/ (Cardinality(Submitters) >= BatchSize /\ [](failures = 0))
    => <>(worker = "exited")

=============================================================================
