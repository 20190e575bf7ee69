---------------------------- MODULE ProofService ----------------------------
(***************************************************************************)
(* Phase 3 of ZK-Redact: the standing verification layer                   *)
(* (internal/pvl/service.go, pvl.go) and the scheme that submits to it and *)
(* replaces it (zkredact/authorize.go, scheme.go).                         *)
(*                                                                         *)
(* A PVL object (a layer, here) holds the configuration that Reshard and   *)
(* Rebatch change.  A service is built over a layer with a snapshot of its *)
(* configuration: one queue and one worker per shard, closed batches, a    *)
(* stop channel.  Every reconfiguration holds the scheme's write lock,     *)
(* stops the current service, waits for its workers and builds another.    *)
(* Authorize takes the current service under the read lock and uses it     *)
(* after giving the lock up.                                               *)
(*                                                                         *)
(* A query is the proof it carries: it verifies or it does not.  zk.Verify *)
(* and zk.BatchVerify, which isolates the proofs of a batch that fails,    *)
(* agree on which, so native batching does not show here.                  *)
(***************************************************************************)
EXTENDS Integers, Sequences, FiniteSets, Functions

CONSTANTS
  Callers,     \* concurrent callers of Authorize
  Queries,     \* admitted queries they submit
  Valid,       \* those whose proof verifies
  Hash,        \* the hash of a query's deduplication identifier
  QueueDepth,  \* max_concurrency, the capacity of a shard queue
  InitShards,  \* shard_count and...
  InitBatch,   \* ...proof_batch_size of the first Setup
  Changes,     \* reconfigurations the owner of the scheme may ask for
  Overlap,     \* whether it may ask while calls are in flight
  Cancels,     \* whether the context of a call may end
  MaxShards,   \* bound: the largest shard count of Changes
  MaxServices, \* bound: services built in a behaviour
  MaxCalls     \* bound: calls of one caller

Ops == {"reshard", "rebatch", "native", "setup", "setupFails", "teardown"}

ASSUME CallAssumption ==
  /\ Valid \subseteq Queries
  /\ Hash \in [Queries -> Nat]
  /\ QueueDepth \in Nat \ {0}
  /\ Overlap \in BOOLEAN /\ Cancels \in BOOLEAN
  /\ MaxCalls \in Nat /\ MaxServices \in Nat \ {0}

(* Setup refuses a shard count below one before it touches anything; the   *)
(* tuning calls find out after they have stopped the service.              *)
ASSUME ChangeAssumption ==
  /\ MaxShards \in Nat \ {0}
  /\ InitShards \in 1 .. MaxShards /\ InitBatch \in Nat \ {0}
  /\ Changes \subseteq [op: Ops, arg: Nat]
  /\ \A ch \in Changes :
       /\ ch.op \in {"reshard", "setup"} => ch.arg <= MaxShards
       /\ ch.op = "setup" => ch.arg >= 1

VARIABLES
  layers,   \* the PVL objects: configuration and statistics of each, and (only
            \* for the properties) the requests counted that left unqueued
  services, \* the services built: layer, snapshot of its configuration, stop
  current,  \* Scheme.pvlSvc, 0 for nil
  ready,    \* Scheme.ready
  change,   \* the reconfiguration that holds the write lock
  queue,    \* the channel of every shard
  open,     \* the batch its worker accumulates
  worker,   \* where that worker stands
  stage,    \* where each caller stands in Authorize and Submit
  service,  \* the service its call uses
  query,    \* the query of its last call
  shard,    \* the shard Submit assigned it to
  calls,    \* calls it has made
  reply,    \* the reply channel of its call
  answer    \* what its last call returned

schemeVars == <<layers, services, current, ready, change>>
workerVars == <<queue, open, worker>>
callerVars == <<stage, service, query, shard, calls, reply, answer>>
vars       == <<schemeVars, workerVars, callerVars>>

NoChange == [op |-> "none", arg |-> 0]

(* Worker i of service g is the pair <<g, i>>. *)
Workers == (1 .. MaxServices) \X (0 .. MaxShards - 1)

Job == [caller: Callers, call: 1 .. MaxCalls, query: Queries]

Init ==
  /\ layers   = <<[shards |-> InitShards, batch |-> InitBatch, counted |-> 0, handled |-> 0, left |-> 0]>>
  /\ services = <<[layer |-> 1, width |-> InitShards, size |-> InitBatch, stopped |-> FALSE]>>
  /\ current  = 1
  /\ ready    = TRUE
  /\ change   = NoChange
  /\ queue    = [w \in Workers |-> <<>>]
  /\ open     = [w \in Workers |-> <<>>]
  /\ worker   = [w \in Workers |-> IF w[1] = 1 /\ w[2] < InitShards THEN "running" ELSE "none"]
  /\ stage    = [c \in Callers |-> "idle"]
  /\ service  = [c \in Callers |-> 0]
  /\ query   \in [Callers -> Queries]
  /\ shard    = [c \in Callers |-> 0]
  /\ calls    = [c \in Callers |-> 0]
  /\ reply    = [c \in Callers |-> "none"]
  /\ answer   = [c \in Callers |-> "none"]

VerdictOf(q) == IF q \in Valid THEN "verified" ELSE "rejected"

-----------------------------------------------------------------------------
(* Scheme.Authorize and Service.Submit. *)

(* The service is read under the scheme's lock, which a reconfiguration     *)
(* holds from beginning to end.                                             *)
Authorize(c, q) ==
  /\ stage[c] = "idle"
  /\ calls[c] < MaxCalls
  /\ change = NoChange
  /\ ready
  /\ stage'   = [stage EXCEPT ![c] = "admitted"]
  /\ service' = [service EXCEPT ![c] = current]
  /\ query'   = [query EXCEPT ![c] = q]
  /\ calls'   = [calls EXCEPT ![c] = @ + 1]
  /\ answer'  = [answer EXCEPT ![c] = "none"]
  /\ UNCHANGED <<schemeVars, workerVars, shard, reply>>

LayerOf(c) == services[service[c]].layer

(* ShardFor reads the count the layer has now, without its lock: not the    *)
(* one the service was built with.                                          *)
ShardFor(q, l) == IF layers[l].shards <= 1 THEN 0 ELSE Hash[q] % layers[l].shards

Assign(c) ==
  /\ stage[c] = "admitted"
  /\ service[c] # 0
  /\ shard' = [shard EXCEPT ![c] = ShardFor(query[c], LayerOf(c))]
  /\ stage' = [stage EXCEPT ![c] = "assigned"]
  /\ UNCHANGED <<schemeVars, workerVars, service, query, calls, reply, answer>>

(* stats.PerShard, which Reshard may have made shorter meanwhile. *)
Count(c) ==
  /\ stage[c] = "assigned"
  /\ layers' = [layers EXCEPT ![LayerOf(c)].counted =
                  IF shard[c] < layers[LayerOf(c)].shards THEN @ + 1 ELSE @]
  /\ stage' = [stage EXCEPT ![c] = "enqueuing"]
  /\ UNCHANGED <<services, current, ready, change, workerVars,
                 service, query, shard, calls, reply, answer>>

QueueOf(c) == <<service[c], shard[c]>>

(* The expression s.queues[shard] is in range. *)
HasQueue(c) == service[c] # 0 /\ shard[c] < services[service[c]].width

JobOf(c) == [caller |-> c, call |-> calls[c], query |-> query[c]]

Enqueue(c) ==
  /\ stage[c] = "enqueuing"
  /\ HasQueue(c)
  /\ Len(queue[QueueOf(c)]) < QueueDepth
  /\ queue' = [queue EXCEPT ![QueueOf(c)] = Append(@, JobOf(c))]
  /\ stage' = [stage EXCEPT ![c] = "waiting"]
  /\ UNCHANGED <<schemeVars, open, worker, service, query, shard, calls, reply, answer>>

(* Submit returns; nobody reads the reply channel of this call any more. *)
Return(c, result) ==
  /\ stage'   = [stage EXCEPT ![c] = "idle"]
  /\ service' = [service EXCEPT ![c] = 0]
  /\ shard'   = [shard EXCEPT ![c] = 0]
  /\ reply'   = [reply EXCEPT ![c] = "none"]
  /\ answer'  = [answer EXCEPT ![c] = result]
  /\ UNCHANGED <<services, current, ready, change, workerVars, query, calls>>

Take(c) ==
  /\ stage[c] = "waiting"
  /\ reply[c] # "none"
  /\ Return(c, reply[c])
  /\ UNCHANGED layers

(* The context ends in the first select of Submit... *)
LeaveUnqueued(c) ==
  /\ stage[c] = "enqueuing"
  /\ HasQueue(c)
  /\ Return(c, "context")
  /\ layers' = [layers EXCEPT ![LayerOf(c)].left = @ + 1]

(* ...or in the second, even when the verdict is ready. *)
LeaveUnanswered(c) ==
  /\ stage[c] = "waiting"
  /\ Return(c, "context")
  /\ UNCHANGED layers

Abandon(c) == Cancels /\ (LeaveUnqueued(c) \/ LeaveUnanswered(c))

-----------------------------------------------------------------------------
(* Service.runShardLoop and Service.verify. *)

(* Faulty variant of Awaits: one reply channel per caller, not per call.    *)
AwaitsAny(c, j) == j.caller = c /\ stage[c] = "waiting"

(* The caller of job j still waits for it. *)
Awaits(c, j) == j.caller = c /\ j.call = calls[c] /\ stage[c] = "waiting"

(* Faulty variant of Replies: every waiter gets the first proof's verdict.  *)
FirstVerdict(b, c) == {VerdictOf(b[1].query) : k \in {k \in DOMAIN b : Awaits(c, b[k])}}

(* The verdict of each proof goes to the reply channel of its own job. *)
Replies(b, c) == {VerdictOf(b[k].query) : k \in {k \in DOMAIN b : Awaits(c, b[k])}}

(* verify: statistics, verdicts, replies. *)
Verify(w, b) ==
  /\ layers' = [layers EXCEPT ![services[w[1]].layer].handled = @ + Len(b)]
  /\ reply' = [c \in Callers |->
                 IF Replies(b, c) = {} THEN reply[c] ELSE CHOOSE v \in Replies(b, c) : TRUE]

CloseBatch(w, b) == open' = [open EXCEPT ![w] = <<>>] /\ Verify(w, b)

(* Faulty variant of IsFull: a batch closes one request late. *)
IsOverfull(w, b) == Len(b) > services[w[1]].size

IsFull(w, b) == Len(b) >= services[w[1]].size

(* A request joins the open batch, and a full batch closes. *)
Receive(w) ==
  LET b == Append(open[w], Head(queue[w]))
  IN /\ worker[w] \in {"running", "draining"}
     /\ queue[w] # <<>>
     /\ queue' = [queue EXCEPT ![w] = Tail(@)]
     /\ \/ IsFull(w, b) /\ CloseBatch(w, b)
        \/ ~IsFull(w, b) /\ open' = [open EXCEPT ![w] = b] /\ UNCHANGED <<layers, reply>>
     /\ UNCHANGED <<services, current, ready, change, worker,
                    stage, service, query, shard, calls, answer>>

(* Faulty variant of TimesOut: only a full batch closes. *)
NeverTimesOut(w) == FALSE /\ UNCHANGED vars

(* BatchWait after the oldest request of the open batch. *)
TimesOut(w) ==
  /\ worker[w] = "running"
  /\ open[w] # <<>>
  /\ CloseBatch(w, open[w])
  /\ UNCHANGED <<services, current, ready, change, queue, worker,
                 stage, service, query, shard, calls, answer>>

(* Faulty variants of SeesStop: the worker leaves at once, or never looks.  *)
StopsAtOnce(w) ==
  /\ worker[w] = "running"
  /\ services[w[1]].stopped
  /\ worker' = [worker EXCEPT ![w] = "exited"]
  /\ UNCHANGED <<schemeVars, queue, open, callerVars>>

NeverSeesStop(w) == FALSE /\ UNCHANGED vars

(* The select picks the closed stop channel. *)
SeesStop(w) ==
  /\ worker[w] = "running"
  /\ services[w[1]].stopped
  /\ worker' = [worker EXCEPT ![w] = "draining"]
  /\ UNCHANGED <<schemeVars, queue, open, callerVars>>

(* Faulty variant of Drained: what is left in the open batch is dropped.    *)
DropsOpenBatch(w) ==
  /\ worker[w] = "draining"
  /\ queue[w] = <<>>
  /\ open' = [open EXCEPT ![w] = <<>>]
  /\ worker' = [worker EXCEPT ![w] = "exited"]
  /\ UNCHANGED <<schemeVars, queue, callerVars>>

(* The queue is empty: the last batch closes short and the worker ends. *)
Drained(w) ==
  /\ worker[w] = "draining"
  /\ queue[w] = <<>>
  /\ CloseBatch(w, open[w])
  /\ worker' = [worker EXCEPT ![w] = "exited"]
  /\ UNCHANGED <<services, current, ready, change, queue,
                 stage, service, query, shard, calls, answer>>

WorkerStep(w) == Receive(w) \/ TimesOut(w) \/ SeesStop(w) \/ Drained(w)

-----------------------------------------------------------------------------
(* Reconfiguration, under the write lock of the scheme. *)

Quiet == \A c \in Callers : stage[c] = "idle"

(* The call takes the lock and Stop closes the stop channel. *)
Begin(ch) ==
  /\ change = NoChange
  /\ ready \/ ch.op \in {"setup", "setupFails", "teardown"}
  /\ Overlap \/ Quiet
  /\ Len(services) < MaxServices
  /\ change' = ch
  /\ services' = IF current = 0 THEN services
                 ELSE [services EXCEPT ![current].stopped = TRUE]
  /\ UNCHANGED <<layers, current, ready, workerVars, callerVars>>

(* Stop's wait is over; a nil service is not waited for. *)
Halted ==
  current # 0 =>
    \A i \in 0 .. services[current].width - 1 : worker[<<current, i>>] = "exited"

(* The tail of a call: the lock is given up. *)
Ends(op) ==
  /\ change.op = op
  /\ Halted
  /\ change' = NoChange
  /\ UNCHANGED <<queue, open, callerVars>>

(* NewService over the newest of the layers ls, and Start. *)
Serve(ls) ==
  LET l == Len(ls)
      g == Len(services) + 1
  IN /\ layers' = ls
     /\ services' = Append(services, [layer |-> l, width |-> ls[l].shards,
                                      size |-> ls[l].batch, stopped |-> FALSE])
     /\ current' = g
     /\ worker' = [w \in Workers |->
                     IF w[1] = g /\ w[2] < ls[l].shards THEN "running" ELSE worker[w]]

(* The argument is refused, with the service already stopped. *)
Refused ==
  /\ change.arg < 1
  /\ Ends("reshard") \/ Ends("rebatch")
  /\ UNCHANGED <<layers, services, current, ready, worker>>

Reshard ==
  /\ Ends("reshard")
  /\ change.arg >= 1
  /\ Serve([layers EXCEPT ![Len(layers)] =
              [@ EXCEPT !.shards = change.arg, !.counted = 0, !.handled = 0, !.left = 0]])
  /\ UNCHANGED ready

(* Faulty variant of Rebatch: the running service is kept.                  *)
RebatchInPlace ==
  /\ change.op = "rebatch"
  /\ change.arg >= 1
  /\ layers' = [layers EXCEPT ![Len(layers)].batch = change.arg]
  /\ services' = [services EXCEPT ![current].stopped = FALSE]
  /\ change' = NoChange
  /\ UNCHANGED <<current, ready, workerVars, callerVars>>

Rebatch ==
  /\ Ends("rebatch")
  /\ change.arg >= 1
  /\ Serve([layers EXCEPT ![Len(layers)].batch = change.arg])
  /\ UNCHANGED ready

SetNativeBatchVerify ==
  /\ Ends("native")
  /\ Serve(layers)
  /\ UNCHANGED ready

(* Setup, run again with this shard count, builds a new layer. *)
Setup ==
  /\ Ends("setup")
  /\ Serve(Append(layers, [shards |-> change.arg, batch |-> InitBatch,
                           counted |-> 0, handled |-> 0, left |-> 0]))
  /\ ready' = TRUE

(* buildAuthorization fails: the old service is gone, ready is as it was. *)
SetupFails ==
  /\ Ends("setupFails")
  /\ current' = 0
  /\ UNCHANGED <<layers, services, ready, worker>>

Teardown ==
  /\ Ends("teardown")
  /\ current' = 0
  /\ ready' = FALSE
  /\ UNCHANGED <<layers, services, worker>>

Finish ==
  Refused \/ Reshard \/ Rebatch \/ SetNativeBatchVerify \/ Setup \/ SetupFails \/ Teardown

-----------------------------------------------------------------------------
SubmitStep(c) == Assign(c) \/ Count(c) \/ Enqueue(c) \/ Take(c)

Next ==
  \/ \E c \in Callers :
       \/ \E q \in Queries : Authorize(c, q)
       \/ SubmitStep(c)
       \/ Abandon(c)
  \/ \E w \in Workers : WorkerStep(w)
  \/ \E ch \in Changes : Begin(ch)
  \/ Finish

Spec == Init /\ [][Next]_vars

(* Goroutines that can run do, a timer that is armed fires, and Go serves   *)
(* blocked senders in their order.  Nobody owes a call, a reconfiguration   *)
(* or the end of a context.                                                 *)
FairSpec ==
  /\ Spec
  /\ \A c \in Callers : WF_vars(SubmitStep(c))
  /\ \A w \in Workers : WF_vars(WorkerStep(w))
  /\ WF_vars(Finish)

-----------------------------------------------------------------------------
(* Properties. *)

LayerRecord == [shards: 1 .. MaxShards, batch: Nat \ {0}, counted: Nat, handled: Nat,
                left: Nat]

ServiceRecord == [layer: Nat \ {0}, width: 1 .. MaxShards, size: Nat \ {0}, stopped: BOOLEAN]

(* Type correctness of the scheme, the layers, the services and the calls;  *)
(* no queue is longer than its channel is deep, no worker sits on a batch   *)
(* it should have closed, and a call that has a shard has a service.        *)
TypeOK ==
  /\ layers \in Seq(LayerRecord) /\ layers # <<>>
  /\ services \in Seq(ServiceRecord)
  /\ Len(services) \in 1 .. MaxServices
  /\ \A g \in 1 .. Len(services) : services[g].layer <= Len(layers)
  /\ current \in 0 .. Len(services)
  /\ ready \in BOOLEAN
  /\ change \in Changes \cup {NoChange}
  /\ change # NoChange => Len(services) < MaxServices
  /\ queue \in [Workers -> Seq(Job)]
  /\ open \in [Workers -> Seq(Job)]
  /\ worker \in [Workers -> {"none", "running", "draining", "exited"}]
  /\ \A w \in Workers : /\ worker[w] # "none" => w[1] <= Len(services)
                        /\ queue[w] # <<>> \/ open[w] # <<>> => w[1] <= Len(services)
                        /\ Len(queue[w]) <= QueueDepth
                        /\ open[w] # <<>> => Len(open[w]) < services[w[1]].size
  /\ stage \in [Callers -> {"idle", "admitted", "assigned", "enqueuing", "waiting"}]
  /\ service \in [Callers -> 0 .. Len(services)]
  /\ \A c \in Callers : /\ stage[c] # "idle" => calls[c] # 0
                        /\ stage[c] \notin {"idle", "admitted"} => service[c] # 0
  /\ query \in [Callers -> Queries]
  /\ shard \in [Callers -> 0 .. MaxShards - 1]
  /\ calls \in [Callers -> 0 .. MaxCalls]
  /\ reply \in [Callers -> {"none", "verified", "rejected"}]
  /\ answer \in [Callers -> {"none", "verified", "rejected", "context"}]

(* A worker leaves nobody behind: when it has exited, nothing waits in its  *)
(* queue or in its batch (service.go, "Drain what is queued rather than     *)
(* abandoning waiters").  Holds while the owner of the scheme reconfigures  *)
(* it between calls only, with arguments the layer accepts.                 *)
StopDrains ==
  \A w \in Workers : worker[w] = "exited" => queue[w] = <<>> /\ open[w] = <<>>

(* Between reconfigurations the scheme serves, and serves with the          *)
(* configuration its layer has: a tuning call that changed the layer and    *)
(* kept the service, or the other way round, would measure one setting      *)
(* under the label of another (authorize.go, Rebatch).                      *)
ConfigurationInForce ==
  change = NoChange /\ ready =>
    /\ current # 0
    /\ services[current].layer = Len(layers)
    /\ services[current].width = layers[Len(layers)].shards
    /\ services[current].size = layers[Len(layers)].batch
    /\ \A i \in 0 .. services[current].width - 1 : worker[<<current, i>>] = "running"

(* The places of worker w that hold a request. *)
Places(w) == ({"queued"} \X DOMAIN queue[w]) \cup ({"open"} \X DOMAIN open[w])

WorkersOf(l) == {w \in Workers : w[1] <= Len(services) /\ services[w[1]].layer = l}

Entering(l) == {c \in Callers : stage[c] = "enqueuing" /\ LayerOf(c) = l}

(* The requests a layer has counted and not yet handled. *)
Underway(l) ==
  Cardinality(UNION {{w} \X Places(w) : w \in WorkersOf(l)}) + Cardinality(Entering(l))

(* The statistics of a layer account for its requests: what PerShard        *)
(* counted is in BatchSizeSum, or still under way, or its caller's context  *)
(* ended before it was queued.  Reshard resets them together, so no batch   *)
(* of the service it stopped is added to the new statistics.                *)
StatsConserved ==
  \A l \in 1 .. Len(layers) :
    layers[l].counted = layers[l].handled + Underway(l) + layers[l].left

(* Submit never indexes a queue its service does not have, nor a nil        *)
(* service.  Not true when a reconfiguration overlaps a call: ShardFor uses *)
(* the shard count of the layer, and the service keeps the older one.       *)
QueueExists == \A c \in Callers : stage[c] = "enqueuing" => HasQueue(c)

(* Every request is answered although nobody's context ends                 *)
(* (service_test.go, "no request is lost or left blocked").                 *)
SubmitAnswered == \A c \in Callers : (stage[c] # "idle") ~> (stage[c] = "idle")

(* Every reconfiguration gives the write lock up: the workers it waits for  *)
(* all end, whatever their callers still put into the queues.               *)
ChangeReturns == (change # NoChange) ~> (change = NoChange)

-----------------------------------------------------------------------------
(* Inductive invariants. *)

Jobs == UNION {Range(queue[w]) \cup Range(open[w]) : w \in Workers}

(* A job of its caller's last call carries that call's query, and what is   *)
(* in a reply channel is the verdict of that query.  Older jobs may still   *)
(* be queued: their callers left.                                           *)
VerdictInv ==
  /\ \A j \in Jobs : /\ j.call <= calls[j.caller]
                     /\ j.call = calls[j.caller] => j.query = query[j.caller]
  /\ \A c \in Callers :
       reply[c] # "none" => stage[c] = "waiting" /\ reply[c] = VerdictOf(query[c])

(* Between calls the current service is whole, a call uses no other, and a  *)
(* reconfiguration finds nobody in the middle of one.                       *)
QuietInv ==
  /\ StopDrains
  /\ ConfigurationInForce
  /\ ready <=> current # 0
  /\ change.op \in {"reshard", "rebatch", "native"} => ready
  /\ change # NoChange \/ ~ready => Quiet
  /\ change = NoChange /\ ready => ~services[current].stopped
  /\ \A c \in Callers : stage[c] # "idle" => service[c] = current
  /\ \A c \in Callers : stage[c] \in {"assigned", "enqueuing"} => HasQueue(c)
  /\ \A w \in Workers : worker[w] \in {"draining", "exited"} => services[w[1]].stopped
  /\ current # 0 => services[current].layer = Len(layers)

(* Only the workers of the current service are at work, and only they hold  *)
(* requests: all of the newest layer.  Every other layer is settled.        *)
Held == UNION {{w} \X Places(w) : w \in Workers}

Enqueuing == {c \in Callers : stage[c] = "enqueuing"}

StatsInv ==
  /\ \A w \in Workers : worker[w] = "none" => queue[w] = <<>> /\ open[w] = <<>>
  /\ \A w \in Workers :
       worker[w] \in {"running", "draining"} =>
         w[1] = current /\ w[2] < services[current].width
  /\ IsFiniteSet(Held) /\ IsFiniteSet(Enqueuing)
  /\ \A l \in 1 .. Len(layers) :
       layers[l].counted =
         layers[l].handled + layers[l].left
           + (IF l = Len(layers) THEN Cardinality(Held) + Cardinality(Enqueuing) ELSE 0)

(* The layer implements the service of verdicts: each caller is told the    *)
(* verdict of its own proof, whatever batches, shards, services and late    *)
(* replies of earlier calls are in between.                                 *)
Verdicts == INSTANCE VerdictService WITH
  asking   <- {c \in Callers : stage[c] # "idle"},
  question <- query,
  answer   <- answer

ImplementsVerdicts == Verdicts!Spec

(* ...and answers everybody, under the fairness of the goroutines. *)
AnswersEverybody == Verdicts!FairSpec

=============================================================================
