------------------------ MODULE ProofServiceProofs ------------------------
(***************************************************************************)
(* Proofs about ProofService, for every number of callers, queries,        *)
(* shards, services and calls and every depth of the queues.               *)
(***************************************************************************)
EXTENDS ProofService, SequenceTheorems, FiniteSetTheorems, TLAPS

-----------------------------------------------------------------------------
(* Sequences. *)

LEMMA AppendRange ==
  ASSUME NEW S, NEW s \in Seq(S), NEW e \in S
  PROVE  /\ Append(s, e) \in Seq(S) /\ Len(Append(s, e)) = Len(s) + 1
         /\ Range(Append(s, e)) = Range(s) \cup {e}
<1>1. /\ Append(s, e) \in Seq(S) /\ Len(Append(s, e)) = Len(s) + 1
      /\ \A i \in 1 .. Len(s) : Append(s, e)[i] = s[i]
      /\ Append(s, e)[Len(s) + 1] = e
  BY AppendProperties
<1>2. /\ Range(s) = {s[i] : i \in 1 .. Len(s)}
      /\ Range(Append(s, e)) = {Append(s, e)[i] : i \in 1 .. Len(Append(s, e))}
  BY <1>1, RangeEquality
<1>3. Len(s) \in Nat
  BY LenProperties
<1>4. 1 .. Len(s) + 1 = (1 .. Len(s)) \cup {Len(s) + 1}
  BY <1>3
<1>5. QED
  BY <1>1, <1>2, <1>3, <1>4

LEMMA HeadTailRange ==
  ASSUME NEW S, NEW s \in Seq(S), s # <<>>
  PROVE  /\ Head(s) \in S /\ Tail(s) \in Seq(S) /\ Len(Tail(s)) <= Len(s)
         /\ Head(s) \in Range(s) /\ Range(Tail(s)) \subseteq Range(s)
<1>1. /\ Head(s) \in S /\ Tail(s) \in Seq(S) /\ Len(Tail(s)) = Len(s) - 1
      /\ \A i \in 1 .. Len(Tail(s)) : Tail(s)[i] = s[i + 1]
  BY HeadTailProperties
<1>2. /\ Range(s) = {s[i] : i \in 1 .. Len(s)}
      /\ Range(Tail(s)) = {Tail(s)[i] : i \in 1 .. Len(Tail(s))}
  BY <1>1, RangeEquality
<1>3. Len(s) \in Nat /\ Len(s) # 0
  BY LenProperties, EmptySeq
<1>4. Head(s) = s[1]
  OBVIOUS
<1>5. QED
  BY <1>1, <1>2, <1>3, <1>4

LEMMA EmptyRange == Range(<<>>) = {}
<1>1. <<>> \in Seq(Nat) /\ Len(<<>>) = 0
  BY EmptySeq
<1>2. Range(<<>>) = {<<>>[i] : i \in 1 .. 0}
  BY <1>1, RangeEquality
<1>3. QED
  BY <1>2

(* Layers and services are updated in place, or grow at the end.            *)
LEMMA LayerCounted ==
  ASSUME NEW ls \in Seq(LayerRecord), NEW l \in 1 .. Len(ls), NEW n \in Nat
  PROVE  [ls EXCEPT ![l].counted = n] \in Seq(LayerRecord) /\ Len([ls EXCEPT ![l].counted = n]) = Len(ls)
<1>1. ls[l] \in LayerRecord
  BY ElementOfSeq
<1>2. [ls[l] EXCEPT !.counted = n] \in LayerRecord
  BY <1>1 DEF LayerRecord
<1>3. QED
  BY <1>2, ExceptSeq

LEMMA LayerHandled ==
  ASSUME NEW ls \in Seq(LayerRecord), NEW l \in 1 .. Len(ls), NEW n \in Nat
  PROVE  [ls EXCEPT ![l].handled = n] \in Seq(LayerRecord) /\ Len([ls EXCEPT ![l].handled = n]) = Len(ls)
<1>1. ls[l] \in LayerRecord
  BY ElementOfSeq
<1>2. [ls[l] EXCEPT !.handled = n] \in LayerRecord
  BY <1>1 DEF LayerRecord
<1>3. QED
  BY <1>2, ExceptSeq

LEMMA LayerLeft ==
  ASSUME NEW ls \in Seq(LayerRecord), NEW l \in 1 .. Len(ls), NEW n \in Nat
  PROVE  [ls EXCEPT ![l].left = n] \in Seq(LayerRecord) /\ Len([ls EXCEPT ![l].left = n]) = Len(ls)
<1>1. ls[l] \in LayerRecord
  BY ElementOfSeq
<1>2. [ls[l] EXCEPT !.left = n] \in LayerRecord
  BY <1>1 DEF LayerRecord
<1>3. QED
  BY <1>2, ExceptSeq

LEMMA LayerResharded ==
  ASSUME NEW ls \in Seq(LayerRecord), NEW l \in 1 .. Len(ls), NEW n \in 1 .. MaxShards
  PROVE  /\ [ls EXCEPT ![l] = [@ EXCEPT !.shards = n, !.counted = 0, !.handled = 0, !.left = 0]]
              \in Seq(LayerRecord)
         /\ Len([ls EXCEPT ![l] = [@ EXCEPT !.shards = n, !.counted = 0, !.handled = 0,
                                            !.left = 0]]) = Len(ls)
<1>1. ls[l] \in LayerRecord
  BY ElementOfSeq
<1>2. [ls[l] EXCEPT !.shards = n, !.counted = 0, !.handled = 0, !.left = 0] \in LayerRecord
  BY <1>1 DEF LayerRecord
<1>3. QED
  BY <1>2, ExceptSeq

LEMMA LayerRebatched ==
  ASSUME NEW ls \in Seq(LayerRecord), NEW l \in 1 .. Len(ls), NEW b \in Nat \ {0}
  PROVE  [ls EXCEPT ![l].batch = b] \in Seq(LayerRecord) /\ Len([ls EXCEPT ![l].batch = b]) = Len(ls)
<1>1. ls[l] \in LayerRecord
  BY ElementOfSeq
<1>2. [ls[l] EXCEPT !.batch = b] \in LayerRecord
  BY <1>1 DEF LayerRecord
<1>3. QED
  BY <1>2, ExceptSeq

-----------------------------------------------------------------------------
(* Type correctness, in three parts.                                        *)

SchemeOK ==
  /\ layers \in Seq(LayerRecord) /\ layers # <<>>
  /\ services \in Seq(ServiceRecord)
  /\ Len(services) \in 1 .. MaxServices
  /\ \A g \in 1 .. Len(services) : services[g].layer <= Len(layers)
  /\ current \in 0 .. Len(services)
  /\ ready \in BOOLEAN
  /\ change \in Changes \cup {NoChange}
  /\ change # NoChange => Len(services) < MaxServices

WorkersOK ==
  /\ queue \in [Workers -> Seq(Job)]
  /\ open \in [Workers -> Seq(Job)]
  /\ worker \in [Workers -> {"none", "running", "draining", "exited"}]
  /\ \A w \in Workers : /\ worker[w] # "none" => w[1] <= Len(services)
                        /\ queue[w] # <<>> \/ open[w] # <<>> => w[1] <= Len(services)
                        /\ Len(queue[w]) <= QueueDepth
                        /\ open[w] # <<>> => Len(open[w]) < services[w[1]].size

CallersOK ==
  /\ stage \in [Callers -> {"idle", "admitted", "assigned", "enqueuing", "waiting"}]
  /\ service \in [Callers -> 0 .. Len(services)]
  /\ \A c \in Callers : /\ stage[c] # "idle" => calls[c] # 0
                        /\ stage[c] \notin {"idle", "admitted"} => service[c] # 0
  /\ query \in [Callers -> Queries]
  /\ shard \in [Callers -> 0 .. MaxShards - 1]
  /\ calls \in [Callers -> 0 .. MaxCalls]
  /\ reply \in [Callers -> {"none", "verified", "rejected"}]
  /\ answer \in [Callers -> {"none", "verified", "rejected", "context"}]

LEMMA TypeParts == TypeOK <=> SchemeOK /\ WorkersOK /\ CallersOK
  BY DEF TypeOK, SchemeOK, WorkersOK, CallersOK

LEMMA InitType == Init => TypeOK
<1> SUFFICES ASSUME Init PROVE TypeOK
  OBVIOUS
<1> USE CallAssumption, ChangeAssumption
<1>1. SchemeOK
  <2>1. /\ [shards |-> InitShards, batch |-> InitBatch, counted |-> 0, handled |-> 0, left |-> 0]
              \in LayerRecord
        /\ [layer |-> 1, width |-> InitShards, size |-> InitBatch, stopped |-> FALSE]
              \in ServiceRecord
    BY DEF LayerRecord, ServiceRecord
  <2>2. QED
    BY <2>1 DEF Init, SchemeOK
<1>2. WorkersOK
  <2>1. <<>> \in Seq(Job) /\ Len(<<>>) = 0
    BY EmptySeq
  <2>2. QED
    BY <2>1 DEF Init, WorkersOK, Workers
<1>3. CallersOK
  BY DEF Init, CallersOK
<1>4. QED
  BY <1>1, <1>2, <1>3, TypeParts

(* A call that is under way has a number, and in Submit a service. *)
LEMMA CallUnderway ==
  ASSUME TypeOK, NEW c \in Callers
  PROVE  /\ stage[c] # "idle" => calls[c] \in 1 .. MaxCalls
         /\ stage[c] \in {"assigned", "enqueuing", "waiting"} => service[c] # 0
<1>1. \A d \in Callers : /\ stage[d] # "idle" => calls[d] # 0
                         /\ stage[d] \notin {"idle", "admitted"} => service[d] # 0
  BY TypeParts DEF CallersOK
<1>2. calls[c] \in 0 .. MaxCalls
  BY DEF TypeOK
<1>3. stage[c] # "idle" => calls[c] \in 1 .. MaxCalls
  BY <1>1, <1>2, CallAssumption
<1>4. stage[c] \in {"assigned", "enqueuing", "waiting"} => service[c] # 0
  BY <1>1
<1>5. QED
  BY <1>3, <1>4

(* The service of a call, and the queue it uses. *)
LEMMA ServiceOfCall ==
  ASSUME TypeOK, NEW c \in Callers, service[c] # 0
  PROVE  /\ service[c] \in 1 .. Len(services)
         /\ services[service[c]] \in ServiceRecord
         /\ LayerOf(c) \in 1 .. Len(layers)
         /\ layers[LayerOf(c)] \in LayerRecord
         /\ HasQueue(c) => QueueOf(c) \in Workers /\ QueueOf(c)[1] = service[c]
<1>1. service[c] \in 1 .. Len(services) /\ Len(services) <= MaxServices
  BY CallAssumption DEF TypeOK
<1>2. services[service[c]] \in ServiceRecord
  BY <1>1, ElementOfSeq DEF TypeOK
<1>3. LayerOf(c) \in 1 .. Len(layers)
  BY <1>1, <1>2, LenProperties DEF TypeOK, LayerOf, ServiceRecord
<1>4. layers[LayerOf(c)] \in LayerRecord
  BY <1>3, ElementOfSeq DEF TypeOK
<1>5. HasQueue(c) => QueueOf(c) \in Workers /\ QueueOf(c)[1] = service[c]
  BY <1>1, CallAssumption DEF TypeOK, HasQueue, QueueOf, Workers
<1>6. QED
  BY <1>1, <1>2, <1>3, <1>4, <1>5

(* A worker at work belongs to a service that was built. *)
LEMMA ServiceOfWorker ==
  ASSUME TypeOK, NEW w \in Workers, worker[w] # "none"
  PROVE  /\ w[1] \in 1 .. Len(services)
         /\ services[w[1]] \in ServiceRecord
         /\ services[w[1]].layer \in 1 .. Len(layers)
         /\ layers[services[w[1]].layer] \in LayerRecord
<1>1. w[1] \in 1 .. Len(services)
  BY CallAssumption DEF TypeOK, Workers
<1>2. services[w[1]] \in ServiceRecord
  BY <1>1, ElementOfSeq DEF TypeOK
<1>3. services[w[1]].layer \in 1 .. Len(layers)
  BY <1>1, <1>2, LenProperties DEF TypeOK, ServiceRecord
<1>4. QED
  BY <1>1, <1>2, <1>3, ElementOfSeq DEF TypeOK

-----------------------------------------------------------------------------
(* What a step of worker w does, with b the batch it closes or leaves open. *)
WorkerEffect(w, b) ==
  /\ Range(b) \subseteq Range(queue[w]) \cup Range(open[w])
  /\ CloseBatch(w, b) \/ UNCHANGED <<layers, reply>>
  /\ \/ open' = open
     \/ open' = [open EXCEPT ![w] = <<>>]
     \/ open' = [open EXCEPT ![w] = b] /\ Len(b) < services[w[1]].size
  /\ \/ queue' = queue
     \/ queue[w] # <<>> /\ queue' = [queue EXCEPT ![w] = Tail(@)]
  /\ \/ worker' = worker
     \/ worker' = [worker EXCEPT ![w] = "draining"]
     \/ worker' = [worker EXCEPT ![w] = "exited"]
  /\ UNCHANGED <<services, current, ready, change, stage, service, query, shard, calls, answer>>

LEMMA WorkerCases ==
  ASSUME TypeOK, NEW w \in Workers, WorkerStep(w)
  PROVE  /\ worker[w] \in {"running", "draining"}
         /\ \E b \in Seq(Job) : WorkerEffect(w, b)
<1>1. worker[w] \in {"running", "draining"}
  BY DEF WorkerStep, Receive, TimesOut, SeesStop, Drained
<1>2. /\ queue[w] \in Seq(Job) /\ open[w] \in Seq(Job)
      /\ services[w[1]] \in ServiceRecord
  BY <1>1, ServiceOfWorker DEF TypeOK
<1>3. CASE Receive(w)
  <2>1. queue[w] # <<>> /\ Head(queue[w]) \in Job /\ Head(queue[w]) \in Range(queue[w])
    BY <1>2, <1>3, HeadTailRange DEF Receive
  <2>2. PICK b \in Seq(Job) : b = Append(open[w], Head(queue[w]))
    BY <1>2, <2>1, AppendRange
  <2>3. Range(b) \subseteq Range(queue[w]) \cup Range(open[w])
    BY <1>2, <2>1, <2>2, AppendRange
  <2>4. \/ CloseBatch(w, b)
        \/ ~IsFull(w, b) /\ open' = [open EXCEPT ![w] = b] /\ UNCHANGED <<layers, reply>>
    BY <1>3, <2>2 DEF Receive, CloseBatch, Verify
  <2>5. ~IsFull(w, b) => Len(b) < services[w[1]].size
    BY <1>2, <2>2, LenProperties DEF IsFull, ServiceRecord
  <2>6. /\ queue' = [queue EXCEPT ![w] = Tail(@)]
        /\ UNCHANGED <<services, current, ready, change, worker, stage, service, query,
                       shard, calls, answer>>
    BY <1>3 DEF Receive
  <2>7. WorkerEffect(w, b)
    BY <2>1, <2>3, <2>4, <2>5, <2>6 DEF WorkerEffect, CloseBatch
  <2>8. QED
    BY <1>1, <2>7
<1>4. CASE TimesOut(w) \/ Drained(w)
  <2>1. PICK b \in Seq(Job) : b = open[w]
    BY <1>2
  <2>2. CloseBatch(w, b)
    BY <1>4, <2>1 DEF TimesOut, Drained, CloseBatch, Verify
  <2>3. /\ queue' = queue
        /\ worker' = worker \/ worker' = [worker EXCEPT ![w] = "exited"]
        /\ UNCHANGED <<services, current, ready, change, stage, service, query, shard,
                       calls, answer>>
    BY <1>4 DEF TimesOut, Drained
  <2>4. WorkerEffect(w, b)
    BY <2>1, <2>2, <2>3 DEF WorkerEffect, CloseBatch
  <2>5. QED
    BY <1>1, <2>4
<1>5. CASE SeesStop(w)
  <2>1. WorkerEffect(w, open[w])
    BY <1>5 DEF SeesStop, WorkerEffect, schemeVars, callerVars
  <2>2. QED
    BY <1>1, <1>2, <2>1
<1>6. QED
  BY <1>1, <1>3, <1>4, <1>5 DEF WorkerStep

LEMMA WorkerType ==
  ASSUME TypeOK, NEW w \in Workers, WorkerStep(w)
  PROVE  TypeOK'
<1> USE CallAssumption
<1>1. PICK b \in Seq(Job) : WorkerEffect(w, b)
  BY WorkerCases
<1>2. /\ worker[w] # "none" /\ w[1] \in 1 .. Len(services)
      /\ services[w[1]].layer \in 1 .. Len(layers)
  BY WorkerCases, ServiceOfWorker
<1>3. /\ layers' \in Seq(LayerRecord) /\ Len(layers') = Len(layers)
      /\ reply' \in [Callers -> {"none", "verified", "rejected"}]
  <2>1. CASE UNCHANGED <<layers, reply>>
    BY <2>1 DEF TypeOK
  <2>2. CASE CloseBatch(w, b)
    <3>1. PICK l \in 1 .. Len(layers) : l = services[w[1]].layer
      BY <1>2
    <3>2. layers[l] \in LayerRecord /\ Len(b) \in Nat
      BY ElementOfSeq, LenProperties DEF TypeOK
    <3>3. PICK n \in Nat : n = layers[l].handled + Len(b)
      BY <3>2 DEF LayerRecord
    <3>4. layers' = [layers EXCEPT ![l].handled = n]
      BY <2>2, <3>1, <3>3 DEF CloseBatch, Verify
    <3>5. layers \in Seq(LayerRecord)
      BY DEF TypeOK
    <3>6. layers' \in Seq(LayerRecord) /\ Len(layers') = Len(layers)
      <4>1. /\ [layers EXCEPT ![l].handled = n] \in Seq(LayerRecord)
            /\ Len([layers EXCEPT ![l].handled = n]) = Len(layers)
        BY ONLY <3>5, l \in 1 .. Len(layers), n \in Nat, LayerHandled
      <4>2. QED
        BY <3>4, <4>1
    <3>7. \A c \in Callers : Replies(b, c) \subseteq {"verified", "rejected"}
      BY DEF Replies, VerdictOf
    <3>8. reply' \in [Callers -> {"none", "verified", "rejected"}]
      BY <2>2, <3>7 DEF TypeOK, CloseBatch, Verify
    <3>9. QED
      BY <3>6, <3>8
  <2>3. QED
    BY <1>1, <2>1, <2>2 DEF WorkerEffect
<1>4. SchemeOK'
  <2>1. layers' # <<>>
    BY <1>3, EmptySeq, LenProperties DEF TypeOK
  <2>2. QED
    BY <1>1, <1>3, <2>1 DEF WorkerEffect, TypeOK, SchemeOK
<1>5. WorkersOK'
  <2>1. queue[w] # <<>> => Tail(queue[w]) \in Seq(Job) /\ Len(Tail(queue[w])) <= Len(queue[w])
    BY HeadTailRange DEF TypeOK
  <2>2. /\ queue' \in [Workers -> Seq(Job)]
        /\ \A v \in Workers : Len(queue'[v]) <= QueueDepth
        /\ \A v \in Workers : queue'[v] # <<>> => v[1] <= Len(services)
    <3>1. CASE queue' = queue
      BY <3>1 DEF TypeOK
    <3>2. CASE queue[w] # <<>> /\ queue' = [queue EXCEPT ![w] = Tail(@)]
      <4>1. /\ queue \in [Workers -> Seq(Job)]
            /\ \A v \in Workers : Len(queue[v]) <= QueueDepth
            /\ \A v \in Workers : queue[v] # <<>> => v[1] <= Len(services)
        BY DEF TypeOK
      <4>2. Len(Tail(queue[w])) <= QueueDepth
        <5>1. /\ Len(queue[w]) \in Nat /\ Len(Tail(queue[w])) \in Nat
              /\ Len(queue[w]) <= QueueDepth /\ Len(Tail(queue[w])) <= Len(queue[w])
          <6>1. queue[w] \in Seq(Job) /\ Tail(queue[w]) \in Seq(Job)
            BY <2>1, <3>2, <4>1
          <6>2. Len(queue[w]) \in Nat /\ Len(Tail(queue[w])) \in Nat
            BY ONLY <6>1
          <6>3. QED
            BY <2>1, <3>2, <4>1, <6>2
        <5>2. QED
          BY <5>1
      <4>3. QED
        BY <1>2, <2>1, <3>2, <4>1, <4>2
    <3>3. QED
      BY <1>1, <3>1, <3>2 DEF WorkerEffect
  <2>3. /\ open' \in [Workers -> Seq(Job)]
        /\ \A v \in Workers : open'[v] # <<>> => /\ v[1] <= Len(services)
                                                 /\ Len(open'[v]) < services[v[1]].size
    <3>1. <<>> \in Seq(Job)
      BY EmptySeq
    <3>2. /\ open \in [Workers -> Seq(Job)]
          /\ \A v \in Workers : open[v] # <<>> => /\ v[1] <= Len(services)
                                                  /\ Len(open[v]) < services[v[1]].size
      BY DEF TypeOK
    <3>3. CASE open' = [open EXCEPT ![w] = <<>>]
      BY <3>1, <3>2, <3>3
    <3>4. CASE open' = [open EXCEPT ![w] = b] /\ Len(b) < services[w[1]].size
      BY <1>2, <3>2, <3>4
    <3>5. QED
      BY <1>1, <3>2, <3>3, <3>4 DEF WorkerEffect
  <2>4. /\ worker' \in [Workers -> {"none", "running", "draining", "exited"}]
        /\ \A v \in Workers : worker'[v] # "none" => v[1] <= Len(services)
    BY <1>1, <1>2 DEF WorkerEffect, TypeOK
  <2>5. services' = services
    BY <1>1 DEF WorkerEffect
  <2>6. QED
    <3> SUFFICES ASSUME NEW v \in Workers
                 PROVE  /\ worker'[v] # "none" => v[1] <= Len(services')
                        /\ queue'[v] # <<>> \/ open'[v] # <<>> => v[1] <= Len(services')
                        /\ Len(queue'[v]) <= QueueDepth
                        /\ open'[v] # <<>> => Len(open'[v]) < services'[v[1]].size
      BY <2>2, <2>3, <2>4 DEF WorkersOK
    <3>1. worker'[v] # "none" => v[1] <= Len(services')
      BY <2>4, <2>5
    <3>2. queue'[v] # <<>> \/ open'[v] # <<>> => v[1] <= Len(services')
      BY <2>2, <2>3, <2>5
    <3>3. Len(queue'[v]) <= QueueDepth
      BY <2>2
    <3>4. open'[v] # <<>> => Len(open'[v]) < services'[v[1]].size
      BY <2>3, <2>5
    <3>5. QED
      BY <3>1, <3>2, <3>3, <3>4
<1>6. CallersOK'
  BY <1>1, <1>3 DEF WorkerEffect, TypeOK, CallersOK
<1>7. QED
  BY <1>4, <1>5, <1>6, TypeParts, PTL

-----------------------------------------------------------------------------
(* The steps of a call. *)

LEMMA AuthorizeType ==
  ASSUME TypeOK, NEW c \in Callers, NEW q \in Queries, Authorize(c, q)
  PROVE  TypeOK'
<1> USE CallAssumption
<1>1. SchemeOK' /\ WorkersOK'
  BY DEF TypeOK, SchemeOK, WorkersOK, Authorize, schemeVars, workerVars
<1>2. CallersOK'
  BY DEF TypeOK, CallersOK, Authorize, schemeVars
<1>3. QED
  BY <1>1, <1>2, TypeParts, PTL

LEMMA AssignType ==
  ASSUME TypeOK, NEW c \in Callers, Assign(c)
  PROVE  TypeOK'
<1> USE CallAssumption, ChangeAssumption
<1>1. SchemeOK' /\ WorkersOK'
  BY DEF TypeOK, SchemeOK, WorkersOK, Assign, schemeVars, workerVars
<1>2. ShardFor(query[c], LayerOf(c)) \in 0 .. MaxShards - 1
  <2>1. layers[LayerOf(c)].shards \in 1 .. MaxShards
    BY ServiceOfCall DEF Assign, LayerRecord
  <2>2. Hash[query[c]] \in Nat
    BY DEF TypeOK
  <2>3. QED
    BY <2>1, <2>2 DEF ShardFor
<1>3. CallersOK'
  BY <1>2 DEF TypeOK, CallersOK, Assign, schemeVars
<1>4. QED
  BY <1>1, <1>3, TypeParts, PTL

(* A statistic of the layer of a call goes up by one, or stays. *)
LEMMA CountType ==
  ASSUME TypeOK, NEW c \in Callers, Count(c)
  PROVE  TypeOK'
<1> USE CallAssumption
<1>1. service[c] # 0
  BY CallUnderway DEF Count
<1>2. PICK l \in 1 .. Len(layers) : l = LayerOf(c)
  BY <1>1, ServiceOfCall
<1>3. layers \in Seq(LayerRecord) /\ layers[l].counted \in Nat
  <2>1. layers \in Seq(LayerRecord) /\ layers[l] \in LayerRecord
    BY ElementOfSeq DEF TypeOK
  <2>2. QED
    BY <2>1 DEF LayerRecord
<1>4. PICK n \in Nat : n = IF shard[c] < layers[l].shards THEN layers[l].counted + 1
                                                           ELSE layers[l].counted
  BY <1>3
<1>5. layers' = [layers EXCEPT ![l].counted = n]
  BY <1>2, <1>4 DEF Count
<1>6. layers' \in Seq(LayerRecord) /\ Len(layers') = Len(layers)
  <2>1. [layers EXCEPT ![l].counted = n] \in Seq(LayerRecord)
        /\ Len([layers EXCEPT ![l].counted = n]) = Len(layers)
    BY ONLY <1>3, l \in 1 .. Len(layers), n \in Nat, LayerCounted
  <2>2. QED
    BY <1>5, <2>1
<1>7. SchemeOK' /\ WorkersOK'
  <2>1. layers' # <<>>
    BY <1>6, EmptySeq, LenProperties DEF TypeOK
  <2>2. QED
    BY <1>6, <2>1 DEF TypeOK, SchemeOK, WorkersOK, Count, workerVars
<1>8. CallersOK'
  BY <1>1 DEF TypeOK, CallersOK, Count
<1>9. QED
  BY <1>7, <1>8, TypeParts, PTL

LEMMA EnqueueType ==
  ASSUME TypeOK, NEW c \in Callers, Enqueue(c)
  PROVE  TypeOK'
<1> USE CallAssumption
<1>1. service[c] # 0 /\ HasQueue(c)
  BY DEF Enqueue, HasQueue
<1>2. PICK w \in Workers : w = QueueOf(c) /\ w[1] = service[c]
  BY <1>1, ServiceOfCall
<1>3. SchemeOK' /\ CallersOK'
  BY <1>1 DEF TypeOK, SchemeOK, CallersOK, Enqueue, schemeVars
<1>4. PICK s \in Seq(Job) : /\ s = Append(queue[w], JobOf(c))
                            /\ Len(s) <= QueueDepth
  <2>1. JobOf(c) \in Job
    <3>1. calls[c] \in 1 .. MaxCalls
      BY CallUnderway DEF Enqueue
    <3>2. QED
      BY <3>1 DEF TypeOK, JobOf, Job
  <2>2. queue[w] \in Seq(Job) /\ Len(queue[w]) \in Nat /\ Len(queue[w]) < QueueDepth
    BY <1>2, LenProperties DEF TypeOK, Enqueue
  <2>3. Append(queue[w], JobOf(c)) \in Seq(Job)
        /\ Len(Append(queue[w], JobOf(c))) = Len(queue[w]) + 1
    BY <2>1, <2>2, AppendProperties
  <2>4. Len(queue[w]) + 1 <= QueueDepth
    BY <2>2
  <2>5. QED
    BY <2>3, <2>4
<1>5. queue' = [queue EXCEPT ![w] = s]
  BY <1>2, <1>4 DEF Enqueue
<1>6. WorkersOK'
  <2>1. w[1] <= Len(services)
    BY <1>1, <1>2, ServiceOfCall
  <2>2. QED
    BY <1>4, <1>5, <2>1 DEF TypeOK, WorkersOK, Enqueue, schemeVars
<1>7. QED
  BY <1>3, <1>6, TypeParts, PTL

LEMMA ReturnType ==
  ASSUME TypeOK, NEW c \in Callers, NEW what \in {"verified", "rejected", "context"},
         Return(c, what), layers' \in Seq(LayerRecord), Len(layers') = Len(layers)
  PROVE  TypeOK'
<1> USE CallAssumption, ChangeAssumption
<1>1. layers' # <<>>
  BY EmptySeq, LenProperties DEF TypeOK
<1>2. SchemeOK' /\ WorkersOK'
  BY <1>1 DEF TypeOK, SchemeOK, WorkersOK, Return, workerVars
<1>3. CallersOK'
  BY DEF TypeOK, CallersOK, Return
<1>4. QED
  BY <1>2, <1>3, TypeParts, PTL

LEMMA LeaveType ==
  ASSUME TypeOK, NEW c \in Callers, Take(c) \/ Abandon(c)
  PROVE  TypeOK'
<1>1. layers \in Seq(LayerRecord)
  BY DEF TypeOK
<1>2. CASE Take(c)
  <2>1. PICK what \in {"verified", "rejected", "context"} : what = reply[c]
    BY <1>2 DEF TypeOK, Take
  <2>2. Return(c, what) /\ layers' = layers
    BY <1>2, <2>1 DEF Take
  <2>3. QED
    BY <1>1, <2>2, ReturnType
<1>3. CASE LeaveUnanswered(c)
  BY <1>1, <1>3, ReturnType DEF LeaveUnanswered
<1>4. CASE LeaveUnqueued(c)
  <2>1. service[c] # 0
    BY <1>4 DEF LeaveUnqueued, HasQueue
  <2>2. PICK l \in 1 .. Len(layers) : l = LayerOf(c)
    BY <2>1, ServiceOfCall
  <2>3. layers[l].left \in Nat
    <3>1. layers[l] \in LayerRecord
      BY <1>1, ElementOfSeq
    <3>2. QED
      BY <3>1 DEF LayerRecord
  <2>4. PICK n \in Nat : n = layers[l].left + 1
    BY <2>3
  <2>5. layers' = [layers EXCEPT ![l].left = n]
    BY <1>4, <2>2, <2>4 DEF LeaveUnqueued
  <2>6. [layers EXCEPT ![l].left = n] \in Seq(LayerRecord)
        /\ Len([layers EXCEPT ![l].left = n]) = Len(layers)
    BY ONLY <1>1, l \in 1 .. Len(layers), n \in Nat, LayerLeft
  <2>7. QED
    BY <1>4, <2>5, <2>6, ReturnType DEF LeaveUnqueued
<1>5. QED
  BY <1>2, <1>3, <1>4 DEF Abandon

-----------------------------------------------------------------------------
(* The steps of a reconfiguration. *)

LEMMA BeginType ==
  ASSUME TypeOK, NEW ch \in Changes, Begin(ch)
  PROVE  TypeOK'
<1> USE CallAssumption
<1>1. /\ services' \in Seq(ServiceRecord) /\ Len(services') = Len(services)
      /\ \A g \in 1 .. Len(services) : /\ services'[g].layer = services[g].layer
                                       /\ services'[g].size = services[g].size
  <2>1. CASE current = 0
    BY <2>1 DEF TypeOK, Begin
  <2>2. CASE current # 0
    <3>1. services \in Seq(ServiceRecord) /\ current \in 1 .. Len(services)
      BY <2>2 DEF TypeOK
    <3>2. PICK r \in ServiceRecord : r = [services[current] EXCEPT !.stopped = TRUE]
      <4>1. services[current] \in ServiceRecord
        BY <3>1, ElementOfSeq
      <4>2. [services[current] EXCEPT !.stopped = TRUE] \in ServiceRecord
        BY <4>1 DEF ServiceRecord
      <4>3. QED
        BY <4>2
    <3>3. r.layer = services[current].layer /\ r.size = services[current].size
      <4>1. services[current] \in ServiceRecord
        BY <3>1, ElementOfSeq
      <4>2. QED
        BY <3>2, <4>1 DEF ServiceRecord
    <3>4. services' = [services EXCEPT ![current] = r]
      BY <2>2, <3>2 DEF Begin
    <3>5. services' \in Seq(ServiceRecord) /\ Len(services') = Len(services)
          /\ \A g \in 1 .. Len(services) :
               services'[g] = IF g = current THEN r ELSE services[g]
      BY <3>1, <3>4, ExceptSeq
    <3>6. QED
      BY <3>3, <3>5
  <2>3. QED
    BY <2>1, <2>2
<1>2. SchemeOK'
  BY <1>1 DEF TypeOK, SchemeOK, Begin
<1>3. WorkersOK'
  <2>1. \A w \in Workers : w[1] <= Len(services) => w[1] \in 1 .. Len(services)
    BY DEF Workers, TypeOK
  <2>2. QED
    BY <1>1, <2>1 DEF TypeOK, WorkersOK, Begin, workerVars
<1>4. CallersOK'
  BY <1>1 DEF TypeOK, CallersOK, Begin, callerVars
<1>5. QED
  BY <1>2, <1>3, <1>4, TypeParts, PTL

LEMMA ServeType ==
  ASSUME TypeOK, NEW ls \in Seq(LayerRecord), Len(ls) >= Len(layers), ls # <<>>,
         change # NoChange, Serve(ls), change' = NoChange, ready' \in BOOLEAN,
         UNCHANGED <<queue, open, callerVars>>
  PROVE  TypeOK'
<1> USE CallAssumption
<1>1. PICK n \in Nat, k \in Nat : n = Len(services) /\ k = Len(ls)
  BY LenProperties DEF TypeOK
<1>2. n \in 1 .. MaxServices /\ n < MaxServices /\ k >= 1 /\ ls[k] \in LayerRecord
  <2>1. k >= 1
    BY <1>1, EmptySeq, LenProperties
  <2>2. QED
    BY <1>1, <2>1, ElementOfSeq DEF TypeOK
<1>3. PICK r \in ServiceRecord : r = [layer |-> k, width |-> ls[k].shards,
                                      size |-> ls[k].batch, stopped |-> FALSE]
  <2>1. /\ ls[k].shards \in 1 .. MaxShards
        /\ ls[k].batch \in Nat \ {0}
        /\ k \in Nat \ {0}
    <3>1. ls[k] \in LayerRecord
      BY <1>2
    <3>2. ls[k].shards \in 1 .. MaxShards /\ ls[k].batch \in Nat \ {0}
      BY ONLY <3>1 DEF LayerRecord
    <3>3. QED
      BY <1>2, <3>2
  <2>2. [layer |-> k, width |-> ls[k].shards, size |-> ls[k].batch, stopped |-> FALSE]
          \in ServiceRecord
    BY <2>1 DEF ServiceRecord
  <2>3. QED
    BY <2>2
<1>4. /\ layers' = ls /\ services' = Append(services, r) /\ current' = n + 1
      /\ worker' = [w \in Workers |->
                      IF w[1] = n + 1 /\ w[2] < ls[k].shards THEN "running" ELSE worker[w]]
  BY <1>1, <1>3 DEF Serve
<1>5. /\ services' \in Seq(ServiceRecord) /\ Len(services') = n + 1
      /\ \A g \in 1 .. n : services'[g] = services[g]
      /\ services'[n + 1] = r
  BY <1>1, <1>4, AppendProperties DEF TypeOK
<1>6. SchemeOK'
  <2>1. \A g \in 1 .. n + 1 : services'[g].layer <= k
    <3>1. \A g \in 1 .. n : services[g].layer \in Nat /\ services[g].layer <= Len(layers)
      <4>1. \A g \in 1 .. n : services[g] \in ServiceRecord /\ services[g].layer <= Len(layers)
        BY <1>1, ElementOfSeq DEF TypeOK
      <4>2. QED
        BY <4>1 DEF ServiceRecord
    <3>2. Len(layers) \in Nat /\ Len(layers) <= k
      BY <1>1, LenProperties DEF TypeOK
    <3>3. r.layer = k
      BY <1>3
    <3>4. \A g \in 1 .. n : services'[g].layer <= k
      BY <1>5, <3>1, <3>2
    <3>5. services'[n + 1].layer <= k
      BY <1>5, <3>3
    <3>6. QED
      BY <3>4, <3>5
  <2>2. QED
    BY <1>1, <1>2, <1>4, <1>5, <2>1 DEF SchemeOK
<1>7. WorkersOK'
  <2>1. worker' \in [Workers -> {"none", "running", "draining", "exited"}]
    BY <1>4 DEF TypeOK
  <2>2. \A w \in Workers : worker'[w] # "none" => w[1] <= n + 1
    BY <1>1, <1>4 DEF TypeOK, Workers
  <2>3. \A w \in Workers : w[1] <= n => w[1] \in 1 .. n
    BY DEF Workers
  <2>4. QED
    BY <1>1, <1>2, <1>5, <2>1, <2>2, <2>3 DEF TypeOK, WorkersOK, Workers
<1>8. CallersOK'
  BY <1>1, <1>5 DEF TypeOK, CallersOK, callerVars
<1>9. QED
  BY <1>6, <1>7, <1>8, TypeParts, PTL

LEMMA FinishType ==
  ASSUME TypeOK, Finish
  PROVE  TypeOK'
<1> USE CallAssumption, ChangeAssumption
<1>1. /\ change # NoChange /\ change \in Changes /\ change' = NoChange
      /\ UNCHANGED <<queue, open, callerVars>>
  BY DEF TypeOK, Finish, Refused, Reshard, Rebatch, SetNativeBatchVerify, Setup, SetupFails,
         Teardown, Ends, NoChange
<1>2. PICK n \in Nat \ {0} : n = Len(layers)
  BY EmptySeq, LenProperties DEF TypeOK
<1>3. layers \in Seq(LayerRecord) /\ layers # <<>>
  BY DEF TypeOK
<1>4. change.arg \in Nat
  BY <1>1
<1>5. CASE Refused \/ SetupFails \/ Teardown
  <2>1. /\ UNCHANGED <<layers, services, worker>>
        /\ current' \in {0, current} /\ ready' \in BOOLEAN
    BY <1>5 DEF Refused, SetupFails, Teardown, TypeOK
  <2>2. SchemeOK'
    BY <1>1, <2>1 DEF TypeOK, SchemeOK
  <2>3. WorkersOK' /\ CallersOK'
    BY <1>1, <2>1 DEF TypeOK, WorkersOK, CallersOK, callerVars
  <2>4. QED
    BY <2>2, <2>3, TypeParts, PTL
<1>6. CASE Reshard
  <2>1. change.arg \in 1 .. MaxShards
    BY <1>1, <1>4, <1>6 DEF Reshard, Ends
  <2>2. PICK a \in 1 .. MaxShards : a = change.arg
    BY <2>1
  <2>3. PICK ls \in Seq(LayerRecord) :
          /\ ls = [layers EXCEPT ![n] = [@ EXCEPT !.shards = a, !.counted = 0, !.handled = 0,
                                                  !.left = 0]]
          /\ Len(ls) = n
    <3>1. n \in 1 .. Len(layers)
      BY <1>2
    <3>2. QED
      BY <1>2, <1>3, <3>1, LayerResharded
  <2>4. Serve(ls) /\ ready' \in BOOLEAN
    BY <1>2, <1>6, <2>2, <2>3 DEF Reshard, TypeOK
  <2>5. Len(ls) >= Len(layers) /\ ls # <<>>
    BY <1>2, <2>3, EmptySeq
  <2>6. QED
    BY <1>1, <2>4, <2>5, ServeType
<1>7. CASE Rebatch
  <2>1. PICK a \in Nat \ {0} : a = change.arg
    BY <1>4, <1>7 DEF Rebatch
  <2>2. PICK ls \in Seq(LayerRecord) : ls = [layers EXCEPT ![n].batch = a] /\ Len(ls) = n
    <3>1. n \in 1 .. Len(layers)
      BY <1>2
    <3>2. [layers EXCEPT ![n].batch = a] \in Seq(LayerRecord)
          /\ Len([layers EXCEPT ![n].batch = a]) = Len(layers)
      BY ONLY <1>3, <3>1, a \in Nat \ {0}, LayerRebatched
    <3>3. QED
      BY <1>2, <3>2
  <2>3. Serve(ls) /\ ready' \in BOOLEAN
    BY <1>2, <1>7, <2>1, <2>2 DEF Rebatch, TypeOK
  <2>4. Len(ls) >= Len(layers) /\ ls # <<>>
    BY <1>2, <2>2, EmptySeq
  <2>5. QED
    BY <1>1, <2>3, <2>4, ServeType
<1>8. CASE SetNativeBatchVerify
  <2>1. Serve(layers) /\ ready' \in BOOLEAN
    BY <1>8 DEF SetNativeBatchVerify, TypeOK
  <2>2. Len(layers) >= Len(layers)
    BY <1>2
  <2>3. QED
    BY <1>1, <1>3, <2>1, <2>2, ServeType
<1>9. CASE Setup
  <2>1. change.arg \in 1 .. MaxShards
    BY <1>1, <1>4, <1>9 DEF Setup, Ends
  <2>2. PICK r \in LayerRecord : r = [shards |-> change.arg, batch |-> InitBatch,
                                      counted |-> 0, handled |-> 0, left |-> 0]
    BY <2>1 DEF LayerRecord
  <2>3. PICK ls \in Seq(LayerRecord) : ls = Append(layers, r) /\ Len(ls) = n + 1
    BY <1>2, <1>3, AppendProperties
  <2>4. Serve(ls) /\ ready' \in BOOLEAN
    BY <1>9, <2>2, <2>3 DEF Setup
  <2>5. Len(ls) >= Len(layers) /\ ls # <<>>
    BY <1>2, <2>3, EmptySeq
  <2>6. QED
    BY <1>1, <2>4, <2>5, ServeType
<1>10. QED
  BY <1>5, <1>6, <1>7, <1>8, <1>9 DEF Finish

LEMMA StepType ==
  ASSUME TypeOK, [Next]_vars
  PROVE  TypeOK'
<1>1. CASE \E c \in Callers, q \in Queries : Authorize(c, q)
  BY <1>1, AuthorizeType
<1>2. CASE \E c \in Callers : SubmitStep(c) \/ Abandon(c)
  BY <1>2, AssignType, CountType, EnqueueType, LeaveType DEF SubmitStep
<1>3. CASE \E w \in Workers : WorkerStep(w)
  BY <1>3, WorkerType
<1>4. CASE \E ch \in Changes : Begin(ch)
  BY <1>4, BeginType
<1>5. CASE Finish
  BY <1>5, FinishType
<1>6. CASE UNCHANGED vars
  BY <1>6 DEF TypeOK, vars, schemeVars, workerVars, callerVars
<1>7. QED
  BY <1>1, <1>2, <1>3, <1>4, <1>5, <1>6, Zenon DEF Next

(* TypeOK, of every behaviour: whatever reconfigurations overlap whatever   *)
(* calls, no queue is longer than its channel is deep, no worker sits on a  *)
(* batch it should have closed, and every index into the layers and the     *)
(* services is in range.                                                    *)
THEOREM TypeCorrect == Spec => []TypeOK
<1>1. Init => TypeOK
  BY InitType
<1>2. TypeOK /\ [Next]_vars => TypeOK'
  BY StepType
<1>3. QED
  BY <1>1, <1>2, PTL DEF Spec

-----------------------------------------------------------------------------
(* Verdicts. *)

LEMMA JobsTyped ==
  ASSUME TypeOK
  PROVE  /\ Jobs \subseteq Job
         /\ \A w \in Workers : Range(queue[w]) \subseteq Jobs /\ Range(open[w]) \subseteq Jobs
<1>1. \A w \in Workers : queue[w] \in Seq(Job) /\ open[w] \in Seq(Job)
  BY DEF TypeOK
<1>2. \A s \in Seq(Job) : Range(s) \subseteq Job
  BY RangeEquality, ElementOfSeq
<1>3. QED
  BY <1>1, <1>2 DEF Jobs

(* What is replied is the verdict of the caller's last query. *)
LEMMA RepliesSound ==
  ASSUME TypeOK, VerdictInv, NEW b \in Seq(Job), Range(b) \subseteq Jobs, NEW c \in Callers
  PROVE  \A v \in Replies(b, c) : stage[c] = "waiting" /\ v = VerdictOf(query[c])
<1> SUFFICES ASSUME NEW k \in DOMAIN b, Awaits(c, b[k])
             PROVE  stage[c] = "waiting" /\ b[k].query = query[c]
  BY DEF Replies
<1>1. b[k] \in Jobs
  BY DEF Range
<1>2. QED
  BY <1>1 DEF Awaits, VerdictInv

LEMMA WorkerVerdicts ==
  ASSUME TypeOK, VerdictInv, NEW w \in Workers, WorkerStep(w)
  PROVE  VerdictInv'
<1>1. PICK b \in Seq(Job) : WorkerEffect(w, b)
  BY WorkerCases
<1>2. Range(b) \subseteq Jobs
  BY <1>1, JobsTyped DEF WorkerEffect
<1>3. \A v \in Workers : Range(queue'[v]) \subseteq Jobs
  <2>1. CASE queue' = queue
    BY <2>1, JobsTyped
  <2>2. CASE queue[w] # <<>> /\ queue' = [queue EXCEPT ![w] = Tail(@)]
    <3>1. queue[w] \in Seq(Job) /\ queue \in [Workers -> Seq(Job)]
      BY DEF TypeOK
    <3>2. Range(Tail(queue[w])) \subseteq Range(queue[w])
      BY <2>2, <3>1, HeadTailRange
    <3>3. QED
      BY <2>2, <3>1, <3>2, JobsTyped
  <2>3. QED
    BY <1>1, <2>1, <2>2 DEF WorkerEffect
<1>4. \A v \in Workers : Range(open'[v]) \subseteq Jobs
  <2>1. open \in [Workers -> Seq(Job)]
    BY DEF TypeOK
  <2>2. CASE open' = [open EXCEPT ![w] = <<>>]
    BY <2>1, <2>2, EmptyRange, JobsTyped
  <2>3. CASE open' = [open EXCEPT ![w] = b]
    BY <1>2, <2>1, <2>3, JobsTyped
  <2>4. QED
    BY <1>1, <2>2, <2>3, JobsTyped DEF WorkerEffect
<1>5. Jobs' \subseteq Jobs
  BY <1>3, <1>4 DEF Jobs
<1>6. UNCHANGED <<stage, query, calls>>
  BY <1>1 DEF WorkerEffect
<1>7. \A c \in Callers :
        reply'[c] # "none" => stage[c] = "waiting" /\ reply'[c] = VerdictOf(query[c])
  <2>1. \A c \in Callers :
          reply[c] # "none" => stage[c] = "waiting" /\ reply[c] = VerdictOf(query[c])
    BY DEF VerdictInv
  <2>2. \A c \in Callers :
          \A v \in Replies(b, c) : stage[c] = "waiting" /\ v = VerdictOf(query[c])
    BY <1>2, RepliesSound
  <2>3. CASE CloseBatch(w, b)
    <3>1. \A c \in Callers : reply'[c] = reply[c] \/ reply'[c] \in Replies(b, c)
      BY <2>3 DEF CloseBatch, Verify
    <3>2. QED
      BY <2>1, <2>2, <3>1
  <2>4. QED
    BY <1>1, <2>1, <2>3 DEF WorkerEffect
<1>8. QED
  BY <1>5, <1>6, <1>7 DEF VerdictInv

LEMMA AuthorizeVerdicts ==
  ASSUME TypeOK, VerdictInv, NEW c \in Callers, NEW q \in Queries, Authorize(c, q)
  PROVE  VerdictInv'
<1>1. /\ UNCHANGED <<queue, open, reply>>
      /\ stage[c] = "idle"
      /\ stage' = [stage EXCEPT ![c] = "admitted"]
      /\ query' = [query EXCEPT ![c] = q]
      /\ calls' = [calls EXCEPT ![c] = @ + 1]
  BY DEF Authorize, workerVars
<1>2. Jobs' = Jobs
  BY <1>1 DEF Jobs
<1>3. ASSUME NEW j \in Jobs
      PROVE  /\ j.call <= calls'[j.caller]
             /\ j.call = calls'[j.caller] => j.query = query'[j.caller]
  <2>1. /\ j.caller \in Callers /\ j.call \in Nat
        /\ j.call <= calls[j.caller]
        /\ j.call = calls[j.caller] => j.query = query[j.caller]
    BY JobsTyped DEF VerdictInv, Job
  <2>2. calls \in [Callers -> Nat] /\ query \in [Callers -> Queries]
    BY CallAssumption DEF TypeOK
  <2>3. CASE j.caller = c
    BY <1>1, <2>1, <2>2, <2>3
  <2>4. CASE j.caller # c
    BY <1>1, <2>1, <2>2, <2>4
  <2>5. QED
    BY <2>3, <2>4
<1>4. \A d \in Callers :
        reply'[d] # "none" => stage'[d] = "waiting" /\ reply'[d] = VerdictOf(query'[d])
  BY <1>1 DEF VerdictInv, TypeOK
<1>5. QED
  BY <1>2, <1>3, <1>4 DEF VerdictInv

LEMMA EnqueueVerdicts ==
  ASSUME TypeOK, VerdictInv, NEW c \in Callers, Enqueue(c)
  PROVE  VerdictInv'
<1>1. service[c] # 0 /\ HasQueue(c)
  BY DEF Enqueue, HasQueue
<1>2. PICK w \in Workers : w = QueueOf(c)
  BY <1>1, ServiceOfCall
<1>3. PICK j \in Job : j = JobOf(c)
  <2>1. calls[c] \in 1 .. MaxCalls
    BY CallUnderway DEF Enqueue
  <2>2. QED
    BY <2>1 DEF TypeOK, JobOf, Job
<1>4. queue[w] \in Seq(Job) /\ queue \in [Workers -> Seq(Job)]
  BY DEF TypeOK
<1>5. Range(Append(queue[w], j)) = Range(queue[w]) \cup {j}
  BY <1>4, AppendRange
<1>6. \A v \in Workers : Range(queue'[v]) \subseteq Jobs \cup {j}
  BY <1>2, <1>3, <1>4, <1>5, JobsTyped DEF Enqueue
<1>7. Jobs' \subseteq Jobs \cup {j}
  BY <1>6, JobsTyped DEF Jobs, Enqueue
<1>8. j.caller = c /\ j.call = calls[c] /\ j.query = query[c]
  BY <1>3 DEF JobOf
<1>9. \A i \in Jobs' : /\ i.call <= calls[i.caller]
                       /\ i.call = calls[i.caller] => i.query = query[i.caller]
  <2>1. calls[c] \in Nat
    BY CallAssumption DEF TypeOK
  <2>2. QED
    BY <1>7, <1>8, <2>1 DEF VerdictInv
<1>10. /\ UNCHANGED <<query, calls, reply>>
       /\ stage \in [Callers -> {"idle", "admitted", "assigned", "enqueuing", "waiting"}]
       /\ stage' = [stage EXCEPT ![c] = "waiting"]
  BY DEF Enqueue, TypeOK
<1>11. QED
  BY <1>9, <1>10 DEF VerdictInv

LEMMA ReturnVerdicts ==
  ASSUME TypeOK, VerdictInv, NEW c \in Callers, NEW what, Return(c, what)
  PROVE  VerdictInv'
<1>1. /\ UNCHANGED <<queue, open, query, calls>>
      /\ stage' = [stage EXCEPT ![c] = "idle"]
      /\ reply' = [reply EXCEPT ![c] = "none"]
  BY DEF Return, workerVars
<1>2. Jobs' = Jobs
  BY <1>1 DEF Jobs
<1>3. QED
  BY <1>1, <1>2 DEF VerdictInv, TypeOK

LEMMA StepVerdicts ==
  ASSUME TypeOK, VerdictInv, [Next]_vars
  PROVE  VerdictInv'
<1>1. CASE \E c \in Callers, q \in Queries : Authorize(c, q)
  BY <1>1, AuthorizeVerdicts
<1>2. CASE \E c \in Callers : Assign(c) \/ Count(c)
  <2>1. PICK c \in Callers : Assign(c) \/ Count(c)
    BY <1>2
  <2>2. /\ UNCHANGED <<queue, open, query, calls, reply>>
        /\ stage[c] \in {"admitted", "assigned"}
        /\ \/ stage' = [stage EXCEPT ![c] = "assigned"]
           \/ stage' = [stage EXCEPT ![c] = "enqueuing"]
    BY <2>1 DEF Assign, Count, workerVars
  <2>3. Jobs' = Jobs
    BY <2>2 DEF Jobs
  <2>4. QED
    BY <2>2, <2>3 DEF VerdictInv, TypeOK
<1>3. CASE \E c \in Callers : Enqueue(c)
  BY <1>3, EnqueueVerdicts
<1>4. CASE \E c \in Callers : Take(c) \/ Abandon(c)
  BY <1>4, ReturnVerdicts DEF Take, Abandon, LeaveUnqueued, LeaveUnanswered
<1>5. CASE \E w \in Workers : WorkerStep(w)
  BY <1>5, WorkerVerdicts
<1>6. CASE (\E ch \in Changes : Begin(ch)) \/ Finish \/ UNCHANGED vars
  <2>1. UNCHANGED <<queue, open, stage, query, calls, reply>>
    BY <1>6 DEF Begin, Finish, Refused, Reshard, Rebatch, SetNativeBatchVerify, Setup,
                SetupFails, Teardown, Ends, vars, workerVars, callerVars
  <2>2. Jobs' = Jobs
    BY <2>1 DEF Jobs
  <2>3. QED
    BY <2>1, <2>2 DEF VerdictInv
<1>7. QED
  BY <1>1, <1>2, <1>3, <1>4, <1>5, <1>6, Zenon DEF Next, SubmitStep

LEMMA InitVerdicts == Init => VerdictInv
<1> SUFFICES ASSUME Init PROVE VerdictInv
  OBVIOUS
<1>1. \A w \in Workers : queue[w] = <<>> /\ open[w] = <<>>
  BY DEF Init
<1>2. Jobs = {}
  BY <1>1, EmptyRange DEF Jobs
<1>3. QED
  BY <1>2 DEF Init, VerdictInv

(* What is in a reply channel is the verdict of the query its caller waits  *)
(* on, although batches mix the proofs of several callers and late replies  *)
(* of abandoned calls are still to come (service.go, verify).               *)
THEOREM RepliesAreVerdicts == Spec => []VerdictInv
<1>1. Init => TypeOK /\ VerdictInv
  BY InitType, InitVerdicts
<1>2. TypeOK /\ VerdictInv /\ [Next]_vars => (TypeOK /\ VerdictInv)'
  BY StepType, StepVerdicts
<1>3. QED
  BY <1>1, <1>2, PTL DEF Spec

LEMMA StepImplements ==
  ASSUME TypeOK, VerdictInv, [Next]_vars
  PROVE  [Verdicts!Next]_(Verdicts!vars)
<1>1. ASSUME NEW c \in Callers, NEW q \in Queries, Authorize(c, q)
      PROVE  Verdicts!Next
  <2>1. Verdicts!Ask(c, q)
    BY <1>1 DEF Authorize, TypeOK, Verdicts!Ask
  <2>2. QED
    BY <2>1 DEF Verdicts!Next
<1>2. ASSUME NEW c \in Callers, Take(c)
      PROVE  Verdicts!Next
  <2>1. reply[c] = VerdictOf(query[c]) /\ Return(c, reply[c]) /\ stage[c] = "waiting"
    BY <1>2 DEF Take, VerdictInv
  <2>2. Verdicts!Answer(c)
    BY <2>1 DEF Return, TypeOK, VerdictOf, Verdicts!Answer, Verdicts!Tell, Verdicts!VerdictOf
  <2>3. QED
    BY <2>2 DEF Verdicts!Next
<1>3. ASSUME NEW c \in Callers, Abandon(c)
      PROVE  Verdicts!Next
  <2>1. Return(c, "context") /\ stage[c] \in {"enqueuing", "waiting"}
    BY <1>3 DEF Abandon, LeaveUnqueued, LeaveUnanswered
  <2>2. Verdicts!GiveUp(c)
    BY <2>1 DEF Return, TypeOK, Verdicts!GiveUp, Verdicts!Tell
  <2>3. QED
    BY <2>2 DEF Verdicts!Next
<1>4. ASSUME NEW c \in Callers, Assign(c) \/ Count(c) \/ Enqueue(c)
      PROVE  UNCHANGED Verdicts!vars
  BY <1>4 DEF Assign, Count, Enqueue, TypeOK, Verdicts!vars
<1>5. ASSUME NEW w \in Workers, WorkerStep(w)
      PROVE  UNCHANGED Verdicts!vars
  BY <1>5, WorkerCases DEF WorkerEffect, Verdicts!vars
<1>6. CASE (\E ch \in Changes : Begin(ch)) \/ Finish \/ UNCHANGED vars
  <2>1. UNCHANGED <<stage, query, answer>>
    BY <1>6 DEF Begin, Finish, Refused, Reshard, Rebatch, SetNativeBatchVerify, Setup,
                SetupFails, Teardown, Ends, vars, callerVars
  <2>2. QED
    BY <2>1 DEF Verdicts!vars
<1>7. QED
  BY <1>1, <1>2, <1>3, <1>4, <1>5, <1>6, Zenon DEF Next, SubmitStep

(* The layer keeps the promise of VerdictService, for any callers, batches, *)
(* shards, reconfigurations and ended contexts: a request is answered with  *)
(* the verdict of its own proof or not at all.                              *)
THEOREM VerdictsKept == Spec => ImplementsVerdicts
<1>1. Init => Verdicts!Init
  BY DEF Init, Verdicts!Init
<1>2. TypeOK /\ VerdictInv /\ [Next]_vars => [Verdicts!Next]_(Verdicts!vars)
  BY StepImplements
<1>3. QED
  BY <1>1, <1>2, TypeCorrect, RepliesAreVerdicts, PTL DEF Spec, ImplementsVerdicts, Verdicts!Spec

-----------------------------------------------------------------------------
(* Reconfiguration between calls, with arguments the layer accepts and a    *)
(* Setup that succeeds: the use zkredact.Scheme is documented for.          *)
Tuned ==
  /\ ~Overlap
  /\ \A ch \in Changes : /\ ch.op # "setupFails"
                         /\ ch.op \in {"reshard", "rebatch"} => ch.arg >= 1

(* The three parts of QuietInv. *)
WorkersQuiet ==
  /\ StopDrains
  /\ \A w \in Workers : worker[w] \in {"draining", "exited"} => services[w[1]].stopped

SchemeQuiet ==
  /\ ConfigurationInForce
  /\ ready <=> current # 0
  /\ change.op \in {"reshard", "rebatch", "native"} => ready
  /\ change = NoChange /\ ready => ~services[current].stopped
  /\ current # 0 => services[current].layer = Len(layers)

CallersQuiet ==
  /\ change # NoChange \/ ~ready => Quiet
  /\ \A c \in Callers : stage[c] # "idle" => service[c] = current
  /\ \A c \in Callers : stage[c] \in {"assigned", "enqueuing"} => HasQueue(c)

LEMMA QuietParts == QuietInv <=> WorkersQuiet /\ SchemeQuiet /\ CallersQuiet
  BY DEF QuietInv, WorkersQuiet, SchemeQuiet, CallersQuiet

(* A call under way uses the current service, and no reconfiguration is on. *)
LEMMA CallInForce ==
  ASSUME TypeOK, QuietInv, NEW c \in Callers, stage[c] # "idle"
  PROVE  /\ change = NoChange /\ ready /\ current # 0 /\ service[c] = current
         /\ current \in 1 .. Len(services)
         /\ ~services[current].stopped
         /\ LayerOf(c) = Len(layers)
         /\ services[current].width = layers[Len(layers)].shards
<1>1. change = NoChange /\ ready /\ service[c] = current
  BY DEF QuietInv, Quiet, TypeOK
<1>2. /\ current # 0 /\ ~services[current].stopped
      /\ services[current].layer = Len(layers)
      /\ services[current].width = layers[Len(layers)].shards
  BY <1>1 DEF QuietInv, ConfigurationInForce
<1>3. current \in 1 .. Len(services)
  BY <1>2 DEF TypeOK
<1>4. QED
  BY <1>1, <1>2, <1>3 DEF LayerOf

(* Statistics are no configuration. *)
SameConfiguration ==
  /\ Len(layers') = Len(layers)
  /\ \A l \in 1 .. Len(layers) : /\ layers'[l].shards = layers[l].shards
                                 /\ layers'[l].batch = layers[l].batch

LEMMA StatisticsOnly ==
  ASSUME TypeOK, NEW l \in 1 .. Len(layers), NEW n,
         \/ layers' = [layers EXCEPT ![l].counted = n]
         \/ layers' = [layers EXCEPT ![l].handled = n]
         \/ layers' = [layers EXCEPT ![l].left = n]
  PROVE  SameConfiguration
<1>1. layers \in Seq(LayerRecord) /\ DOMAIN layers = 1 .. Len(layers) /\ Len(layers) \in Nat
  BY LenProperties DEF TypeOK
<1>2. DOMAIN layers' = 1 .. Len(layers) /\ layers' \in Seq(LayerRecord \cup {layers'[l]})
  BY <1>1, ExceptSeq
<1>3. Len(layers') = Len(layers)
  BY <1>1, <1>2, LenProperties
<1>4. layers[l] \in LayerRecord
  BY <1>1, ElementOfSeq
<1>5. /\ layers'[l].shards = layers[l].shards
      /\ layers'[l].batch = layers[l].batch
  BY <1>1, <1>4 DEF LayerRecord
<1>6. \A k \in 1 .. Len(layers) : k # l => layers'[k] = layers[k]
  BY <1>1
<1>7. QED
  BY <1>3, <1>5, <1>6 DEF SameConfiguration

(* The scheme stays quiet while calls and workers only move on. *)
LEMMA SchemeStaysQuiet ==
  ASSUME TypeOK, SchemeQuiet, SameConfiguration,
         UNCHANGED <<services, current, ready, change>>,
         change = NoChange /\ ready =>
           \A i \in 0 .. services[current].width - 1 : worker'[<<current, i>>] = worker[<<current, i>>]
  PROVE  SchemeQuiet'
<1>1. Len(layers) \in 1 .. Len(layers) /\ Len(layers') = Len(layers)
  BY EmptySeq, LenProperties DEF TypeOK, SameConfiguration
<1>2. /\ layers'[Len(layers)].shards = layers[Len(layers)].shards
      /\ layers'[Len(layers)].batch = layers[Len(layers)].batch
  BY <1>1 DEF SameConfiguration
<1>3. QED
  BY <1>1, <1>2 DEF SchemeQuiet, ConfigurationInForce

LEMMA WorkerQuiet ==
  ASSUME TypeOK, QuietInv, NEW w \in Workers, WorkerStep(w)
  PROVE  QuietInv'
<1> USE CallAssumption
<1>1. PICK b \in Seq(Job) : WorkerEffect(w, b)
  BY WorkerCases
<1>2. /\ worker[w] \in {"running", "draining"}
      /\ w[1] \in 1 .. Len(services) /\ services[w[1]].layer \in 1 .. Len(layers)
  BY WorkerCases, ServiceOfWorker
<1>3. /\ worker \in [Workers -> {"none", "running", "draining", "exited"}]
      /\ queue \in [Workers -> Seq(Job)] /\ open \in [Workers -> Seq(Job)]
  BY DEF TypeOK
<1>4. /\ UNCHANGED <<services, current, ready, change, stage, service, shard>>
      /\ \A v \in Workers \ {w} :
           queue'[v] = queue[v] /\ open'[v] = open[v] /\ worker'[v] = worker[v]
      /\ worker'[w] # worker[w] => services[w[1]].stopped
  <2>1. UNCHANGED <<services, current, ready, change, stage, service, shard>>
    BY <1>1 DEF WorkerEffect
  <2>2. \A v \in Workers \ {w} : queue'[v] = queue[v] /\ open'[v] = open[v] /\ worker'[v] = worker[v]
    BY <1>1, <1>3 DEF WorkerEffect
  <2>3. worker'[w] # worker[w] => services[w[1]].stopped
    BY <1>3 DEF WorkerStep, Receive, TimesOut, SeesStop, Drained, QuietInv
  <2>4. QED
    BY <2>1, <2>2, <2>3
<1>5. worker'[w] = "exited" => queue'[w] = <<>> /\ open'[w] = <<>>
  BY <1>2, <1>3 DEF WorkerStep, Receive, TimesOut, SeesStop, Drained, CloseBatch
<1>6. WorkersQuiet'
  BY <1>4, <1>5 DEF QuietInv, WorkersQuiet, StopDrains
<1>7. SameConfiguration
  <2>1. CASE CloseBatch(w, b)
    <3>1. PICK l \in 1 .. Len(layers) : l = services[w[1]].layer
      BY <1>2
    <3>2. layers' = [layers EXCEPT ![l].handled = layers[l].handled + Len(b)]
      BY <2>1, <3>1 DEF CloseBatch, Verify
    <3>3. QED
      BY <3>2, StatisticsOnly
  <2>2. CASE UNCHANGED layers
    BY <2>2 DEF SameConfiguration
  <2>3. QED
    BY <1>1, <2>1, <2>2 DEF WorkerEffect
<1>8. SchemeQuiet'
  <2>1. change = NoChange /\ ready => ~services[current].stopped
    BY DEF QuietInv
  <2>2. change = NoChange /\ ready =>
          \A i \in 0 .. services[current].width - 1 : worker'[<<current, i>>] = worker[<<current, i>>]
    <3> SUFFICES ASSUME change = NoChange, ready, NEW i \in 0 .. services[current].width - 1
                 PROVE  worker'[<<current, i>>] = worker[<<current, i>>]
      OBVIOUS
    <3>1. CASE w = <<current, i>>
      BY <1>4, <2>1, <3>1
    <3>2. CASE w # <<current, i>>
      <4>1. <<current, i>> \in Workers
        <5>1. current \in 1 .. MaxServices
          BY DEF QuietInv, ConfigurationInForce, TypeOK
        <5>2. services[current].width \in 1 .. MaxShards
          <6>1. services[current] \in ServiceRecord
            BY ElementOfSeq DEF QuietInv, ConfigurationInForce, TypeOK
          <6>2. QED
            BY <6>1 DEF ServiceRecord
        <5>3. QED
          BY <5>1, <5>2, ChangeAssumption DEF Workers
      <4>2. QED
        BY <1>4, <3>2, <4>1
    <3>3. QED
      BY <3>1, <3>2
  <2>3. SchemeQuiet
    BY QuietParts
  <2>4. QED
    BY <1>4, <1>7, <2>2, <2>3, SchemeStaysQuiet
<1>9. CallersQuiet'
  BY <1>4 DEF QuietInv, CallersQuiet, Quiet, HasQueue
<1>10. QED
  BY <1>6, <1>8, <1>9, QuietParts, PTL

LEMMA AuthorizeQuiet ==
  ASSUME TypeOK, QuietInv, NEW c \in Callers, NEW q \in Queries, Authorize(c, q)
  PROVE  QuietInv'
<1>1. WorkersQuiet' /\ SchemeQuiet'
  BY DEF QuietInv, WorkersQuiet, SchemeQuiet, StopDrains, ConfigurationInForce, Authorize,
         schemeVars, workerVars
<1>2. CallersQuiet'
  BY DEF QuietInv, CallersQuiet, Quiet, HasQueue, Authorize, schemeVars, TypeOK
<1>3. QED
  BY <1>1, <1>2, QuietParts, PTL

(* The shard is one of the service, because the service is the one in force. *)
LEMMA AssignQuiet ==
  ASSUME TypeOK, QuietInv, NEW c \in Callers, Assign(c)
  PROVE  QuietInv'
<1>1. WorkersQuiet' /\ SchemeQuiet'
  BY DEF QuietInv, WorkersQuiet, SchemeQuiet, StopDrains, ConfigurationInForce, Assign,
         schemeVars, workerVars
<1>2. /\ change = NoChange /\ ready /\ service[c] = current /\ service[c] # 0
      /\ LayerOf(c) = Len(layers)
      /\ services[current].width = layers[Len(layers)].shards
  BY CallInForce DEF Assign
<1>3. ShardFor(query[c], LayerOf(c)) < services[service[c]].width
  <2>1. layers[LayerOf(c)].shards \in 1 .. MaxShards
    <3>1. layers[LayerOf(c)] \in LayerRecord
      BY <1>2, ServiceOfCall
    <3>2. QED
      BY <3>1 DEF LayerRecord
  <2>2. Hash[query[c]] \in Nat
    BY CallAssumption DEF TypeOK
  <2>3. ShardFor(query[c], LayerOf(c)) < layers[LayerOf(c)].shards
    BY <2>1, <2>2, ChangeAssumption DEF ShardFor
  <2>4. QED
    BY <1>2, <2>3
<1>4. CallersQuiet'
  <2>1. PICK n : n = ShardFor(query[c], LayerOf(c))
    OBVIOUS
  <2>2. /\ shard' = [shard EXCEPT ![c] = n] /\ stage' = [stage EXCEPT ![c] = "assigned"]
        /\ n < services[service[c]].width
        /\ UNCHANGED <<services, current, ready, change, service>>
    BY <1>3, <2>1 DEF Assign, schemeVars
  <2>3. QED
    BY <1>2, <2>2 DEF QuietInv, CallersQuiet, Quiet, HasQueue, TypeOK
<1>5. QED
  BY <1>1, <1>4, QuietParts, PTL

LEMMA CountQuiet ==
  ASSUME TypeOK, QuietInv, NEW c \in Callers, Count(c)
  PROVE  QuietInv'
<1>1. PICK l \in 1 .. Len(layers) : l = LayerOf(c)
  BY CallUnderway, ServiceOfCall DEF Count
<1>2. SameConfiguration
  <2>1. \E n : layers' = [layers EXCEPT ![l].counted = n]
    BY <1>1 DEF Count
  <2>2. QED
    BY <2>1, StatisticsOnly
<1>3. UNCHANGED <<services, current, ready, change, worker, queue, open>>
  BY DEF Count, workerVars
<1>4. WorkersQuiet' /\ SchemeQuiet'
  <2>1. SchemeQuiet /\ WorkersQuiet
    BY QuietParts
  <2>2. SchemeQuiet'
    BY <1>2, <1>3, <2>1, SchemeStaysQuiet
  <2>3. WorkersQuiet'
    BY <1>3, <2>1 DEF WorkersQuiet, StopDrains
  <2>4. QED
    BY <2>2, <2>3
<1>5. CallersQuiet'
  BY <1>3 DEF QuietInv, CallersQuiet, Quiet, HasQueue, Count, TypeOK
<1>6. QED
  BY <1>4, <1>5, QuietParts, PTL

(* The queue has a worker that has not seen the stop. *)
LEMMA EnqueueQuiet ==
  ASSUME TypeOK, QuietInv, NEW c \in Callers, Enqueue(c)
  PROVE  QuietInv'
<1>1. /\ service[c] = current /\ ~services[current].stopped /\ service[c] # 0
  BY CallInForce DEF Enqueue
<1>2. PICK w \in Workers : w = QueueOf(c) /\ w[1] = service[c]
  BY <1>1, ServiceOfCall DEF Enqueue
<1>3. worker[w] # "exited"
  BY <1>1, <1>2 DEF QuietInv
<1>4. \A v \in Workers \ {w} : queue'[v] = queue[v]
  BY <1>2 DEF Enqueue, TypeOK
<1>5. UNCHANGED <<layers, services, current, ready, change, open, worker, service, shard>>
  BY DEF Enqueue, schemeVars
<1>6. WorkersQuiet' /\ SchemeQuiet'
  BY <1>3, <1>4, <1>5 DEF QuietInv, WorkersQuiet, SchemeQuiet, StopDrains, ConfigurationInForce
<1>7. CallersQuiet'
  BY <1>5 DEF QuietInv, CallersQuiet, Quiet, HasQueue, Enqueue, TypeOK
<1>8. QED
  BY <1>6, <1>7, QuietParts, PTL

LEMMA LeaveQuiet ==
  ASSUME TypeOK, QuietInv, NEW c \in Callers, Take(c) \/ Abandon(c)
  PROVE  QuietInv'
<1>1. SameConfiguration
  <2>1. CASE UNCHANGED layers
    BY <2>1 DEF SameConfiguration
  <2>2. CASE LeaveUnqueued(c)
    <3>1. PICK l \in 1 .. Len(layers) : l = LayerOf(c)
      BY <2>2, CallUnderway, ServiceOfCall DEF LeaveUnqueued
    <3>2. \E n : layers' = [layers EXCEPT ![l].left = n]
      BY <2>2, <3>1 DEF LeaveUnqueued
    <3>3. QED
      BY <3>2, StatisticsOnly
  <2>3. QED
    BY <2>1, <2>2 DEF Take, Abandon, LeaveUnanswered
<1>2. \E what : Return(c, what)
  BY DEF Take, Abandon, LeaveUnqueued, LeaveUnanswered
<1>3. /\ UNCHANGED <<services, current, ready, change, worker, queue, open>>
      /\ stage' = [stage EXCEPT ![c] = "idle"]
      /\ service' = [service EXCEPT ![c] = 0]
      /\ shard' = [shard EXCEPT ![c] = 0]
  BY <1>2 DEF Return, workerVars
<1>4. WorkersQuiet /\ SchemeQuiet
  BY QuietParts
<1>5. SchemeQuiet'
  BY <1>1, <1>3, <1>4, SchemeStaysQuiet
<1>6. WorkersQuiet'
  BY <1>3, <1>4 DEF WorkersQuiet, StopDrains
<1>7. CallersQuiet'
  BY <1>3 DEF QuietInv, CallersQuiet, Quiet, HasQueue, TypeOK
<1>8. QED
  BY <1>5, <1>6, <1>7, QuietParts, PTL

LEMMA BeginQuiet ==
  ASSUME TypeOK, QuietInv, Tuned, NEW ch \in Changes, Begin(ch)
  PROVE  QuietInv'
<1> USE CallAssumption, ChangeAssumption
<1>1. /\ change' = ch /\ ch # NoChange /\ Quiet
      /\ UNCHANGED <<layers, current, ready, queue, open, worker, stage, service, shard>>
  BY DEF Begin, Tuned, NoChange, Ops, workerVars, callerVars
<1>2. /\ Len(services') = Len(services)
      /\ \A g \in 1 .. Len(services) :
           /\ services[g].stopped => services'[g].stopped
           /\ services'[g].layer = services[g].layer
  <2>1. CASE current = 0
    BY <2>1 DEF Begin
  <2>2. CASE current # 0
    <3>1. services \in Seq(ServiceRecord) /\ current \in 1 .. Len(services)
      BY <2>2 DEF TypeOK
    <3>2. services[current] \in ServiceRecord
      BY <3>1, ElementOfSeq
    <3>3. PICK r \in ServiceRecord : r = [services[current] EXCEPT !.stopped = TRUE]
      <4>1. [services[current] EXCEPT !.stopped = TRUE] \in ServiceRecord
        BY <3>2 DEF ServiceRecord
      <4>2. QED
        BY <4>1
    <3>4. r.stopped /\ r.layer = services[current].layer
      BY <3>2, <3>3 DEF ServiceRecord
    <3>5. services' = [services EXCEPT ![current] = r]
      BY <2>2, <3>3 DEF Begin
    <3>6. Len(services') = Len(services)
          /\ \A g \in 1 .. Len(services) :
               services'[g] = IF g = current THEN r ELSE services[g]
      BY <3>1, <3>5, ExceptSeq
    <3>7. QED
      BY <3>4, <3>6
  <2>3. QED
    BY <2>1, <2>2
<1>3. WorkersQuiet'
  <2>1. \A w \in Workers : worker[w] # "none" => w[1] \in 1 .. Len(services)
    BY DEF Workers, TypeOK
  <2>2. \A w \in Workers : worker[w] \in {"draining", "exited"} => services'[w[1]].stopped
    BY <1>2, <2>1 DEF QuietInv
  <2>3. QED
    BY <1>1, <2>2 DEF QuietInv, WorkersQuiet, StopDrains
<1>4. SchemeQuiet'
  <2>1. current # 0 => services'[current].layer = Len(layers)
    BY <1>2 DEF QuietInv, TypeOK
  <2>2. ch.op \in {"reshard", "rebatch", "native"} => ready
    BY DEF Begin
  <2>3. QED
    BY <1>1, <2>1, <2>2 DEF QuietInv, SchemeQuiet, ConfigurationInForce
<1>5. CallersQuiet'
  BY <1>1 DEF CallersQuiet, Quiet
<1>6. QED
  BY <1>3, <1>4, <1>5, QuietParts, PTL

(* The service that Serve builds is in force. *)
LEMMA ServeQuiet ==
  ASSUME TypeOK, QuietInv, NEW ls \in Seq(LayerRecord), Len(ls) # 0,
         change # NoChange, Serve(ls), change' = NoChange, ready',
         UNCHANGED <<queue, open, callerVars>>
  PROVE  QuietInv'
<1> USE CallAssumption, ChangeAssumption
<1>1. PICK n \in Nat, k \in Nat : n = Len(services) /\ k = Len(ls)
  BY LenProperties DEF TypeOK
<1>2. k \in 1 .. Len(ls) /\ n + 1 \in 1 .. MaxServices
  BY <1>1 DEF TypeOK
<1>3. ls[k].shards \in 1 .. MaxShards /\ ls[k].batch \in Nat \ {0}
  <2>1. ls[k] \in LayerRecord
    BY <1>2, ElementOfSeq
  <2>2. QED
    BY ONLY <2>1 DEF LayerRecord
<1>4. PICK r \in ServiceRecord : r = [layer |-> k, width |-> ls[k].shards,
                                      size |-> ls[k].batch, stopped |-> FALSE]
  <2>1. [layer |-> k, width |-> ls[k].shards, size |-> ls[k].batch, stopped |-> FALSE]
          \in ServiceRecord
    BY <1>2, <1>3 DEF ServiceRecord
  <2>2. QED
    BY <2>1
<1>5. /\ layers' = ls /\ services' = Append(services, r) /\ current' = n + 1
      /\ worker' = [w \in Workers |->
                      IF w[1] = n + 1 /\ w[2] < ls[k].shards THEN "running" ELSE worker[w]]
  BY <1>1, <1>4 DEF Serve
<1>6. /\ Len(services') = n + 1
      /\ \A g \in 1 .. n : services'[g] = services[g]
      /\ services'[n + 1] = r
  BY <1>1, <1>5, AppendProperties DEF TypeOK
<1>7. r.layer = k /\ r.width = ls[k].shards /\ r.size = ls[k].batch /\ ~r.stopped
  BY <1>4
<1>8. WorkersQuiet'
  <2>1. ASSUME NEW w \in Workers, worker'[w] \in {"draining", "exited"}
        PROVE  worker[w] = worker'[w] /\ services'[w[1]] = services[w[1]]
    <3>1. worker[w] = worker'[w]
      BY <1>5, <2>1
    <3>2. w[1] \in 1 .. n
      <4>1. worker[w] # "none"
        BY <2>1, <3>1
      <4>2. QED
        BY <1>1, <4>1 DEF TypeOK, Workers
    <3>3. QED
      BY <1>6, <3>1, <3>2
  <2>2. QED
    BY <2>1 DEF QuietInv, WorkersQuiet, StopDrains
<1>9. SchemeQuiet'
  <2>1. \A i \in 0 .. ls[k].shards - 1 : worker'[<<n + 1, i>>] = "running"
    <3> SUFFICES ASSUME NEW i \in 0 .. ls[k].shards - 1
                 PROVE  worker'[<<n + 1, i>>] = "running"
      OBVIOUS
    <3>1. <<n + 1, i>> \in Workers
      BY <1>2, <1>3 DEF Workers
    <3>2. i < ls[k].shards
      BY <1>3
    <3>3. QED
      BY <1>5, <3>1, <3>2
  <2>2. ConfigurationInForce'
    BY <1>1, <1>5, <1>6, <1>7, <2>1 DEF ConfigurationInForce
  <2>3. QED
    BY <1>1, <1>5, <1>6, <1>7, <2>2 DEF SchemeQuiet, NoChange
<1>10. CallersQuiet'
  BY DEF QuietInv, CallersQuiet, Quiet, callerVars
<1>11. QED
  BY <1>8, <1>9, <1>10, QuietParts, PTL

LEMMA FinishQuiet ==
  ASSUME TypeOK, QuietInv, Tuned, Finish
  PROVE  QuietInv'
<1> USE CallAssumption, ChangeAssumption
<1>1. /\ change # NoChange /\ change \in Changes /\ change' = NoChange
      /\ UNCHANGED <<queue, open, callerVars>>
  BY DEF TypeOK, Finish, Refused, Reshard, Rebatch, SetNativeBatchVerify, Setup, SetupFails,
         Teardown, Ends, NoChange
<1>2. PICK n \in Nat \ {0} : n = Len(layers)
  BY EmptySeq, LenProperties DEF TypeOK
<1>3. layers \in Seq(LayerRecord) /\ n \in 1 .. Len(layers)
  BY <1>2 DEF TypeOK
<1>4. change.arg \in Nat
  BY <1>1
<1>5. ~Refused /\ ~SetupFails
  BY <1>1 DEF Tuned, Refused, SetupFails, Ends
<1>6. CASE Teardown
  <2>1. /\ current' = 0 /\ ready' = FALSE
        /\ UNCHANGED <<layers, services, worker>>
    BY <1>6 DEF Teardown
  <2>2. Quiet
    BY <1>1 DEF QuietInv
  <2>3. WorkersQuiet' /\ SchemeQuiet' /\ CallersQuiet'
    BY <1>1, <2>1, <2>2 DEF QuietInv, WorkersQuiet, SchemeQuiet, CallersQuiet, StopDrains,
                            ConfigurationInForce, Quiet, callerVars, NoChange
  <2>4. QED
    BY <2>3, QuietParts, PTL
<1>7. CASE Reshard
  <2>1. ready' /\ change.arg \in 1 .. MaxShards
    BY <1>1, <1>4, <1>7 DEF Reshard, Ends, QuietInv
  <2>2. PICK a \in 1 .. MaxShards : a = change.arg
    BY <2>1
  <2>3. PICK ls \in Seq(LayerRecord) :
          /\ ls = [layers EXCEPT ![n] = [@ EXCEPT !.shards = a, !.counted = 0, !.handled = 0,
                                                  !.left = 0]]
          /\ Len(ls) = n
    BY <1>2, <1>3, LayerResharded
  <2>4. Serve(ls)
    BY <1>2, <1>7, <2>2, <2>3 DEF Reshard
  <2>5. QED
    BY <1>1, <1>2, <2>1, <2>3, <2>4, ServeQuiet
<1>8. CASE Rebatch
  <2>1. ready' /\ change.arg \in Nat \ {0}
    BY <1>1, <1>4, <1>8 DEF Rebatch, Ends, QuietInv
  <2>2. PICK a \in Nat \ {0} : a = change.arg
    BY <2>1
  <2>3. [layers EXCEPT ![n].batch = a] \in Seq(LayerRecord)
        /\ Len([layers EXCEPT ![n].batch = a]) = Len(layers)
    BY ONLY <1>3, a \in Nat \ {0}, LayerRebatched
  <2>4. PICK ls \in Seq(LayerRecord) : ls = [layers EXCEPT ![n].batch = a] /\ Len(ls) = n
    BY <1>2, <2>3
  <2>5. Serve(ls)
    BY <1>2, <1>8, <2>2, <2>4 DEF Rebatch
  <2>6. QED
    BY <1>1, <1>2, <2>1, <2>4, <2>5, ServeQuiet
<1>9. CASE SetNativeBatchVerify
  BY <1>1, <1>2, <1>3, <1>9, ServeQuiet DEF SetNativeBatchVerify, Ends, QuietInv
<1>10. CASE Setup
  <2>1. ready' /\ change.arg \in 1 .. MaxShards
    BY <1>1, <1>4, <1>10 DEF Setup, Ends
  <2>2. PICK r \in LayerRecord : r = [shards |-> change.arg, batch |-> InitBatch,
                                      counted |-> 0, handled |-> 0, left |-> 0]
    BY <2>1 DEF LayerRecord
  <2>3. PICK ls \in Seq(LayerRecord) : ls = Append(layers, r) /\ Len(ls) = n + 1
    BY <1>2, <1>3, AppendProperties
  <2>4. Serve(ls)
    BY <1>10, <2>2, <2>3 DEF Setup
  <2>5. QED
    <3>1. Len(ls) # 0
      BY <2>3
    <3>2. QED
      BY <1>1, <2>1, <2>4, <3>1, ServeQuiet
<1>11. QED
  BY <1>5, <1>6, <1>7, <1>8, <1>9, <1>10 DEF Finish

LEMMA StepQuiet ==
  ASSUME TypeOK, QuietInv, Tuned, [Next]_vars
  PROVE  QuietInv'
<1>1. CASE \E c \in Callers, q \in Queries : Authorize(c, q)
  BY <1>1, AuthorizeQuiet
<1>2. CASE \E c \in Callers : SubmitStep(c) \/ Abandon(c)
  BY <1>2, AssignQuiet, CountQuiet, EnqueueQuiet, LeaveQuiet DEF SubmitStep
<1>3. CASE \E w \in Workers : WorkerStep(w)
  BY <1>3, WorkerQuiet
<1>4. CASE \E ch \in Changes : Begin(ch)
  BY <1>4, BeginQuiet
<1>5. CASE Finish
  BY <1>5, FinishQuiet
<1>6. CASE UNCHANGED vars
  BY <1>6 DEF QuietInv, StopDrains, ConfigurationInForce, Quiet, HasQueue, vars, schemeVars,
              workerVars, callerVars
<1>7. QED
  BY <1>1, <1>2, <1>3, <1>4, <1>5, <1>6, Zenon DEF Next

LEMMA InitQuiet == Init => QuietInv
<1> SUFFICES ASSUME Init PROVE QuietInv
  OBVIOUS
<1> USE CallAssumption, ChangeAssumption
<1>1. WorkersQuiet
  BY DEF Init, WorkersQuiet, StopDrains
<1>2. SchemeQuiet
  <2>1. \A i \in 0 .. InitShards - 1 : <<1, i>> \in Workers
    BY DEF Workers
  <2>2. \A w \in Workers : w[1] = 1 /\ w[2] < InitShards => worker[w] = "running"
    BY DEF Init
  <2>3. \A i \in 0 .. InitShards - 1 : worker[<<1, i>>] = "running"
    <3>1. \A i \in 0 .. InitShards - 1 : i < InitShards
      OBVIOUS
    <3>2. QED
      BY <2>1, <2>2, <3>1
  <2>4. QED
    BY <2>3 DEF Init, SchemeQuiet, ConfigurationInForce, NoChange
<1>3. CallersQuiet
  BY DEF Init, CallersQuiet, Quiet
<1>4. QED
  BY <1>1, <1>2, <1>3, QuietParts

(* When the scheme is reconfigured between calls only, with arguments the   *)
(* layer accepts, no worker leaves a request behind, the service in force   *)
(* has the configuration of its layer, and every call has a queue.          *)
THEOREM QuietKept == ASSUME Tuned PROVE Spec => []QuietInv
<1>1. Init => TypeOK /\ QuietInv
  BY InitType, InitQuiet
<1>2. TypeOK /\ QuietInv /\ [Next]_vars => (TypeOK /\ QuietInv)'
  BY StepType, StepQuiet
<1>3. QED
  BY <1>1, <1>2, PTL DEF Spec

(* Drain what is queued rather than abandoning waiters (service.go).        *)
THEOREM StopAbandonsNobody == ASSUME Tuned PROVE Spec => []StopDrains
<1>1. QuietInv => StopDrains
  BY DEF QuietInv
<1>2. QED
  BY <1>1, QuietKept, PTL

(* No measurement runs under the label of another configuration             *)
(* (authorize.go, Rebatch).                                                 *)
THEOREM ServesAsConfigured == ASSUME Tuned PROVE Spec => []ConfigurationInForce
<1>1. QuietInv => ConfigurationInForce
  BY DEF QuietInv
<1>2. QED
  BY <1>1, QuietKept, PTL

(* Submit never indexes a queue that its service does not have.             *)
THEOREM EveryCallHasAQueue == ASSUME Tuned PROVE Spec => []QueueExists
<1>1. QuietInv => QueueExists
  BY DEF QuietInv, QueueExists
<1>2. QED
  BY <1>1, QuietKept, PTL

-----------------------------------------------------------------------------
(* The statistics of the verification layer account for every request,      *)
(* whatever shards, batches, reconfigurations between calls and ended       *)
(* contexts there are.                                                      *)

-----------------------------------------------------------------------------
(* The places of queues and open batches.                                   *)

PlacesOf(w, q, o) == {w} \X (({"queued"} \X DOMAIN q[w]) \cup ({"open"} \X DOMAIN o[w]))

HeldBy(W, q, o) == UNION {PlacesOf(w, q, o) : w \in W}

LEMMA HeldIs == Held = HeldBy(Workers, queue, open) /\ Held' = HeldBy(Workers, queue', open')
  BY DEF Held, HeldBy, Places, PlacesOf

LEMMA TaggedCardinality ==
  ASSUME NEW w, NEW S, IsFiniteSet(S)
  PROVE  IsFiniteSet({w} \X S) /\ Cardinality({w} \X S) = Cardinality(S)
<1>1. PICK U : U = {w}
  OBVIOUS
<1>2. IsFiniteSet(U) /\ Cardinality(U) = 1
  BY <1>1, FS_Singleton
<1>3. IsFiniteSet(U \X S) /\ Cardinality(U \X S) = Cardinality(U) * Cardinality(S)
  BY <1>2, FS_Product, Zenon
<1>4. PICK n \in Nat : n = Cardinality(S)
  BY FS_CardinalityType
<1>5. Cardinality(U) * Cardinality(S) = 1 * n
  BY <1>2, <1>4
<1>6. 1 * n = n
  OBVIOUS
<1>7. QED
  BY <1>1, <1>3, <1>4, <1>5, <1>6

LEMMA DisjointUnion ==
  ASSUME NEW S, IsFiniteSet(S), NEW T, IsFiniteSet(T), S \cap T = {}
  PROVE  /\ IsFiniteSet(S \cup T)
         /\ Cardinality(S \cup T) = Cardinality(S) + Cardinality(T)
<1>1. /\ IsFiniteSet(S \cup T)
      /\ Cardinality(S \cup T) = Cardinality(S) + Cardinality(T) - Cardinality(S \cap T)
  BY FS_Union, Zenon
<1>2. Cardinality(S \cap T) = 0
  BY FS_EmptySet
<1>3. Cardinality(S) \in Nat /\ Cardinality(T) \in Nat
  BY FS_CardinalityType
<1>4. QED
  BY <1>1, <1>2, <1>3

LEMMA PlacesCounted ==
  ASSUME NEW w, NEW q, NEW o, q[w] \in Seq(Job), o[w] \in Seq(Job)
  PROVE  /\ IsFiniteSet(PlacesOf(w, q, o))
         /\ Cardinality(PlacesOf(w, q, o)) = Len(q[w]) + Len(o[w])
         /\ Len(q[w]) \in Nat /\ Len(o[w]) \in Nat
<1>1. PICK n \in Nat, m \in Nat : /\ n = Len(q[w]) /\ DOMAIN q[w] = 1 .. n
                                  /\ m = Len(o[w]) /\ DOMAIN o[w] = 1 .. m
  BY LenProperties
<1>2. /\ IsFiniteSet(1 .. n) /\ Cardinality(1 .. n) = n
      /\ IsFiniteSet(1 .. m) /\ Cardinality(1 .. m) = m
  BY FS_Interval
<1>3. PICK S, T : S = {"queued"} \X (1 .. n) /\ T = {"open"} \X (1 .. m)
  OBVIOUS
<1>4. IsFiniteSet(S) /\ Cardinality(S) = n /\ IsFiniteSet(T) /\ Cardinality(T) = m
  BY <1>2, <1>3, TaggedCardinality
<1>5. S \cap T = {}
  BY <1>3
<1>6. IsFiniteSet(S \cup T) /\ Cardinality(S \cup T) = n + m
  BY <1>4, <1>5, DisjointUnion
<1>7. IsFiniteSet({w} \X (S \cup T)) /\ Cardinality({w} \X (S \cup T)) = n + m
  BY <1>6, TaggedCardinality
<1>8. PlacesOf(w, q, o) = {w} \X (S \cup T)
  BY <1>1, <1>3 DEF PlacesOf
<1>9. n + m = Len(q[w]) + Len(o[w]) /\ Len(q[w]) \in Nat /\ Len(o[w]) \in Nat
  BY <1>1
<1>10. QED
  BY <1>7, <1>8, <1>9, Zenon

(* The places of one worker and those of the others.                        *)
LEMMA HeldSplits ==
  ASSUME NEW W, NEW w \in W, NEW q, NEW o
  PROVE  /\ HeldBy(W, q, o) = HeldBy(W \ {w}, q, o) \cup PlacesOf(w, q, o)
         /\ HeldBy(W \ {w}, q, o) \cap PlacesOf(w, q, o) = {}
<1>1. ASSUME NEW v \in W \ {w}
      PROVE  PlacesOf(v, q, o) \cap PlacesOf(w, q, o) = {}
  <2>1. \A p \in PlacesOf(v, q, o) : p[1] = v
    BY DEF PlacesOf
  <2>2. \A p \in PlacesOf(w, q, o) : p[1] = w
    BY DEF PlacesOf
  <2>3. QED
    BY <2>1, <2>2
<1>2. W = (W \ {w}) \cup {w}
  OBVIOUS
<1>3. QED
  BY <1>1, <1>2, Zenon DEF HeldBy

LEMMA OthersHold ==
  ASSUME NEW W, NEW w \in W, NEW q, NEW o, NEW p, NEW r,
         \A v \in W \ {w} : p[v] = q[v] /\ r[v] = o[v]
  PROVE  HeldBy(W \ {w}, p, r) = HeldBy(W \ {w}, q, o)
<1>1. \A v \in W \ {w} : PlacesOf(v, p, r) = PlacesOf(v, q, o)
  BY DEF PlacesOf
<1>2. {PlacesOf(v, p, r) : v \in W \ {w}} = {PlacesOf(v, q, o) : v \in W \ {w}}
  BY <1>1
<1>3. QED
  BY <1>2 DEF HeldBy

LEMMA HeldByChanges ==
  ASSUME NEW W, NEW w \in W, NEW q, NEW o, NEW p, NEW r,
         q[w] \in Seq(Job), o[w] \in Seq(Job), p[w] \in Seq(Job), r[w] \in Seq(Job),
         \A v \in W \ {w} : p[v] = q[v] /\ r[v] = o[v],
         IsFiniteSet(HeldBy(W, q, o))
  PROVE  /\ IsFiniteSet(HeldBy(W, p, r))
         /\ Cardinality(HeldBy(W, p, r)) + Len(q[w]) + Len(o[w])
              = Cardinality(HeldBy(W, q, o)) + Len(p[w]) + Len(r[w])
         /\ Cardinality(HeldBy(W, p, r)) \in Nat /\ Cardinality(HeldBy(W, q, o)) \in Nat
<1>1. PICK R : R = HeldBy(W \ {w}, q, o) /\ R = HeldBy(W \ {w}, p, r)
  BY OthersHold
<1>2. PICK A, B : A = PlacesOf(w, q, o) /\ B = PlacesOf(w, p, r)
  OBVIOUS
<1>3. /\ IsFiniteSet(A) /\ Cardinality(A) = Len(q[w]) + Len(o[w])
      /\ Len(q[w]) \in Nat /\ Len(o[w]) \in Nat
  BY <1>2, PlacesCounted, Zenon
<1>4. /\ IsFiniteSet(B) /\ Cardinality(B) = Len(p[w]) + Len(r[w])
      /\ Len(p[w]) \in Nat /\ Len(r[w]) \in Nat
  BY <1>2, PlacesCounted, Zenon
<1>5. HeldBy(W, q, o) = R \cup A /\ R \cap A = {}
  <2>1. /\ HeldBy(W, q, o) = HeldBy(W \ {w}, q, o) \cup PlacesOf(w, q, o)
        /\ HeldBy(W \ {w}, q, o) \cap PlacesOf(w, q, o) = {}
    BY ONLY w \in W, HeldSplits
  <2>2. QED
    BY ONLY <1>1, <1>2, <2>1
<1>6. HeldBy(W, p, r) = R \cup B /\ R \cap B = {}
  <2>1. /\ HeldBy(W, p, r) = HeldBy(W \ {w}, p, r) \cup PlacesOf(w, p, r)
        /\ HeldBy(W \ {w}, p, r) \cap PlacesOf(w, p, r) = {}
    BY ONLY w \in W, HeldSplits
  <2>2. QED
    BY ONLY <1>1, <1>2, <2>1
<1>7. IsFiniteSet(R) /\ Cardinality(R) \in Nat
  <2>1. R \in SUBSET HeldBy(W, q, o)
    BY <1>5
  <2>2. QED
    BY <2>1, FS_Subset, FS_CardinalityType
<1>8. Cardinality(R \cup A) = Cardinality(R) + Cardinality(A)
  BY <1>3, <1>5, <1>7, DisjointUnion
<1>9. Cardinality(R \cup B) = Cardinality(R) + Cardinality(B) /\ IsFiniteSet(R \cup B)
  BY <1>4, <1>6, <1>7, DisjointUnion
<1>10. QED
  <2>1. IsFiniteSet(HeldBy(W, p, r))
    BY <1>6, <1>9
  <2>2. PICK x \in Nat, a \in Nat, b \in Nat, c \in Nat, d \in Nat :
          /\ x = Cardinality(R)
          /\ a = Len(q[w]) /\ b = Len(o[w]) /\ c = Len(p[w]) /\ d = Len(r[w])
    BY <1>3, <1>4, <1>7
  <2>3. Cardinality(HeldBy(W, q, o)) = x + (a + b)
    BY ONLY <1>3, <1>5, <1>8, <2>2, Zenon
  <2>4. Cardinality(HeldBy(W, p, r)) = x + (c + d)
    BY ONLY <1>4, <1>6, <1>9, <2>2, Zenon
  <2>5. (x + (c + d)) + a + b = (x + (a + b)) + c + d /\ x + (c + d) \in Nat /\ x + (a + b) \in Nat
    OBVIOUS
  <2>6. QED
    BY ONLY <2>1, <2>2, <2>3, <2>4, <2>5, Zenon

(* A step that changes what worker w holds, and what no other holds.        *)
LEMMA HeldChanges ==
  ASSUME NEW w \in Workers,
         queue[w] \in Seq(Job), open[w] \in Seq(Job),
         queue'[w] \in Seq(Job), open'[w] \in Seq(Job),
         \A v \in Workers \ {w} : queue'[v] = queue[v] /\ open'[v] = open[v],
         IsFiniteSet(Held)
  PROVE  /\ IsFiniteSet(Held')
         /\ Cardinality(Held') + Len(queue[w]) + Len(open[w])
              = Cardinality(Held) + Len(queue'[w]) + Len(open'[w])
         /\ Cardinality(Held') \in Nat /\ Cardinality(Held) \in Nat
<1>1. PICK p, r : p = queue' /\ r = open'
  OBVIOUS
<1>2. /\ p[w] \in Seq(Job) /\ r[w] \in Seq(Job)
      /\ \A v \in Workers \ {w} : p[v] = queue[v] /\ r[v] = open[v]
      /\ IsFiniteSet(HeldBy(Workers, queue, open))
  BY <1>1, HeldIs
<1>3. /\ IsFiniteSet(HeldBy(Workers, p, r))
      /\ Cardinality(HeldBy(Workers, p, r)) + Len(queue[w]) + Len(open[w])
           = Cardinality(HeldBy(Workers, queue, open)) + Len(p[w]) + Len(r[w])
      /\ Cardinality(HeldBy(Workers, p, r)) \in Nat
      /\ Cardinality(HeldBy(Workers, queue, open)) \in Nat
  BY ONLY w \in Workers, queue[w] \in Seq(Job), open[w] \in Seq(Job), <1>2, HeldByChanges, Zenon
<1>4. QED
  BY <1>1, <1>3, HeldIs, Zenon

(* Nothing is held while every queue and every batch is empty.              *)
LEMMA NothingHeld ==
  ASSUME \A w \in Workers : queue[w] = <<>> /\ open[w] = <<>>
  PROVE  Held = {}
<1>1. DOMAIN <<>> = {}
  OBVIOUS
<1>2. QED
  BY <1>1 DEF Held, Places

-----------------------------------------------------------------------------
(* Which workers hold requests.                                             *)

WorkersIn ==
  /\ \A w \in Workers : worker[w] = "none" => queue[w] = <<>> /\ open[w] = <<>>
  /\ \A w \in Workers :
       worker[w] \in {"running", "draining"} =>
         w[1] = current /\ w[2] < services[current].width

(* Balance of a layer, with as many requests under way as given.            *)
Balanced(r, n) == r.counted = r.handled + r.left + n

Settled ==
  /\ IsFiniteSet(Held) /\ IsFiniteSet(Enqueuing)
  /\ \A l \in 1 .. Len(layers) :
       Balanced(layers[l],
                IF l = Len(layers) THEN Cardinality(Held) + Cardinality(Enqueuing) ELSE 0)

LEMMA StatsParts == StatsInv <=> WorkersIn /\ Settled
  BY DEF StatsInv, WorkersIn, Settled, Balanced

(* Requests are in the queues and batches of the newest layer only.         *)
LEMMA StatsSuffice ==
  ASSUME TypeOK, QuietInv, StatsInv
  PROVE  StatsConserved
<1> USE CallAssumption
<1>1. ASSUME NEW w \in Workers, queue[w] # <<>> \/ open[w] # <<>>
      PROVE  w[1] \in 1 .. Len(services) /\ services[w[1]].layer = Len(layers)
  <2>1. worker[w] \in {"running", "draining"}
    BY <1>1 DEF StatsInv, QuietInv, StopDrains, TypeOK
  <2>2. w[1] = current /\ w[1] \in 1 .. Len(services)
    BY <2>1, ServiceOfWorker DEF StatsInv
  <2>3. QED
    BY <2>2 DEF QuietInv
<1>2. ASSUME NEW c \in Callers, stage[c] = "enqueuing"
      PROVE  LayerOf(c) = Len(layers)
  BY <1>2, CallInForce
<1>3. \A w \in Workers : Places(w) # {} => queue[w] # <<>> \/ open[w] # <<>>
  <2>1. DOMAIN <<>> = {}
    OBVIOUS
  <2>2. QED
    BY <2>1 DEF Places
<1>4. Len(layers) \in Nat /\ Len(layers) \in 1 .. Len(layers) /\ Len(services) \in Nat
  BY EmptySeq, LenProperties DEF TypeOK
<1>5. UNION {{w} \X Places(w) : w \in WorkersOf(Len(layers))} = Held
  <2>1. ASSUME NEW w \in Workers, Places(w) # {}
        PROVE  w \in WorkersOf(Len(layers))
    <3>1. w[1] \in 1 .. Len(services) /\ services[w[1]].layer = Len(layers)
      BY <1>1, <1>3, <2>1
    <3>2. w[1] <= Len(services)
      BY <1>4, <3>1
    <3>3. QED
      BY <3>1, <3>2 DEF WorkersOf
  <2>2. WorkersOf(Len(layers)) \subseteq Workers
    BY DEF WorkersOf
  <2>3. QED
    BY <2>1, <2>2 DEF Held
<1>6. Entering(Len(layers)) = Enqueuing
  BY <1>2 DEF Entering, Enqueuing
<1>7. ASSUME NEW l \in 1 .. Len(layers), l # Len(layers)
      PROVE  /\ UNION {{w} \X Places(w) : w \in WorkersOf(l)} = {}
             /\ Entering(l) = {}
  <2>1. \A w \in WorkersOf(l) : w \in Workers /\ services[w[1]].layer = l
    BY DEF WorkersOf
  <2>2. \A w \in WorkersOf(l) : Places(w) = {}
    BY <1>1, <1>3, <1>7, <2>1
  <2>3. Entering(l) = {}
    BY <1>2, <1>7 DEF Entering
  <2>4. QED
    BY <2>2, <2>3
<1>8. ASSUME NEW l \in 1 .. Len(layers)
      PROVE  Underway(l) = IF l = Len(layers) THEN Cardinality(Held) + Cardinality(Enqueuing)
                           ELSE 0
  <2>1. CASE l = Len(layers)
    BY <1>5, <1>6, <2>1 DEF Underway
  <2>2. CASE l # Len(layers)
    <3>1. Cardinality({}) = 0
      BY FS_EmptySet
    <3>2. Underway(l) = Cardinality({}) + Cardinality({})
      BY <1>7, <2>2 DEF Underway
    <3>3. QED
      BY <2>2, <3>1, <3>2
  <2>3. QED
    BY <2>1, <2>2
<1>9. Cardinality(Held) \in Nat /\ Cardinality(Enqueuing) \in Nat
  BY FS_CardinalityType DEF StatsInv
<1>10. ASSUME NEW l \in 1 .. Len(layers)
       PROVE  layers[l].counted = layers[l].handled + Underway(l) + layers[l].left
  <2>1. layers[l].handled \in Nat /\ layers[l].left \in Nat
    <3>1. layers[l] \in LayerRecord
      BY ElementOfSeq DEF TypeOK
    <3>2. QED
      BY <3>1 DEF LayerRecord
  <2>2. PICK n \in Nat : /\ n = Underway(l)
                         /\ n = IF l = Len(layers) THEN Cardinality(Held) + Cardinality(Enqueuing)
                                ELSE 0
    BY <1>8, <1>9
  <2>3. layers[l].counted = layers[l].handled + layers[l].left + n
    BY <2>2 DEF StatsInv
  <2>4. QED
    BY <2>1, <2>2, <2>3
<1>11. QED
  BY <1>10 DEF StatsConserved

-----------------------------------------------------------------------------
(* One step at a time.                                                      *)

(* The figures of the newest layer, and the requests under way, as numbers. *)
LEMMA NewestFigures ==
  ASSUME TypeOK, Settled
  PROVE  /\ Len(layers) \in 1 .. Len(layers) /\ layers[Len(layers)] \in LayerRecord
         /\ \E handled \in Nat, left \in Nat, h \in Nat, e \in Nat :
              /\ handled = layers[Len(layers)].handled /\ left = layers[Len(layers)].left
              /\ h = Cardinality(Held) /\ e = Cardinality(Enqueuing)
              /\ layers[Len(layers)].counted = handled + left + (h + e)
<1>1. Len(layers) \in 1 .. Len(layers)
  BY EmptySeq, LenProperties DEF TypeOK
<1>2. PICK last : last = layers[Len(layers)]
  OBVIOUS
<1>3. last \in LayerRecord
  BY <1>1, <1>2, ElementOfSeq DEF TypeOK
<1>4. last.handled \in Nat /\ last.left \in Nat
  BY <1>3 DEF LayerRecord
<1>5. Cardinality(Held) \in Nat /\ Cardinality(Enqueuing) \in Nat
  BY FS_CardinalityType DEF Settled
<1>6. last.counted = last.handled + last.left + (Cardinality(Held) + Cardinality(Enqueuing))
  BY <1>1, <1>2 DEF Settled, Balanced
<1>7. QED
  BY <1>1, <1>2, <1>3, <1>4, <1>5, <1>6

(* A step that changes the figures of the newest layer only.                *)
LEMMA SettledStep ==
  ASSUME TypeOK, Settled,
         Len(layers') = Len(layers),
         \A l \in 1 .. Len(layers) : l # Len(layers) => layers'[l] = layers[l],
         IsFiniteSet(Held'), IsFiniteSet(Enqueuing'),
         NEW x, x = Cardinality(Held'), NEW y, y = Cardinality(Enqueuing'),
         Balanced(layers'[Len(layers)], x + y)
  PROVE  Settled'
<1>1. ASSUME NEW l \in 1 .. Len(layers)
      PROVE  Balanced(layers'[l], IF l = Len(layers) THEN x + y ELSE 0)
  <2>1. CASE l = Len(layers)
    BY <2>1
  <2>2. CASE l # Len(layers)
    <3>1. Balanced(layers[l], 0)
      BY <2>2 DEF Settled
    <3>2. QED
      BY <2>2, <3>1
  <2>3. QED
    BY <2>1, <2>2
<1>2. ASSUME NEW l \in 1 .. Len(layers')
      PROVE  Balanced(layers'[l], IF l = Len(layers') THEN Cardinality(Held') + Cardinality(Enqueuing')
                                  ELSE 0)
  BY <1>1
<1>3. QED
  BY <1>2 DEF Settled, Balanced

(* The figures of a layer after one of them changed.                        *)
LEMMA LayerFigures ==
  ASSUME TypeOK, NEW l \in 1 .. Len(layers), NEW n \in Nat, NEW last, last = layers[l],
         NEW next, next = layers'[l],
         \/ layers' = [layers EXCEPT ![l].counted = n]
         \/ layers' = [layers EXCEPT ![l].handled = n]
         \/ layers' = [layers EXCEPT ![l].left = n]
  PROVE  /\ last \in LayerRecord
         /\ Len(layers') = Len(layers)
         /\ \A k \in 1 .. Len(layers) : k # l => layers'[k] = layers[k]
         /\ layers' = [layers EXCEPT ![l].counted = n] =>
              next.counted = n /\ next.handled = last.handled /\ next.left = last.left
         /\ layers' = [layers EXCEPT ![l].handled = n] =>
              next.counted = last.counted /\ next.handled = n /\ next.left = last.left
         /\ layers' = [layers EXCEPT ![l].left = n] =>
              next.counted = last.counted /\ next.handled = last.handled /\ next.left = n
<1>1. layers \in Seq(LayerRecord) /\ DOMAIN layers = 1 .. Len(layers)
  BY LenProperties DEF TypeOK
<1>2. last \in LayerRecord
  BY <1>1, ElementOfSeq
<1>3. Len(layers') = Len(layers)
  BY StatisticsOnly DEF SameConfiguration
<1>4. \A k \in 1 .. Len(layers) : k # l => layers'[k] = layers[k]
  BY <1>1
<1>5. ASSUME layers' = [layers EXCEPT ![l].counted = n]
      PROVE  next.counted = n /\ next.handled = last.handled /\ next.left = last.left
  <2>1. next = [last EXCEPT !.counted = n]
    BY <1>1, <1>5
  <2>2. QED
    BY <1>2, <2>1 DEF LayerRecord
<1>6. ASSUME layers' = [layers EXCEPT ![l].handled = n]
      PROVE  next.counted = last.counted /\ next.handled = n /\ next.left = last.left
  <2>1. next = [last EXCEPT !.handled = n]
    BY <1>1, <1>6
  <2>2. QED
    BY <1>2, <2>1 DEF LayerRecord
<1>7. ASSUME layers' = [layers EXCEPT ![l].left = n]
      PROVE  next.counted = last.counted /\ next.handled = last.handled /\ next.left = n
  <2>1. next = [last EXCEPT !.left = n]
    BY <1>1, <1>7
  <2>2. QED
    BY <1>2, <2>1 DEF LayerRecord
<1>8. QED
  BY <1>2, <1>3, <1>4, <1>5, <1>6, <1>7

(* A step that moves no request and changes no figure. *)
LEMMA SettledAsBefore ==
  ASSUME StatsInv, UNCHANGED <<layers, queue, open>>, Enqueuing' = Enqueuing
  PROVE  Settled'
<1>1. Held' = Held
  BY HeldIs
<1>2. QED
  BY <1>1, StatsParts DEF Settled, Balanced

LEMMA WorkersStay ==
  ASSUME TypeOK, StatsInv, UNCHANGED <<queue, open, worker, current>>,
         current # 0 => services'[current].width = services[current].width
  PROVE  WorkersIn'
<1>1. \A w \in Workers : worker[w] \in {"running", "draining"} => w[1] \in 1 .. Len(services)
  BY ServiceOfWorker
<1>2. \A w \in Workers : worker[w] \in {"running", "draining"} => current # 0
  BY <1>1, StatsParts DEF WorkersIn
<1>3. QED
  BY <1>2, StatsParts DEF WorkersIn

LEMMA StatsPartsNext == WorkersIn' /\ Settled' => StatsInv'
  BY StatsParts, PTL

LEMMA AuthorizeStats ==
  ASSUME TypeOK, StatsInv, NEW c \in Callers, NEW q \in Queries, Authorize(c, q)
  PROVE  StatsInv'
<1>1. Enqueuing' = Enqueuing
  BY DEF Authorize, Enqueuing, TypeOK
<1>2. UNCHANGED <<layers, services, current, queue, open, worker>>
  BY DEF Authorize, schemeVars, workerVars
<1>3. QED
  BY <1>1, <1>2, SettledAsBefore, WorkersStay, StatsPartsNext

LEMMA AssignStats ==
  ASSUME TypeOK, StatsInv, NEW c \in Callers, Assign(c)
  PROVE  StatsInv'
<1>1. Enqueuing' = Enqueuing
  BY DEF Assign, Enqueuing, TypeOK
<1>2. UNCHANGED <<layers, services, current, queue, open, worker>>
  BY DEF Assign, schemeVars, workerVars
<1>3. QED
  BY <1>1, <1>2, SettledAsBefore, WorkersStay, StatsPartsNext

LEMMA AnsweredStats ==
  ASSUME TypeOK, StatsInv, NEW c \in Callers, Take(c) \/ LeaveUnanswered(c)
  PROVE  StatsInv'
<1>1. Enqueuing' = Enqueuing
  BY DEF Take, LeaveUnanswered, Return, Enqueuing, TypeOK
<1>2. UNCHANGED <<layers, services, current, queue, open, worker>>
  BY DEF Take, LeaveUnanswered, Return, workerVars
<1>3. QED
  BY <1>1, <1>2, SettledAsBefore, WorkersStay, StatsPartsNext

LEMMA BeginStats ==
  ASSUME TypeOK, StatsInv, NEW ch \in Changes, Begin(ch)
  PROVE  StatsInv'
<1>1. UNCHANGED <<layers, current, queue, open, worker, stage>>
  BY DEF Begin, workerVars, callerVars
<1>2. current # 0 => services'[current].width = services[current].width
  <2> SUFFICES ASSUME current # 0
               PROVE  services'[current].width = services[current].width
    OBVIOUS
  <2>1. services \in Seq(ServiceRecord) /\ current \in 1 .. Len(services)
    BY DEF TypeOK
  <2>2. PICK r \in ServiceRecord : r = services[current]
    BY <2>1, ElementOfSeq
  <2>3. DOMAIN services = 1 .. Len(services)
    BY <2>1, LenProperties
  <2>4. services'[current] = [r EXCEPT !.stopped = TRUE]
    BY <2>1, <2>2, <2>3 DEF Begin
  <2>5. QED
    BY <2>2, <2>4 DEF ServiceRecord
<1>3. Enqueuing' = Enqueuing
  BY <1>1 DEF Enqueuing
<1>4. QED
  BY <1>1, <1>2, <1>3, SettledAsBefore, WorkersStay, StatsPartsNext

(* Submit has counted the request and not queued it yet. *)
LEMMA CountStats ==
  ASSUME TypeOK, QuietInv, StatsInv, NEW c \in Callers, Count(c)
  PROVE  StatsInv'
<1>1. PICK l \in 1 .. Len(layers) : l = LayerOf(c) /\ l = Len(layers)
  BY CallUnderway, ServiceOfCall, CallInForce DEF Count
<1>2. shard[c] < layers[l].shards
  BY <1>1, CallInForce DEF Count, QuietInv, HasQueue
<1>3. PICK last : last = layers[l]
  OBVIOUS
<1>4. PICK handled \in Nat, left \in Nat, h \in Nat, e \in Nat :
        /\ handled = last.handled /\ left = last.left
        /\ h = Cardinality(Held) /\ e = Cardinality(Enqueuing)
        /\ last.counted = handled + left + (h + e)
  BY <1>1, <1>3, NewestFigures, StatsParts
<1>5. PICK n \in Nat : n = last.counted + 1 /\ n = handled + left + (h + (e + 1))
  <2>1. PICK n \in Nat : n = handled + left + (h + (e + 1)) /\ n = (handled + left + (h + e)) + 1
    OBVIOUS
  <2>2. n = last.counted + 1
    BY <1>4, <2>1
  <2>3. QED
    BY <2>1, <2>2
<1>6. layers' = [layers EXCEPT ![l].counted = n]
  BY <1>1, <1>2, <1>3, <1>5 DEF Count
<1>7. PICK next : next = layers'[l]
  OBVIOUS
<1>8. /\ Len(layers') = Len(layers)
      /\ \A k \in 1 .. Len(layers) : k # l => layers'[k] = layers[k]
      /\ next.counted = n /\ next.handled = last.handled /\ next.left = last.left
  BY <1>3, <1>6, <1>7, LayerFigures
<1>9. Held' = Held /\ IsFiniteSet(Held) /\ IsFiniteSet(Enqueuing)
  BY HeldIs, StatsParts DEF Count, workerVars, Settled
<1>10. Enqueuing' = Enqueuing \cup {c} /\ c \notin Enqueuing
  BY DEF Count, Enqueuing, TypeOK
<1>11. IsFiniteSet(Enqueuing') /\ Cardinality(Enqueuing') = e + 1
  BY <1>4, <1>9, <1>10, FS_AddElement
<1>12. Balanced(layers'[Len(layers)], h + (e + 1))
  BY <1>1, <1>4, <1>5, <1>7, <1>8 DEF Balanced
<1>13. Settled'
  BY <1>1, <1>4, <1>8, <1>9, <1>11, <1>12, StatsParts, SettledStep
<1>14. WorkersIn'
  BY WorkersStay DEF Count, workerVars
<1>15. QED
  BY <1>13, <1>14, StatsPartsNext

(* The queue of a call in Submit belongs to a worker that runs. *)
LEMMA QueueRuns ==
  ASSUME TypeOK, QuietInv, NEW c \in Callers, stage[c] \in {"assigned", "enqueuing"}
  PROVE  /\ QueueOf(c) \in Workers /\ worker[QueueOf(c)] = "running"
         /\ LayerOf(c) = Len(layers) /\ LayerOf(c) \in 1 .. Len(layers)
<1>1. /\ change = NoChange /\ ready /\ service[c] = current /\ current # 0
      /\ LayerOf(c) = Len(layers)
  BY CallInForce
<1>2. HasQueue(c)
  BY DEF QuietInv
<1>3. QueueOf(c) \in Workers /\ LayerOf(c) \in 1 .. Len(layers)
  BY <1>1, <1>2, ServiceOfCall
<1>4. PICK i \in Nat : i = shard[c] /\ i < services[current].width
  BY <1>1, <1>2, ChangeAssumption DEF HasQueue, TypeOK
<1>5. services[current].width \in Nat
  <2>1. services[current] \in ServiceRecord
    BY <1>1, ServiceOfCall
  <2>2. QED
    BY <2>1, ChangeAssumption DEF ServiceRecord
<1>6. i \in 0 .. services[current].width - 1
  BY <1>4, <1>5
<1>7. worker[<<current, i>>] = "running"
  BY <1>1, <1>6 DEF QuietInv, ConfigurationInForce
<1>8. QED
  BY <1>1, <1>3, <1>4, <1>7 DEF QueueOf

LEMMA EnqueueStats ==
  ASSUME TypeOK, QuietInv, StatsInv, NEW c \in Callers, Enqueue(c)
  PROVE  StatsInv'
<1>1. PICK w \in Workers : w = QueueOf(c) /\ worker[w] = "running"
  BY QueueRuns DEF Enqueue
<1>2. /\ queue' = [queue EXCEPT ![w] = Append(@, JobOf(c))]
      /\ stage' = [stage EXCEPT ![c] = "waiting"]
      /\ UNCHANGED <<layers, services, current, open, worker>>
  BY <1>1 DEF Enqueue, schemeVars
<1>3. /\ queue \in [Workers -> Seq(Job)] /\ open \in [Workers -> Seq(Job)]
      /\ JobOf(c) \in Job
  <2>1. calls[c] \in 1 .. MaxCalls
    BY CallUnderway DEF Enqueue
  <2>2. QED
    BY <2>1 DEF TypeOK, JobOf, Job
<1>4. /\ queue'[w] \in Seq(Job) /\ Len(queue'[w]) = Len(queue[w]) + 1
      /\ \A v \in Workers \ {w} : queue'[v] = queue[v] /\ open[v] = open[v]
      /\ queue[w] \in Seq(Job) /\ open[w] \in Seq(Job)
  BY <1>2, <1>3, AppendProperties
<1>5. PICK last : last = layers[Len(layers)]
  OBVIOUS
<1>6. PICK handled \in Nat, left \in Nat, h \in Nat, e \in Nat :
        /\ handled = last.handled /\ left = last.left
        /\ h = Cardinality(Held) /\ e = Cardinality(Enqueuing)
        /\ last.counted = handled + left + (h + e)
  BY <1>5, NewestFigures, StatsParts
<1>7. IsFiniteSet(HeldBy(Workers, queue, open)) /\ IsFiniteSet(Enqueuing)
  BY HeldIs, StatsParts DEF Settled
<1>8. /\ \A v \in Workers \ {w} : queue'[v] = queue[v] /\ open'[v] = open[v]
      /\ open'[w] = open[w] /\ IsFiniteSet(Held)
  BY <1>2, <1>4, <1>7, HeldIs
<1>9. /\ IsFiniteSet(Held') /\ Cardinality(Held') \in Nat
      /\ Cardinality(Held') + Len(queue[w]) + Len(open[w])
           = Cardinality(Held) + Len(queue'[w]) + Len(open'[w])
  BY <1>4, <1>8, HeldChanges
<1>10. PICK x \in Nat, m \in Nat, k \in Nat :
         x = Cardinality(Held') /\ m = Len(queue[w]) /\ k = Len(open[w])
  BY <1>4, <1>9, LenProperties
<1>11. x + m + k = h + (m + 1) + k
  BY <1>4, <1>6, <1>8, <1>9, <1>10
<1>12. Enqueuing' = Enqueuing \ {c} /\ c \in Enqueuing
  BY <1>2 DEF Enqueue, Enqueuing, TypeOK
<1>13. IsFiniteSet(Enqueuing') /\ Cardinality(Enqueuing') = e - 1 /\ Cardinality(Enqueuing') \in Nat
  BY <1>6, <1>7, <1>12, FS_RemoveElement, FS_CardinalityType
<1>14. PICK y \in Nat : y = Cardinality(Enqueuing') /\ y = e - 1
  BY <1>13
<1>15. handled + left + (h + e) = handled + left + (x + y)
  BY <1>11, <1>14
<1>16. Balanced(layers'[Len(layers)], x + y)
  BY <1>2, <1>5, <1>6, <1>15, Zenon DEF Balanced
<1>17. Settled'
  <2>1. Len(layers') = Len(layers)
        /\ \A l \in 1 .. Len(layers) : l # Len(layers) => layers'[l] = layers[l]
    BY <1>2
  <2>2. QED
    BY <1>9, <1>10, <1>13, <1>14, <1>16, <2>1, StatsParts, SettledStep
<1>18. WorkersIn'
  BY <1>1, <1>2, <1>4, StatsParts DEF WorkersIn
<1>19. QED
  BY <1>17, <1>18, StatsPartsNext

LEMMA LeaveUnqueuedStats ==
  ASSUME TypeOK, QuietInv, StatsInv, NEW c \in Callers, LeaveUnqueued(c)
  PROVE  StatsInv'
<1>1. PICK l \in 1 .. Len(layers) : l = LayerOf(c) /\ l = Len(layers)
  BY QueueRuns DEF LeaveUnqueued
<1>2. PICK last : last = layers[l]
  OBVIOUS
<1>3. PICK handled \in Nat, left \in Nat, h \in Nat, e \in Nat :
        /\ handled = last.handled /\ left = last.left
        /\ h = Cardinality(Held) /\ e = Cardinality(Enqueuing)
        /\ last.counted = handled + left + (h + e)
  BY <1>1, <1>2, NewestFigures, StatsParts
<1>4. PICK n \in Nat : n = left + 1
  OBVIOUS
<1>5. layers' = [layers EXCEPT ![l].left = n]
  BY <1>1, <1>2, <1>3, <1>4 DEF LeaveUnqueued
<1>6. PICK next : next = layers'[l]
  OBVIOUS
<1>7. /\ Len(layers') = Len(layers)
      /\ \A k \in 1 .. Len(layers) : k # l => layers'[k] = layers[k]
      /\ next.counted = last.counted /\ next.handled = last.handled /\ next.left = n
  BY <1>2, <1>5, <1>6, LayerFigures
<1>8. /\ UNCHANGED <<services, current, queue, open, worker>>
      /\ stage' = [stage EXCEPT ![c] = "idle"]
  BY DEF LeaveUnqueued, Return, workerVars
<1>9. Held' = Held /\ IsFiniteSet(Held) /\ IsFiniteSet(Enqueuing)
  BY <1>8, HeldIs, StatsParts DEF Settled
<1>10. Enqueuing' = Enqueuing \ {c} /\ c \in Enqueuing
  BY <1>8 DEF LeaveUnqueued, Enqueuing, TypeOK
<1>11. IsFiniteSet(Enqueuing') /\ Cardinality(Enqueuing') = e - 1 /\ Cardinality(Enqueuing') \in Nat
  BY <1>3, <1>9, <1>10, FS_RemoveElement, FS_CardinalityType
<1>12. PICK y \in Nat : y = Cardinality(Enqueuing') /\ y = e - 1
  BY <1>11
<1>13. handled + left + (h + e) = handled + n + (h + y)
  BY <1>4, <1>12
<1>14. Balanced(layers'[Len(layers)], h + y)
  BY <1>1, <1>3, <1>6, <1>7, <1>13, Zenon DEF Balanced
<1>15. Settled'
  BY <1>1, <1>3, <1>7, <1>9, <1>11, <1>12, <1>14, StatsParts, SettledStep
<1>16. WorkersIn'
  BY <1>8, WorkersStay
<1>17. QED
  BY <1>15, <1>16, StatsPartsNext

(* What leaves the queue and the batch of a worker is what its layer counts *)
(* as handled.                                                              *)
LEMMA WorkerAccounts ==
  ASSUME TypeOK, NEW w \in Workers, WorkerStep(w), NEW l, l = services[w[1]].layer
  PROVE  \E n \in Nat :
           /\ Len(queue'[w]) + Len(open'[w]) + n = Len(queue[w]) + Len(open[w])
           /\ \/ layers' = [layers EXCEPT ![l].handled = @ + n]
              \/ layers' = layers /\ n = 0
<1>1. /\ queue[w] \in Seq(Job) /\ open[w] \in Seq(Job)
      /\ DOMAIN queue = Workers /\ DOMAIN open = Workers
  BY DEF TypeOK
<1>2. PICK k \in Nat, m \in Nat : k = Len(queue[w]) /\ m = Len(open[w])
  BY <1>1, LenProperties
<1>3. <<>> \in Seq(Job) /\ Len(<<>>) = 0
  BY EmptySeq
<1>4. CASE Receive(w)
  <2>1. queue[w] # <<>> /\ Head(queue[w]) \in Job /\ k # 0
    BY <1>1, <1>2, <1>4, HeadTailProperties, EmptySeq DEF Receive
  <2>2. PICK b : b = Append(open[w], Head(queue[w]))
    OBVIOUS
  <2>3. Len(b) = m + 1
    <3>1. Len(Append(open[w], Head(queue[w]))) = Len(open[w]) + 1
      BY ONLY <1>1, <2>1, AppendProperties
    <3>2. QED
      BY <1>2, <2>2, <3>1
  <2>4. PICK i \in Nat : i = k - 1
    BY <2>1
  <2>5. Len(queue'[w]) = i
    <3>1. Len(Tail(queue[w])) = k - 1
      BY <1>1, <1>2, <2>1, HeadTailProperties
    <3>2. queue'[w] = Tail(queue[w])
      BY <1>1, <1>4 DEF Receive
    <3>3. QED
      BY <2>4, <3>1, <3>2
  <2>6. CASE CloseBatch(w, b)
    <3>1. Len(open'[w]) = 0
      BY <1>1, <1>3, <2>6 DEF CloseBatch
    <3>2. PICK n \in Nat : n = m + 1 /\ i + 0 + n = k + m
      BY <2>4
    <3>3. layers' = [layers EXCEPT ![l].handled = @ + n]
      <4>1. n = Len(b)
        BY <2>3, <3>2
      <4>2. QED
        BY <2>6, <4>1 DEF CloseBatch, Verify
    <3>4. Len(queue'[w]) + Len(open'[w]) + n = Len(queue[w]) + Len(open[w])
      BY <1>2, <2>5, <3>1, <3>2
    <3>5. QED
      BY <3>3, <3>4
  <2>7. CASE open' = [open EXCEPT ![w] = b] /\ UNCHANGED <<layers, reply>>
    <3>1. Len(open'[w]) = m + 1
      BY <1>1, <2>3, <2>7
    <3>2. i + (m + 1) + 0 = k + m
      BY <2>4
    <3>3. Len(queue'[w]) + Len(open'[w]) + 0 = Len(queue[w]) + Len(open[w])
      BY <1>2, <2>5, <3>1, <3>2
    <3>4. QED
      BY <2>7, <3>3
  <2>8. CloseBatch(w, b) \/ (open' = [open EXCEPT ![w] = b] /\ UNCHANGED <<layers, reply>>)
    BY <1>4, <2>2 DEF Receive, CloseBatch, Verify
  <2>9. QED
    BY <2>6, <2>7, <2>8
<1>5. CASE TimesOut(w) \/ Drained(w)
  <2>1. CloseBatch(w, open[w]) /\ queue' = queue
    BY <1>5 DEF TimesOut, Drained, CloseBatch, Verify
  <2>2. Len(open'[w]) = 0 /\ Len(queue'[w]) = k
    BY <1>1, <1>2, <1>3, <2>1 DEF CloseBatch
  <2>3. layers' = [layers EXCEPT ![l].handled = @ + m]
    BY <1>2, <2>1 DEF CloseBatch, Verify
  <2>4. k + 0 + m = k + m
    OBVIOUS
  <2>5. Len(queue'[w]) + Len(open'[w]) + m = Len(queue[w]) + Len(open[w])
    BY <1>2, <2>2, <2>4
  <2>6. QED
    BY <2>3, <2>5
<1>6. CASE SeesStop(w)
  <2>1. UNCHANGED <<layers, queue, open>>
    BY <1>6 DEF SeesStop, schemeVars
  <2>2. k + m + 0 = k + m
    OBVIOUS
  <2>3. Len(queue'[w]) + Len(open'[w]) + 0 = Len(queue[w]) + Len(open[w])
    BY <1>2, <2>1, <2>2
  <2>4. QED
    BY <2>1, <2>3
<1>7. QED
  BY <1>4, <1>5, <1>6 DEF WorkerStep

LEMMA WorkerLocal ==
  ASSUME TypeOK, NEW w \in Workers, WorkerStep(w)
  PROVE  /\ \A v \in Workers \ {w} :
              queue'[v] = queue[v] /\ open'[v] = open[v] /\ worker'[v] = worker[v]
         /\ worker'[w] \in {"running", "draining", "exited"}
         /\ UNCHANGED <<services, current, stage>>
<1>1. \E b \in Seq(Job) : WorkerEffect(w, b) /\ worker[w] \in {"running", "draining"}
  BY WorkerCases
<1>2. QED
  BY <1>1 DEF WorkerEffect, CloseBatch, TypeOK

LEMMA WorkerStats ==
  ASSUME TypeOK, QuietInv, StatsInv, NEW w \in Workers, WorkerStep(w)
  PROVE  StatsInv'
<1>1. worker[w] \in {"running", "draining"}
  BY WorkerCases
<1>2. PICK l \in 1 .. Len(layers) : l = services[w[1]].layer /\ l = Len(layers)
  <2>1. w[1] = current
    BY <1>1, StatsParts DEF WorkersIn
  <2>2. w[1] \in 1 .. Len(services) /\ services[w[1]].layer \in 1 .. Len(layers)
    BY <1>1, ServiceOfWorker
  <2>3. QED
    BY <2>1, <2>2 DEF QuietInv
<1>3. PICK n \in Nat :
        /\ Len(queue'[w]) + Len(open'[w]) + n = Len(queue[w]) + Len(open[w])
        /\ \/ layers' = [layers EXCEPT ![l].handled = @ + n]
           \/ layers' = layers /\ n = 0
  BY <1>2, WorkerAccounts
<1>4. /\ \A v \in Workers \ {w} :
           queue'[v] = queue[v] /\ open'[v] = open[v] /\ worker'[v] = worker[v]
      /\ worker'[w] \in {"running", "draining", "exited"}
      /\ UNCHANGED <<services, current, stage>>
  BY WorkerLocal
<1>5. /\ queue[w] \in Seq(Job) /\ open[w] \in Seq(Job)
      /\ queue'[w] \in Seq(Job) /\ open'[w] \in Seq(Job)
  <2>1. TypeOK'
    BY WorkerType
  <2>2. QED
    BY <2>1 DEF TypeOK, Workers
<1>6. PICK last : last = layers[Len(layers)]
  OBVIOUS
<1>7. PICK handled \in Nat, left \in Nat, h \in Nat, e \in Nat :
        /\ handled = last.handled /\ left = last.left
        /\ h = Cardinality(Held) /\ e = Cardinality(Enqueuing)
        /\ last.counted = handled + left + (h + e)
  <2>1. Settled
    BY StatsParts
  <2>2. QED
    BY ONLY TypeOK, <1>6, <2>1, NewestFigures
<1>8. /\ IsFiniteSet(Held') /\ Cardinality(Held') \in Nat
      /\ Cardinality(Held') + Len(queue[w]) + Len(open[w])
           = Cardinality(Held) + Len(queue'[w]) + Len(open'[w])
  BY <1>4, <1>5, HeldChanges, StatsParts DEF Settled
<1>9. PICK x \in Nat, k \in Nat, m \in Nat, i \in Nat, j \in Nat :
        /\ x = Cardinality(Held') /\ k = Len(queue[w]) /\ m = Len(open[w])
        /\ i = Len(queue'[w]) /\ j = Len(open'[w])
  BY <1>5, <1>8, LenProperties
<1>10. handled + left + (h + e) = (handled + n) + left + (x + e)
  <2>1. x + k + m = h + i + j
    BY <1>7, <1>8, <1>9
  <2>2. i + j + n = k + m
    BY <1>3, <1>9
  <2>3. QED
    BY <2>1, <2>2
<1>11. PICK next : next = layers'[l]
  OBVIOUS
<1>12. /\ Len(layers') = Len(layers)
       /\ \A a \in 1 .. Len(layers) : a # l => layers'[a] = layers[a]
       /\ next.counted = last.counted /\ next.handled = handled + n /\ next.left = left
  <2>1. CASE layers' = [layers EXCEPT ![l].handled = @ + n]
    <3>1. PICK c \in Nat : c = handled + n
      OBVIOUS
    <3>2. layers' = [layers EXCEPT ![l].handled = c]
      BY <1>2, <1>6, <1>7, <2>1, <3>1
    <3>3. QED
      BY <1>2, <1>6, <1>7, <1>11, <3>1, <3>2, LayerFigures
  <2>2. CASE layers' = layers /\ n = 0
    BY <1>2, <1>6, <1>7, <1>11, <2>2
  <2>3. QED
    BY <1>3, <2>1, <2>2
<1>13. Balanced(layers'[Len(layers)], x + e)
  BY <1>2, <1>7, <1>10, <1>11, <1>12, Zenon DEF Balanced
<1>14. Enqueuing' = Enqueuing /\ IsFiniteSet(Enqueuing)
  BY <1>4, StatsParts DEF Enqueuing, Settled
<1>15. Settled'
  BY <1>2, <1>7, <1>8, <1>9, <1>12, <1>13, <1>14, StatsParts, SettledStep
<1>16. WorkersIn'
  <2>1. WorkersIn
    BY StatsParts
  <2>2. \A v \in Workers : worker'[v] = "none" => queue'[v] = <<>> /\ open'[v] = <<>>
    BY <1>4, <2>1 DEF WorkersIn
  <2>3. \A v \in Workers : worker'[v] \in {"running", "draining"} =>
                             worker[v] \in {"running", "draining"}
    BY <1>1, <1>4
  <2>4. QED
    BY <1>4, <2>1, <2>2, <2>3 DEF WorkersIn
<1>17. QED
  BY <1>15, <1>16, StatsPartsNext

-----------------------------------------------------------------------------
(* A reconfiguration finds every request of the service it stopped handled. *)

NoneAtWork ==
  \A w \in Workers : /\ worker[w] \notin {"running", "draining"}
                     /\ queue[w] = <<>> /\ open[w] = <<>>

LEMMA StoppedService ==
  ASSUME TypeOK, QuietInv, StatsInv, Halted, change # NoChange
  PROVE  NoneAtWork /\ Held = {} /\ Enqueuing = {}
<1>1. ASSUME NEW w \in Workers, worker[w] \in {"running", "draining"}
      PROVE  FALSE
  <2>1. w[1] = current /\ w[1] \in 1 .. Len(services) /\ w[2] < services[current].width
    BY <1>1, ServiceOfWorker, StatsParts DEF WorkersIn
  <2>2. services[current] \in ServiceRecord
    BY <1>1, <2>1, ServiceOfWorker
  <2>3. services[current].width \in Nat
    BY <2>2, ChangeAssumption DEF ServiceRecord
  <2>4. PICK i \in Nat : i = w[2] /\ w = <<current, i>>
    BY <2>1, ChangeAssumption DEF Workers
  <2>5. i \in 0 .. services[current].width - 1
    BY <2>1, <2>3, <2>4
  <2>6. worker[<<current, i>>] = "exited"
    BY <2>1, <2>5 DEF Halted
  <2>7. QED
    BY <1>1, <2>4, <2>6
<1>2. NoneAtWork
  BY <1>1, StatsParts DEF NoneAtWork, WorkersIn, QuietInv, StopDrains, TypeOK
<1>3. Held = {}
  BY <1>2, NothingHeld DEF NoneAtWork
<1>4. Enqueuing = {}
  BY DEF QuietInv, Quiet, Enqueuing
<1>5. QED
  BY <1>2, <1>3, <1>4

(* With nothing under way, the books of every layer are closed. *)
LEMMA SettledEmpty ==
  ASSUME Held' = {}, Enqueuing' = {},
         \A l \in 1 .. Len(layers') : Balanced(layers'[l], 0)
  PROVE  Settled'
<1>1. IsFiniteSet({}) /\ Cardinality({}) = 0 /\ 0 + 0 = 0
  BY FS_EmptySet
<1>2. PICK E : E = {}
  OBVIOUS
<1>3. IsFiniteSet(E) /\ Cardinality(E) + Cardinality(E) = 0 /\ Held' = E /\ Enqueuing' = E
  BY <1>1, <1>2
<1>4. Cardinality(Held') + Cardinality(Enqueuing') = 0 /\ IsFiniteSet(Held') /\ IsFiniteSet(Enqueuing')
  BY <1>3, Zenon
<1>5. QED
  BY <1>4 DEF Settled, Balanced

LEMMA BooksClosed ==
  ASSUME TypeOK, Settled, Held = {}, Enqueuing = {}
  PROVE  \A l \in 1 .. Len(layers) : Balanced(layers[l], 0)
<1>1. Cardinality({}) = 0 /\ 0 + 0 = 0
  BY FS_EmptySet
<1>2. Cardinality(Held) + Cardinality(Enqueuing) = 0
  BY <1>1
<1>3. QED
  BY <1>2 DEF Settled, Balanced

LEMMA ServeStats ==
  ASSUME TypeOK, NoneAtWork, NEW ls \in Seq(LayerRecord), Len(ls) # 0, Serve(ls),
         UNCHANGED <<queue, open, stage>>, Held = {}, Enqueuing = {},
         \A l \in 1 .. Len(ls) : Balanced(ls[l], 0)
  PROVE  StatsInv'
<1>1. Held' = {} /\ Enqueuing' = {}
  BY HeldIs DEF Enqueuing
<1>2. layers' = ls
  BY DEF Serve
<1>3. Settled'
  BY <1>1, <1>2, SettledEmpty
<1>4. PICK n \in Nat, k \in Nat : n = Len(services) /\ k = Len(ls)
  BY LenProperties DEF TypeOK
<1>5. PICK r : r = [layer |-> k, width |-> ls[k].shards, size |-> ls[k].batch, stopped |-> FALSE]
  OBVIOUS
<1>6. /\ services' = Append(services, r) /\ current' = n + 1
      /\ worker' = [w \in Workers |->
                      IF w[1] = n + 1 /\ w[2] < ls[k].shards THEN "running" ELSE worker[w]]
  BY <1>4, <1>5 DEF Serve
<1>7. services'[current'].width = ls[k].shards
  <2>1. r \in ServiceRecord
    <3>1. k \in 1 .. Len(ls)
      BY <1>4, LenProperties
    <3>2. ls[k] \in LayerRecord /\ k \in Nat \ {0}
      BY <3>1, ElementOfSeq
    <3>3. QED
      BY <1>5, <3>2 DEF LayerRecord, ServiceRecord
  <2>2. services'[n + 1] = r
    BY <1>4, <1>6, <2>1, AppendProperties DEF TypeOK
  <2>3. services'[current'] = r
    BY ONLY <1>6, <2>2
  <2>4. r.width = ls[k].shards
    BY ONLY <1>5
  <2>5. QED
    BY ONLY <2>3, <2>4
<1>8. WorkersIn'
  BY <1>6, <1>7 DEF WorkersIn, NoneAtWork
<1>9. QED
  BY <1>3, <1>8, StatsPartsNext

LEMMA FinishStats ==
  ASSUME TypeOK, QuietInv, StatsInv, Tuned, Finish
  PROVE  StatsInv'
<1> USE CallAssumption, ChangeAssumption
<1>1. /\ change # NoChange /\ change \in Changes /\ Halted
      /\ UNCHANGED <<queue, open, stage>>
  BY DEF TypeOK, Finish, Refused, Reshard, Rebatch, SetNativeBatchVerify, Setup, SetupFails,
         Teardown, Ends, NoChange, callerVars
<1>2. NoneAtWork /\ Held = {} /\ Enqueuing = {}
  BY <1>1, StoppedService
<1>3. PICK n \in Nat \ {0} : n = Len(layers) /\ n \in 1 .. Len(layers)
  BY EmptySeq, LenProperties DEF TypeOK
<1>4. layers \in Seq(LayerRecord) /\ change.arg \in Nat
  BY <1>1 DEF TypeOK
<1>5. \A l \in 1 .. Len(layers) : Balanced(layers[l], 0)
  BY <1>2, BooksClosed, StatsParts
<1>6. ~Refused /\ ~SetupFails
  BY <1>1 DEF Tuned, Refused, SetupFails, Ends
<1>7. CASE Teardown
  <2>1. UNCHANGED <<layers, worker>>
    BY <1>7 DEF Teardown
  <2>2. Held' = {} /\ Enqueuing' = {}
    BY <1>1, <1>2, HeldIs DEF Enqueuing
  <2>3. Settled'
    BY <1>5, <2>1, <2>2, SettledEmpty
  <2>4. WorkersIn'
    BY <1>1, <1>2, <2>1 DEF WorkersIn, NoneAtWork
  <2>5. QED
    BY <2>3, <2>4, StatsPartsNext
<1>8. CASE Reshard
  <2>1. PICK a \in 1 .. MaxShards : a = change.arg
    BY <1>1, <1>4, <1>8 DEF Reshard, Ends
  <2>2. PICK ls \in Seq(LayerRecord) :
          /\ ls = [layers EXCEPT ![n] = [@ EXCEPT !.shards = a, !.counted = 0, !.handled = 0,
                                                  !.left = 0]]
          /\ Len(ls) = n
    BY <1>3, <1>4, LayerResharded
  <2>3. Serve(ls)
    BY <1>3, <1>8, <2>1, <2>2 DEF Reshard
  <2>4. ASSUME NEW l \in 1 .. Len(ls)
        PROVE  Balanced(ls[l], 0)
    <3>1. CASE l = n
      <4>1. PICK last \in LayerRecord : last = layers[n]
        BY <1>3, <1>4, ElementOfSeq
      <4>2. ls[l] = [last EXCEPT !.shards = a, !.counted = 0, !.handled = 0, !.left = 0]
        BY <1>3, <1>4, <2>2, <3>1, <4>1, LenProperties
      <4>3. ls[l].counted = 0 /\ ls[l].handled = 0 /\ ls[l].left = 0
        BY <4>1, <4>2 DEF LayerRecord
      <4>4. 0 = 0 + 0 + 0
        OBVIOUS
      <4>5. QED
        BY <4>3, <4>4, Zenon DEF Balanced
    <3>2. CASE l # n
      <4>1. ls[l] = layers[l] /\ l \in 1 .. Len(layers)
        BY <1>3, <1>4, <2>2, <3>2, LenProperties
      <4>2. QED
        BY <1>5, <4>1
    <3>3. QED
      BY <3>1, <3>2
  <2>5. Len(ls) # 0
    BY <2>2
  <2>6. QED
    BY <1>1, <1>2, <2>3, <2>4, <2>5, ServeStats
<1>9. CASE Rebatch
  <2>1. PICK a \in Nat \ {0} : a = change.arg
    BY <1>1, <1>4, <1>9 DEF Rebatch, Ends
  <2>2. /\ [layers EXCEPT ![n].batch = a] \in Seq(LayerRecord)
        /\ Len([layers EXCEPT ![n].batch = a]) = Len(layers)
    BY ONLY <1>3, <1>4, a \in Nat \ {0}, LayerRebatched
  <2>3. PICK ls \in Seq(LayerRecord) : ls = [layers EXCEPT ![n].batch = a] /\ Len(ls) = n
    BY <1>3, <2>2
  <2>4. Serve(ls)
    BY <1>3, <1>9, <2>1, <2>3 DEF Rebatch
  <2>5. ASSUME NEW l \in 1 .. Len(ls)
        PROVE  Balanced(ls[l], 0)
    <3>1. PICK r \in LayerRecord : r = layers[l]
      BY <1>3, <1>4, <2>3, ElementOfSeq
    <3>2. Balanced(r, 0)
      BY <1>3, <1>5, <2>3, <3>1
    <3>3. ls[l] = r \/ ls[l] = [r EXCEPT !.batch = a]
      BY <1>3, <1>4, <2>3, <3>1, LenProperties
    <3>4. ls[l].counted = r.counted /\ ls[l].handled = r.handled /\ ls[l].left = r.left
      BY <3>1, <3>3 DEF LayerRecord
    <3>5. QED
      BY <3>2, <3>4 DEF Balanced
  <2>6. Len(ls) # 0
    BY <2>3
  <2>7. QED
    BY <1>1, <1>2, <2>4, <2>5, <2>6, ServeStats
<1>10. CASE SetNativeBatchVerify
  <2>1. Serve(layers) /\ Len(layers) # 0
    BY <1>3, <1>10 DEF SetNativeBatchVerify
  <2>2. QED
    BY <1>1, <1>2, <1>4, <1>5, <2>1, ServeStats
<1>11. CASE Setup
  <2>1. change.arg \in 1 .. MaxShards
    BY <1>1, <1>4, <1>11 DEF Setup, Ends
  <2>2. PICK r \in LayerRecord : r = [shards |-> change.arg, batch |-> InitBatch,
                                      counted |-> 0, handled |-> 0, left |-> 0]
    BY <2>1 DEF LayerRecord
  <2>3. PICK ls \in Seq(LayerRecord) :
          /\ ls = Append(layers, r) /\ Len(ls) = n + 1
          /\ \A l \in 1 .. n : ls[l] = layers[l]
          /\ ls[n + 1] = r
    BY <1>3, <1>4, AppendProperties
  <2>4. Serve(ls) /\ Len(ls) # 0
    BY <1>11, <2>2, <2>3 DEF Setup
  <2>5. Balanced(r, 0)
    <3>1. r.counted = 0 /\ r.handled = 0 /\ r.left = 0 /\ 0 = 0 + 0 + 0
      BY <2>2
    <3>2. QED
      BY <3>1, Zenon DEF Balanced
  <2>6. ASSUME NEW l \in 1 .. Len(ls)
        PROVE  Balanced(ls[l], 0)
    BY <1>3, <1>5, <2>3, <2>5
  <2>7. QED
    BY <1>1, <1>2, <2>4, <2>6, ServeStats
<1>12. QED
  BY <1>6, <1>7, <1>8, <1>9, <1>10, <1>11 DEF Finish

LEMMA StepStats ==
  ASSUME TypeOK, QuietInv, StatsInv, Tuned, [Next]_vars
  PROVE  StatsInv'
<1>1. CASE \E c \in Callers, q \in Queries : Authorize(c, q)
  BY <1>1, AuthorizeStats
<1>2. CASE \E c \in Callers : SubmitStep(c)
  BY <1>2, AssignStats, CountStats, EnqueueStats, AnsweredStats DEF SubmitStep
<1>3. CASE \E c \in Callers : Abandon(c)
  BY <1>3, LeaveUnqueuedStats, AnsweredStats DEF Abandon
<1>4. CASE \E w \in Workers : WorkerStep(w)
  BY <1>4, WorkerStats
<1>5. CASE \E ch \in Changes : Begin(ch)
  BY <1>5, BeginStats
<1>6. CASE Finish
  BY <1>6, FinishStats
<1>7. CASE UNCHANGED vars
  <2>1. UNCHANGED <<layers, services, current, queue, open, worker, stage>>
    BY <1>7 DEF vars, schemeVars, workerVars, callerVars
  <2>2. Enqueuing' = Enqueuing
    BY <2>1 DEF Enqueuing
  <2>3. QED
    BY <2>1, <2>2, SettledAsBefore, WorkersStay, StatsPartsNext
<1>8. QED
  BY <1>1, <1>2, <1>3, <1>4, <1>5, <1>6, <1>7, Zenon DEF Next

LEMMA InitStats == Init => StatsInv
<1> SUFFICES ASSUME Init PROVE StatsInv
  OBVIOUS
<1> USE CallAssumption, ChangeAssumption
<1>1. WorkersIn
  BY DEF Init, WorkersIn
<1>2. Held = {} /\ Enqueuing = {}
  BY NothingHeld DEF Init, Enqueuing
<1>3. IsFiniteSet({}) /\ Cardinality({}) = 0
  BY FS_EmptySet
<1>4. IsFiniteSet(Held) /\ IsFiniteSet(Enqueuing)
      /\ Cardinality(Held) = 0 /\ Cardinality(Enqueuing) = 0
  BY <1>2, <1>3
<1>5. Len(layers) = 1 /\ layers[1].counted = 0 /\ layers[1].handled = 0 /\ layers[1].left = 0
  BY DEF Init
<1>6. \A l \in 1 .. Len(layers) :
        layers[l].counted =
          layers[l].handled + layers[l].left
            + (IF l = Len(layers) THEN Cardinality(Held) + Cardinality(Enqueuing) ELSE 0)
  BY <1>4, <1>5
<1>7. QED
  BY <1>1, <1>4, <1>6 DEF StatsInv, WorkersIn

(* The statistics of every layer account for the requests it was sent: each *)
(* is handled, under way, or given up by its caller before it was queued    *)
(* (service.go, Submit and verify; pvl.go, Reshard).                        *)
THEOREM StatisticsConserved == ASSUME Tuned PROVE Spec => []StatsConserved
<1>1. Init => TypeOK /\ QuietInv /\ StatsInv
  BY InitType, InitQuiet, InitStats
<1>2. TypeOK /\ QuietInv /\ StatsInv /\ [Next]_vars => (TypeOK /\ QuietInv /\ StatsInv)'
  BY StepType, StepQuiet, StepStats
<1>3. TypeOK /\ QuietInv /\ StatsInv => StatsConserved
  BY StatsSuffice
<1>4. QED
  BY <1>1, <1>2, <1>3, PTL DEF Spec
=============================================================================
