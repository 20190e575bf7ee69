----------------------- MODULE RedactionBatcherProofs -----------------------
(***************************************************************************)
(* Proofs about RedactionBatcher, for any number of submitters and         *)
(* requests and any batch size, whichever rounds fail and whenever the     *)
(* context ends.                                                           *)
(***************************************************************************)
EXTENDS RedactionBatcher, SequenceTheorems, FiniteSetTheorems, TLAPS

-----------------------------------------------------------------------------
(* The inductive invariant: where every request is...                      *)

(* The requests of a sequence of submissions, none of them there twice. *)
Reqs(b) == {b[k].req : k \in DOMAIN b}

Distinct(b) == \A i, j \in DOMAIN b : b[i].req = b[j].req => i = j

Queued == Reqs(queue)

Accumulated == Reqs(open)

Done == {r \in Req : executed[r] = 1}

Placed == Queued \cup Accumulated \cup Done

Submitting(s) == stage[s] = "submitting"

(* A request is in one place at most: with a submitter, in the queue, in    *)
(* the open batch or executed, and what waits was placed.                   *)
OnceInv ==
  /\ Distinct(queue) /\ Distinct(open)
  /\ Queued \cap Accumulated = {}
  /\ \A r \in Req : executed[r] \in {0, 1}
  /\ \A r \in Queued \cup Accumulated : executed[r] = 0
  /\ \A r \in Placed : r <= offered
  /\ \A s \in Submitters : Submitting(s) => carries[s] \in 1 .. offered /\ carries[s] \notin Placed
  /\ \A s, t \in Submitters : Submitting(s) /\ Submitting(t) /\ carries[s] = carries[t] => s = t
  /\ \A s \in Submitters : stage[s] = "waiting" => carries[s] \in Placed
  /\ worker = "exited" => queue = <<>> /\ open = <<>>

(* ...and none is lost while no round fails and the context lasts; the      *)
(* worker is stopped only after all have left...                            *)
LastInv ==
  /\ ~ended => \A r \in 1 .. offered :
       r \in Placed \/ \E s \in Submitters : Submitting(s) /\ carries[s] = r
  /\ ~ended /\ ~feeding => offered = Total
  /\ \A s \in Submitters : done[s] = "error" => failures # 0
  /\ \A s \in Submitters : stage[s] = "left" => ended \/ failures # 0 \/ ~feeding
  /\ worker # "running" => \A s \in Submitters : stage[s] = "left"

(* ...and the worker counts what it takes from the queue, and short closes  *)
(* beyond the wait bound at the end only.                                   *)
Taken == Done \cup Accumulated

CountInv ==
  /\ worker = "running" => received = Cardinality(Taken)
  /\ received >= Total => open = <<>> /\ Done = Req
  /\ short <= timeouts + 1
  /\ worker # "exited" /\ received < Total => short <= timeouts

IInv == TypeOK /\ OnceInv /\ LastInv /\ CountInv

-----------------------------------------------------------------------------
(* Sequences of submissions.                                               *)

LEMMA EmptyReqs == Reqs(<<>>) = {} /\ Distinct(<<>>)
<1>1. DOMAIN <<>> = {}
  BY EmptySeq
<1>2. QED
  BY <1>1 DEF Reqs, Distinct

LEMMA ReqsInRange ==
  ASSUME NEW b \in Seq(Submission)
  PROVE  Reqs(b) \subseteq Req
<1>1. \A k \in DOMAIN b : b[k] \in Submission
  BY ElementOfSeq, LenProperties
<1>2. QED
  BY <1>1 DEF Reqs, Submission

LEMMA AppendReqs ==
  ASSUME NEW b \in Seq(Submission), NEW x \in Submission, Distinct(b), x.req \notin Reqs(b)
  PROVE  /\ Append(b, x) \in Seq(Submission) /\ Append(b, x) # <<>>
         /\ Reqs(Append(b, x)) = Reqs(b) \cup {x.req} /\ Distinct(Append(b, x))
         /\ Len(Append(b, x)) = Len(b) + 1
<1> DEFINE c == Append(b, x)
<1>1. /\ c \in Seq(Submission) /\ Len(c) = Len(b) + 1 /\ Len(b) \in Nat
      /\ \A k \in 1 .. Len(b) : c[k] = b[k]
      /\ c[Len(b) + 1] = x
  BY AppendProperties, LenProperties
<1>2. DOMAIN b = 1 .. Len(b) /\ DOMAIN c = 1 .. Len(b) + 1
  BY <1>1, LenProperties
<1>3. c # <<>>
  BY <1>1, EmptySeq
<1> HIDE DEF c
<1>4. Reqs(c) = Reqs(b) \cup {x.req}
  <2>1. ASSUME NEW k \in DOMAIN c PROVE c[k].req \in Reqs(b) \cup {x.req}
    <3>1. CASE k \in DOMAIN b
      BY <1>1, <1>2, <3>1 DEF Reqs
    <3>2. CASE k = Len(b) + 1
      BY <1>1, <3>2
    <3>3. QED
      BY <1>1, <1>2, <3>1, <3>2
  <2>2. ASSUME NEW k \in DOMAIN b PROVE b[k].req \in Reqs(c)
    <3>1. k \in DOMAIN c /\ c[k] = b[k]
      BY <1>1, <1>2
    <3>2. QED
      BY <3>1 DEF Reqs
  <2>3. x.req \in Reqs(c)
    <3>1. Len(b) + 1 \in DOMAIN c
      BY <1>1, <1>2
    <3>2. QED
      BY <1>1, <3>1 DEF Reqs
  <2>4. Reqs(b) \subseteq Reqs(c)
    BY <2>2 DEF Reqs
  <2>5. Reqs(c) \subseteq Reqs(b) \cup {x.req}
    BY <2>1 DEF Reqs
  <2>6. QED
    BY <2>3, <2>4, <2>5
<1>5. Distinct(c)
  <2> SUFFICES ASSUME NEW i \in DOMAIN c, NEW j \in DOMAIN c, c[i].req = c[j].req PROVE i = j
    BY DEF Distinct
  <2>1. \A k \in DOMAIN b : c[k] = b[k] /\ c[k].req # x.req
    BY <1>1, <1>2 DEF Reqs
  <2>2. \A k \in DOMAIN c : k \in DOMAIN b \/ (k = Len(b) + 1 /\ c[k].req = x.req)
    BY <1>1, <1>2
  <2>3. CASE i \in DOMAIN b /\ j \in DOMAIN b
    BY <2>1, <2>3 DEF Distinct
  <2>4. QED
    BY <2>1, <2>2, <2>3
<1>6. QED
  BY <1>1, <1>3, <1>4, <1>5 DEF c

LEMMA TailReqs ==
  ASSUME NEW b \in Seq(Submission), b # <<>>, Distinct(b)
  PROVE  /\ Head(b) \in Submission /\ Tail(b) \in Seq(Submission) /\ Len(Tail(b)) = Len(b) - 1
         /\ Reqs(b) = Reqs(Tail(b)) \cup {Head(b).req}
         /\ Head(b).req \notin Reqs(Tail(b)) /\ Distinct(Tail(b))
<1>1. /\ Head(b) \in Submission /\ Tail(b) \in Seq(Submission) /\ Len(Tail(b)) = Len(b) - 1
      /\ Len(b) \in Nat \ {0} /\ Head(b) = b[1]
      /\ \A k \in 1 .. Len(Tail(b)) : Tail(b)[k] = b[k + 1]
  BY HeadTailProperties, LenProperties, EmptySeq
<1>2. DOMAIN b = 1 .. Len(b) /\ DOMAIN Tail(b) = 1 .. Len(b) - 1
  BY <1>1, LenProperties
<1>3. PICK c, x : c = Tail(b) /\ x = Head(b)
  OBVIOUS
<1>4. \A k \in DOMAIN c : k + 1 \in DOMAIN b /\ c[k] = b[k + 1] /\ k + 1 # 1
  BY <1>1, <1>2, <1>3
<1>5. \A k \in DOMAIN b : (k = 1 /\ b[k] = x) \/ (k - 1 \in DOMAIN c /\ b[k] = c[k - 1])
  BY <1>1, <1>2, <1>3
<1>6. Reqs(c) \cup {x.req} \subseteq Reqs(b)
  BY <1>1, <1>2, <1>3, <1>4 DEF Reqs
<1>7. Reqs(b) \subseteq Reqs(c) \cup {x.req}
  BY <1>5 DEF Reqs
<1>8. x.req \notin Reqs(c)
  <2>1. 1 \in DOMAIN b /\ b[1] = x
    BY <1>1, <1>2, <1>3
  <2>2. QED
    BY <1>4, <2>1 DEF Reqs, Distinct
<1>9. Distinct(c)
  <2> SUFFICES ASSUME NEW i \in DOMAIN c, NEW j \in DOMAIN c, c[i].req = c[j].req PROVE i = j
    BY DEF Distinct
  <2>1. i + 1 = j + 1
    BY <1>4 DEF Distinct
  <2>2. i \in Nat /\ j \in Nat
    BY <1>1, <1>2, <1>3
  <2>3. QED
    BY <2>1, <2>2
<1>10. QED
  BY <1>1, <1>3, <1>6, <1>7, <1>8, <1>9

(* How often a request is in a batch. *)
LEMMA ReqCount ==
  ASSUME NEW b \in Seq(Submission), Distinct(b), NEW r
  PROVE  Cardinality({k \in DOMAIN b : b[k].req = r}) = IF r \in Reqs(b) THEN 1 ELSE 0
<1>1. CASE r \in Reqs(b)
  <2>1. PICK k \in DOMAIN b : b[k].req = r
    BY <1>1 DEF Reqs
  <2>2. {i \in DOMAIN b : b[i].req = r} = {k}
    BY <2>1 DEF Distinct
  <2>3. QED
    BY <1>1, <2>2, FS_Singleton
<1>2. CASE r \notin Reqs(b)
  <2>1. {i \in DOMAIN b : b[i].req = r} = {}
    BY <1>2 DEF Reqs
  <2>2. QED
    BY <1>2, <2>1, FS_EmptySet
<1>3. QED
  BY <1>1, <1>2

-----------------------------------------------------------------------------
(* A round executes the requests of its batch.                             *)

LEMMA ExecuteEffect ==
  ASSUME TypeOK, NEW b \in Seq(Submission), Distinct(b), \A r \in Reqs(b) : executed[r] = 0,
         NEW asShort \in BOOLEAN, Execute(b, asShort)
  PROVE  /\ executed' \in [Req -> Nat]
         /\ \A r \in Req : executed'[r] = IF r \in Reqs(b) THEN 1 ELSE executed[r]
         /\ closed' \in Nat /\ failures' \in 0 .. closed'
         /\ \/ b = <<>> /\ short' = short
            \/ b # <<>> /\ short' = short + (IF asShort THEN 1 ELSE 0)
         /\ short' \in short .. closed' /\ failures <= failures'
         /\ done' \in [Submitters -> {"none", "ok", "error"}]
         /\ \A s \in Submitters : done'[s] = "error" => done[s] = "error" \/ failures' # 0
<1>0. /\ executed \in [Req -> Nat] /\ closed \in Nat /\ short \in Nat /\ short <= closed
      /\ failures \in Nat /\ failures <= closed /\ done \in [Submitters -> {"none", "ok", "error"}]
  BY DEF TypeOK
<1>1. CASE b = <<>>
  <2>1. UNCHANGED <<executed, closed, short, failures, done>>
    BY <1>1 DEF Execute
  <2>2. Reqs(b) = {}
    BY <1>1, EmptyReqs
  <2>3. QED
    BY <1>0, <1>1, <2>1, <2>2
<1>2. CASE b # <<>>
  <2>1. PICK outcome \in {"ok", "error"} :
          /\ executed' = [r \in Req |->
               executed[r] + Cardinality({k \in DOMAIN b : b[k].req = r})]
          /\ closed' = closed + 1
          /\ short' = short + (IF asShort THEN 1 ELSE 0)
          /\ failures' = failures + (IF outcome = "error" THEN 1 ELSE 0)
          /\ done' = [s \in Submitters |-> IF Told(b, s) THEN outcome ELSE done[s]]
    BY <1>2 DEF Execute
  <2>2. \A r \in Req : executed'[r] = executed[r] + (IF r \in Reqs(b) THEN 1 ELSE 0)
    BY <2>1, ReqCount
  <2>3. \A r \in Req : executed'[r] = IF r \in Reqs(b) THEN 1 ELSE executed[r]
    BY <1>0, <2>2
  <2>4. executed' = [r \in Req |-> executed'[r]]
    BY <2>1
  <2>5. executed' \in [Req -> Nat]
    BY <1>0, <2>3, <2>4
  <2>6. /\ closed' \in Nat /\ failures' \in 0 .. closed' /\ failures <= failures'
        /\ short' \in short .. closed' /\ (outcome = "error" => failures' # 0)
    BY <1>0, <2>1
  <2>7. /\ done' \in [Submitters -> {"none", "ok", "error"}]
        /\ \A s \in Submitters : done'[s] = "error" => done[s] = "error" \/ failures' # 0
    BY <1>0, <2>1, <2>6
  <2>8. QED
    BY <1>2, <2>1, <2>3, <2>5, <2>6, <2>7
<1>3. QED
  BY <1>1, <1>2

-----------------------------------------------------------------------------
(* What the worker does with a batch in hand leaves every request where it  *)
(* was or moves it on: from the queue to the batch, from the batch to done. *)

Settles(b, asShort) ==
  \/ Execute(b, asShort) /\ open' = <<>>
  \/ KeepOpen(b) /\ Len(b) < BatchSize

LEMMA Settled ==
  ASSUME TypeOK, OnceInv, NEW b \in Seq(Submission), Distinct(b),
         queue' \in Seq(Submission), Distinct(queue'),
         Reqs(b) \cap Reqs(queue') = {}, Reqs(b) \cup Reqs(queue') = Queued \cup Accumulated,
         NEW asShort \in BOOLEAN, Settles(b, asShort),
         UNCHANGED <<offered, stage, carries>>,
         worker' = "exited" => queue' = <<>> /\ open' = <<>>
  PROVE  /\ OnceInv' /\ Placed' = Placed /\ Taken' = Done \cup Reqs(b)
         /\ open' \in Seq(Submission) /\ Len(open') < BatchSize
         /\ executed' \in [Req -> Nat]
         /\ closed' \in Nat /\ failures' \in 0 .. closed' /\ failures <= failures'
         /\ short' \in short .. closed'
         /\ \/ short' = short
            \/ b # <<>> /\ short' = short + (IF asShort THEN 1 ELSE 0)
         /\ done' \in [Submitters -> {"none", "ok", "error"}]
         /\ \A s \in Submitters : done'[s] = "error" => done[s] = "error" \/ failures' # 0
         /\ b = <<>> => short' = short
<1> USE DEF OnceInv
<1>0. /\ executed \in [Req -> Nat] /\ closed \in Nat /\ short \in Nat /\ short <= closed
      /\ failures \in Nat /\ failures <= closed /\ done \in [Submitters -> {"none", "ok", "error"}]
      /\ \A s \in Submitters : done[s] = "error" => failures # 0 \/ done[s] = "error"
  BY DEF TypeOK
<1>1. \A r \in Reqs(b) \cup Reqs(queue') : executed[r] = 0
  OBVIOUS
<1>2. Reqs(b) \subseteq Req /\ Reqs(queue') \subseteq Req
  BY ReqsInRange
<1>3. Queued' = Reqs(queue') /\ Accumulated' = Reqs(open')
  BY DEF Queued, Accumulated, Reqs
<1>4. PICK q, o, d : q = Reqs(queue') /\ o = Reqs(open') /\ d = Done'
  OBVIOUS
<1>5. /\ executed' \in [Req -> Nat]
      /\ \/ open' = <<>> /\ \A r \in Req : executed'[r] = IF r \in Reqs(b) THEN 1 ELSE executed[r]
         \/ open' = b /\ Len(b) < BatchSize /\ executed' = executed
      /\ closed' \in Nat /\ failures' \in 0 .. closed' /\ failures <= failures'
      /\ short' \in short .. closed'
      /\ \/ short' = short
         \/ b # <<>> /\ short' = short + (IF asShort THEN 1 ELSE 0)
      /\ done' \in [Submitters -> {"none", "ok", "error"}]
      /\ \A s \in Submitters : done'[s] = "error" => done[s] = "error" \/ failures' # 0
      /\ b = <<>> => short' = short
  <2>1. CASE Execute(b, asShort) /\ open' = <<>>
    BY <1>1, <2>1, ExecuteEffect
  <2>2. CASE KeepOpen(b) /\ Len(b) < BatchSize
    BY <1>0, <2>2 DEF KeepOpen
  <2>3. QED
    BY <2>1, <2>2 DEF Settles
<1>6. /\ \/ o = {} /\ d = Done \cup Reqs(b)
         \/ o = Reqs(b) /\ d = Done
      /\ \A r \in Req : executed'[r] \in {0, 1}
      /\ \A r \in q \cup o : executed'[r] = 0
  <2>1. CASE open' = <<>> /\ \A r \in Req : executed'[r] = IF r \in Reqs(b) THEN 1 ELSE executed[r]
    <3>1. o = {}
      BY <1>4, <2>1, EmptyReqs
    <3>2. d = Done \cup Reqs(b)
      BY <1>2, <1>4, <2>1 DEF Done
    <3>3. \A r \in q : executed'[r] = 0
      BY <1>1, <1>2, <1>4, <2>1
    <3>4. QED
      BY <2>1, <3>1, <3>2, <3>3
  <2>2. CASE open' = b /\ executed' = executed
    BY <1>1, <1>4, <2>2 DEF Done
  <2>3. QED
    BY <1>5, <2>1, <2>2
<1>7. q \cup o \cup d = Placed /\ q \cap o = {} /\ o \cup d = Done \cup Reqs(b)
  BY <1>4, <1>6 DEF Placed
<1>8. Placed' = Placed /\ Taken' = Done \cup Reqs(b)
  BY <1>3, <1>4, <1>7 DEF Placed, Taken
<1>9. open' \in Seq(Submission) /\ Len(open') < BatchSize /\ Distinct(open')
  <2>1. Len(<<>>) = 0 /\ <<>> \in Seq(Submission) /\ Distinct(<<>>)
    BY EmptyReqs, EmptySeq
  <2>2. 0 < BatchSize
    BY RunAssumption
  <2>3. QED
    BY <1>5, <2>1, <2>2
<1>10. OnceInv'
  <2>1. Distinct(queue)' /\ Distinct(open)'
    BY <1>9 DEF Distinct
  <2>2. Queued' \cap Accumulated' = {} /\ \A r \in Queued' \cup Accumulated' : executed'[r] = 0
    BY <1>3, <1>4, <1>6, <1>7
  <2>3. /\ \A r \in Placed' : r <= offered'
        /\ \A s \in Submitters : Submitting(s)' =>
             carries'[s] \in 1 .. offered' /\ carries'[s] \notin Placed'
        /\ \A s, t \in Submitters :
             Submitting(s)' /\ Submitting(t)' /\ carries'[s] = carries'[t] => s = t
        /\ \A s \in Submitters : stage'[s] = "waiting" => carries'[s] \in Placed'
    BY <1>8 DEF Submitting
  <2>4. QED
    BY <1>6, <2>1, <2>2, <2>3
<1>11. QED
  BY <1>5, <1>8, <1>9, <1>10

LEMMA LastKept ==
  ASSUME LastInv, failures \in Nat, failures' \in Nat, failures <= failures',
         UNCHANGED <<offerVars, stage, carries>>, Placed' = Placed,
         \A s \in Submitters : done'[s] = "error" => done[s] = "error" \/ failures' # 0,
         worker' # "running" => \A s \in Submitters : stage[s] = "left"
  PROVE  LastInv'
<1>1. failures # 0 => failures' # 0
  OBVIOUS
<1>2. /\ ~ended' => \A r \in 1 .. offered' :
            r \in Placed' \/ \E s \in Submitters : Submitting(s)' /\ carries'[s] = r
      /\ ~ended' /\ ~feeding' => offered' = Total
  BY DEF LastInv, Submitting, offerVars
<1>3. \A s \in Submitters : done'[s] = "error" => failures' # 0
  BY <1>1 DEF LastInv
<1>4. \A s \in Submitters : stage'[s] = "left" => ended' \/ failures' # 0 \/ ~feeding'
  BY <1>1 DEF LastInv, offerVars
<1>5. worker' # "running" => \A s \in Submitters : stage'[s] = "left"
  OBVIOUS
<1>6. QED
  BY <1>2, <1>3, <1>4, <1>5 DEF LastInv

(* The requests of the run. *)
LEMMA ReqFinite == IsFiniteSet(Req) /\ Cardinality(Req) = Total
  BY RunAssumption, FS_Interval DEF Req

LEMMA TakenFinite ==
  ASSUME TypeOK, OnceInv
  PROVE  /\ Queued \subseteq Req /\ Accumulated \subseteq Req /\ Done \subseteq Req
         /\ Queued \cap Taken = {}
         /\ Taken \subseteq Req /\ IsFiniteSet(Taken) /\ Cardinality(Taken) \in 0 .. Total
         /\ Cardinality(Taken) = Total => Taken = Req
<1>1. Queued \subseteq Req /\ Accumulated \subseteq Req /\ Done \subseteq Req
  BY ReqsInRange DEF Queued, Accumulated, Done, TypeOK
<1>2. Taken \subseteq Req /\ Queued \cap Taken = {}
  BY <1>1 DEF OnceInv, Taken, Done
<1>3. /\ IsFiniteSet(Taken) /\ Cardinality(Taken) <= Total
      /\ Cardinality(Taken) = Total => Taken = Req
  BY <1>2, ReqFinite, FS_Subset
<1>4. Cardinality(Taken) \in Nat
  BY <1>3, FS_CardinalityType
<1>5. QED
  BY <1>1, <1>2, <1>3, <1>4, RunAssumption

(* Nothing is left once as many as the run offers were received. *)
LEMMA NothingLeft ==
  ASSUME TypeOK, OnceInv, CountInv, received >= Total
  PROVE  queue = <<>> /\ open = <<>> /\ \A s \in Submitters : ~Submitting(s)
<1>1. open = <<>> /\ Done = Req
  BY DEF CountInv
<1>2. Queued = {}
  BY <1>1, TakenFinite DEF Taken
<1>3. queue = <<>>
  <2>1. CASE queue # <<>>
    <3>1. Head(queue).req \in Queued
      BY <2>1, TailReqs DEF Queued, TypeOK, OnceInv
    <3>2. QED
      BY <1>2, <3>1
  <2>2. QED
    BY <2>1
<1>4. ASSUME NEW s \in Submitters, Submitting(s) PROVE FALSE
  <2>1. carries[s] \in 1 .. offered /\ carries[s] \notin Placed /\ offered \in 0 .. Total
    BY <1>4 DEF OnceInv, TypeOK
  <2>2. carries[s] \in Req
    BY <2>1, RunAssumption DEF Req
  <2>3. QED
    BY <1>1, <2>1, <2>2 DEF Placed
<1>5. QED
  BY <1>1, <1>3, <1>4

LEMMA ReceiveKeeps ==
  ASSUME IInv, Receive
  PROVE  IInv'
<1> USE DEF IInv
<1>1. PICK x, b, n : x = Head(queue) /\ b = Append(open, x) /\ n = received
  OBVIOUS
<1>2. /\ worker = "running" /\ queue # <<>> /\ queue' = Tail(queue) /\ received' = n + 1
      /\ \/ IsFinal /\ Execute(b, TRUE) /\ open' = <<>>
         \/ ~IsFinal /\ IsFull(b) /\ Execute(b, FALSE) /\ open' = <<>>
         \/ ~IsFinal /\ ~IsFull(b) /\ KeepOpen(b)
      /\ UNCHANGED <<offerVars, stage, carries, worker, timeouts>>
  BY <1>1 DEF Receive
<1>3. queue \in Seq(Submission) /\ open \in Seq(Submission) /\ Distinct(queue) /\ Distinct(open)
  BY DEF TypeOK, OnceInv
<1>4. /\ x \in Submission /\ queue' \in Seq(Submission) /\ Len(queue') = Len(queue) - 1
      /\ Queued = Reqs(queue') \cup {x.req} /\ x.req \notin Reqs(queue') /\ Distinct(queue')
  BY <1>1, <1>2, <1>3, TailReqs DEF Queued
<1>5. x.req \notin Accumulated /\ x.req \notin Taken /\ Accumulated = Reqs(open)
  BY <1>4, TakenFinite DEF OnceInv, Accumulated
<1>6. /\ b \in Seq(Submission) /\ b # <<>> /\ Len(b) = Len(open) + 1
      /\ Reqs(b) = Accumulated \cup {x.req} /\ Distinct(b)
  BY <1>1, <1>3, <1>4, <1>5, AppendReqs
<1>7. Reqs(b) \cap Reqs(queue') = {} /\ Reqs(b) \cup Reqs(queue') = Queued \cup Accumulated
  BY <1>4, <1>5, <1>6 DEF OnceInv
<1>8. PICK asShort \in BOOLEAN : asShort = IsFinal /\ Settles(b, asShort)
  <2>1. Len(b) \in Nat /\ BatchSize \in Nat /\ IsFinal \in BOOLEAN
    BY <1>6, LenProperties, RunAssumption DEF IsFinal
  <2>2. ~IsFull(b) => Len(b) < BatchSize
    BY <2>1 DEF IsFull
  <2>3. Settles(b, TRUE) \/ ~IsFinal
    BY <1>2 DEF Settles
  <2>4. Settles(b, FALSE) \/ IsFinal
    BY <1>2, <2>2 DEF Settles
  <2>5. QED
    BY <2>1, <2>3, <2>4
<1>9. /\ OnceInv' /\ Placed' = Placed /\ Taken' = Done \cup Reqs(b)
      /\ open' \in Seq(Submission) /\ Len(open') < BatchSize
      /\ executed' \in [Req -> Nat]
      /\ closed' \in Nat /\ failures' \in 0 .. closed' /\ failures <= failures'
      /\ short' \in short .. closed'
      /\ \/ short' = short
         \/ b # <<>> /\ short' = short + (IF asShort THEN 1 ELSE 0)
      /\ done' \in [Submitters -> {"none", "ok", "error"}]
      /\ \A s \in Submitters : done'[s] = "error" => done[s] = "error" \/ failures' # 0
  BY <1>2, <1>3, <1>4, <1>6, <1>7, <1>8, Settled DEF offerVars
<1>10. Taken' = Taken \cup {x.req}
  BY <1>6, <1>9 DEF Taken
<1>11. Cardinality(Taken') = n + 1 /\ n \in Nat
  <2>1. n = Cardinality(Taken) /\ IsFiniteSet(Taken)
    BY <1>1, <1>2, TakenFinite DEF CountInv
  <2>2. QED
    BY <1>5, <1>10, <2>1, FS_AddElement, FS_CardinalityType
<1>12. /\ Taken' \subseteq Req /\ n + 1 <= Total
       /\ n + 1 = Total => Taken' = Req
  <2>1. Taken' \subseteq Req
    BY <1>4, <1>10, TakenFinite
  <2>2. QED
    BY <1>11, <2>1, ReqFinite, FS_Subset
<1>13. received' \in 0 .. Total
  BY <1>2, <1>11, <1>12, RunAssumption
<1>14. TypeOK'
  <2>1. Len(queue') <= Cardinality(Submitters)
    <3>1. Len(queue) \in Nat /\ Len(queue) <= Cardinality(Submitters) /\ Cardinality(Submitters) \in Nat
      BY <1>3, LenProperties, RunAssumption, FS_CardinalityType DEF TypeOK
    <3>2. QED
      BY <1>4, <3>1
  <2>2. timeouts' \in 0 .. short' /\ short' \in 0 .. closed'
    BY <1>2, <1>9 DEF TypeOK
  <2>3. QED
    BY <1>2, <1>4, <1>9, <1>13, <2>1, <2>2 DEF TypeOK, offerVars
<1>15. LastInv'
  <2>1. failures \in Nat /\ failures' \in Nat
    BY <1>9 DEF TypeOK
  <2>2. QED
    BY <1>2, <1>9, <2>1, LastKept
<1>16. CountInv'
  <2>1. worker' = "running" => received' = Cardinality(Taken')
    BY <1>2, <1>11
  <2>2. ASSUME received' >= Total PROVE open' = <<>> /\ Done' = Req
    <3>1. IsFinal /\ n + 1 = Total
      BY <1>1, <1>2, <1>11, <1>12, <2>2, RunAssumption DEF IsFinal
    <3>2. open' = <<>>
      BY <1>2, <3>1
    <3>3. Accumulated' = {}
      BY <3>2, EmptyReqs DEF Accumulated, Reqs
    <3>4. QED
      BY <1>12, <3>1, <3>2, <3>3 DEF Taken
  <2>3. short <= timeouts /\ short \in Nat /\ timeouts \in Nat
    <3>1. received < Total /\ worker # "exited"
      BY <1>1, <1>2, <1>11, <1>12, RunAssumption
    <3>2. QED
      BY <3>1 DEF CountInv, TypeOK
  <2>4. timeouts' = timeouts /\ short' <= timeouts + 1
    BY <1>2, <1>9, <2>3
  <2>5. received' < Total => short' <= timeouts
    <3>1. received' < Total => ~IsFinal
      BY <1>1, <1>2, <1>11, RunAssumption DEF IsFinal
    <3>2. QED
      BY <1>8, <1>9, <2>3, <3>1
  <2>6. QED
    BY <2>1, <2>2, <2>4, <2>5 DEF CountInv
<1>17. QED
  BY <1>9, <1>14, <1>15, <1>16

LEMMA TimesOutKeeps ==
  ASSUME IInv, TimesOut
  PROVE  IInv'
<1> USE DEF IInv
<1>1. PICK b : b = open
  OBVIOUS
<1>2. /\ worker = "running" /\ b # <<>> /\ Execute(b, TRUE) /\ open' = <<>>
      /\ timeouts' = timeouts + 1
      /\ UNCHANGED <<offerVars, stage, carries, queue, worker, received>>
  BY <1>1 DEF TimesOut
<1>3. /\ b \in Seq(Submission) /\ Distinct(b) /\ Reqs(b) = Accumulated
      /\ queue' \in Seq(Submission) /\ Distinct(queue') /\ Reqs(queue') = Queued
  BY <1>1, <1>2 DEF TypeOK, OnceInv, Accumulated, Queued
<1>4. Reqs(b) \cap Reqs(queue') = {} /\ Reqs(b) \cup Reqs(queue') = Queued \cup Accumulated
  BY <1>3 DEF OnceInv
<1>5. Settles(b, TRUE) /\ TRUE \in BOOLEAN
  BY <1>2 DEF Settles
<1>6. /\ OnceInv' /\ Placed' = Placed /\ Taken' = Done \cup Reqs(b)
      /\ open' \in Seq(Submission) /\ Len(open') < BatchSize
      /\ executed' \in [Req -> Nat]
      /\ closed' \in Nat /\ failures' \in 0 .. closed' /\ failures <= failures'
      /\ short' \in short .. closed'
      /\ done' \in [Submitters -> {"none", "ok", "error"}]
      /\ \A s \in Submitters : done'[s] = "error" => done[s] = "error" \/ failures' # 0
  BY <1>2, <1>3, <1>4, <1>5, Settled DEF offerVars
<1>7. short' = short + 1
  BY <1>2 DEF Execute
<1>8. received < Total
  <2>1. received >= Total => open = <<>>
    BY DEF CountInv
  <2>2. QED
    BY <1>1, <1>2, <2>1, RunAssumption DEF TypeOK
<1>9. TypeOK'
  <2>1. timeouts' \in 0 .. short' /\ short' \in 0 .. closed'
    BY <1>2, <1>6, <1>7 DEF TypeOK
  <2>2. QED
    BY <1>2, <1>6, <2>1 DEF TypeOK, offerVars
<1>10. LastInv'
  <2>1. failures \in Nat /\ failures' \in Nat
    BY <1>6 DEF TypeOK
  <2>2. QED
    BY <1>2, <1>6, <2>1, LastKept
<1>11. CountInv'
  <2>1. Taken' = Taken
    BY <1>3, <1>6 DEF Taken
  <2>2. short <= timeouts /\ short \in Nat /\ timeouts \in Nat
    BY <1>2, <1>8 DEF CountInv, TypeOK
  <2>3. short' <= timeouts'
    BY <1>2, <1>7, <2>2
  <2>4. received' = received /\ ~(received >= Total) /\ worker' = "running"
    BY <1>2, <1>8, RunAssumption DEF TypeOK
  <2>5. short' <= timeouts' + 1
    BY <1>2, <1>7, <2>2
  <2>6. received = Cardinality(Taken)
    BY <1>2 DEF CountInv
  <2>7. QED
    BY <2>1, <2>3, <2>4, <2>5, <2>6 DEF CountInv
<1>12. QED
  BY <1>6, <1>9, <1>10, <1>11

LEMMA FinishKeeps ==
  ASSUME IInv, Finish
  PROVE  IInv'
<1> USE DEF IInv
<1>1. /\ worker = "running" /\ worker' = "draining" /\ \A s \in Submitters : stage[s] = "left"
      /\ UNCHANGED <<offerVars, submitVars, statVars, queue, open, received>>
  BY DEF Finish
<1>2. UNCHANGED <<Placed, Taken, Done, Queued, Accumulated>>
  BY <1>1 DEF Placed, Taken, Done, Queued, Accumulated, Reqs, statVars
<1>3. TypeOK' /\ OnceInv'
  BY <1>1, <1>2 DEF TypeOK, OnceInv, Distinct, Submitting, offerVars, submitVars, statVars
<1>4. LastInv'
  <2>1. failures \in Nat
    BY DEF TypeOK
  <2>2. QED
    BY <1>1, <1>2, <2>1, LastKept DEF submitVars, statVars
<1>5. CountInv'
  BY <1>1, <1>2 DEF CountInv, statVars
<1>6. QED
  BY <1>3, <1>4, <1>5

LEMMA DrainKeeps ==
  ASSUME IInv, Drain
  PROVE  IInv'
<1> USE DEF IInv
<1>1. PICK x, b : x = Head(queue) /\ b = Append(open, x)
  OBVIOUS
<1>2. /\ worker = "draining" /\ queue # <<>> /\ queue' = Tail(queue)
      /\ \/ IsFull(b) /\ Execute(b, FALSE) /\ open' = <<>>
         \/ ~IsFull(b) /\ KeepOpen(b)
      /\ UNCHANGED <<offerVars, stage, carries, worker, received, timeouts>>
  BY <1>1 DEF Drain
<1>3. queue \in Seq(Submission) /\ open \in Seq(Submission) /\ Distinct(queue) /\ Distinct(open)
  BY DEF TypeOK, OnceInv
<1>4. /\ x \in Submission /\ queue' \in Seq(Submission) /\ Len(queue') = Len(queue) - 1
      /\ Queued = Reqs(queue') \cup {x.req} /\ x.req \notin Reqs(queue') /\ Distinct(queue')
  BY <1>1, <1>2, <1>3, TailReqs DEF Queued
<1>5. x.req \notin Accumulated /\ Accumulated = Reqs(open)
  BY <1>4 DEF OnceInv, Accumulated
<1>6. /\ b \in Seq(Submission) /\ Len(b) = Len(open) + 1
      /\ Reqs(b) = Accumulated \cup {x.req} /\ Distinct(b)
  BY <1>1, <1>3, <1>4, <1>5, AppendReqs
<1>7. Reqs(b) \cap Reqs(queue') = {} /\ Reqs(b) \cup Reqs(queue') = Queued \cup Accumulated
  BY <1>4, <1>5, <1>6 DEF OnceInv
<1>8. Settles(b, FALSE) /\ FALSE \in BOOLEAN
  <2>1. Len(b) \in Nat /\ BatchSize \in Nat
    BY <1>6, LenProperties, RunAssumption
  <2>2. ~IsFull(b) => Len(b) < BatchSize
    BY <2>1 DEF IsFull
  <2>3. QED
    BY <1>2, <2>2 DEF Settles
<1>9. /\ OnceInv' /\ Placed' = Placed
      /\ open' \in Seq(Submission) /\ Len(open') < BatchSize
      /\ executed' \in [Req -> Nat]
      /\ closed' \in Nat /\ failures' \in 0 .. closed' /\ failures <= failures'
      /\ short' \in short .. closed'
      /\ done' \in [Submitters -> {"none", "ok", "error"}]
      /\ \A s \in Submitters : done'[s] = "error" => done[s] = "error" \/ failures' # 0
  BY <1>2, <1>3, <1>4, <1>6, <1>7, <1>8, Settled DEF offerVars
<1>10. short' = short /\ short \in Nat
  BY <1>2 DEF Execute, KeepOpen, TypeOK
<1>11. received < Total
  BY <1>2, NothingLeft, RunAssumption DEF TypeOK
<1>12. TypeOK'
  <2>1. Len(queue') <= Cardinality(Submitters)
    <3>1. Len(queue) \in Nat /\ Len(queue) <= Cardinality(Submitters) /\ Cardinality(Submitters) \in Nat
      BY <1>3, LenProperties, RunAssumption, FS_CardinalityType DEF TypeOK
    <3>2. QED
      BY <1>4, <3>1
  <2>2. timeouts' \in 0 .. short' /\ short' \in 0 .. closed'
    BY <1>2, <1>9, <1>10 DEF TypeOK
  <2>3. QED
    BY <1>2, <1>4, <1>9, <2>1, <2>2 DEF TypeOK, offerVars
<1>13. LastInv'
  <2>1. failures \in Nat /\ failures' \in Nat
    BY <1>9 DEF TypeOK
  <2>2. worker' # "running" => \A s \in Submitters : stage[s] = "left"
    BY <1>2 DEF LastInv
  <2>3. QED
    BY <1>2, <1>9, <2>1, <2>2, LastKept
<1>14. CountInv'
  <2>1. worker' = "draining" /\ received' = received /\ ~(received >= Total)
    BY <1>2, <1>11, RunAssumption DEF TypeOK
  <2>2. short <= timeouts /\ timeouts' = timeouts /\ short <= timeouts + 1
    BY <1>2, <1>11 DEF CountInv
  <2>3. QED
    BY <1>10, <2>1, <2>2 DEF CountInv
<1>15. QED
  BY <1>9, <1>12, <1>13, <1>14

LEMMA DrainedKeeps ==
  ASSUME IInv, Drained
  PROVE  IInv'
<1> USE DEF IInv
<1>1. PICK b : b = open
  OBVIOUS
<1>2. /\ worker = "draining" /\ queue = <<>> /\ Execute(b, TRUE) /\ open' = <<>>
      /\ worker' = "exited"
      /\ UNCHANGED <<offerVars, stage, carries, queue, received, timeouts>>
  BY <1>1 DEF Drained
<1>3. /\ b \in Seq(Submission) /\ Distinct(b) /\ Reqs(b) = Accumulated
      /\ queue' \in Seq(Submission) /\ Distinct(queue') /\ Reqs(queue') = Queued
  BY <1>1, <1>2 DEF TypeOK, OnceInv, Accumulated, Queued
<1>4. Reqs(b) \cap Reqs(queue') = {} /\ Reqs(b) \cup Reqs(queue') = Queued \cup Accumulated
  BY <1>3 DEF OnceInv
<1>5. Settles(b, TRUE) /\ TRUE \in BOOLEAN
  BY <1>2 DEF Settles
<1>6. /\ OnceInv' /\ Placed' = Placed
      /\ open' \in Seq(Submission) /\ Len(open') < BatchSize
      /\ executed' \in [Req -> Nat]
      /\ closed' \in Nat /\ failures' \in 0 .. closed' /\ failures <= failures'
      /\ short' \in short .. closed'
      /\ \/ short' = short
         \/ b # <<>> /\ short' = short + (IF TRUE THEN 1 ELSE 0)
      /\ done' \in [Submitters -> {"none", "ok", "error"}]
      /\ \A s \in Submitters : done'[s] = "error" => done[s] = "error" \/ failures' # 0
      /\ Taken' = Done \cup Reqs(b)
  BY <1>2, <1>3, <1>4, <1>5, Settled DEF offerVars
<1>7. TypeOK'
  <2>1. timeouts' \in 0 .. short' /\ short' \in 0 .. closed'
    BY <1>2, <1>6 DEF TypeOK
  <2>2. QED
    BY <1>2, <1>6, <2>1 DEF TypeOK, offerVars
<1>8. LastInv'
  <2>1. failures \in Nat /\ failures' \in Nat
    BY <1>6 DEF TypeOK
  <2>2. \A s \in Submitters : stage[s] = "left"
    BY <1>2 DEF LastInv
  <2>3. QED
    BY <1>2, <1>6, <2>1, <2>2, LastKept
<1>9. CountInv'
  <2>1. timeouts' = timeouts /\ received' = received /\ worker' = "exited"
    BY <1>2
  <2>2. short \in Nat /\ timeouts \in Nat /\ received \in Nat /\ Total \in Nat
    BY RunAssumption DEF TypeOK
  <2>3. CASE received >= Total
    <3>1. b = <<>> /\ Done = Req /\ short <= timeouts + 1
      BY <1>1, <2>3 DEF CountInv
    <3>2. short' = short
      BY <1>6, <3>1
    <3>3. Done' = Done
      BY <1>2, <3>1 DEF Execute, Done
    <3>4. QED
      BY <1>2, <2>1, <3>1, <3>2, <3>3 DEF CountInv
  <2>4. CASE ~(received >= Total)
    <3>1. short <= timeouts
      BY <1>2, <2>2, <2>4 DEF CountInv
    <3>2. short' <= timeouts + 1
      BY <1>6, <2>2, <3>1
    <3>3. QED
      BY <2>1, <2>4, <3>2 DEF CountInv
  <2>5. QED
    BY <2>3, <2>4
<1>10. QED
  BY <1>6, <1>7, <1>8, <1>9

-----------------------------------------------------------------------------
(* The submitters and those who offer.                                     *)

(* A step that leaves the worker's part of the state alone. *)
LEMMA WorkerFrame ==
  ASSUME UNCHANGED <<statVars, workerVars>>
  PROVE  /\ UNCHANGED <<Queued, Accumulated, Done, Placed, Taken>>
         /\ CountInv => CountInv'
<1>1. UNCHANGED <<Queued, Accumulated, Done>>
  BY DEF Queued, Accumulated, Done, Reqs, statVars, workerVars
<1>2. UNCHANGED <<Placed, Taken>>
  BY <1>1 DEF Placed, Taken
<1>3. CountInv => CountInv'
  BY <1>1, <1>2 DEF CountInv, statVars, workerVars
<1>4. QED
  BY <1>1, <1>2, <1>3

(* The worker is not stopped while a submitter has not left. *)
LEMMA StillRunning ==
  ASSUME IInv, NEW s \in Submitters, stage[s] # "left"
  PROVE  worker = "running"
  BY DEF IInv, LastInv

LEMMA DrawKeeps ==
  ASSUME IInv, NEW s \in Submitters, Draw(s)
  PROVE  IInv'
<1> USE DEF IInv
<1>1. /\ stage[s] = "drawing" /\ feeding /\ offered < Total /\ offered' = offered + 1
      /\ carries' = [carries EXCEPT ![s] = offered + 1]
      /\ stage' = [stage EXCEPT ![s] = "submitting"]
      /\ UNCHANGED <<bounded, feeding, ended, done, statVars, workerVars>>
  BY DEF Draw
<1>2. UNCHANGED <<Queued, Accumulated, Done, Placed, Taken>> /\ CountInv'
  BY <1>1, WorkerFrame
<1>3. worker = "running" /\ worker' = "running"
  BY <1>1, StillRunning DEF workerVars
<1>4. /\ offered \in Nat /\ Total \in Nat
      /\ \A t \in Submitters : stage'[t] = IF t = s THEN "submitting" ELSE stage[t]
      /\ \A t \in Submitters : carries'[t] = IF t = s THEN offered + 1 ELSE carries[t]
  BY <1>1, RunAssumption DEF TypeOK
<1>5. TypeOK'
  BY <1>1, <1>4 DEF TypeOK, statVars, workerVars
<1>6. \A r \in Placed : r \in Nat /\ r <= offered
  BY TakenFinite DEF OnceInv, Placed, Req
<1>7. OnceInv'
  <2>1. \A r \in Placed' : r <= offered'
    BY <1>1, <1>2, <1>4, <1>6
  <2>2. \A t \in Submitters : Submitting(t)' => carries'[t] \in 1 .. offered' /\ carries'[t] \notin Placed'
    <3> SUFFICES ASSUME NEW t \in Submitters, stage'[t] = "submitting"
                 PROVE  carries'[t] \in 1 .. offered + 1 /\ carries'[t] \notin Placed
      BY <1>1, <1>2 DEF Submitting
    <3>1. CASE t = s
      BY <1>4, <1>6, <3>1
    <3>2. CASE t # s
      BY <1>4, <3>2 DEF OnceInv, Submitting
    <3>3. QED
      BY <3>1, <3>2
  <2>3. \A t, u \in Submitters : Submitting(t)' /\ Submitting(u)' /\ carries'[t] = carries'[u] => t = u
    <3>1. \A t \in Submitters \ {s} : Submitting(t) => carries[t] # offered + 1
      BY <1>4 DEF OnceInv
    <3>2. QED
      BY <1>4, <3>1 DEF OnceInv, Submitting
  <2>4. \A t \in Submitters : stage'[t] = "waiting" => carries'[t] \in Placed'
    BY <1>2, <1>4 DEF OnceInv
  <2>5. QED
    BY <1>1, <1>2, <1>3, <2>1, <2>2, <2>3, <2>4 DEF OnceInv, Distinct, statVars, workerVars
<1>8. LastInv'
  <2>1. ASSUME ~ended', NEW r \in 1 .. offered'
        PROVE  r \in Placed' \/ \E t \in Submitters : Submitting(t)' /\ carries'[t] = r
    <3>1. CASE r = offered + 1
      BY <1>4, <3>1 DEF Submitting
    <3>2. CASE r \in 1 .. offered
      <4>1. r \in Placed \/ \E t \in Submitters : Submitting(t) /\ carries[t] = r
        BY <1>1, <2>1, <3>2 DEF LastInv
      <4>2. ~Submitting(s)
        BY <1>1 DEF Submitting
      <4>3. \A t \in Submitters : Submitting(t) /\ carries[t] = r => Submitting(t)' /\ carries'[t] = r
        BY <1>4, <4>2 DEF Submitting
      <4>4. QED
        BY <1>2, <4>1, <4>3
    <3>3. QED
      BY <1>1, <1>4, <2>1, <3>1, <3>2
  <2>2. \A t \in Submitters : stage'[t] = "left" => ended' \/ failures' # 0 \/ ~feeding'
    BY <1>1, <1>4 DEF LastInv, statVars
  <2>3. QED
    BY <1>1, <1>3, <2>1, <2>2 DEF LastInv, statVars
<1>9. QED
  BY <1>2, <1>5, <1>7, <1>8

(* A submitter goes back for the next request, or leaves. *)
LEMMA MoveKeeps ==
  ASSUME IInv, NEW s \in Submitters, stage[s] # "left", NEW to \in {"drawing", "left"},
         stage' = [stage EXCEPT ![s] = to], Submitting(s) => ended,
         to = "left" => ended \/ failures # 0 \/ ~feeding,
         UNCHANGED <<offerVars, carries, done, statVars, workerVars>>
  PROVE  IInv'
<1> USE DEF IInv
<1>1. UNCHANGED <<Queued, Accumulated, Done, Placed, Taken>> /\ CountInv'
  BY WorkerFrame
<1>2. worker = "running" /\ worker' = "running"
  BY StillRunning DEF workerVars
<1>3. \A t \in Submitters : stage'[t] = IF t = s THEN to ELSE stage[t]
  BY DEF TypeOK
<1>4. TypeOK'
  BY DEF TypeOK, offerVars, statVars, workerVars
<1>5. \A t \in Submitters : Submitting(t)' => Submitting(t) /\ t # s
  BY <1>3 DEF Submitting
<1>6. OnceInv'
  BY <1>1, <1>2, <1>3, <1>5 DEF OnceInv, Distinct, offerVars, statVars, workerVars
<1>7. LastInv'
  <2>1. ASSUME ~ended, NEW t \in Submitters, Submitting(t) PROVE Submitting(t)'
    BY <1>3, <2>1 DEF Submitting
  <2>2. ~ended' => \A r \in 1 .. offered' :
           r \in Placed' \/ \E t \in Submitters : Submitting(t)' /\ carries'[t] = r
    BY <1>1, <2>1 DEF LastInv, offerVars
  <2>3. \A t \in Submitters : stage'[t] = "left" => ended' \/ failures' # 0 \/ ~feeding'
    BY <1>3 DEF LastInv, offerVars, statVars
  <2>4. QED
    BY <1>2, <2>2, <2>3 DEF LastInv, offerVars, statVars
<1>8. QED
  BY <1>1, <1>4, <1>6, <1>7

LEMMA SubmitKeeps ==
  ASSUME IInv, NEW s \in Submitters, Submit(s)
  PROVE  IInv'
<1> USE DEF IInv
<1>1. PICK x : x = [by |-> s, req |-> carries[s]]
  OBVIOUS
<1>2. /\ stage[s] = "submitting" /\ Len(queue) < Cardinality(Submitters)
      /\ queue' = Append(queue, x)
      /\ stage' = [stage EXCEPT ![s] = "waiting"] /\ done' = [done EXCEPT ![s] = "none"]
      /\ UNCHANGED <<offerVars, carries, statVars, worker, open, received>>
  BY <1>1 DEF Submit
<1>3. /\ carries[s] \in 1 .. offered /\ carries[s] \notin Placed
      /\ offered \in 0 .. Total /\ Total \in Nat
  BY <1>2, RunAssumption DEF OnceInv, Submitting, TypeOK
<1>4. x \in Submission /\ x.req = carries[s] /\ x.req \in Req
  BY <1>1, <1>3 DEF Submission, Req
<1>5. queue \in Seq(Submission) /\ Distinct(queue) /\ x.req \notin Reqs(queue)
  BY <1>3, <1>4 DEF TypeOK, OnceInv, Placed, Queued
<1>6. /\ queue' \in Seq(Submission) /\ Distinct(queue') /\ Len(queue') = Len(queue) + 1
      /\ Reqs(queue') = Reqs(queue) \cup {x.req}
  BY <1>2, <1>4, <1>5, AppendReqs
<1>7. /\ Queued' = Queued \cup {x.req} /\ UNCHANGED <<Accumulated, Done, Taken>>
      /\ Placed' = Placed \cup {x.req}
  <2>1. Queued' = Queued \cup {x.req}
    BY <1>6 DEF Queued, Reqs
  <2>2. UNCHANGED <<Accumulated, Done>>
    BY <1>2 DEF Accumulated, Reqs, Done, statVars
  <2>3. QED
    BY <2>1, <2>2 DEF Placed, Taken
<1>8. worker = "running"
  BY <1>2, StillRunning
<1>9. /\ \A t \in Submitters : stage'[t] = IF t = s THEN "waiting" ELSE stage[t]
      /\ \A t \in Submitters : Submitting(t)' <=> Submitting(t) /\ t # s
      /\ \A t \in Submitters : done'[t] = IF t = s THEN "none" ELSE done[t]
  BY <1>2 DEF TypeOK, Submitting
<1>10. TypeOK'
  <2>1. Len(queue') <= Cardinality(Submitters)
    <3>1. Len(queue) \in Nat /\ Cardinality(Submitters) \in Nat
      BY <1>5, LenProperties, RunAssumption, FS_CardinalityType
    <3>2. QED
      BY <1>2, <1>6, <3>1
  <2>2. QED
    BY <1>2, <1>6, <2>1 DEF TypeOK, offerVars, statVars
<1>11. OnceInv'
  <2>1. executed[x.req] = 0
    BY <1>3, <1>4 DEF OnceInv, Placed, Done
  <2>2. /\ Queued' \cap Accumulated' = {}
        /\ \A r \in Queued' \cup Accumulated' : executed'[r] = 0
    <3>1. x.req \notin Accumulated
      BY <1>3, <1>4 DEF Placed
    <3>2. QED
      BY <1>2, <1>7, <2>1, <3>1 DEF OnceInv, statVars
  <2>3. \A r \in Placed' : r <= offered'
    BY <1>2, <1>3, <1>4, <1>7 DEF OnceInv, offerVars
  <2>4. \A t \in Submitters : Submitting(t)' => carries'[t] \in 1 .. offered' /\ carries'[t] \notin Placed'
    <3> SUFFICES ASSUME NEW t \in Submitters, Submitting(t), t # s
                 PROVE  carries[t] \in 1 .. offered /\ carries[t] \notin Placed \cup {x.req}
      BY <1>2, <1>7, <1>9 DEF offerVars
    <3>1. carries[t] # carries[s]
      BY <1>2 DEF OnceInv, Submitting
    <3>2. QED
      BY <1>4, <3>1 DEF OnceInv
  <2>5. \A t, u \in Submitters : Submitting(t)' /\ Submitting(u)' /\ carries'[t] = carries'[u] => t = u
    BY <1>2, <1>9 DEF OnceInv
  <2>6. \A t \in Submitters : stage'[t] = "waiting" => carries'[t] \in Placed'
    BY <1>2, <1>4, <1>7, <1>9 DEF OnceInv
  <2>7. /\ Distinct(queue)' /\ Distinct(open)' /\ \A r \in Req : executed'[r] \in {0, 1}
        /\ worker' # "exited"
    BY <1>2, <1>6, <1>8 DEF OnceInv, Distinct, statVars
  <2>8. QED
    BY <2>2, <2>3, <2>4, <2>5, <2>6, <2>7 DEF OnceInv
<1>12. LastInv'
  <2>1. ASSUME ~ended', NEW r \in 1 .. offered'
        PROVE  r \in Placed' \/ \E t \in Submitters : Submitting(t)' /\ carries'[t] = r
    <3>1. r \in Placed \/ \E t \in Submitters : Submitting(t) /\ carries[t] = r
      BY <1>2, <2>1 DEF LastInv, offerVars
    <3>2. QED
      BY <1>2, <1>4, <1>7, <1>9, <3>1
  <2>2. /\ \A t \in Submitters : stage'[t] = "left" => ended' \/ failures' # 0 \/ ~feeding'
        /\ \A t \in Submitters : done'[t] = "error" => failures' # 0
    BY <1>2, <1>9 DEF LastInv, offerVars, statVars
  <2>3. (~ended' /\ ~feeding' => offered' = Total) /\ worker' = "running"
    BY <1>2, <1>8 DEF LastInv, offerVars
  <2>4. QED
    BY <2>1, <2>2, <2>3 DEF LastInv
<1>13. CountInv'
  BY <1>2, <1>7 DEF CountInv, statVars
<1>14. QED
  BY <1>10, <1>11, <1>12, <1>13

LEMMA OthersKeep ==
  ASSUME IInv, FeederEnds \/ ContextEnds
  PROVE  IInv'
<1> USE DEF IInv
<1>1. /\ UNCHANGED <<bounded, offered, submitVars, statVars, workerVars>>
      /\ \/ offered = Total /\ feeding' = FALSE /\ UNCHANGED ended
         \/ ended /\ feeding' = FALSE /\ UNCHANGED ended
         \/ ended' = TRUE /\ UNCHANGED feeding
  BY DEF FeederEnds, ContextEnds
<1>2. UNCHANGED <<Queued, Accumulated, Done, Placed, Taken>> /\ CountInv'
  BY <1>1, WorkerFrame
<1>3. TypeOK'
  BY <1>1 DEF TypeOK, submitVars, statVars, workerVars
<1>4. OnceInv'
  BY <1>1, <1>2 DEF OnceInv, Distinct, Submitting, submitVars, statVars, workerVars
<1>5. LastInv'
  <2>1. (~ended' => ~ended) /\ (ended => ended') /\ (~feeding => ~feeding')
    BY <1>1
  <2>2. ~ended' /\ ~feeding' => offered' = Total
    BY <1>1 DEF LastInv
  <2>4. ~ended' => \A r \in 1 .. offered' :
          r \in Placed' \/ \E t \in Submitters : Submitting(t)' /\ carries'[t] = r
    BY <1>1, <1>2, <2>1 DEF LastInv, Submitting, submitVars
  <2>5. QED
    BY <1>1, <2>1, <2>2, <2>4 DEF LastInv, submitVars, statVars, workerVars
<1>6. QED
  BY <1>2, <1>3, <1>4, <1>5

-----------------------------------------------------------------------------
(* The theorems.                                                           *)

LEMMA InitHolds == Init => IInv
<1> SUFFICES ASSUME Init PROVE IInv
  OBVIOUS
<1> USE DEF Init
<1>1. <<>> \in Seq(Submission) /\ Len(<<>>) = 0
  BY EmptySeq
<1>2. TypeOK
  <2>1. Cardinality(Submitters) \in Nat /\ Total \in Nat /\ BatchSize \in Nat \ {0}
    BY RunAssumption, FS_CardinalityType
  <2>2. /\ offered \in 0 .. Total /\ received \in 0 .. Total
        /\ stage \in [Submitters -> {"drawing", "submitting", "waiting", "left"}]
        /\ carries \in [Submitters -> 0 .. Total]
        /\ done \in [Submitters -> {"none", "ok", "error"}]
        /\ executed \in [Req -> Nat]
    BY <2>1
  <2>3. /\ queue \in Seq(Submission) /\ Len(queue) <= Cardinality(Submitters)
        /\ open \in Seq(Submission) /\ Len(open) < BatchSize
    BY <1>1, <2>1
  <2>4. /\ bounded \in Waits /\ feeding \in BOOLEAN /\ ended \in BOOLEAN
        /\ worker \in {"running", "draining", "exited"}
    BY Zenon
  <2>5. /\ closed = 0 /\ short = 0 /\ timeouts = 0 /\ failures = 0
    OBVIOUS
  <2>6. /\ closed \in Nat /\ short \in 0 .. closed
        /\ timeouts \in 0 .. short /\ failures \in 0 .. closed
    BY ONLY <2>5
  <2>7. QED
    BY ONLY <2>2, <2>3, <2>4, <2>6 DEF TypeOK
<1>3. Queued = {} /\ Accumulated = {} /\ Done = {} /\ Placed = {} /\ Taken = {}
  BY EmptyReqs DEF Queued, Accumulated, Done, Placed, Taken
<1>4. OnceInv
  BY <1>3, EmptyReqs DEF OnceInv, Submitting
<1>5. LastInv
  BY DEF LastInv
<1>6. CountInv
  <2>1. received >= Total => Req = {}
    BY RunAssumption DEF Req
  <2>2. QED
    BY <1>3, <2>1, FS_EmptySet DEF CountInv
<1>7. QED
  BY <1>2, <1>4, <1>5, <1>6 DEF IInv

LEMMA StepInductive == IInv /\ [Next]_vars => IInv'
<1> SUFFICES ASSUME IInv, [Next]_vars PROVE IInv'
  OBVIOUS
<1>1. CASE UNCHANGED vars
  <2>1. UNCHANGED <<statVars, workerVars>>
    BY <1>1 DEF vars
  <2>2. UNCHANGED <<Queued, Accumulated, Done, Placed, Taken>> /\ CountInv'
    BY <2>1, WorkerFrame DEF IInv
  <2>3. TypeOK' /\ OnceInv' /\ LastInv'
    BY <1>1, <2>2 DEF IInv, TypeOK, OnceInv, LastInv, Distinct, Submitting, vars, offerVars,
       submitVars, statVars, workerVars
  <2>4. QED
    BY <2>2, <2>3 DEF IInv
<1>2. ASSUME NEW s \in Submitters, SubmitterStep(s) PROVE IInv'
  <2>1. CASE NoneLeft(s)
    <3>1. stage[s] = "drawing" /\ ~feeding /\ stage' = [stage EXCEPT ![s] = "left"]
          /\ UNCHANGED <<offerVars, carries, done, statVars, workerVars>>
      BY <2>1 DEF NoneLeft, Leave
    <3>2. QED
      BY <3>1, MoveKeeps DEF Submitting
  <2>2. CASE Executed(s)
    <3>1. stage[s] = "waiting" /\ stage' = [stage EXCEPT ![s] = "drawing"]
          /\ UNCHANGED <<offerVars, carries, done, statVars, workerVars>>
      BY <2>2 DEF Executed
    <3>2. QED
      BY <3>1, MoveKeeps DEF Submitting
  <2>3. CASE Failed(s)
    <3>1. stage' = [stage EXCEPT ![s] = "left"] /\ stage[s] \in {"submitting", "waiting"}
          /\ (ended \/ (stage[s] = "waiting" /\ done[s] = "error"))
          /\ UNCHANGED <<offerVars, carries, done, statVars, workerVars>>
      BY <2>3 DEF Failed, Leave
    <3>2. ended \/ failures # 0
      BY <3>1 DEF IInv, LastInv
    <3>3. QED
      BY <3>1, <3>2, MoveKeeps DEF Submitting
  <2>4. QED
    BY <1>2, <2>1, <2>2, <2>3, DrawKeeps, SubmitKeeps DEF SubmitterStep
<1>3. CASE WorkerStep
  BY <1>3, ReceiveKeeps, TimesOutKeeps, FinishKeeps, DrainKeeps, DrainedKeeps DEF WorkerStep
<1>4. QED
  BY <1>1, <1>2, <1>3, OthersKeep DEF Next

(* The inductive invariant holds in every reachable state. *)
THEOREM Inductive == Spec => []IInv
  BY InitHolds, StepInductive, PTL DEF Spec

(* Type correctness; the worker never sits on a full batch, and the queue   *)
(* never holds more than the submitters that block on it.                   *)
THEOREM TypeCorrect == Spec => []TypeOK
<1>1. IInv => TypeOK
  BY DEF IInv
<1>2. QED
  BY <1>1, Inductive, PTL

(* Where a request is, in numbers. *)
LEMMA PlacesCounted ==
  ASSUME TypeOK, OnceInv, NEW r \in Req
  PROVE  Places(r) = IF r \in Placed THEN 1 ELSE 0
<1>1. /\ queue \in Seq(Submission) /\ open \in Seq(Submission)
      /\ Distinct(queue) /\ Distinct(open) /\ executed[r] \in {0, 1}
  BY DEF TypeOK, OnceInv
<1>2. /\ Cardinality({k \in DOMAIN queue : queue[k].req = r}) = IF r \in Queued THEN 1 ELSE 0
      /\ Cardinality({k \in DOMAIN open : open[k].req = r}) = IF r \in Accumulated THEN 1 ELSE 0
  BY <1>1, ReqCount DEF Queued, Accumulated
<1>3. Places(r) = executed[r] + (IF r \in Queued THEN 1 ELSE 0) + (IF r \in Accumulated THEN 1 ELSE 0)
  BY <1>2 DEF Places
<1>4. /\ r \in Done <=> executed[r] = 1
      /\ r \in Queued \cup Accumulated => executed[r] = 0
      /\ ~(r \in Queued /\ r \in Accumulated)
  BY DEF Done, OnceInv
<1>5. QED
  BY <1>1, <1>3, <1>4 DEF Placed

(* No request is executed twice and none that was handed in is lost, also   *)
(* when rounds fail and submitters leave (batcher.go, finish): each that    *)
(* waits is in one place, and nothing is left when the worker has exited.   *)
THEOREM ExecutesOnce == Spec => []ExecutedOnce
<1>1. IInv => ExecutedOnce
  <2> SUFFICES ASSUME IInv PROVE ExecutedOnce
    OBVIOUS
  <2>1. \A r \in Req : Places(r) <= 1
    BY PlacesCounted DEF IInv
  <2>2. ASSUME NEW s \in Submitters, stage[s] = "waiting" PROVE Places(carries[s]) = 1
    <3>1. carries[s] \in Placed /\ carries[s] \in Req
      BY <2>2, TakenFinite DEF IInv, OnceInv, Placed
    <3>2. PICK r : r = carries[s]
      OBVIOUS
    <3>3. Places(r) = 1
      BY <3>1, <3>2, PlacesCounted DEF IInv
    <3>4. QED
      BY <3>2, <3>3
  <2>3. QED
    BY <2>1, <2>2 DEF ExecutedOnce, IInv, OnceInv
<1>2. QED
  BY <1>1, Inductive, PTL

(* A measurement without an error is a measurement of every request, and    *)
(* the short closes it counts are those of the wait bound and at most one   *)
(* for the end of the run (runOne; batcher_test.go).                        *)
THEOREM PointsAreComplete == Spec => []PointIsComplete
<1>1. IInv => PointIsComplete
  <2> SUFFICES ASSUME IInv PROVE PointIsComplete
    OBVIOUS
  <2>1. ASSUME worker = "exited", failures = 0, ~ended, NEW r \in Req PROVE executed[r] = 1
    <3>1. \A s \in Submitters : stage[s] = "left"
      BY <2>1 DEF IInv, LastInv
    <3>2. ~feeding
      BY <2>1, <3>1, RunAssumption DEF IInv, LastInv
    <3>3. r \in 1 .. offered
      BY <2>1, <3>2 DEF IInv, LastInv, Req
    <3>4. r \in Placed
      BY <2>1, <3>1, <3>3 DEF IInv, LastInv, Submitting
    <3>5. queue = <<>> /\ open = <<>>
      BY <2>1 DEF IInv, OnceInv
    <3>6. r \in Done
      BY <3>4, <3>5, EmptyReqs DEF Placed, Queued, Accumulated
    <3>7. QED
      BY <3>6 DEF Done
  <2>2. short <= timeouts + 1
    BY DEF IInv, CountInv
  <2>3. QED
    BY <2>1, <2>2 DEF PointIsComplete
<1>2. QED
  BY <1>1, Inductive, PTL
=============================================================================
