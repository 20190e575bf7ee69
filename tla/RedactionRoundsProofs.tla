----------------------- MODULE RedactionRoundsProofs -----------------------
(***************************************************************************)
(* Proofs about RedactionRounds, for every set of transactions, contents,  *)
(* proofs, batches and auditors and every bound.                           *)
(***************************************************************************)
EXTENDS RedactionRounds, FiniteSetTheorems, SequenceTheorems, TLAPS

(* The steps of the executor that touch nothing but the call itself: every  *)
(* return without a commit, and every request that is not executed.         *)
QuietStep ==
  \/ \E b \in Batches : Revalidate(b)
  \/ \E i \in pending : ExcludeStale(i) \/ AdaptFails(i)
  \/ Cancel \/ NothingToCommit \/ CommitRefused

LEMMA NextCases ==
  ASSUME Next
  PROVE  \/ QuietStep
         \/ \E i \in pending : Transition(i)
         \/ Commit
         \/ AppendAnchor
         \/ \E a \in Auditors, t \in Tx, e \in Epochs : Retrieve(a, t, e)
         \/ \E a \in Auditors : Conclude(a)
  BY DEF Next, RunStep, QuietStep

LEMMA OutcomeCounts ==
  ASSUME NEW o \in Outcomes
  PROVE  /\ [o EXCEPT !.stale = @ + 1] \in Outcomes
         /\ [o EXCEPT !.failed = @ + 1] \in Outcomes
  BY DEF Outcomes

LEMMA OutcomeReturned ==
  ASSUME NEW o \in Outcomes, NEW n \in Nat, NEW s \in {"ok", "error"}
  PROVE  [o EXCEPT !.status = s, !.succeeded = n] \in Outcomes
  BY DEF Outcomes

-----------------------------------------------------------------------------
LEMMA InitInv == Init => IInv
<1> SUFFICES ASSUME Init PROVE IInv
  OBVIOUS
<1> USE BoundsAssumption, ItemAssumption
<1>1. TypeOK
  <2>1. index \in [Tx -> IndexEntry] /\ Root \in [Tx -> IndexEntry]
    BY DEF Init, IndexEntry, Root
  <2>2. anchors \in [0 .. round -> Anchor]
    BY <2>1 DEF Init, Anchor
  <2>3. outcome \in Outcomes
    BY DEF Init, Outcome, Outcomes
  <2>4. QED
    BY <2>1, <2>2, <2>3 DEF TypeOK, Init, NoAudit
<1>2. AnchorChainIntact
  BY DEF Init, AnchorChainIntact, Root
<1>3. IndexSound
  BY DEF Init, IndexSound, SoundHistory, Behind, LastDigest, InitialDigest,
         CurrentDigest, StateDigest
<1>4. StagedSound
  BY FS_EmptySet DEF Init, StagedSound
<1>5. AuditSound /\ AuditNeverAccuses
  BY DEF Init, AuditSound, AuditNeverAccuses, NoAudit, Done
<1>6. QED
  BY <1>1, <1>2, <1>3, <1>4, <1>5 DEF IInv

-----------------------------------------------------------------------------
(* What the quiet steps have in common.                                     *)
LEMMA QuietFrame ==
  ASSUME IInv, QuietStep
  PROVE  /\ UNCHANGED <<ledgerVars, indexVars, execRound, audit>>
         /\ pc # "anchoring" /\ pc' \in {"idle", "adapting"}
  BY DEF QuietStep, Revalidate, ExcludeStale, AdaptFails, Cancel, NothingToCommit,
         CommitRefused, Return, Executing, ReadyToCommit, indexVars, ledgerVars

LEMMA QuietType ==
  ASSUME IInv, QuietStep
  PROVE  TypeOK'
<1> USE BoundsAssumption, ItemAssumption, BatchAssumption
<1>1. UNCHANGED <<ledger, chain, index, round, anchors, evidence, execRound, audit>>
  BY QuietFrame DEF indexVars, ledgerVars
<1>2. /\ pc' \in {"idle", "adapting", "anchoring"}
      /\ batch' \in Seq(Item)
      /\ pending' \subseteq DOMAIN batch'
      /\ staged' \subseteq Record
      /\ cancels' \in 0 .. MaxCancels
      /\ outcome' \in Outcomes
  <2>1. ASSUME NEW b \in Batches, Revalidate(b)
        PROVE  <1>2
    <3> DEFINE proved == {i \in DOMAIN b : b[i].proof # NoProof}
               fresh  == {i \in proved : IsFresh(b[i])}
    <3>1. b \in Seq(Item) /\ DOMAIN b = 1 .. Len(b) /\ Len(b) \in Nat
      BY LenProperties
    <3>2. IsFiniteSet(DOMAIN b)
      BY <3>1, FS_Interval
    <3>3. IsFiniteSet(proved \ fresh) /\ IsFiniteSet(DOMAIN b \ proved)
      BY <3>2, FS_Subset
    <3>4. Cardinality(proved \ fresh) \in Nat /\ Cardinality(DOMAIN b \ proved) \in Nat
      BY <3>3, FS_CardinalityType
    <3>5. /\ outcome' = [status |-> IF fresh = {} THEN "ok" ELSE "running",
                         size |-> Len(b), succeeded |-> 0,
                         stale |-> Cardinality(proved \ fresh),
                         failed |-> Cardinality(DOMAIN b \ proved)]
          /\ pc' = (IF fresh = {} THEN "idle" ELSE "adapting")
          /\ batch' = (IF fresh = {} THEN <<>> ELSE b)
          /\ pending' = fresh /\ staged' = staged /\ cancels' = cancels
      BY <2>1 DEF Revalidate, Outcome
    <3>6. fresh \subseteq DOMAIN b
      OBVIOUS
    <3> HIDE DEF proved, fresh
    <3>7. outcome' \in Outcomes
      BY <3>1, <3>4, <3>5 DEF Outcomes
    <3>8. batch' \in Seq(Item) /\ pending' \subseteq DOMAIN batch'
      BY <3>1, <3>5, <3>6
    <3>9. QED
      BY <3>5, <3>7, <3>8 DEF IInv, TypeOK
  <2>2. ASSUME NEW i \in pending, ExcludeStale(i) \/ AdaptFails(i)
        PROVE  <1>2
    <3>1. /\ \/ outcome' = [outcome EXCEPT !.stale = @ + 1]
             \/ outcome' = [outcome EXCEPT !.failed = @ + 1]
          /\ pending' = pending \ {i}
          /\ UNCHANGED <<pc, batch, staged, cancels>>
      BY <2>2 DEF ExcludeStale, AdaptFails
    <3>2. outcome' \in Outcomes
      BY <3>1, OutcomeCounts DEF IInv, TypeOK
    <3>3. QED
      BY <3>1, <3>2 DEF IInv, TypeOK
  <2>3. ASSUME Cancel \/ NothingToCommit \/ CommitRefused
        PROVE  <1>2
    <3>1. /\ \E status \in {"ok", "error"} :
               outcome' = [outcome EXCEPT !.status = status, !.succeeded = 0]
          /\ pc' = "idle" /\ batch' = <<>> /\ pending' = {} /\ staged' = {}
          /\ cancels' = cancels \/ (cancels < MaxCancels /\ cancels' = cancels + 1)
      BY <2>3 DEF Cancel, NothingToCommit, CommitRefused, Return
    <3>2. outcome' \in Outcomes
      <4>1. outcome \in Outcomes /\ 0 \in Nat
        BY DEF IInv, TypeOK
      <4>2. PICK status \in {"ok", "error"} :
              outcome' = [outcome EXCEPT !.status = status, !.succeeded = 0]
        BY <3>1
      <4>3. QED
        BY <4>1, <4>2, OutcomeReturned
    <3>3. QED
      BY <3>1, <3>2 DEF IInv, TypeOK
  <2>4. QED
    BY <2>1, <2>2, <2>3 DEF QuietStep
<1>3. QED
  BY <1>1, <1>2 DEF IInv, TypeOK

LEMMA QuietStaged ==
  ASSUME IInv, QuietStep
  PROVE  StagedSound'
<1>1. UNCHANGED <<ledger, evidence, execRound>>
  BY QuietFrame DEF indexVars, ledgerVars
<1>2. ASSUME NEW b \in Batches, Revalidate(b)
      PROVE  StagedSound'
  <2>1. staged = {} /\ staged' = {}
    BY <1>2 DEF Revalidate, IInv, StagedSound
  <2>2. \A i \in pending' : /\ b[i].proof # NoProof
                            /\ b[i].from = ledger[b[i].tx].version
                            /\ batch' = b
    BY <1>2 DEF Revalidate, IsFresh
  <2>3. pc' = "idle" => pending' = {}
    BY <1>2 DEF Revalidate
  <2>4. QED
    BY <2>1, <2>2, <2>3, FS_EmptySet DEF StagedSound
<1>3. ASSUME NEW i \in pending, ExcludeStale(i) \/ AdaptFails(i)
      PROVE  StagedSound'
  <2>1. /\ UNCHANGED <<batch, staged, pc>>
        /\ pending' \subseteq pending
        /\ pc = "adapting"
    BY <1>3 DEF ExcludeStale, AdaptFails, Executing
  <2>2. QED
    BY <1>1, <2>1 DEF IInv, StagedSound, Behind, CurrentDigest
<1>4. ASSUME Cancel \/ NothingToCommit \/ CommitRefused
      PROVE  StagedSound'
  <2>1. staged' = {} /\ pending' = {}
    BY <1>4 DEF Cancel, NothingToCommit, CommitRefused, Return
  <2>2. QED
    BY <2>1, FS_EmptySet DEF StagedSound
<1>5. QED
  BY <1>2, <1>3, <1>4 DEF QuietStep

(* Histories stay sound while the ledger, the anchors and the evidence do.  *)
LEMMA SoundUnchanged ==
  ASSUME NEW t \in Tx, NEW h, SoundHistory(t, h),
         UNCHANGED <<ledger, round, anchors, evidence>>
  PROVE  SoundHistory(t, h)'
  BY DEF SoundHistory, Behind, CurrentDigest

(* The index and the auditors hold what they held.                          *)
LEMMA SoundFrame ==
  ASSUME IInv, UNCHANGED <<ledger, index, round, anchors, evidence, audit>>
  PROVE  IndexSound' /\ AuditSound' /\ AuditNeverAccuses'
<1>1. IndexSound'
  BY SoundUnchanged DEF IInv, IndexSound
<1>2. AuditSound'
  <2> SUFFICES ASSUME NEW a \in Auditors, audit[a].stage = "retrieved"
               PROVE  /\ audit[a].version = Len(audit[a].history)
                      /\ SoundHistory(audit[a].tx, audit[a].history)'
                      /\ audit[a].round \in 0 .. round
                      /\ VerifyEntry(audit[a])
                      /\ Len(audit[a].proofs) = Len(audit[a].history)
                      /\ \A k \in 1 .. Len(audit[a].history) :
                           audit[a].proofs[k] = audit[a].history[k].auth
    BY DEF AuditSound, SoundEvidence, VerifyEntry
  <2>1. audit[a] \in {NoAudit} \cup Retrieved \cup Concluded
    BY DEF IInv, TypeOK
  <2>2. audit[a].tx \in Tx
    BY <2>1 DEF NoAudit, Retrieved, Concluded
  <2>3. QED
    BY <2>2, SoundUnchanged DEF IInv, AuditSound, SoundEvidence
<1>3. AuditNeverAccuses'
  BY DEF IInv, AuditNeverAccuses, Done
<1>4. QED
  BY <1>1, <1>2, <1>3

LEMMA QuietInv ==
  ASSUME IInv, QuietStep
  PROVE  IInv'
<1>1. UNCHANGED <<ledger, chain, index, round, anchors, evidence, execRound, audit>>
  BY QuietFrame DEF indexVars, ledgerVars
<1>2. AnchorChainIntact'
  BY <1>1, QuietFrame DEF IInv, AnchorChainIntact, Root
<1>3. QED
  BY <1>1, <1>2, QuietType, QuietStaged, SoundFrame DEF IInv

-----------------------------------------------------------------------------
(* Adapting t moves its version past every version recorded before, so what *)
(* was behind the ledger stays behind it.                                   *)
LEMMA BehindAdapt ==
  ASSUME NEW t \in Tx, NEW c \in Content, AdaptEntry(t, c),
         ledger \in [Tx -> [version: Nat, content: Content]],
         NEW u \in Tx, NEW v \in Nat, NEW d, Behind(u, v, d)
  PROVE  Behind(u, v, d)'
<1>1. CASE u = t
  <2>1. ledger'[t].version = ledger[t].version + 1 /\ ledger[t].version \in Nat
    BY DEF AdaptEntry
  <2>2. v <= ledger[t].version
    BY <1>1 DEF Behind
  <2>3. QED
    BY <1>1, <2>1, <2>2 DEF Behind
<1>2. CASE u # t
  BY <1>2 DEF Behind, AdaptEntry, CurrentDigest
<1>3. QED
  BY <1>1, <1>2

(* The request executes at the version the ledger holds, a version no sound *)
(* history has redacted yet: its DID is new, and no evidence is overwritten. *)
LEMMA SoundTransition ==
  ASSUME IInv, NEW i \in pending, Transition(i),
         NEW t \in Tx, NEW h \in Seq(Record), SoundHistory(t, h)
  PROVE  SoundHistory(t, h)'
<1> DEFINE it == batch[i]
<1>1. /\ it \in Item /\ AdaptEntry(it.tx, it.content)
      /\ ledger[it.tx].version = it.from
      /\ evidence' = [evidence EXCEPT ![DedupID(it)] = it.proof]
      /\ UNCHANGED <<round, anchors>>
      /\ ledger \in [Tx -> [version: Nat, content: Content]]
  <2>1. it \in Item
    BY ElementOfSeq DEF IInv, TypeOK
  <2>2. ledger \in [Tx -> [version: Nat, content: Content]]
    BY BoundsAssumption DEF IInv, TypeOK
  <2>3. QED
    BY <2>1, <2>2 DEF Transition, IsFresh, StoreEvidence
<1>2. Len(h) \in Nat /\ \A k \in 1 .. Len(h) : h[k] \in Record
  BY ElementOfSeq, LenProperties
<1>3. Behind(t, Len(h), LastDigest(h))'
  <2>1. Behind(t, Len(h), LastDigest(h))
    BY DEF SoundHistory
  <2>2. it.tx \in Tx /\ it.content \in Content
    BY <1>1 DEF Item
  <2>3. Behind(t, Len(h), LastDigest(h))'
    <3> HIDE DEF it
    <3> QED
      BY <1>1, <1>2, <2>1, <2>2, BehindAdapt DEF LastDigest, InitialDigest, StateDigest, Behind
  <2>4. QED
    BY <2>3
<1>4. \A k \in 1 .. Len(h) : evidence'[h[k].did] = evidence[h[k].did]
  <2> SUFFICES ASSUME NEW k \in 1 .. Len(h) PROVE h[k].did # DedupID(it)
    BY <1>1
  <2>1. h[k].did[1] = t /\ h[k].did[2] = k - 1
    BY DEF SoundHistory
  <2>2. Len(h) <= ledger[t].version
    BY DEF SoundHistory, Behind
  <2>3. CASE it.tx = t
    <3>1. DedupID(it)[2] = ledger[t].version
      BY <1>1, <2>3 DEF DedupID
    <3>2. ledger[t].version \in Nat
      BY <1>1
    <3>3. QED
      BY <1>2, <2>1, <2>2, <3>1, <3>2
  <2>4. CASE it.tx # t
    BY <2>1, <2>4 DEF DedupID
  <2>5. QED
    BY <2>3, <2>4
<1>5. QED
  BY <1>1, <1>3, <1>4 DEF SoundHistory, InitialDigest, StateDigest, LastDigest

(* The facts every part of the Transition step needs.                       *)
LEMMA TransitionFacts ==
  ASSUME IInv, NEW i \in pending, Transition(i)
  PROVE  /\ batch[i] \in Item
         /\ batch[i].tx \in Tx /\ batch[i].content \in Content
         /\ batch[i].from \in Versions /\ batch[i].proof \in Proofs
         /\ ledger[batch[i].tx].version = batch[i].from
         /\ pc = "adapting"
         /\ DedupID(batch[i]) \in DIDs
         /\ RecordOf(batch[i]) \in Record
         /\ ledger' \in [Tx -> [version: 0 .. MaxVersion, content: Content]]
<1> DEFINE it == batch[i]
<1> USE BoundsAssumption, ItemAssumption
<1>1. it \in Item /\ IsFresh(it) /\ pc = "adapting" /\ AdaptEntry(it.tx, it.content)
  BY ElementOfSeq DEF IInv, TypeOK, Transition, Executing
<1>2. it.proof # NoProof
  BY DEF IInv, StagedSound
<1> HIDE DEF it
<1>3. /\ it.tx \in Tx /\ it.content \in Content /\ it.from \in Versions
      /\ it.policy \in PolicyVersions /\ it.proof \in Proofs
  BY <1>1, <1>2 DEF Item
<1>4. ledger[it.tx].version = it.from
  BY <1>1 DEF IsFresh
<1>5. DedupID(it) \in DIDs
  BY <1>3 DEF DedupID, DIDs
<1>6. it.from \in 0 .. MaxVersion - 1 /\ it.from + 1 \in 1 .. MaxVersion
  BY <1>3 DEF Versions
<1>7. ledger[it.tx].content \in Content
  BY <1>3 DEF IInv, TypeOK
<1>8. CurrentDigest(it.tx) \in Digest /\ StateDigest(it.from + 1, it.content) \in Digest
  BY <1>3, <1>4, <1>6, <1>7 DEF CurrentDigest, StateDigest, Digest
<1>9. execRound + 1 \in Nat \ {0}
  BY DEF IInv, TypeOK
<1>10. RecordOf(it) \in Record
  BY <1>3, <1>4, <1>5, <1>6, <1>8, <1>9 DEF RecordOf, Record
<1>11. ledger' \in [Tx -> [version: 0 .. MaxVersion, content: Content]]
  <2>1. ledger' = [ledger EXCEPT ![it.tx] =
                    [version |-> it.from + 1, content |-> it.content]]
    BY <1>1, <1>4 DEF AdaptEntry
  <2>2. [version |-> it.from + 1, content |-> it.content]
          \in [version: 0 .. MaxVersion, content: Content]
    BY <1>3, <1>6
  <2>3. QED
    BY <2>1, <2>2 DEF IInv, TypeOK
<1>12. QED
  BY <1>1, <1>3, <1>4, <1>5, <1>10, <1>11 DEF it

LEMMA TransitionType ==
  ASSUME IInv, NEW i \in pending, Transition(i)
  PROVE  TypeOK'
<1> DEFINE it == batch[i]
<1>1. /\ staged' = staged \cup {RecordOf(it)}
      /\ pending' = pending \ {i}
      /\ evidence' = [evidence EXCEPT ![DedupID(it)] = it.proof]
      /\ UNCHANGED <<chain, index, round, anchors, execRound, pc, batch,
                     outcome, cancels, audit>>
  BY DEF Transition, StoreEvidence
<1>2. evidence' \in [DIDs -> Proofs \cup {NoProof}]
  BY <1>1, TransitionFacts DEF IInv, TypeOK
<1>3. staged' \subseteq Record
  BY <1>1, TransitionFacts DEF IInv, TypeOK
<1>4. QED
  BY <1>1, <1>2, <1>3, TransitionFacts DEF IInv, TypeOK

LEMMA TransitionStaged ==
  ASSUME IInv, NEW i \in pending, Transition(i)
  PROVE  StagedSound'
<1> USE BoundsAssumption
<1>0. PICK it, new : it = batch[i] /\ new = RecordOf(it)
  OBVIOUS
<1>1. /\ staged' = staged \cup {new}
      /\ pending' = pending \ {i}
      /\ evidence' = [evidence EXCEPT ![DedupID(it)] = it.proof]
      /\ AdaptEntry(it.tx, it.content)
      /\ UNCHANGED <<execRound, pc, batch>>
  BY <1>0 DEF Transition, StoreEvidence
<1>2. /\ it.tx \in Tx /\ it.content \in Content /\ it.from \in Nat
      /\ ledger[it.tx].version = it.from
      /\ DedupID(it) \in DIDs /\ pc = "adapting"
      /\ ledger \in [Tx -> [version: Nat, content: Content]]
      /\ evidence \in [DIDs -> Proofs \cup {NoProof}]
  BY <1>0, TransitionFacts DEF IInv, TypeOK, Versions
<1>3. /\ new.tx = it.tx /\ new.from = it.from /\ new.to = it.from + 1
      /\ new.did = DedupID(it) /\ new.round = execRound + 1 /\ new.auth = it.proof
      /\ new.new = StateDigest(it.from + 1, it.content)
  BY <1>0, <1>2 DEF RecordOf
<1>4. ASSUME NEW r \in staged
      PROVE  /\ r.tx \in Tx /\ r.from \in Nat /\ r.to \in Nat
             /\ r.to = r.from + 1 /\ r.new[1] = r.to /\ r.did[1] = r.tx /\ r.did[2] = r.from
             /\ r.round = execRound + 1
             /\ evidence[r.did] = r.auth
             /\ Behind(r.tx, r.to, r.new)
             /\ \A j \in pending : r.tx = batch[j].tx => r.from = batch[j].from
  BY DEF IInv, TypeOK, StagedSound, Record, Versions
<1>5. \A r \in staged : r.tx # it.tx
  <2> SUFFICES ASSUME NEW r \in staged, r.tx = it.tx PROVE FALSE
    OBVIOUS
  <2>1. r.from = it.from /\ r.to = it.from + 1
    BY <1>0, <1>4
  <2>2. r.to <= it.from
    BY <1>2, <1>4 DEF Behind
  <2>3. QED
    BY <1>2, <2>1, <2>2
<1>6. ASSUME NEW r \in staged
      PROVE  Behind(r.tx, r.to, r.new)' /\ evidence'[r.did] = r.auth
  <2>1. Behind(r.tx, r.to, r.new)'
    BY <1>1, <1>2, <1>4, BehindAdapt DEF Behind
  <2>2. r.did # DedupID(it)
    BY <1>4, <1>5 DEF DedupID
  <2>3. QED
    BY <1>1, <1>4, <2>1, <2>2
<1>7. Behind(new.tx, new.to, new.new)' /\ evidence'[new.did] = new.auth
  <2>1. ledger'[it.tx] = [version |-> it.from + 1, content |-> it.content]
    BY <1>1, <1>2 DEF AdaptEntry
  <2>2. Behind(new.tx, new.to, new.new)'
    BY <1>2, <1>3, <2>1 DEF Behind, CurrentDigest, StateDigest
  <2>3. evidence'[new.did] = new.auth
    BY <1>1, <1>2, <1>3
  <2>4. QED
    BY <2>2, <2>3
<1>8. new.did[1] = new.tx /\ new.did[2] = new.from /\ new.new[1] = new.to
  BY <1>3 DEF DedupID, StateDigest
<1>9. IsFiniteSet(staged')
  BY <1>1, FS_AddElement DEF IInv, StagedSound
<1>10. \A r, s \in staged' : r.tx = s.tx => r = s
  BY <1>1, <1>3, <1>5 DEF IInv, StagedSound
<1>11. \A r \in staged', j \in pending' : r.tx = batch'[j].tx => r.from = batch'[j].from
  BY <1>0, <1>1, <1>3, <1>4 DEF IInv, StagedSound
<1>12. \A r \in staged' : /\ r.to = r.from + 1 /\ r.new[1] = r.to
                          /\ r.did[1] = r.tx /\ r.did[2] = r.from
                          /\ r.round = execRound' + 1
                          /\ evidence'[r.did] = r.auth
                          /\ Behind(r.tx, r.to, r.new)'
  BY <1>1, <1>3, <1>4, <1>6, <1>7, <1>8
<1>13. QED
  BY <1>1, <1>2, <1>9, <1>10, <1>11, <1>12 DEF IInv, StagedSound, Behind, CurrentDigest

LEMMA TransitionInv ==
  ASSUME IInv, NEW i \in pending, Transition(i)
  PROVE  IInv'
<1>1. UNCHANGED <<chain, index, round, anchors, execRound, pc, audit>>
  BY DEF Transition
<1>2. AnchorChainIntact'
  BY <1>1 DEF IInv, AnchorChainIntact, Root
<1>3. IndexSound'
  <2>1. \A t \in Tx : index[t].history \in Seq(Record)
    BY DEF IInv, TypeOK, IndexEntry
  <2>2. \A t \in Tx : SoundHistory(t, index[t].history)'
    BY <1>1, <2>1, SoundTransition DEF IInv, IndexSound
  <2>3. QED
    BY <1>1, <2>2 DEF IInv, IndexSound
<1>4. AuditSound'
  <2> SUFFICES ASSUME NEW a \in Auditors, audit[a].stage = "retrieved"
               PROVE  SoundHistory(audit[a].tx, audit[a].history)'
    BY <1>1 DEF IInv, AuditSound, SoundEvidence, VerifyEntry
  <2>1. audit[a].tx \in Tx /\ audit[a].history \in Seq(Record)
    BY DEF IInv, TypeOK, NoAudit, Retrieved, Concluded
  <2>2. SoundHistory(audit[a].tx, audit[a].history)
    BY DEF IInv, AuditSound, SoundEvidence
  <2>3. \A t \in Tx, h \in Seq(Record) : SoundHistory(t, h) => SoundHistory(t, h)'
    BY SoundTransition
  <2>4. QED
    BY <1>1, <2>1, <2>2, <2>3
<1>5. AuditNeverAccuses'
  BY <1>1 DEF IInv, AuditNeverAccuses, Done
<1>6. QED
  BY <1>2, <1>3, <1>4, <1>5, TransitionType, TransitionStaged DEF IInv

-----------------------------------------------------------------------------
(* A round holds at most one record of t, and that record continues the     *)
(* history the index holds: the other disjunct of Continues needs two.      *)
LEMMA MovesAtMostOne ==
  ASSUME IInv, Commit, NEW t \in Tx
  PROVE  \/ Moves(t) = {} /\ Cardinality(Moves(t)) = 0
         \/ \E r \in staged :
              /\ Moves(t) = {r} /\ Cardinality(Moves(t)) = 1
              /\ r \in Record /\ r.tx = t
              /\ r.from = index[t].version /\ r.to = index[t].version + 1
              /\ r.old = LastDigest(index[t].history)
              /\ r.round = round + 1
<1>1. CASE Moves(t) = {}
  BY <1>1, FS_EmptySet
<1>2. CASE Moves(t) # {}
  <2>1. PICK r \in staged : r.tx = t
    BY <1>2 DEF Moves
  <2>2. Moves(t) = {r}
    BY <2>1 DEF Moves, IInv, StagedSound
  <2>3. Validates(r)
    BY DEF Commit, CommitAccepted
  <2>4. r \in Record /\ r.from \in Nat /\ r.to = r.from + 1
    BY DEF IInv, TypeOK, StagedSound, Record, Versions
  <2>5. r.from = index[t].version /\ r.old = LastDigest(index[t].history)
    BY <2>1, <2>2, <2>3, <2>4 DEF Validates, Continues
  <2>6. QED
    BY <2>1, <2>2, <2>3, <2>4, <2>5, FS_Singleton DEF Validates
<1>3. QED
  BY <1>1, <1>2

(* So the commit appends one record to the history of t, or none.           *)
LEMMA AppliedCases ==
  ASSUME IInv, Commit, NEW t \in Tx
  PROVE  \/ Moves(t) = {} /\ Applied(t) = index[t]
         \/ \E r \in staged :
              /\ Moves(t) = {r}
              /\ r \in Record /\ r.tx = t
              /\ r.from = index[t].version /\ r.to = index[t].version + 1
              /\ r.old = LastDigest(index[t].history)
              /\ r.round = round + 1
              /\ Applied(t) = [version |-> index[t].version + 1,
                               history |-> Append(index[t].history, r)]
<1>1. index[t] \in IndexEntry /\ index[t].history \in Seq(Record)
      /\ index[t].version \in Nat
  BY BoundsAssumption DEF IInv, TypeOK, IndexEntry
<1>2. CASE Moves(t) = {} /\ Cardinality(Moves(t)) = 0
  <2>1. Applied(t) = [version |-> index[t].version + 0,
                      history |-> index[t].history \o
                        [k \in 1 .. 0 |-> CHOOSE r \in Moves(t) :
                                             r.to = index[t].version + k]]
    BY <1>2 DEF Applied
  <2>2. [k \in 1 .. 0 |-> CHOOSE r \in Moves(t) : r.to = index[t].version + k] = <<>>
    OBVIOUS
  <2>3. index[t].history \o <<>> = index[t].history
    BY <1>1, ConcatEmptySeq
  <2>4. Applied(t) = [version |-> index[t].version, history |-> index[t].history]
    BY <1>1, <2>1, <2>2, <2>3
  <2>5. Applied(t) = index[t]
    BY <1>1, <2>4 DEF IndexEntry
  <2>6. QED
    BY <1>2, <2>5
<1>3. ASSUME NEW r \in staged,
             /\ Moves(t) = {r} /\ Cardinality(Moves(t)) = 1
             /\ r \in Record /\ r.to = index[t].version + 1
      PROVE  Applied(t) = [version |-> index[t].version + 1,
                           history |-> Append(index[t].history, r)]
  <2>1. Applied(t) = [version |-> index[t].version + 1,
                      history |-> index[t].history \o
                        [k \in 1 .. 1 |-> CHOOSE s \in Moves(t) :
                                             s.to = index[t].version + k]]
    BY <1>3 DEF Applied
  <2>2. (CHOOSE s \in Moves(t) : s.to = index[t].version + 1) = r
    BY <1>3
  <2>3. [k \in 1 .. 1 |-> CHOOSE s \in Moves(t) : s.to = index[t].version + k] = <<r>>
    BY <2>2
  <2>4. index[t].history \o <<r>> = Append(index[t].history, r)
    BY <1>1, <1>3, AppendIsConcat
  <2>5. QED
    BY <2>1, <2>3, <2>4
<1>4. QED
  BY <1>2, <1>3, MovesAtMostOne

LEMMA CommitType ==
  ASSUME IInv, Commit
  PROVE  TypeOK'
<1> USE BoundsAssumption
<1> DEFINE after == [t \in Tx |-> Applied(t)]
<1>1. /\ index' = after /\ round' = round + 1 /\ pc' = "anchoring"
      /\ anchors' = [r \in 0 .. round + 1 |->
                      IF r = round + 1
                      THEN [root |-> after, prev |-> anchors[round].root, records |-> staged]
                      ELSE anchors[r]]
      /\ UNCHANGED <<ledger, chain, evidence, execRound, batch, pending, staged,
                     outcome, cancels, audit>>
  BY DEF Commit, ledgerVars
<1>2. \A t \in Tx : Applied(t) \in IndexEntry
  <2> SUFFICES ASSUME NEW t \in Tx PROVE Applied(t) \in IndexEntry
    OBVIOUS
  <2>1. index[t] \in IndexEntry
    BY DEF IInv, TypeOK
  <2>2. ASSUME NEW r \in Record, r.to = index[t].version + 1,
               Applied(t) = [version |-> index[t].version + 1,
                             history |-> Append(index[t].history, r)]
        PROVE  Applied(t) \in IndexEntry
    <3>1. index[t].version + 1 \in 0 .. MaxVersion
      BY <2>2 DEF Record
    <3>2. Append(index[t].history, r) \in Seq(Record)
      BY <2>1, AppendProperties DEF IndexEntry
    <3>3. QED
      BY <2>2, <3>1, <3>2 DEF IndexEntry
  <2>3. QED
    BY <2>1, <2>2, AppliedCases
<1>3. after \in [Tx -> IndexEntry]
  BY <1>2
<1>4. anchors' \in [0 .. round' -> Anchor]
  <2>1. round \in Nat /\ anchors[round] \in Anchor /\ staged \subseteq Record
    BY DEF IInv, TypeOK
  <2>2. [root |-> after, prev |-> anchors[round].root, records |-> staged] \in Anchor
    BY <1>3, <2>1 DEF Anchor
  <2> HIDE DEF after
  <2>3. \A r \in 0 .. round + 1 : r # round + 1 => anchors[r] \in Anchor
    BY <2>1 DEF IInv, TypeOK
  <2>4. QED
    BY <1>1, <2>2, <2>3
<1>5. QED
  BY <1>1, <1>3, <1>4 DEF IInv, TypeOK

(* The anchors before this round stay, and the new one holds its records.   *)
LEMMA CommitFacts ==
  ASSUME IInv, Commit
  PROVE  /\ index' = [t \in Tx |-> Applied(t)] /\ round' = round + 1 /\ round \in Nat
         /\ \A r \in 0 .. round : anchors'[r] = anchors[r]
         /\ anchors'[round + 1].records = staged
         /\ anchors'[round + 1].root = index'
         /\ anchors'[round + 1].prev = anchors[round].root
         /\ pc' = "anchoring" /\ pc = "adapting" /\ round = execRound
         /\ UNCHANGED <<ledger, chain, evidence, execRound, pending, batch, staged, audit>>
<1>1. round \in Nat /\ execRound \in Nat
  BY DEF IInv, TypeOK
<1>2. pc = "adapting" /\ round = execRound
  BY DEF Commit, ReadyToCommit, IInv, AnchorChainIntact
<1>3. anchors' = [r \in 0 .. round + 1 |->
                   IF r = round + 1
                   THEN [root |-> index', prev |-> anchors[round].root, records |-> staged]
                   ELSE anchors[r]]
  BY DEF Commit
<1>4. anchors'[round + 1] =
        [root |-> index', prev |-> anchors[round].root, records |-> staged]
  BY <1>1, <1>3
<1>5. \A r \in 0 .. round : anchors'[r] = anchors[r]
  BY <1>1, <1>3
<1>6. QED
  BY <1>1, <1>2, <1>4, <1>5 DEF Commit, ledgerVars

LEMMA SoundCommit ==
  ASSUME IInv, Commit, NEW t \in Tx, NEW h, SoundHistory(t, h)
  PROVE  SoundHistory(t, h)'
<1>1. /\ round' = round + 1 /\ round \in Nat
      /\ \A r \in 0 .. round : anchors'[r] = anchors[r]
      /\ UNCHANGED <<ledger, evidence>>
  BY CommitFacts
<1>2. Behind(t, Len(h), LastDigest(h))'
  BY <1>1 DEF SoundHistory, Behind, CurrentDigest, LastDigest
<1>3. \A k \in 1 .. Len(h) : h[k].round \in 1 .. round' /\ anchors'[h[k].round] = anchors[h[k].round]
  BY <1>1 DEF SoundHistory
<1>4. QED
  BY <1>1, <1>2, <1>3 DEF SoundHistory

(* A history whose rounds increase, extended by a record of a later round.  *)
LEMMA RoundsIncrease ==
  ASSUME NEW x \in Nat, NEW n \in Nat, NEW h,
         \A k \in 1 .. n : h[k].round \in 1 .. x,
         \A j, k \in 1 .. n : j < k => h[j].round < h[k].round,
         h[n + 1].round = x + 1
  PROVE  /\ \A j, k \in 1 .. n + 1 : j < k => h[j].round < h[k].round
         /\ \A k \in 1 .. n + 1 : h[k].round \in 1 .. x + 1
  OBVIOUS

(* The record a commit appends keeps the history sound.                     *)
LEMMA SoundAppend ==
  ASSUME IInv, Commit, NEW t \in Tx, NEW r \in staged,
         r.tx = t, r.from = index[t].version, r.to = index[t].version + 1,
         r.old = LastDigest(index[t].history), r.round = round + 1,
         NEW h, h = Append(index[t].history, r)
  PROVE  SoundHistory(t, h)'
<1>0. PICK n, g : n = index[t].version /\ g = index[t].history
  OBVIOUS
<1>1. g \in Seq(Record) /\ n = Len(g) /\ n \in Nat /\ SoundHistory(t, g) /\ r \in Record
  <2>1. index[t] \in IndexEntry
    BY DEF IInv, TypeOK
  <2>2. n = Len(g) /\ SoundHistory(t, g)
    BY <1>0 DEF IInv, IndexSound
  <2>3. g \in Seq(Record) /\ r \in Record
    BY <1>0, <2>1 DEF IndexEntry, IInv, TypeOK
  <2>4. QED
    BY <2>2, <2>3, LenProperties
<1>2. /\ h \in Seq(Record) /\ Len(h) = n + 1 /\ h[n + 1] = r
      /\ \A k \in 1 .. n : h[k] = g[k]
  BY <1>0, <1>1, AppendProperties
<1>3. /\ round' = round + 1 /\ round \in Nat
      /\ \A e \in 0 .. round : anchors'[e] = anchors[e]
      /\ anchors'[round + 1].records = staged
      /\ UNCHANGED <<ledger, evidence>>
  BY CommitFacts
<1>4. /\ r.did[1] = r.tx /\ r.did[2] = r.from
      /\ evidence[r.did] = r.auth /\ Behind(r.tx, r.to, r.new)
  BY DEF IInv, StagedSound
<1>5. /\ n = 0 => LastDigest(g) = InitialDigest
      /\ n # 0 => LastDigest(g) = g[n].new
  BY <1>1, EmptySeq DEF LastDigest
<1>6. ASSUME NEW k \in 1 .. n
      PROVE  /\ h[k].tx = t /\ h[k].from = k - 1 /\ h[k].to = k
             /\ h[k].did[1] = t /\ h[k].did[2] = k - 1
             /\ h[k].round \in 1 .. round
             /\ h[k] \in anchors'[h[k].round].records
             /\ evidence'[h[k].did] = h[k].auth
             /\ h[k].old = IF k = 1 THEN InitialDigest ELSE h[k - 1].new
  <2>1. /\ g[k].tx = t /\ g[k].from = k - 1 /\ g[k].to = k
        /\ g[k].did[1] = t /\ g[k].did[2] = k - 1
        /\ g[k].round \in 1 .. round
        /\ g[k] \in anchors[g[k].round].records
        /\ evidence[g[k].did] = g[k].auth
        /\ g[k].old = IF k = 1 THEN InitialDigest ELSE g[k - 1].new
    BY <1>1 DEF SoundHistory
  <2>2. anchors'[g[k].round] = anchors[g[k].round]
    BY <1>3, <2>1
  <2>3. k # 1 => h[k - 1] = g[k - 1]
    BY <1>1, <1>2
  <2>4. h[k] = g[k]
    BY <1>2
  <2>5. QED
    BY <1>3, <2>1, <2>2, <2>3, <2>4
<1>7. \A k \in 1 .. n : h[k].round \in 1 .. round
  BY <1>1, <1>2 DEF SoundHistory
<1>8. /\ r.tx = t /\ r.from = n /\ r.to = n + 1
      /\ r.did[1] = t /\ r.did[2] = n
      /\ r.round = round' /\ r \in anchors'[r.round].records
      /\ evidence'[r.did] = r.auth
      /\ r.old = IF n = 0 THEN InitialDigest ELSE h[n].new
  <2>1. n # 0 => h[n] = g[n]
    BY <1>1, <1>2
  <2>2. r.old = LastDigest(g)
    BY <1>0
  <2>3. QED
    BY <1>0, <1>3, <1>4, <1>5, <2>1, <2>2
<1>9. /\ \A j, k \in 1 .. n + 1 : j < k => h[j].round < h[k].round
      /\ \A k \in 1 .. n + 1 : h[k].round \in 1 .. round'
  <2>1. \A j, k \in 1 .. n : j < k => h[j].round < h[k].round
    BY <1>1, <1>2 DEF SoundHistory
  <2>2. h[n + 1].round = round + 1 /\ round \in Nat /\ n \in Nat /\ round' = round + 1
    BY <1>1, <1>2, <1>3
  <2>3. QED
    BY <1>7, <2>1, <2>2, RoundsIncrease
<1>10. Behind(t, Len(h), LastDigest(h))'
  <2>1. LastDigest(h) = r.new
    <3>1. h # <<>>
      BY <1>1, <1>2, EmptySeq
    <3>2. QED
      BY <1>2, <3>1 DEF LastDigest
  <2>2. Behind(t, n + 1, r.new)
    BY <1>0, <1>4
  <2>3. QED
    BY <1>2, <1>3, <2>1, <2>2 DEF Behind, CurrentDigest, LastDigest
<1>11. ASSUME NEW k \in 1 .. n + 1
       PROVE  /\ h[k].tx = t /\ h[k].from = k - 1 /\ h[k].to = k
              /\ h[k].did[1] = t /\ h[k].did[2] = k - 1
              /\ h[k].round \in 1 .. round'
              /\ h[k] \in anchors'[h[k].round].records
              /\ evidence'[h[k].did] = h[k].auth
              /\ h[k].old = IF k = 1 THEN InitialDigest ELSE h[k - 1].new
  <2>1. CASE k = n + 1
    <3>1. h[k] = r /\ k - 1 = n /\ (k = 1 <=> n = 0) /\ round' \in 1 .. round'
      BY <1>1, <1>2, <1>3, <2>1
    <3>2. QED
      BY <1>8, <2>1, <3>1
  <2>2. CASE k # n + 1
    <3>1. k \in 1 .. n
      BY <1>1, <2>2
    <3>2. h[k].round \in 1 .. round'
      BY <1>9
    <3>3. QED
      BY <1>6, <3>1, <3>2
  <2>3. QED
    BY <2>1, <2>2
<1>12. QED
  BY <1>2, <1>9, <1>10, <1>11 DEF SoundHistory, InitialDigest, StateDigest

LEMMA CommitChain ==
  ASSUME IInv, Commit
  PROVE  AnchorChainIntact'
<1>1. /\ index' = [t \in Tx |-> Applied(t)] /\ round' = round + 1 /\ round \in Nat
      /\ \A r \in 0 .. round : anchors'[r] = anchors[r]
      /\ anchors'[round + 1].root = index'
      /\ anchors'[round + 1].prev = anchors[round].root
      /\ pc' = "anchoring" /\ round = execRound
      /\ UNCHANGED <<chain, execRound>>
  BY CommitFacts
<1>2. \A r \in 1 .. round : anchors[r].prev = anchors[r - 1].root
  BY DEF IInv, AnchorChainIntact
<1>3. \A r \in 1 .. round' : anchors'[r].prev = anchors'[r - 1].root
  <2> SUFFICES ASSUME NEW r \in 1 .. round + 1
               PROVE  anchors'[r].prev = anchors'[r - 1].root
    BY <1>1
  <2>1. CASE r = round + 1
    <3>1. r - 1 = round /\ round \in 0 .. round
      BY <1>1, <2>1
    <3>2. anchors'[r - 1] = anchors[round]
      BY <1>1, <3>1
    <3>3. QED
      BY <1>1, <2>1, <3>2
  <2>2. CASE r # round + 1
    <3>1. r \in 1 .. round /\ r \in 0 .. round /\ r - 1 \in 0 .. round
      BY <1>1, <2>2
    <3>2. anchors'[r] = anchors[r] /\ anchors'[r - 1] = anchors[r - 1]
      BY <1>1, <3>1
    <3>3. QED
      BY <1>2, <3>1, <3>2
  <2>3. QED
    BY <2>1, <2>2
<1>4. anchors'[round'].root = Root'
  BY <1>1 DEF Root
<1>5. (\A i \in DOMAIN chain : chain[i] = i) /\ Len(chain) = execRound
  BY DEF IInv, AnchorChainIntact
<1>6. QED
  BY <1>1, <1>3, <1>4, <1>5 DEF AnchorChainIntact

LEMMA CommitIndex ==
  ASSUME IInv, Commit
  PROVE  IndexSound'
<1>1. ASSUME NEW t \in Tx, NEW h, h = Applied(t).history
      PROVE  Applied(t).version = Len(h) /\ SoundHistory(t, h)'
  <2>1. /\ index[t].version = Len(index[t].history) /\ SoundHistory(t, index[t].history)
        /\ index[t].history \in Seq(Record)
    BY DEF IInv, IndexSound, TypeOK, IndexEntry
  <2>2. CASE Applied(t) = index[t]
    <3>1. h = index[t].history
      BY <1>1, <2>2
    <3>2. SoundHistory(t, h)
      BY <2>1, <3>1
    <3>3. QED
      BY <2>1, <2>2, <3>1, <3>2, SoundCommit
  <2>3. ASSUME NEW r \in staged,
               /\ r.tx = t
               /\ r.from = index[t].version /\ r.to = index[t].version + 1
               /\ r.old = LastDigest(index[t].history)
               /\ r.round = round + 1
               /\ Applied(t) = [version |-> index[t].version + 1,
                                history |-> Append(index[t].history, r)]
        PROVE  Applied(t).version = Len(h) /\ SoundHistory(t, h)'
    <3>1. h = Append(index[t].history, r) /\ Applied(t).version = index[t].version + 1
      BY <1>1, <2>3
    <3>2. SoundHistory(t, h)'
      BY <2>3, <3>1, SoundAppend
    <3>3. r \in Record
      BY DEF IInv, TypeOK
    <3>4. Len(h) = index[t].version + 1
      BY <2>1, <3>1, <3>3, AppendProperties
    <3>5. QED
      BY <3>1, <3>2, <3>4
  <2>4. QED
    BY <2>2, <2>3, AppliedCases
<1>2. \A t \in Tx : index'[t] = Applied(t)
  BY CommitFacts
<1>3. ASSUME NEW t \in Tx
      PROVE  index'[t].version = Len(index'[t].history) /\ SoundHistory(t, index[t].history)'
  <2>1. PICK h : h = Applied(t).history
    OBVIOUS
  <2>2. h = index'[t].history /\ index'[t].version = Applied(t).version
    BY <1>2, <2>1
  <2>3. index'[t].version = Len(h) /\ SoundHistory(t, h)'
    BY <1>1, <2>1, <2>2
  <2>4. QED
    BY <2>2, <2>3 DEF SoundHistory, Behind, LastDigest, InitialDigest, CurrentDigest, StateDigest
<1>4. QED
  BY <1>3 DEF IndexSound

LEMMA CommitInv ==
  ASSUME IInv, Commit
  PROVE  IInv'
<1>1. /\ round' = round + 1 /\ round \in Nat
      /\ \A r \in 0 .. round : anchors'[r] = anchors[r]
      /\ pc' = "anchoring"
      /\ UNCHANGED <<ledger, evidence, execRound, pending, batch, staged, audit>>
  BY CommitFacts
<1>2. StagedSound'
  <2>1. pending = {}
    BY DEF Commit, ReadyToCommit
  <2>2. QED
    BY <1>1, <2>1 DEF IInv, StagedSound, Behind, CurrentDigest
<1>3. AuditSound'
  <2> SUFFICES ASSUME NEW a \in Auditors, audit[a].stage = "retrieved", NEW ev, ev = audit[a]
               PROVE  /\ ev.version = Len(ev.history)
                      /\ SoundHistory(ev.tx, ev.history)'
                      /\ ev.round \in 0 .. round'
                      /\ VerifyEntry(ev)'
                      /\ Len(ev.proofs) = Len(ev.history)
                      /\ \A k \in 1 .. Len(ev.history) : ev.proofs[k] = ev.history[k].auth
    BY <1>1 DEF AuditSound, SoundEvidence, VerifyEntry
  <2>1. /\ ev.version = Len(ev.history)
        /\ SoundHistory(ev.tx, ev.history)
        /\ ev.round \in 0 .. round
        /\ VerifyEntry(ev)
        /\ Len(ev.proofs) = Len(ev.history)
        /\ \A k \in 1 .. Len(ev.history) : ev.proofs[k] = ev.history[k].auth
    BY DEF IInv, AuditSound, SoundEvidence
  <2>2. ev.tx \in Tx
    <3>1. audit[a] \in {NoAudit} \cup Retrieved \cup Concluded
      BY DEF IInv, TypeOK
    <3>2. audit[a] \in Retrieved
      BY <3>1 DEF NoAudit, Concluded
    <3>3. QED
      BY <3>2 DEF Retrieved
  <2>3. SoundHistory(ev.tx, ev.history)'
    BY <2>1, <2>2, SoundCommit
  <2>4. VerifyEntry(ev)' /\ ev.round \in 0 .. round'
    BY <1>1, <2>1 DEF VerifyEntry
  <2>5. QED
    BY <2>1, <2>3, <2>4
<1>4. AuditNeverAccuses'
  BY <1>1 DEF IInv, AuditNeverAccuses, Done
<1>5. QED
  BY <1>2, <1>3, <1>4, CommitType, CommitChain, CommitIndex DEF IInv

-----------------------------------------------------------------------------
LEMMA AppendAnchorInv ==
  ASSUME IInv, AppendAnchor
  PROVE  IInv'
<1>1. /\ chain' = Append(chain, round) /\ execRound' = execRound + 1
      /\ pc = "anchoring" /\ pc' = "idle"
      /\ batch' = <<>> /\ pending' = {} /\ staged' = {}
      /\ outcome' = [outcome EXCEPT !.status = "ok", !.succeeded = Cardinality(staged)]
      /\ UNCHANGED <<ledger, index, round, anchors, evidence, cancels, audit>>
  BY DEF AppendAnchor, Return, indexVars
<1>2. TypeOK'
  <2>1. Cardinality(staged) \in Nat
    BY FS_CardinalityType DEF IInv, StagedSound
  <2>2. outcome' \in Outcomes
    BY <1>1, <2>1, OutcomeReturned DEF IInv, TypeOK
  <2>3. chain' \in Seq(Nat)
    BY <1>1, AppendProperties DEF IInv, TypeOK
  <2>4. QED
    BY <1>1, <2>2, <2>3 DEF IInv, TypeOK
<1>3. AnchorChainIntact'
  <2>1. /\ chain \in Seq(Nat) /\ round \in Nat /\ execRound \in Nat
        /\ \A i \in 1 .. Len(chain) : chain[i] = i
        /\ Len(chain) = execRound /\ round = execRound + 1
    BY <1>1 DEF IInv, TypeOK, AnchorChainIntact
  <2>2. /\ DOMAIN chain' = 1 .. execRound + 1 /\ Len(chain') = execRound + 1
        /\ chain'[execRound + 1] = execRound + 1
        /\ \A i \in 1 .. execRound : chain'[i] = chain[i]
    BY <1>1, <2>1, AppendProperties
  <2>3. \A i \in DOMAIN chain' : chain'[i] = i
    BY <2>1, <2>2
  <2>4. QED
    BY <1>1, <2>1, <2>2, <2>3 DEF IInv, AnchorChainIntact, Root
<1>4. StagedSound'
  BY <1>1, FS_EmptySet DEF StagedSound
<1>5. QED
  BY <1>1, <1>2, <1>3, <1>4, SoundFrame DEF IInv

-----------------------------------------------------------------------------
(* Retrieve finds the evidence of every record of a sound history.          *)
LEMMA EvidenceSound ==
  ASSUME IInv, NEW t \in Tx
  PROVE  /\ Retrievable(t)
         /\ Evidence(t) \in Retrieved
         /\ \A ev : ev = Evidence(t) => SoundEvidence(ev)
<1>0. PICK h : h = index[t].history
  OBVIOUS
<1>1. /\ h \in Seq(Record) /\ DOMAIN h = 1 .. Len(h)
      /\ SoundHistory(t, h)
      /\ index[t].version \in 0 .. MaxVersion /\ round \in Nat
      /\ index[t] = [version |-> index[t].version, history |-> h]
  <2>1. index[t] \in IndexEntry /\ round \in Nat
    BY DEF IInv, TypeOK
  <2>2. SoundHistory(t, h)
    BY <1>0 DEF IInv, IndexSound
  <2>3. QED
    BY <1>0, <2>1, <2>2, LenProperties DEF IndexEntry
<1>2. ASSUME NEW k \in 1 .. Len(h)
      PROVE  /\ h[k].round \in DOMAIN anchors
             /\ h[k] \in anchors[h[k].round].records
             /\ evidence[h[k].did] \in Proofs
  <2>1. /\ h[k].round \in 1 .. round
        /\ h[k] \in anchors[h[k].round].records
        /\ evidence[h[k].did] = h[k].auth
    BY <1>1 DEF SoundHistory
  <2>2. h[k] \in Record
    BY <1>1, ElementOfSeq
  <2>3. h[k].auth \in Proofs
    BY <2>2 DEF Record
  <2>4. DOMAIN anchors = 0 .. round
    BY DEF IInv, TypeOK
  <2>5. h[k].round \in 0 .. round
    BY <1>1, <2>1
  <2>6. QED
    BY <2>1, <2>3, <2>4, <2>5
<1>3. Retrievable(t)
  BY <1>0, <1>1, <1>2, ItemAssumption DEF Retrievable
<1>4. Evidence(t) = [stage |-> "retrieved", tx |-> t, version |-> index[t].version,
                     history |-> h, round |-> round,
                     proofs |-> [k \in 1 .. Len(h) |-> evidence[h[k].did]]]
  BY <1>0, <1>1 DEF Evidence
<1>5. [k \in 1 .. Len(h) |-> evidence[h[k].did]] \in Seq(Proofs)
  <2>1. Len(h) \in Nat
    BY <1>1, LenProperties
  <2>2. QED
    BY <1>2, <2>1
<1>6. Evidence(t) \in Retrieved
  BY <1>1, <1>4, <1>5 DEF Retrieved
<1>7. ASSUME NEW ev, ev = Evidence(t)
      PROVE  SoundEvidence(ev)
  <2>1. /\ ev.tx = t /\ ev.version = index[t].version /\ ev.history = h
        /\ ev.round = round /\ ev.proofs = [k \in 1 .. Len(h) |-> evidence[h[k].did]]
    BY <1>4, <1>7
  <2>2. anchors[round].root[t] = index[t]
    BY DEF IInv, AnchorChainIntact, Root
  <2>3. VerifyEntry(ev)
    BY <1>1, <2>1, <2>2 DEF VerifyEntry
  <2>4. index[t].version = Len(h) /\ Len(h) \in Nat
    BY <1>0, <1>1, LenProperties DEF IInv, IndexSound
  <2>5. \A k \in 1 .. Len(h) : ev.proofs[k] = h[k].auth
    BY <1>1, <2>1 DEF SoundHistory
  <2>6. Len(ev.proofs) = Len(h)
    BY <2>1, <2>4
  <2>7. ev.round \in 0 .. round
    BY <1>1, <2>1
  <2>8. QED
    BY <1>1, <2>1, <2>3, <2>4, <2>5, <2>6, <2>7 DEF SoundEvidence
<1>8. QED
  BY <1>3, <1>6, <1>7

LEMMA RetrieveInv ==
  ASSUME IInv, NEW a \in Auditors, NEW t \in Tx, NEW e \in Epochs, Retrieve(a, t, e)
  PROVE  IInv'
<1>1. UNCHANGED <<ledger, chain, index, round, anchors, evidence, execRound, pc, batch,
                  pending, staged, outcome, cancels>>
  BY DEF Retrieve, ledgerVars, indexVars, runVars
<1>2. PICK new : /\ audit' = [audit EXCEPT ![a] = new]
                 /\ new = Done("refused") \/ new = Evidence(t)
  BY EvidenceSound DEF Retrieve
<1>3. Done("refused") \in Concluded
  BY DEF Done, Concluded
<1>4. audit' \in [Auditors -> {NoAudit} \cup Retrieved \cup Concluded]
  BY <1>2, <1>3, EvidenceSound DEF IInv, TypeOK
<1>5. TypeOK'
  BY <1>1, <1>4 DEF IInv, TypeOK
<1>6. AnchorChainIntact' /\ StagedSound'
  BY <1>1 DEF IInv, AnchorChainIntact, Root, StagedSound, Behind, CurrentDigest
<1>7. IndexSound'
  BY <1>1, SoundUnchanged DEF IInv, IndexSound
<1>8. AuditSound'
  <2>1. ASSUME NEW b \in Auditors, NEW ev, ev = audit'[b], ev.stage = "retrieved"
        PROVE  SoundEvidence(ev)
    <3>1. CASE b = a
      <4>1. ev = new
        BY <1>2, <2>1, <3>1 DEF IInv, TypeOK
      <4>2. new # Done("refused")
        BY <2>1, <4>1 DEF Done
      <4>3. QED
        BY <1>2, <4>1, <4>2, EvidenceSound
    <3>2. CASE b # a
      <4>1. ev = audit[b]
        BY <1>2, <2>1, <3>2 DEF IInv, TypeOK
      <4>2. QED
        BY <2>1, <4>1 DEF IInv, AuditSound
    <3>3. QED
      BY <3>1, <3>2
  <2>2. ASSUME NEW b \in Auditors, audit'[b].stage = "retrieved"
        PROVE  SoundEvidence(audit[b])'
    <3>1. PICK ev : ev = audit'[b]
      OBVIOUS
    <3>2. SoundEvidence(ev)
      BY <2>1, <2>2, <3>1
    <3>3. SoundEvidence(ev)'
      BY <1>1, <3>2 DEF SoundEvidence, VerifyEntry, SoundHistory, Behind, CurrentDigest
    <3>4. QED
      BY <3>1, <3>3 DEF SoundEvidence, VerifyEntry, SoundHistory, Behind,
                        LastDigest, InitialDigest, CurrentDigest, StateDigest
  <2>3. QED
    BY <2>2 DEF AuditSound
<1>9. AuditNeverAccuses'
  <2>1. new # Done("tampered") /\ new # Done("lost")
    BY <1>2 DEF Done, Evidence
  <2>2. QED
    BY <1>2, <2>1 DEF IInv, AuditNeverAccuses, TypeOK
<1>10. QED
  BY <1>5, <1>6, <1>7, <1>8, <1>9 DEF IInv

-----------------------------------------------------------------------------
(* Sound evidence verifies against a ledger that is at its version.         *)
LEMMA VerifySound ==
  ASSUME IInv, NEW ev \in Retrieved, SoundEvidence(ev),
         ledger[ev.tx].version = ev.version
  PROVE  Verify(ev, CurrentDigest(ev.tx))
<1>0. PICK h, t, n : h = ev.history /\ t = ev.tx /\ n = Len(h)
  OBVIOUS
<1>1. /\ h \in Seq(Record) /\ n \in Nat /\ DOMAIN h = 1 .. n /\ t \in Tx
      /\ n = ev.version /\ SoundHistory(t, h) /\ VerifyEntry(ev)
      /\ \A k \in 1 .. n : ev.proofs[k] = h[k].auth
  <2>1. h \in Seq(Record) /\ t \in Tx
    BY <1>0 DEF Retrieved
  <2>2. /\ n = ev.version /\ SoundHistory(t, h) /\ VerifyEntry(ev)
        /\ \A k \in 1 .. n : ev.proofs[k] = h[k].auth
    BY <1>0 DEF SoundEvidence
  <2>3. QED
    BY <1>0, <2>1, <2>2, LenProperties
<1>2. \A k \in 1 .. n :
        /\ h[k].tx = t /\ h[k].from = k - 1 /\ h[k].to = k
        /\ h[k].did[1] = t /\ h[k].did[2] = k - 1
        /\ h[k] \in anchors[h[k].round].records
        /\ h[k].old = IF k = 1 THEN InitialDigest ELSE h[k - 1].new
  BY <1>0, <1>1 DEF SoundHistory
<1>3. VerifyHistoryChain(ev)
  BY <1>0, <1>1, <1>2 DEF VerifyHistoryChain
<1>4. ASSUME NEW k \in 1 .. n
      PROVE  VerifyRecord(ev, k)
  <2>1. /\ h[k] \in anchors[h[k].round].records
        /\ h[k].did[1] = t /\ h[k].did[2] = h[k].from
        /\ h[k].auth = ev.proofs[k]
    BY <1>1, <1>2
  <2>2. ASSUME k < n
        PROVE  h[k + 1].old = h[k].new /\ h[k + 1].to = h[k].to + 1
    <3>1. k + 1 \in 1 .. n /\ k + 1 # 1 /\ (k + 1) - 1 = k
      BY <1>1, <2>2
    <3>2. h[k + 1].old = h[k].new
      BY <1>2, <3>1
    <3>3. h[k + 1].to = k + 1 /\ h[k].to = k
      BY <1>2, <3>1
    <3>4. QED
      BY <3>2, <3>3
  <2>3. QED
    BY <1>0, <2>1, <2>2 DEF VerifyRecord
<1>5. VerifyBoundaries(ev, CurrentDigest(ev.tx))
  <2>1. CurrentDigest(t) = LastDigest(h)
    BY <1>0, <1>1 DEF SoundHistory, Behind
  <2>2. CASE h = <<>>
    BY <1>0, <2>1, <2>2 DEF LastDigest, VerifyBoundaries
  <2>3. CASE h # <<>>
    <3>1. n # 0
      BY <1>0, <1>1, <2>3, EmptySeq
    <3>2. 1 \in 1 .. n /\ n \in 1 .. n
      BY <1>1, <3>1
    <3>3. h[1].old = InitialDigest /\ h[1].from = 0 /\ h[n].to = n
      BY <1>2, <3>2
    <3>4. h[n].new = CurrentDigest(t)
      BY <1>0, <2>1, <2>3 DEF LastDigest
    <3>5. QED
      BY <1>0, <1>1, <2>3, <3>3, <3>4 DEF VerifyBoundaries
  <2>4. QED
    BY <2>2, <2>3
<1>6. QED
  BY <1>0, <1>1, <1>3, <1>4, <1>5 DEF Verify

LEMMA ConcludeInv ==
  ASSUME IInv, NEW a \in Auditors, Conclude(a)
  PROVE  IInv'
<1>1. UNCHANGED <<ledger, chain, index, round, anchors, evidence, execRound, pc, batch,
                  pending, staged, outcome, cancels>>
  BY DEF Conclude, ledgerVars, indexVars, runVars
<1>2. PICK ev : ev = audit[a]
  OBVIOUS
<1>3. /\ audit' = [audit EXCEPT ![a] = Done(Verdict(ev))]
      /\ ev.stage = "retrieved"
  BY <1>2 DEF Conclude
<1>4. ev \in Retrieved /\ SoundEvidence(ev)
  <2>1. audit[a] \in {NoAudit} \cup Retrieved \cup Concluded
    BY DEF IInv, TypeOK
  <2>2. audit[a] \in Retrieved
    BY <1>2, <1>3, <2>1 DEF NoAudit, Concluded
  <2>3. SoundEvidence(audit[a])
    BY <1>2, <1>3 DEF IInv, AuditSound
  <2>4. QED
    BY <1>2, <2>2, <2>3
<1>5. Verdict(ev) \in {"disagree", "verified"}
  BY <1>4, VerifySound DEF Verdict
<1>6. PICK new : new = Done(Verdict(ev))
  OBVIOUS
<1>7. new \in Concluded /\ new # Done("tampered") /\ new # Done("lost")
      /\ new.stage = "done"
  BY <1>5, <1>6 DEF Done, Concluded
<1>8. TypeOK'
  <2>1. audit' \in [Auditors -> {NoAudit} \cup Retrieved \cup Concluded]
    BY <1>3, <1>6, <1>7 DEF IInv, TypeOK
  <2>2. QED
    BY <1>1, <2>1 DEF IInv, TypeOK
<1>9. AnchorChainIntact' /\ StagedSound'
  BY <1>1 DEF IInv, AnchorChainIntact, Root, StagedSound, Behind, CurrentDigest
<1>10. IndexSound'
  BY <1>1, SoundUnchanged DEF IInv, IndexSound
<1>11. AuditSound'
  <2>1. ASSUME NEW b \in Auditors, audit'[b].stage = "retrieved"
        PROVE  SoundEvidence(audit[b])'
    <3>1. PICK found : found = audit'[b]
      OBVIOUS
    <3>2. found = audit[b]
      BY <1>3, <1>6, <1>7, <2>1, <3>1 DEF IInv, TypeOK
    <3>3. SoundEvidence(found)
      BY <2>1, <3>1, <3>2 DEF IInv, AuditSound
    <3>4. SoundEvidence(found)'
      BY <1>1, <3>3 DEF SoundEvidence, VerifyEntry, SoundHistory, Behind, CurrentDigest
    <3>5. QED
      BY <3>1, <3>4 DEF SoundEvidence, VerifyEntry, SoundHistory, Behind,
                        LastDigest, InitialDigest, CurrentDigest, StateDigest
  <2>2. QED
    BY <2>1 DEF AuditSound
<1>12. AuditNeverAccuses'
  BY <1>3, <1>6, <1>7 DEF IInv, AuditNeverAccuses, TypeOK
<1>13. QED
  BY <1>8, <1>9, <1>10, <1>11, <1>12 DEF IInv

-----------------------------------------------------------------------------
LEMMA StutterInv ==
  ASSUME IInv, UNCHANGED vars
  PROVE  IInv'
<1>1. UNCHANGED <<ledger, chain, index, round, anchors, evidence, execRound, pc, batch,
                  pending, staged, outcome, cancels, audit>>
  BY DEF vars, ledgerVars, indexVars, runVars
<1>2. TypeOK' /\ AnchorChainIntact' /\ StagedSound'
  BY <1>1 DEF IInv, TypeOK, AnchorChainIntact, Root, StagedSound, Behind, CurrentDigest
<1>3. QED
  BY <1>1, <1>2, SoundFrame DEF IInv

(* Whatever batches are submitted, whichever rounds are abandoned or        *)
(* refused and however audits overlap with them, the parts of IInv hold.    *)
THEOREM Invariance == Spec => []IInv
<1>1. ASSUME IInv, [Next]_vars
      PROVE  IInv'
  <2>1. CASE QuietStep
    BY <1>1, <2>1, QuietInv
  <2>2. ASSUME NEW i \in pending, Transition(i)
        PROVE  IInv'
    BY <1>1, <2>2, TransitionInv
  <2>3. CASE Commit
    BY <1>1, <2>3, CommitInv
  <2>4. CASE AppendAnchor
    BY <1>1, <2>4, AppendAnchorInv
  <2>5. ASSUME NEW a \in Auditors, NEW t \in Tx, NEW e \in Epochs, Retrieve(a, t, e)
        PROVE  IInv'
    BY <1>1, <2>5, RetrieveInv
  <2>6. ASSUME NEW a \in Auditors, Conclude(a)
        PROVE  IInv'
    BY <1>1, <2>6, ConcludeInv
  <2>7. CASE UNCHANGED vars
    BY <1>1, <2>7, StutterInv
  <2>8. CASE Next
    BY <2>1, <2>2, <2>3, <2>4, <2>5, <2>6, <2>8, NextCases, Zenon
  <2>9. QED
    BY <1>1, <2>7, <2>8
<1>2. QED
  BY <1>1, InitInv, PTL DEF Spec

(* Type correctness, for every value of the constants.                      *)
THEOREM TypeCorrect == Spec => []TypeOK
<1>1. IInv => TypeOK
  BY DEF IInv
<1>2. QED
  BY <1>1, Invariance, PTL

(* No audit ever reports a history as tampered with or lost.                *)
THEOREM AuditSoundness == Spec => []AuditNeverAccuses
<1>1. IInv => AuditNeverAccuses
  BY DEF IInv
<1>2. QED
  BY <1>1, Invariance, PTL

(* The anchors form one chain that ends at the index as it is, and the      *)
(* blocks hold them in order, after abandoned and refused rounds too.       *)
THEOREM AnchorsChained == Spec => []AnchorChainIntact
<1>1. IInv => AnchorChainIntact
  BY DEF IInv
<1>2. QED
  BY <1>1, Invariance, PTL

(* A round redacts a transaction at most once.                              *)
THEOREM RoundRedactsOnce == Spec => []OneRedactionPerRound
<1>1. ASSUME IInv
      PROVE  OneRedactionPerRound
  <2>1. ASSUME NEW t \in Tx, NEW h, h = index[t].history
        PROVE  \A j, k \in DOMAIN h : j < k => h[j].round < h[k].round
    <3>1. h \in Seq(Record) /\ SoundHistory(t, h)
      BY <1>1, <2>1 DEF IInv, IndexSound, TypeOK, IndexEntry
    <3>2. DOMAIN h = 1 .. Len(h)
      BY <3>1, LenProperties
    <3>3. QED
      BY <3>1, <3>2 DEF SoundHistory
  <2>2. QED
    BY <2>1 DEF OneRedactionPerRound
<1>2. QED
  BY <1>1, Invariance, PTL

-----------------------------------------------------------------------------
(* What keeps a stranded transaction stranded while a round is open: its    *)
(* ledger version is past v, and so is any record of it the round holds.    *)
Lagging(t, v) ==
  /\ index[t].version = v
  /\ ledger[t].version > v
  /\ \A r \in staged : r.tx = t => r.from > v

LEMMA LaggingStep ==
  ASSUME IInv, NEW t \in Tx, NEW v \in Nat, Lagging(t, v), [Next]_vars
  PROVE  Lagging(t, v)'
<1>1. /\ ledger \in [Tx -> [version: 0 .. MaxVersion, content: Content]]
      /\ ledger[t].version \in Nat
  BY BoundsAssumption DEF IInv, TypeOK
<1>2. ASSUME UNCHANGED <<index, ledger>>, staged' = staged \/ staged' = {}
      PROVE  Lagging(t, v)'
  BY <1>2 DEF Lagging
<1>3. CASE QuietStep
  <2>1. UNCHANGED <<index, ledger>>
    BY <1>3, QuietFrame DEF ledgerVars, indexVars
  <2>2. staged' = staged \/ staged' = {}
    BY <1>3 DEF QuietStep, Revalidate, ExcludeStale, AdaptFails, Cancel, NothingToCommit,
                CommitRefused, Return
  <2>3. QED
    BY <1>2, <2>1, <2>2
<1>4. ASSUME NEW i \in pending, Transition(i)
      PROVE  Lagging(t, v)'
  <2>0. PICK it, new : it = batch[i] /\ new = RecordOf(it)
    OBVIOUS
  <2>1. /\ it.tx \in Tx /\ it.from \in Nat /\ ledger[it.tx].version = it.from
        /\ AdaptEntry(it.tx, it.content)
        /\ staged' = staged \cup {new} /\ index' = index
    BY <1>4, <2>0, TransitionFacts DEF Transition, Versions
  <2>2. new.tx = it.tx /\ new.from = it.from
    BY <2>0 DEF RecordOf
  <2>3. ledger'[t].version > v
    BY <1>1, <2>1 DEF Lagging, AdaptEntry
  <2>4. \A r \in staged' : r.tx = t => r.from > v
    BY <2>1, <2>2 DEF Lagging
  <2>5. QED
    BY <2>1, <2>3, <2>4 DEF Lagging
<1>5. CASE Commit
  <2>1. /\ index'[t] = Applied(t) /\ UNCHANGED <<ledger, staged>>
    BY <1>5, CommitFacts
  <2>2. Applied(t) = index[t]
    BY <1>5, AppliedCases DEF Lagging
  <2>3. QED
    BY <2>1, <2>2 DEF Lagging
<1>6. CASE AppendAnchor
  BY <1>2, <1>6 DEF AppendAnchor, Return, indexVars
<1>7. ASSUME NEW a \in Auditors, NEW u \in Tx, NEW e \in Epochs, Retrieve(a, u, e)
      PROVE  Lagging(t, v)'
  BY <1>2, <1>7 DEF Retrieve, ledgerVars, indexVars, runVars
<1>8. ASSUME NEW a \in Auditors, Conclude(a)
      PROVE  Lagging(t, v)'
  BY <1>2, <1>8 DEF Conclude, ledgerVars, indexVars, runVars
<1>9. CASE UNCHANGED vars
  BY <1>2, <1>9 DEF vars, ledgerVars, indexVars, runVars
<1>10. CASE Next
  BY <1>3, <1>4, <1>5, <1>6, <1>7, <1>8, <1>10, NextCases, Zenon
<1>11. QED
  BY <1>9, <1>10

(* A transaction that an abandoned round left ahead of its history is never *)
(* committed again, by any later round.                                     *)
THEOREM StrandedStays == Spec => StrandedForever
<1> SUFFICES ASSUME NEW t \in Tx, NEW v \in 0 .. MaxVersion
             PROVE  Spec =>
                      [](Stranded(t, v) =>
                           [](index[t].version = v /\ ledger[t].version > v))
  BY DEF StrandedForever
<1>1. IInv /\ Stranded(t, v) => Lagging(t, v)
  BY DEF IInv, StagedSound, Stranded, Lagging
<1>2. IInv /\ Lagging(t, v) /\ [Next]_vars => Lagging(t, v)'
  BY BoundsAssumption, LaggingStep
<1>3. Lagging(t, v) => index[t].version = v /\ ledger[t].version > v
  BY DEF Lagging
<1>4. QED
  BY <1>1, <1>2, <1>3, Invariance, PTL DEF Spec

-----------------------------------------------------------------------------
(* What is left: that the ledger and the index stay in step while no round  *)
(* is abandoned, that Run accounts for every request of its batch, and that *)
(* the index implements ProvenanceHistory.                                  *)

(* The steps of an auditor, and stuttering, touch nothing but the audits.   *)
AuditStep ==
  \/ \E a \in Auditors, t \in Tx, e \in Epochs : Retrieve(a, t, e)
  \/ \E a \in Auditors : Conclude(a)
  \/ UNCHANGED vars

LEMMA AuditFrame ==
  ASSUME AuditStep
  PROVE  UNCHANGED <<ledger, chain, index, round, anchors, evidence, execRound, pc, batch,
                     pending, staged, outcome, cancels>>
  BY DEF AuditStep, Retrieve, Conclude, vars, ledgerVars, indexVars, runVars

LEMMA StepCases ==
  ASSUME [Next]_vars
  PROVE  \/ \E b \in Batches : Revalidate(b)
         \/ \E i \in pending : ExcludeStale(i) \/ AdaptFails(i)
         \/ \E i \in pending : Transition(i)
         \/ Cancel \/ NothingToCommit \/ Commit \/ CommitRefused \/ AppendAnchor
         \/ AuditStep
  BY DEF Next, RunStep, AuditStep

-----------------------------------------------------------------------------
(* The ledger and the index.                                                *)

(* Without an abandoned round, the record the round holds for t, if any,    *)
(* continues the history of t.                                              *)
LEMMA StagedContinues ==
  ASSUME IInv, Lockstep, cancels = 0, pc = "adapting", NEW r \in staged
  PROVE  /\ Ahead(r.tx, r)
         /\ Validates(r)
<1>1. /\ r \in Record /\ r.tx \in Tx /\ r.to = r.from + 1
      /\ r.round = execRound + 1 /\ execRound = round
      /\ \A s \in staged : s.tx = r.tx => s = r
  BY DEF IInv, TypeOK, StagedSound, AnchorChainIntact, Record
<1>2. Ahead(r.tx, r)
  BY <1>1 DEF Lockstep, Moves
<1>3. QED
  BY <1>1, <1>2 DEF Validates, Continues, Ahead

(* So the round is never refused.                                           *)
LEMMA NeverRefused ==
  ASSUME IInv, Lockstep, cancels = 0, CommitRefused
  PROVE  FALSE
<1>1. pc = "adapting" /\ execRound = round
  BY DEF CommitRefused, ReadyToCommit, IInv, AnchorChainIntact
<1>2. CommitAccepted
  BY <1>1, StagedContinues DEF CommitAccepted
<1>3. QED
  BY <1>2 DEF CommitRefused

LEMMA LockstepTransition ==
  ASSUME IInv, Lockstep, cancels = 0, NEW i \in pending, Transition(i)
  PROVE  Lockstep'
<1>0. PICK it, new : it = batch[i] /\ new = RecordOf(it)
  OBVIOUS
<1>1. /\ it.tx \in Tx /\ it.content \in Content /\ it.from \in Nat
      /\ ledger[it.tx].version = it.from /\ pc = "adapting"
      /\ staged' = staged \cup {new}
      /\ AdaptEntry(it.tx, it.content)
      /\ UNCHANGED <<index, pc, cancels>>
      /\ ledger \in [Tx -> [version: 0 .. MaxVersion, content: Content]]
  <2>1. /\ it.tx \in Tx /\ it.content \in Content /\ it.from \in Nat
        /\ ledger[it.tx].version = it.from /\ pc = "adapting"
    BY <1>0, TransitionFacts DEF Versions
  <2>2. /\ staged' = staged \cup {new}
        /\ AdaptEntry(it.tx, it.content)
        /\ UNCHANGED <<index, pc, cancels>>
    BY <1>0 DEF Transition
  <2>3. QED
    BY <2>1, <2>2 DEF IInv, TypeOK
<1>2. /\ new.tx = it.tx /\ new.from = it.from /\ new.to = it.from + 1
      /\ new.old = CurrentDigest(it.tx)
      /\ new.new = StateDigest(it.from + 1, it.content)
  BY <1>0, <1>1 DEF RecordOf
<1>3. ledger' = [ledger EXCEPT ![it.tx] = [version |-> it.from + 1, content |-> it.content]]
  BY <1>1 DEF AdaptEntry
<1>4. Moves(it.tx) = {}
  <2> SUFFICES ASSUME NEW r \in staged, r.tx = it.tx PROVE FALSE
    BY DEF Moves
  <2>1. r.from = it.from /\ r.to = r.from + 1
    BY <1>0 DEF IInv, StagedSound
  <2>2. ledger[it.tx].version = r.to
    BY <1>1, StagedContinues DEF Ahead
  <2>3. QED
    BY <1>1, <2>1, <2>2
<1>5. AtIndex(it.tx)
  BY <1>1, <1>4 DEF Lockstep
<1>6. ASSUME NEW t \in Tx
      PROVE  IF pc' = "adapting" /\ Moves(t)' # {}
             THEN \E r \in Moves(t)' : Ahead(t, r)'
             ELSE AtIndex(t)'
  <2>1. CASE t = it.tx
    <3>1. new \in Moves(t)'
      BY <1>1, <1>2, <2>1 DEF Moves
    <3>2. ledger'[t] = [version |-> it.from + 1, content |-> it.content]
      BY <1>1, <1>3, <2>1
    <3>3. Ahead(t, new)'
      <4>1. /\ new.from = index[t].version
            /\ new.old = LastDigest(index[t].history)
        BY <1>1, <1>2, <1>5, <2>1 DEF AtIndex
      <4>2. ledger'[t].version = new.to /\ CurrentDigest(t)' = new.new
        BY <1>2, <3>2 DEF CurrentDigest, StateDigest
      <4>3. QED
        BY <1>1, <4>1, <4>2 DEF Ahead, LastDigest, InitialDigest, StateDigest
    <3>4. QED
      BY <1>1, <3>1, <3>3
  <2>2. CASE t # it.tx
    <3>1. Moves(t)' = Moves(t)
      BY <1>1, <1>2, <2>2 DEF Moves
    <3>2. ledger'[t] = ledger[t]
      BY <1>1, <1>3, <2>2
    <3>3. AtIndex(t)' <=> AtIndex(t)
      BY <1>1, <3>2 DEF AtIndex, CurrentDigest, LastDigest, InitialDigest, StateDigest
    <3>4. ASSUME NEW r \in Moves(t), Ahead(t, r) PROVE Ahead(t, r)'
      BY <1>1, <3>2, <3>4 DEF Ahead, CurrentDigest, LastDigest, InitialDigest, StateDigest
    <3>5. QED
      BY <1>1, <3>1, <3>3, <3>4 DEF Lockstep
  <2>3. QED
    BY <2>1, <2>2
<1>7. QED
  BY <1>6 DEF Lockstep

LEMMA LockstepCommit ==
  ASSUME IInv, Lockstep, cancels = 0, Commit
  PROVE  Lockstep'
<1>1. /\ index' = [t \in Tx |-> Applied(t)]
      /\ pc' = "anchoring" /\ pc = "adapting"
      /\ UNCHANGED ledger
  BY CommitFacts
<1>2. ASSUME NEW t \in Tx
      PROVE  AtIndex(t)'
  <2>1. CASE Moves(t) = {} /\ Applied(t) = index[t]
    <3>1. AtIndex(t)
      BY <2>1 DEF Lockstep
    <3>2. index'[t] = index[t]
      BY <1>1, <2>1
    <3>3. QED
      BY <1>1, <3>1, <3>2 DEF AtIndex, CurrentDigest, LastDigest, InitialDigest, StateDigest
  <2>2. ASSUME NEW r \in staged,
               /\ r \in Record /\ r.tx = t
               /\ r.to = index[t].version + 1
               /\ Applied(t) = [version |-> index[t].version + 1,
                                history |-> Append(index[t].history, r)]
        PROVE  AtIndex(t)'
    <3>1. PICK h, n : h = index[t].history /\ n = Len(h)
      OBVIOUS
    <3>2. h \in Seq(Record)
      BY <3>1 DEF IInv, TypeOK, IndexEntry
    <3>3. PICK g : g = Append(h, r)
      OBVIOUS
    <3>4. Len(g) = n + 1 /\ g[n + 1] = r /\ n \in Nat /\ g \in Seq(Record)
      BY <2>2, <3>1, <3>2, <3>3, AppendProperties, LenProperties
    <3>5. LastDigest(g) = r.new
      BY <3>4, EmptySeq DEF LastDigest
    <3>6. index'[t].history = g /\ index'[t].version = r.to
      BY <1>1, <2>2, <3>1, <3>3
    <3>7. ledger[t].version = r.to /\ CurrentDigest(t) = r.new
      BY <1>1, <2>2, StagedContinues DEF Ahead
    <3>8. QED
      BY <1>1, <3>5, <3>6, <3>7 DEF AtIndex, CurrentDigest, LastDigest, InitialDigest, StateDigest
  <2>3. QED
    BY <2>1, <2>2, AppliedCases
<1>3. QED
  BY <1>1, <1>2 DEF Lockstep

(* Steps that leave the ledger and the index alone, and drop only an empty  *)
(* or a committed round.                                                    *)
LEMMA LockstepFrame ==
  ASSUME IInv, Lockstep, cancels = 0, UNCHANGED <<ledger, index>>,
         \/ UNCHANGED <<pc, staged>>
         \/ staged' = {} /\ (staged = {} \/ pc = "anchoring")
  PROVE  Lockstep'
<1>1. \A t \in Tx : AtIndex(t)' <=> AtIndex(t)
  BY DEF AtIndex, CurrentDigest, LastDigest, InitialDigest, StateDigest
<1>2. CASE UNCHANGED <<pc, staged>>
  <2>1. \A t \in Tx : Moves(t)' = Moves(t)
    BY <1>2 DEF Moves
  <2>2. \A t \in Tx, r \in staged : Ahead(t, r)' <=> Ahead(t, r)
    BY DEF Ahead, CurrentDigest, LastDigest, InitialDigest, StateDigest
  <2>3. QED
    BY <1>1, <1>2, <2>1, <2>2 DEF Lockstep, Moves
<1>3. CASE staged' = {} /\ (staged = {} \/ pc = "anchoring")
  <2>1. \A t \in Tx : AtIndex(t)
    BY <1>3 DEF Lockstep, Moves
  <2>2. \A t \in Tx : Moves(t)' = {}
    BY <1>3 DEF Moves
  <2>3. QED
    BY <1>1, <2>1, <2>2 DEF Lockstep
<1>4. QED
  BY <1>2, <1>3

LEMMA LockstepStep ==
  ASSUME IInv, Lockstep, [Next]_vars
  PROVE  Lockstep'
<1>0. cancels \in Nat
  BY BoundsAssumption DEF IInv, TypeOK
<1>1. CASE Cancel
  BY <1>0, <1>1 DEF Cancel, Lockstep
<1>2. CASE cancels' # 0
  BY <1>2 DEF Lockstep
<1>3. CASE ~Cancel /\ cancels' = 0
  <2>0. cancels = 0
    BY <1>3, StepCases, AuditFrame
       DEF Revalidate, ExcludeStale, AdaptFails, Transition, NothingToCommit, Commit,
           CommitRefused, AppendAnchor
  <2>1. ASSUME NEW b \in Batches, Revalidate(b)
        PROVE  Lockstep'
    <3>1. staged = {} /\ staged' = {} /\ UNCHANGED <<ledger, index>>
      BY <2>1 DEF Revalidate, IInv, StagedSound, ledgerVars, indexVars
    <3>2. QED
      BY <2>0, <3>1, LockstepFrame
  <2>2. ASSUME NEW i \in pending, ExcludeStale(i) \/ AdaptFails(i)
        PROVE  Lockstep'
    <3>1. UNCHANGED <<ledger, index, pc, staged>>
      BY <2>2 DEF ExcludeStale, AdaptFails, ledgerVars, indexVars
    <3>2. QED
      BY <2>0, <3>1, LockstepFrame
  <2>3. ASSUME NEW i \in pending, Transition(i)
        PROVE  Lockstep'
    BY <2>0, <2>3, LockstepTransition
  <2>4. CASE NothingToCommit
    <3>1. staged = {} /\ staged' = {} /\ UNCHANGED <<ledger, index>>
      BY <2>4 DEF NothingToCommit, Return, ledgerVars, indexVars
    <3>2. QED
      BY <2>0, <3>1, LockstepFrame
  <2>5. CASE Commit
    BY <2>0, <2>5, LockstepCommit
  <2>6. CASE CommitRefused
    BY <2>0, <2>6, NeverRefused
  <2>7. CASE AppendAnchor
    <3>1. pc = "anchoring" /\ staged' = {} /\ UNCHANGED <<ledger, index>>
      BY <2>7 DEF AppendAnchor, Return, indexVars
    <3>2. QED
      BY <2>0, <3>1, LockstepFrame
  <2>8. CASE AuditStep
    <3>1. UNCHANGED <<ledger, index, pc, staged>>
      BY <2>8, AuditFrame
    <3>2. QED
      BY <2>0, <3>1, LockstepFrame
  <2>9. QED
    BY <1>3, <2>1, <2>2, <2>3, <2>4, <2>5, <2>6, <2>7, <2>8, StepCases, Zenon
<1>4. QED
  BY <1>1, <1>2, <1>3

LEMMA LockstepInit == Init => Lockstep
  BY DEF Init, Lockstep, AtIndex, CurrentDigest, LastDigest, InitialDigest, StateDigest, Moves

(* Without an abandoned round the ledger and the index are in step between  *)
(* calls, so no commit was ever refused: Index.Commit's continuity checks   *)
(* only ever reject what an abandoned round left behind.                    *)
THEOREM InStepUnlessAbandoned == Spec => []AgreeUnlessAbandoned
<1>1. IInv /\ Lockstep /\ [Next]_vars => Lockstep'
  BY LockstepStep
<1>2. Lockstep => AgreeUnlessAbandoned
  BY DEF Lockstep, AgreeUnlessAbandoned, InStep
<1>3. QED
  BY <1>1, <1>2, LockstepInit, Invariance, PTL DEF Spec

(* A round is refused only after another one was abandoned.                 *)
THEOREM RefusedOnlyAfterAbandoned == Spec => [][CommitRefused => cancels # 0]_vars
<1>1. IInv /\ Lockstep /\ [Next]_vars => Lockstep'
  BY LockstepStep
<1>2. IInv /\ Lockstep => [CommitRefused => cancels # 0]_vars
  BY NeverRefused
<1>3. QED
  BY <1>1, <1>2, LockstepInit, Invariance, PTL DEF Spec

-----------------------------------------------------------------------------
(* What Run counts.                                                         *)

LEMMA PartCardinality ==
  ASSUME NEW S, IsFiniteSet(S), NEW T \in SUBSET S
  PROVE  /\ Cardinality(S) = Cardinality(T) + Cardinality(S \ T)
         /\ Cardinality(T) \in Nat /\ Cardinality(S \ T) \in Nat
         /\ IsFiniteSet(T)
<1>1. IsFiniteSet(T) /\ IsFiniteSet(S \ T) /\ S \cap T = T
  BY FS_Subset
<1>2. Cardinality(S \ T) = Cardinality(S) - Cardinality(T)
  BY <1>1, FS_Difference
<1>3. QED
  BY <1>1, <1>2, FS_CardinalityType

LEMMA PendingFinite ==
  ASSUME TypeOK
  PROVE  IsFiniteSet(pending) /\ Cardinality(pending) \in Nat
<1>1. pending \subseteq 1 .. Len(batch) /\ Len(batch) \in Nat
  BY LenProperties DEF TypeOK
<1>2. IsFiniteSet(1 .. Len(batch))
  BY <1>1, FS_Interval
<1>3. QED
  BY <1>1, <1>2, FS_Subset, FS_CardinalityType

(* The first Fresh_i check partitions the batch.                            *)
LEMMA TalliedRevalidate ==
  ASSUME IInv, Tallied, NEW b \in Batches, Revalidate(b)
  PROVE  Tallied'
<1> DEFINE proved == {i \in DOMAIN b : b[i].proof # NoProof}
           fresh  == {i \in proved : IsFresh(b[i])}
<1>1. DOMAIN b = 1 .. Len(b) /\ Len(b) \in Nat
  BY BatchAssumption, LenProperties
<1>2. IsFiniteSet(DOMAIN b) /\ Cardinality(DOMAIN b) = Len(b)
  <2>1. PICK n \in Nat : n = Len(b)
    BY <1>1
  <2>2. IsFiniteSet(1 .. n) /\ Cardinality(1 .. n) = n
    BY FS_Interval
  <2>3. QED
    BY <1>1, <2>1, <2>2
<1>3. proved \in SUBSET DOMAIN b /\ fresh \in SUBSET proved
  OBVIOUS
<1>4. /\ outcome' = [status |-> IF fresh = {} THEN "ok" ELSE "running",
                     size |-> Len(b), succeeded |-> 0,
                     stale |-> Cardinality(proved \ fresh),
                     failed |-> Cardinality(DOMAIN b \ proved)]
      /\ pc' = (IF fresh = {} THEN "idle" ELSE "adapting")
      /\ pending' = fresh /\ staged' = {}
  BY DEF Revalidate, Outcome, IInv, StagedSound
<1> HIDE DEF proved, fresh
<1>5. /\ Cardinality(DOMAIN b) = Cardinality(proved) + Cardinality(DOMAIN b \ proved)
      /\ IsFiniteSet(proved)
      /\ Cardinality(proved) \in Nat /\ Cardinality(DOMAIN b \ proved) \in Nat
  BY <1>2, <1>3, PartCardinality
<1>6. /\ Cardinality(proved) = Cardinality(fresh) + Cardinality(proved \ fresh)
      /\ Cardinality(fresh) \in Nat /\ Cardinality(proved \ fresh) \in Nat
  BY <1>3, <1>5, PartCardinality
<1>7. Cardinality({}) = 0
  BY FS_EmptySet
<1>8. outcome'.stale + outcome'.failed + Cardinality(fresh) = Len(b)
  BY <1>2, <1>4, <1>5, <1>6
<1>9. CASE fresh = {}
  <2>1. pc' = "idle" /\ outcome'.succeeded = 0 /\ outcome'.size = Len(b)
        /\ outcome'.stale \in Nat /\ outcome'.failed \in Nat
    BY <1>4, <1>5, <1>6, <1>9
  <2>2. outcome'.stale + outcome'.failed = Len(b)
    BY <1>7, <1>8, <1>9, <2>1
  <2>3. outcome'.succeeded + outcome'.stale + outcome'.failed = outcome'.size
    BY <2>1, <2>2
  <2>4. QED
    BY <2>1, <2>3 DEF Tallied, OutcomeAccountsForBatch
<1>10. CASE fresh # {}
  <2>1. /\ outcome'.status = "running" /\ outcome'.succeeded = 0
        /\ outcome'.size = Len(b) /\ pc' = "adapting"
    BY <1>4, <1>10
  <2>2. outcome'.stale + outcome'.failed + Cardinality(pending') + Cardinality(staged')
          = outcome'.size
    BY <1>4, <1>5, <1>6, <1>7, <1>8, <2>1
  <2>3. QED
    BY <2>1, <2>2 DEF Tallied, OutcomeAccountsForBatch
<1>11. QED
  BY <1>9, <1>10

(* One request leaves pending, and is counted or staged.                    *)
LEMMA TalliedOne ==
  ASSUME IInv, Tallied, pc = "adapting", NEW i \in pending,
         pending' = pending \ {i}, pc' = pc,
         \/ outcome' = [outcome EXCEPT !.stale = @ + 1] /\ staged' = staged
         \/ outcome' = [outcome EXCEPT !.failed = @ + 1] /\ staged' = staged
         \/ outcome' = outcome /\ Cardinality(staged') = Cardinality(staged) + 1
  PROVE  Tallied'
<1>1. /\ IsFiniteSet(pending) /\ Cardinality(pending) \in Nat
      /\ outcome \in Outcomes
  BY PendingFinite DEF IInv, TypeOK
<1>2. Cardinality(pending') = Cardinality(pending) - 1
  BY <1>1, FS_RemoveElement
<1>3. Cardinality(staged) \in Nat
  BY FS_CardinalityType DEF IInv, StagedSound
<1>4. /\ outcome.stale \in Nat /\ outcome.failed \in Nat
      /\ outcome.status = "running" /\ outcome.succeeded = 0
      /\ outcome.stale + outcome.failed + Cardinality(pending) + Cardinality(staged)
           = outcome.size
  BY <1>1 DEF Outcomes, Tallied
<1>5. /\ outcome'.status = "running" /\ outcome'.succeeded = 0
      /\ outcome'.size = outcome.size
      /\ \/ /\ outcome'.stale + outcome'.failed = outcome.stale + outcome.failed + 1
            /\ Cardinality(staged') = Cardinality(staged)
         \/ /\ outcome'.stale + outcome'.failed = outcome.stale + outcome.failed
            /\ Cardinality(staged') = Cardinality(staged) + 1
      /\ outcome'.stale + outcome'.failed \in Nat
  BY <1>1, <1>4 DEF Outcomes
<1>6. outcome'.stale + outcome'.failed + Cardinality(pending') + Cardinality(staged')
        = outcome'.size
  BY <1>1, <1>2, <1>3, <1>4, <1>5
<1>7. QED
  BY <1>5, <1>6 DEF Tallied, OutcomeAccountsForBatch

(* A transition stages a record the round did not hold yet.                 *)
LEMMA StagesOneMore ==
  ASSUME IInv, NEW i \in pending, Transition(i)
  PROVE  Cardinality(staged') = Cardinality(staged) + 1
<1>0. PICK it, new : it = batch[i] /\ new = RecordOf(it)
  OBVIOUS
<1>1. /\ it.from \in Nat /\ ledger[it.tx].version = it.from
      /\ staged' = staged \cup {new}
      /\ new.tx = it.tx /\ new.to = it.from + 1
  BY <1>0, TransitionFacts DEF Transition, RecordOf, Versions
<1>2. new \notin staged
  <2> SUFFICES ASSUME new \in staged PROVE FALSE
    OBVIOUS
  <2>1. Behind(new.tx, new.to, new.new)
    BY DEF IInv, StagedSound
  <2>2. QED
    BY <1>1, <2>1 DEF Behind
<1>3. QED
  BY <1>1, <1>2, FS_AddElement DEF IInv, StagedSound

LEMMA TalliedStep ==
  ASSUME IInv, Tallied, [Next]_vars
  PROVE  Tallied'
<1>1. ASSUME NEW b \in Batches, Revalidate(b)
      PROVE  Tallied'
  BY <1>1, TalliedRevalidate
<1>2. ASSUME NEW i \in pending, ExcludeStale(i) \/ AdaptFails(i)
      PROVE  Tallied'
  BY <1>2, TalliedOne DEF ExcludeStale, AdaptFails, Executing
<1>3. ASSUME NEW i \in pending, Transition(i)
      PROVE  Tallied'
  BY <1>3, StagesOneMore, TalliedOne DEF Transition, Executing
<1>4. CASE Cancel \/ CommitRefused
  <2>1. /\ pc' = "idle"
        /\ outcome' = [outcome EXCEPT !.status = "error", !.succeeded = 0]
    BY <1>4 DEF Cancel, CommitRefused, Return
  <2>2. outcome'.status = "error"
    BY <2>1 DEF IInv, TypeOK, Outcomes
  <2>3. QED
    BY <2>1, <2>2 DEF Tallied, OutcomeAccountsForBatch
<1>5. CASE NothingToCommit \/ AppendAnchor
  <2>1. /\ pc' = "idle" /\ pc # "idle" /\ pending = {}
        /\ \E n \in {0, Cardinality(staged)} :
             /\ outcome' = [outcome EXCEPT !.status = "ok", !.succeeded = n]
             /\ n = Cardinality(staged)
    <3>1. CASE NothingToCommit
      <4>1. Cardinality(staged) = 0
        BY <3>1, FS_EmptySet DEF NothingToCommit
      <4>2. QED
        BY <3>1, <4>1 DEF NothingToCommit, Return
    <3>2. CASE AppendAnchor
      BY <3>2 DEF AppendAnchor, Return, Tallied
    <3>3. QED
      BY <1>5, <3>1, <3>2
  <2>2. Cardinality(pending) = 0 /\ Cardinality(staged) \in Nat
    BY <2>1, FS_EmptySet, FS_CardinalityType DEF IInv, StagedSound
  <2>3. /\ outcome \in Outcomes
        /\ outcome' = [outcome EXCEPT !.status = "ok", !.succeeded = Cardinality(staged)]
    BY <2>1 DEF IInv, TypeOK
  <2>4. /\ outcome.stale \in Nat /\ outcome.failed \in Nat
        /\ outcome.stale + outcome.failed + Cardinality(pending) + Cardinality(staged)
             = outcome.size
    BY <2>1, <2>3 DEF Outcomes, Tallied
  <2>5. /\ outcome'.succeeded = Cardinality(staged) /\ outcome'.size = outcome.size
        /\ outcome'.stale = outcome.stale /\ outcome'.failed = outcome.failed
    BY <2>3 DEF Outcomes
  <2>6. outcome'.succeeded + outcome'.stale + outcome'.failed = outcome'.size
    BY <2>2, <2>4, <2>5
  <2>7. QED
    BY <2>1, <2>6 DEF Tallied, OutcomeAccountsForBatch
<1>6. CASE Commit
  <2>1. /\ pc = "adapting" /\ pc' = "anchoring" /\ pending = {}
        /\ UNCHANGED <<outcome, pending, staged>>
    BY <1>6 DEF Commit, ReadyToCommit
  <2>2. QED
    BY <2>1 DEF Tallied, OutcomeAccountsForBatch
<1>7. CASE AuditStep
  BY <1>7, AuditFrame DEF Tallied, OutcomeAccountsForBatch
<1>8. QED
  BY <1>1, <1>2, <1>3, <1>4, <1>5, <1>6, <1>7, StepCases, Zenon

LEMMA TalliedInit == Init => Tallied
  BY DEF Init, Tallied, Outcome, OutcomeAccountsForBatch

(* Every request of a batch Run answers without an error is counted once.   *)
THEOREM BatchAccountedFor == Spec => []OutcomeAccountsForBatch
<1>1. IInv /\ Tallied /\ [Next]_vars => Tallied'
  BY TalliedStep
<1>2. Tallied => OutcomeAccountsForBatch
  BY DEF Tallied
<1>3. QED
  BY <1>1, <1>2, TalliedInit, Invariance, PTL DEF Spec

-----------------------------------------------------------------------------
(* The abstract history.                                                    *)

(* What ProvenanceHistory shows of one record.                              *)
View(r) == [round |-> r.round, old |-> r.old, new |-> r.new]

LEMMA ShownView ==
  ASSUME NEW t \in Tx
  PROVE  Shown[t] = [k \in 1 .. Len(index[t].history) |-> View(index[t].history[k])]
  BY DEF Shown, View

LEMMA ShownViewNext ==
  ASSUME NEW t \in Tx
  PROVE  Shown'[t] = [k \in 1 .. Len(index'[t].history) |-> View(index'[t].history[k])]
  BY DEF Shown, View

(* The digest a history ends in is the state its view ends in.              *)
LEMMA StateOfView ==
  ASSUME NEW h \in Seq(Record), NEW g, g = [k \in 1 .. Len(h) |-> View(h[k])]
  PROVE  /\ g \in Seq({View(r) : r \in Record}) /\ Len(g) = Len(h)
         /\ (IF g = <<>> THEN <<0, Original>> ELSE g[Len(g)].new) = LastDigest(h)
<1>1. PICK n \in Nat : n = Len(h) /\ DOMAIN h = 1 .. n
  BY LenProperties
<1>2. \A k \in 1 .. n : h[k] \in Record
  BY <1>1, ElementOfSeq
<1>3. g \in [1 .. n -> {View(r) : r \in Record}]
  BY <1>1, <1>2
<1>4. g \in Seq({View(r) : r \in Record}) /\ Len(g) = n
  BY <1>1, <1>3
<1>5. CASE n = 0
  <2>1. g = <<>> /\ h = <<>>
    BY <1>1, <1>4, <1>5, EmptySeq
  <2>2. QED
    BY <1>1, <1>4, <2>1 DEF LastDigest, InitialDigest, StateDigest
<1>6. CASE n # 0
  <2>1. g # <<>> /\ h # <<>> /\ n \in 1 .. n
    BY <1>1, <1>4, <1>6, EmptySeq
  <2>2. g[n].new = h[n].new
    BY <1>1, <2>1 DEF View
  <2>3. QED
    BY <1>1, <1>4, <2>1, <2>2 DEF LastDigest
<1>7. QED
  BY <1>1, <1>4, <1>5, <1>6

LEMMA ViewAppend ==
  ASSUME NEW h \in Seq(Record), NEW r \in Record,
         NEW g, g = [k \in 1 .. Len(h) |-> View(h[k])],
         NEW s, s = Append(h, r)
  PROVE  [k \in 1 .. Len(s) |-> View(s[k])] = Append(g, View(r))
<1>1. PICK n \in Nat : n = Len(h)
  BY LenProperties
<1>2. /\ s \in Seq(Record) /\ Len(s) = n + 1 /\ s[n + 1] = r
      /\ \A k \in 1 .. n : s[k] = h[k]
  BY <1>1, AppendProperties
<1>3. g \in Seq({View(q) : q \in Record}) /\ Len(g) = n
  BY <1>1, StateOfView
<1>4. View(r) \in {View(q) : q \in Record}
  OBVIOUS
<1>5. /\ Append(g, View(r)) \in Seq({View(q) : q \in Record})
      /\ Len(Append(g, View(r))) = n + 1
      /\ Append(g, View(r))[n + 1] = View(r)
      /\ \A k \in 1 .. n : Append(g, View(r))[k] = g[k]
  BY <1>3, <1>4, AppendProperties
<1> DEFINE v == [k \in 1 .. n + 1 |-> View(s[k])]
<1>6. PICK w : w = Append(g, View(r))
  OBVIOUS
<1>7. w \in [1 .. n + 1 -> {View(q) : q \in Record}]
  BY <1>5, <1>6, LenProperties
<1>8. \A k \in 1 .. n + 1 : v[k] = w[k]
  BY <1>1, <1>2, <1>5, <1>6
<1>9. v = w
  BY <1>7, <1>8
<1>10. QED
  BY <1>2, <1>6, <1>9

(* A committed record is the redaction the abstract round gives t.          *)
LEMMA RecordIsRedaction ==
  ASSUME IInv, Commit, NEW t \in Tx, NEW r \in staged,
         r.to = index[t].version + 1,
         r.old = LastDigest(index[t].history),
         r.round = round + 1
  PROVE  View(r) = Abstract!Redaction(Shown[t], r.new[2]) /\ r.new[2] \in Content
<1>1. PICK h : h = index[t].history
  OBVIOUS
<1>2. h \in Seq(Record) /\ index[t].version = Len(h) /\ r \in Record
  BY <1>1 DEF IInv, TypeOK, IndexEntry, IndexSound
<1>3. PICK g : g = Shown[t]
  OBVIOUS
<1>4. /\ Len(g) = Len(h)
      /\ (IF g = <<>> THEN <<0, Original>> ELSE g[Len(g)].new) = LastDigest(h)
  BY <1>1, <1>2, <1>3, ShownView, StateOfView
<1>5. Abstract!StateAfter(g) = LastDigest(h)
  BY <1>4 DEF Abstract!StateAfter
<1>6. r.new \in Digest /\ r.new[1] = r.to
  BY <1>2 DEF Record, IInv, StagedSound
<1>7. r.new = <<r.to, r.new[2]>> /\ r.new[2] \in Content
  BY <1>6 DEF Digest
<1>8. Abstract!Redaction(g, r.new[2]) =
        [round |-> round + 1, old |-> LastDigest(h), new |-> <<Len(h) + 1, r.new[2]>>]
  BY <1>4, <1>5 DEF Abstract!Redaction
<1>9. QED
  BY <1>1, <1>2, <1>3, <1>7, <1>8 DEF View

(* A commit is one abstract round over the transactions it moves.           *)
LEMMA CommitIsRound ==
  ASSUME IInv, Commit
  PROVE  Abstract!Next
<1> DEFINE S == {t \in Tx : Moves(t) # {}}
           content == [t \in S |-> (CHOOSE r \in Moves(t) : TRUE).new[2]]
<1>1. S \in (SUBSET Tx) \ {{}}
  <2>1. PICK r : r \in staged
    BY DEF Commit, ReadyToCommit
  <2>2. r.tx \in Tx /\ r \in Moves(r.tx)
    BY <2>1 DEF IInv, TypeOK, Record, Moves
  <2>3. r.tx \in S
    BY <2>2
  <2>4. QED
    BY <2>3
<1>2. ASSUME NEW t \in Tx
      PROVE  IF t \in S
             THEN /\ content[t] \in Content
                  /\ Shown'[t] = Append(Shown[t], Abstract!Redaction(Shown[t], content[t]))
             ELSE Shown'[t] = Shown[t]
  <2>1. index'[t] = Applied(t)
    BY CommitFacts
  <2>2. CASE Moves(t) = {} /\ Applied(t) = index[t]
    <3>1. t \notin S
      BY <2>2
    <3>2. PICK h : h = index[t].history
      OBVIOUS
    <3>3. index'[t].history = h
      BY <2>1, <2>2, <3>2
    <3>4. /\ Shown[t] = [k \in 1 .. Len(h) |-> View(h[k])]
          /\ Shown'[t] = [k \in 1 .. Len(h) |-> View(h[k])]
      BY <3>2, <3>3, ShownView, ShownViewNext
    <3>5. QED
      BY <3>1, <3>4
  <2>3. ASSUME NEW r \in staged,
               /\ Moves(t) = {r} /\ r \in Record
               /\ r.to = index[t].version + 1
               /\ r.old = LastDigest(index[t].history)
               /\ r.round = round + 1
               /\ Applied(t) = [version |-> index[t].version + 1,
                                history |-> Append(index[t].history, r)]
        PROVE  /\ t \in S /\ content[t] \in Content
               /\ Shown'[t] = Append(Shown[t], Abstract!Redaction(Shown[t], content[t]))
    <3>1. t \in S /\ (CHOOSE q \in Moves(t) : TRUE) = r
      BY <2>3
    <3>2. content[t] = r.new[2]
      BY <3>1
    <3>3. View(r) = Abstract!Redaction(Shown[t], r.new[2]) /\ r.new[2] \in Content
      BY <2>3, RecordIsRedaction
    <3>4. PICK h, s, g : /\ h = index[t].history /\ s = index'[t].history
                         /\ g = Shown[t]
      OBVIOUS
    <3>5. h \in Seq(Record) /\ s = Append(h, r)
      BY <2>1, <2>3, <3>4 DEF IInv, TypeOK, IndexEntry
    <3>6. g = [k \in 1 .. Len(h) |-> View(h[k])]
      BY <3>4, ShownView
    <3>7. Shown'[t] = [k \in 1 .. Len(s) |-> View(s[k])]
      BY <3>4, ShownViewNext
    <3>8. [k \in 1 .. Len(s) |-> View(s[k])] = Append(g, View(r))
      BY <2>3, <3>5, <3>6, ViewAppend
    <3>9. Shown'[t] = Append(Shown[t], View(r))
      BY <3>4, <3>7, <3>8
    <3>10. QED
      BY <3>1, <3>2, <3>3, <3>9
  <2>4. QED
    BY <2>2, <2>3, AppliedCases
<1> HIDE DEF content
<1>3. DOMAIN content = S /\ content \in [S -> Content]
  <2>1. \A t \in S : content[t] \in Content
    BY <1>2
  <2>2. QED
    BY <2>1 DEF content
<1> HIDE DEF S
<1>4. Shown' = [t \in Tx |-> IF t \in S
                             THEN Append(Shown[t], Abstract!Redaction(Shown[t], content[t]))
                             ELSE Shown[t]]
  <2>1. Shown' = [t \in Tx |-> Shown'[t]]
    BY DEF Shown
  <2>2. QED
    BY <1>2, <2>1
<1>5. Abstract!Round(S)
  BY <1>3, <1>4, CommitFacts DEF Abstract!Round
<1>6. QED
  BY <1>1, <1>5 DEF Abstract!Next

LEMMA OthersStutter ==
  ASSUME IInv, [Next]_vars, ~Commit
  PROVE  UNCHANGED <<Shown, round>>
<1>1. UNCHANGED <<index, round>>
  BY StepCases, AuditFrame
     DEF Revalidate, ExcludeStale, AdaptFails, Transition, Cancel, NothingToCommit,
         CommitRefused, AppendAnchor, indexVars
<1>2. QED
  BY <1>1 DEF Shown

(* The index implements the abstract history: a commit is one round of it,  *)
(* and no abandoned or refused round shows.                                 *)
THEOREM ImplementsProvenanceHistory == Spec => ImplementsHistory
<1>1. Init => Abstract!Init
  <2> SUFFICES ASSUME Init PROVE Abstract!Init
    OBVIOUS
  <2>1. \A t \in Tx : Shown[t] = <<>>
    <3>1. \A t \in Tx : index[t].history = <<>>
      BY DEF Init
    <3>2. QED
      BY <3>1 DEF Shown
  <2>2. Shown = [t \in Tx |-> <<>>]
    BY <2>1 DEF Shown
  <2>3. QED
    BY <2>2 DEF Init, Abstract!Init
<1>2. IInv /\ [Next]_vars => [Abstract!Next]_<<Shown, round>>
  BY CommitIsRound, OthersStutter
<1>3. QED
  BY <1>1, <1>2, Invariance, PTL DEF Spec, ImplementsHistory, Abstract!Spec

=============================================================================
