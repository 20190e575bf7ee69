-------------------------- MODULE RedactionRounds --------------------------
(***************************************************************************)
(* Phases 4 to 6 of ZK-Redact: the executor that runs one redaction round  *)
(* at a time (internal/redactor/executor.go), the ledger whose             *)
(* transactions it adapts (internal/redactor/ledger.go), the provenance    *)
(* index it commits to (internal/pai/index.go) and the auditors that read  *)
(* the index and the ledger while rounds run (zkredact/audit.go,           *)
(* internal/pai/verify.go).                                                *)
(*                                                                         *)
(* The ledger and the index have a lock each and Run holds the executor's  *)
(* mutex throughout, so the atomic steps are: the revalidation of the      *)
(* batch, one adaptation, the index commit, the anchor block, and the two  *)
(* reads of an audit.                                                      *)
(*                                                                         *)
(* Hashes are collision free here: a state digest is the version and the   *)
(* content it hashes (digests of two transactions are never compared), the *)
(* PAI root is the function of the entries below it, the record root of a  *)
(* round is its set of records, and the cumulative commitment of a         *)
(* transaction is its history.  A proof stands for the statement it proves.*)
(***************************************************************************)
EXTENDS Integers, Sequences, FiniteSets

CONSTANTS
  Tx,             \* the indexed transactions
  Content,        \* redactable contents, and...
  Original,       \* ...the one every transaction starts with
  Proofs,         \* authorization proofs
  NoProof,        \* an item without one
  PolicyVersions, \* versions an authorization may have been granted under
  CurrentPolicy,  \* v_P^cur, what the policyVersion callback answers
  Batches,        \* the batches callers submit, sequences of items
  Auditors,       \* concurrent callers of Audit
  Epochs,         \* the state epochs they ask for
  MaxVersion,     \* bound: no item is authorized at this version or above
  MaxCancels      \* bound: how often a caller's context ends during a round

Versions == 0 .. MaxVersion - 1

(* What Phase 4 executes: redactor.Item. *)
Item == [tx: Tx, from: Versions, content: Content,
         policy: PolicyVersions, proof: Proofs \cup {NoProof}]

ASSUME BoundsAssumption == MaxVersion \in Nat /\ MaxCancels \in Nat
ASSUME ItemAssumption ==
  /\ Original \in Content
  /\ NoProof \notin Proofs
  /\ CurrentPolicy \in PolicyVersions
  /\ Epochs \subseteq Nat
ASSUME BatchAssumption == Batches \subseteq Seq(Item)

VARIABLES
  ledger,    \* Ledger.index: version and content of every transaction
  chain,     \* the anchor blocks, by the round each holds
  index,     \* Index.state: version and history of every transaction
  round,     \* Index.round
  anchors,   \* Index.anchors: root, previous root and record root by round
  evidence,  \* Index.evidence: the proof stored under a DID
  execRound, \* Executor.round
  pc,        \* where Run stands: idle, adapting, or anchoring
  batch,     \* the batch Run was called with
  pending,   \* positions of Q_F still to execute
  staged,    \* records of the round, not yet committed
  outcome,   \* what Run counted and returned
  cancels,   \* rounds abandoned so far
  audit      \* where each auditor stands

ledgerVars == <<ledger, chain>>
indexVars  == <<index, round, anchors, evidence>>
runVars    == <<execRound, pc, batch, pending, staged, outcome, cancels>>
vars       == <<ledgerVars, indexVars, runVars, audit>>

-----------------------------------------------------------------------------
(* The values the code hashes. *)

StateDigest(version, content) == <<version, content>>

InitialDigest == StateDigest(0, Original)

CurrentDigest(t) == StateDigest(ledger[t].version, ledger[t].content)

(* DID_i, computed by gateway.DedupID from the request alone. *)
DedupID(it) == <<it.tx, it.from, it.content>>

DIDs == Tx \X Versions \X Content

Digest == (0 .. MaxVersion) \X Content

Record == [tx: Tx, from: Versions, to: 1 .. MaxVersion, policy: PolicyVersions,
           did: DIDs, round: Nat \ {0}, old: Digest, new: Digest, auth: Proofs]

(* The digest the next record of a history must start from. *)
LastDigest(history) ==
  IF history = <<>> THEN InitialDigest ELSE history[Len(history)].new

Root == [t \in Tx |-> index[t]]

-----------------------------------------------------------------------------
Outcome(status, size, succeeded, stale, failed) ==
  [status |-> status, size |-> size, succeeded |-> succeeded,
   stale |-> stale, failed |-> failed]

Outcomes == [status: {"none", "running", "ok", "error"},
             size: Nat, succeeded: Nat, stale: Nat, failed: Nat]

NoAudit == [stage |-> "idle"]

Init ==
  /\ ledger    = [t \in Tx |-> [version |-> 0, content |-> Original]]
  /\ chain     = <<>>
  /\ index     = [t \in Tx |-> [version |-> 0, history |-> <<>>]]
  /\ round     = 0
  /\ anchors   = [r \in {0} |-> [root |-> Root, prev |-> Root, records |-> {}]]
  /\ evidence  = [d \in DIDs |-> NoProof]
  /\ execRound = 0
  /\ pc        = "idle"
  /\ batch     = <<>>
  /\ pending   = {}
  /\ staged    = {}
  /\ outcome   = Outcome("none", 0, 0, 0, 0)
  /\ cancels   = 0
  /\ audit     = [a \in Auditors |-> NoAudit]

-----------------------------------------------------------------------------
(* The executor. *)

(* Faulty variants of IsFresh: the version is not compared, or a later one  *)
(* passes.                                                                  *)
IsPolicyFresh(it) == it.policy = CurrentPolicy

IsFreshOrLater(it) ==
  /\ ledger[it.tx].version <= it.from
  /\ it.policy = CurrentPolicy

(* Fresh_i: the transaction and its policy are where they were when the    *)
(* request was authorized.                                                 *)
IsFresh(it) ==
  /\ ledger[it.tx].version = it.from
  /\ it.policy = CurrentPolicy

(* Phase 4 Step 2, over the batch as admitted.  Items without a proof fail, *)
(* stale ones are excluded, and a batch with none left ends the call here.  *)
Revalidate(b) ==
  LET proved == {i \in DOMAIN b : b[i].proof # NoProof}
      fresh  == {i \in proved : IsFresh(b[i])}
  IN /\ pc = "idle"
     /\ outcome' = Outcome(IF fresh = {} THEN "ok" ELSE "running", Len(b), 0,
                           Cardinality(proved \ fresh),
                           Cardinality(DOMAIN b \ proved))
     /\ pc' = IF fresh = {} THEN "idle" ELSE "adapting"
     /\ batch' = IF fresh = {} THEN <<>> ELSE b
     /\ pending' = fresh
     /\ UNCHANGED <<ledgerVars, indexVars, execRound, staged, cancels, audit>>

(* Faulty variant of IsNext: an off-by-one in the bound of the loop.        *)
IsNextStrictly(i) == i \in pending /\ \A j \in pending : i < j

(* The position Run executes next. *)
IsNext(i) == i \in pending /\ \A j \in pending : i <= j

Executing(i) == pc = "adapting" /\ IsNext(i)

(* Faulty variant of ExcludeStale: the request is dropped uncounted.        *)
DropStale(i) ==
  /\ Executing(i)
  /\ ~IsFresh(batch[i])
  /\ pending' = pending \ {i}
  /\ UNCHANGED <<ledgerVars, indexVars, execRound, pc, batch, staged, outcome,
                 cancels, audit>>

(* The second Fresh_i check, just before the transition. *)
ExcludeStale(i) ==
  /\ Executing(i)
  /\ ~IsFresh(batch[i])
  /\ outcome' = [outcome EXCEPT !.stale = @ + 1]
  /\ pending' = pending \ {i}
  /\ UNCHANGED <<ledgerVars, indexVars, execRound, pc, batch, staged, cancels, audit>>

(* CH.Adapt, or the check of its collision, fails: the ledger is untouched. *)
AdaptFails(i) ==
  /\ Executing(i)
  /\ IsFresh(batch[i])
  /\ outcome' = [outcome EXCEPT !.failed = @ + 1]
  /\ pending' = pending \ {i}
  /\ UNCHANGED <<ledgerVars, indexVars, execRound, pc, batch, staged, cancels, audit>>

(* Ledger.Adapt: the chameleon digest of the entry stays, so the block does. *)
AdaptEntry(t, content) ==
  ledger' = [ledger EXCEPT ![t] = [version |-> @.version + 1, content |-> content]]

(* Faulty variants of RecordOf: the new digest is taken at the old version, *)
(* or the record is built from the index and not from the ledger.           *)
RecordOldVersion(it) ==
  [tx |-> it.tx, from |-> it.from, to |-> it.from + 1, policy |-> it.policy,
   did |-> DedupID(it), round |-> execRound + 1,
   old |-> CurrentDigest(it.tx),
   new |-> StateDigest(ledger[it.tx].version, it.content),
   auth |-> it.proof]

RecordFromIndex(it) ==
  [tx |-> it.tx, from |-> index[it.tx].version, to |-> index[it.tx].version + 1,
   policy |-> it.policy, did |-> DedupID(it), round |-> execRound + 1,
   old |-> LastDigest(index[it.tx].history),
   new |-> StateDigest(index[it.tx].version + 1, it.content),
   auth |-> it.proof]

(* The record of one redaction, with the digests Adapt returned. *)
RecordOf(it) ==
  [tx |-> it.tx, from |-> it.from, to |-> it.from + 1, policy |-> it.policy,
   did |-> DedupID(it), round |-> execRound + 1,
   old |-> CurrentDigest(it.tx),
   new |-> StateDigest(ledger[it.tx].version + 1, it.content),
   auth |-> it.proof]

(* Faulty variant of StoreEvidence: the proof is not kept.                  *)
StoreNothing(did, proof) == UNCHANGED evidence

StoreEvidence(did, proof) == evidence' = [evidence EXCEPT ![did] = proof]

(* Phase 4 Steps 3 and 4 for one item.  The evidence is stored in the same  *)
(* step: it is read only through a record, and no record of it is committed *)
(* before this round is.                                                    *)
Transition(i) ==
  LET it == batch[i]
  IN /\ Executing(i)
     /\ IsFresh(it)
     /\ AdaptEntry(it.tx, it.content)
     /\ staged' = staged \cup {RecordOf(it)}
     /\ StoreEvidence(DedupID(it), it.proof)
     /\ pending' = pending \ {i}
     /\ UNCHANGED <<chain, index, round, anchors, execRound, pc, batch,
                    outcome, cancels, audit>>

(* Run returns to its caller. *)
Return(status, succeeded) ==
  /\ pc' = "idle"
  /\ batch' = <<>>
  /\ pending' = {}
  /\ staged' = {}
  /\ outcome' = [outcome EXCEPT !.status = status, !.succeeded = succeeded]

(* The loop finds the caller's context ended and returns its error.  What   *)
(* the round adapted so far stays adapted.                                  *)
Cancel ==
  /\ pc = "adapting"
  /\ pending # {}
  /\ cancels < MaxCancels
  /\ cancels' = cancels + 1
  /\ Return("error", 0)
  /\ UNCHANGED <<ledgerVars, indexVars, execRound, audit>>

(* No request survived its transition, so no round is opened. *)
NothingToCommit ==
  /\ pc = "adapting"
  /\ pending = {}
  /\ staged = {}
  /\ Return("ok", 0)
  /\ UNCHANGED <<ledgerVars, indexVars, execRound, cancels, audit>>

-----------------------------------------------------------------------------
(* Phase 5: Index.Commit, under the index's lock. *)

(* The records of this round that move t, in the order of their versions. *)
Moves(t) == {r \in staged : r.tx = t}

(* checkContinuity and the version check of one record, against the index   *)
(* or against the record of the same round that precedes it.                *)
Continues(r) ==
  \/ /\ r.from = index[r.tx].version
     /\ r.old = LastDigest(index[r.tx].history)
  \/ \E p \in Moves(r.tx) : p.to = r.from /\ p.new = r.old

Validates(r) ==
  /\ r.round = round + 1
  /\ r.to = r.from + 1
  /\ Continues(r)

CommitAccepted ==
  /\ execRound + 1 = round + 1
  /\ \A r \in staged : Validates(r)

(* History and version of t once the round is applied. *)
Applied(t) ==
  LET n == Cardinality(Moves(t))
      v == index[t].version
  IN [version |-> v + n,
      history |-> index[t].history \o
                  [k \in 1 .. n |-> CHOOSE r \in Moves(t) : r.to = v + k]]

ReadyToCommit == pc = "adapting" /\ pending = {} /\ staged # {}

(* Every record validates before any is applied.  The new anchor names the  *)
(* root before it, the root after it and the round's records.               *)
Commit ==
  LET after == [t \in Tx |-> Applied(t)]
  IN /\ ReadyToCommit
     /\ CommitAccepted
     /\ index' = after
     /\ anchors' = [r \in 0 .. round + 1 |->
                      IF r = round + 1
                      THEN [root |-> after, prev |-> anchors[round].root, records |-> staged]
                      ELSE anchors[r]]
     /\ round' = round + 1
     /\ pc' = "anchoring"
     /\ UNCHANGED <<ledgerVars, evidence, execRound, batch, pending, staged,
                    outcome, cancels, audit>>

(* Faulty variants of CommitRefused: the records that do validate are       *)
(* applied, or the executor counts the round although it was refused.       *)
CommitPartly ==
  /\ ReadyToCommit
  /\ ~CommitAccepted
  /\ Return("error", 0)
  /\ index' = [t \in Tx |-> IF \A r \in Moves(t) : Validates(r) THEN Applied(t) ELSE index[t]]
  /\ UNCHANGED <<ledgerVars, round, anchors, evidence, execRound, cancels, audit>>

CommitCounted ==
  /\ ReadyToCommit
  /\ ~CommitAccepted
  /\ Return("error", 0)
  /\ execRound' = execRound + 1
  /\ UNCHANGED <<ledgerVars, indexVars, cancels, audit>>

(* One record does not validate: nothing is applied to the index, and Run   *)
(* returns the error.                                                       *)
CommitRefused ==
  /\ ReadyToCommit
  /\ ~CommitAccepted
  /\ Return("error", 0)
  /\ UNCHANGED <<ledgerVars, indexVars, execRound, cancels, audit>>

(* Faulty variant of AppendAnchor: Run returns without the block.           *)
SkipAnchor ==
  /\ pc = "anchoring"
  /\ execRound' = execRound + 1
  /\ Return("ok", Cardinality(staged))
  /\ UNCHANGED <<ledger, chain, indexVars, cancels, audit>>

(* Ledger.AppendAnchor, and the end of Run. *)
AppendAnchor ==
  /\ pc = "anchoring"
  /\ chain' = Append(chain, round)
  /\ execRound' = execRound + 1
  /\ Return("ok", Cardinality(staged))
  /\ UNCHANGED <<ledger, indexVars, cancels, audit>>

-----------------------------------------------------------------------------
(* Phase 6: an auditor reads the index, then the ledger, then verifies.     *)

Done(verdict) == [stage |-> "done", verdict |-> verdict]

(* What Index.Retrieve needs for every record of the history of t. *)
Retrievable(t) ==
  LET h == index[t].history
  IN \A k \in DOMAIN h :
       /\ h[k].round \in DOMAIN anchors
       /\ h[k] \in anchors[h[k].round].records
       /\ evidence[h[k].did] # NoProof

(* AuditEvidence.  The anchors it names are immutable, so the number of the *)
(* round stands for the anchor.                                             *)
Evidence(t) ==
  LET h == index[t].history
  IN [stage |-> "retrieved", tx |-> t, version |-> index[t].version,
      history |-> h, round |-> round,
      proofs |-> [k \in DOMAIN h |-> evidence[h[k].did]]]

(* Only the current root is materialised: an older epoch is refused. *)
Retrieve(a, t, epoch) ==
  /\ audit[a].stage # "retrieved"
  /\ audit' = [audit EXCEPT ![a] =
       IF epoch \notin {0, round} THEN Done("refused")
       ELSE IF Retrievable(t) THEN Evidence(t) ELSE Done("lost")]
  /\ UNCHANGED <<ledgerVars, indexVars, runVars>>

VerifyEntry(ev) ==
  anchors[ev.round].root[ev.tx] = [version |-> ev.version, history |-> ev.history]

VerifyHistoryChain(ev) ==
  /\ Len(ev.history) = ev.version
  /\ \A k \in DOMAIN ev.history : ev.history[k].tx = ev.tx

VerifyRecord(ev, k) ==
  LET r == ev.history[k]
  IN /\ r \in anchors[r.round].records
     /\ r.did[1] = ev.tx /\ r.did[2] = r.from
     /\ r.auth = ev.proofs[k]
     /\ k < Len(ev.history) =>
          /\ ev.history[k + 1].old = r.new
          /\ ev.history[k + 1].to = r.to + 1

VerifyBoundaries(ev, current) ==
  IF ev.history = <<>> THEN current = InitialDigest
  ELSE /\ ev.history[1].old = InitialDigest
       /\ ev.history[1].from = 0
       /\ ev.history[Len(ev.history)].new = current
       /\ ev.history[Len(ev.history)].to = ev.version

(* pai.Verify.  Anchors are never rewritten, so verifyAnchor recomputes what *)
(* Commit computed.                                                         *)
Verify(ev, current) ==
  /\ VerifyEntry(ev)
  /\ VerifyHistoryChain(ev)
  /\ \A k \in DOMAIN ev.history : VerifyRecord(ev, k)
  /\ VerifyBoundaries(ev, current)

Verdict(ev) ==
  IF ledger[ev.tx].version # ev.version THEN "disagree"
  ELSE IF Verify(ev, CurrentDigest(ev.tx)) THEN "verified" ELSE "tampered"

(* Ledger.State, the comparison of the versions, and the verification. *)
Conclude(a) ==
  /\ audit[a].stage = "retrieved"
  /\ audit' = [audit EXCEPT ![a] = Done(Verdict(audit[a]))]
  /\ UNCHANGED <<ledgerVars, indexVars, runVars>>

-----------------------------------------------------------------------------
RunStep ==
  \/ \E i \in pending : ExcludeStale(i) \/ AdaptFails(i) \/ Transition(i)
  \/ NothingToCommit
  \/ Commit
  \/ CommitRefused
  \/ AppendAnchor

Next ==
  \/ \E b \in Batches : Revalidate(b)
  \/ RunStep
  \/ Cancel
  \/ \E a \in Auditors, t \in Tx, e \in Epochs : Retrieve(a, t, e)
  \/ \E a \in Auditors : Conclude(a)

Spec == Init /\ [][Next]_vars

(* Run is a loop over a finite batch with no wait in it: once called it     *)
(* keeps taking steps.  Callers and auditors owe nothing.                   *)
FairSpec == Spec /\ WF_vars(RunStep)

-----------------------------------------------------------------------------
(* Properties. *)

Retrieved == [stage: {"retrieved"}, tx: Tx, version: 0 .. MaxVersion,
              history: Seq(Record), round: Nat, proofs: Seq(Proofs)]

Concluded == [stage: {"done"},
              verdict: {"refused", "lost", "disagree", "verified", "tampered"}]

IndexEntry == [version: 0 .. MaxVersion, history: Seq(Record)]

Anchor == [root: [Tx -> IndexEntry], prev: [Tx -> IndexEntry], records: SUBSET Record]

(* Type correctness of the executor, the ledger, the index and the auditors. *)
TypeOK ==
  /\ ledger \in [Tx -> [version: 0 .. MaxVersion, content: Content]]
  /\ chain \in Seq(Nat)
  /\ index \in [Tx -> IndexEntry]
  /\ round \in Nat
  /\ anchors \in [0 .. round -> Anchor]
  /\ evidence \in [DIDs -> Proofs \cup {NoProof}]
  /\ execRound \in Nat
  /\ pc \in {"idle", "adapting", "anchoring"}
  /\ batch \in Seq(Item)
  /\ pending \subseteq DOMAIN batch
  /\ staged \subseteq Record
  /\ outcome \in Outcomes
  /\ cancels \in 0 .. MaxCancels
  /\ audit \in [Auditors -> {NoAudit} \cup Retrieved \cup Concluded]

(* An audit never reports a tampered or lost history, however it overlaps   *)
(* with rounds, with rounds that were abandoned, and with refused commits:  *)
(* pai.Verify over what Retrieve and Ledger.State returned at two different *)
(* times fails only if somebody altered them (audit.go, verify.go).         *)
AuditNeverAccuses ==
  \A a \in Auditors : audit[a] \notin {Done("tampered"), Done("lost")}

(* Two requests against one transaction cannot both execute in a round:     *)
(* the second Fresh_i check of Run makes the later one stale.               *)
OneRedactionPerRound ==
  \A t \in Tx : \A j, k \in DOMAIN index[t].history :
    j < k => index[t].history[j].round < index[t].history[k].round

(* Whatever happened to earlier rounds, the anchors form one chain: each    *)
(* names its predecessor's root, the last one names the index as it is, and *)
(* the blocks hold them in order and without a gap.  Between calls the      *)
(* executor, the index and the chain count the same rounds.                 *)
AnchorChainIntact ==
  /\ \A r \in 1 .. round : anchors[r].prev = anchors[r - 1].root
  /\ anchors[round].root = Root
  /\ \A i \in DOMAIN chain : chain[i] = i
  /\ Len(chain) = execRound
  /\ round = IF pc = "anchoring" THEN execRound + 1 ELSE execRound

(* Every request of a batch that Run answers without an error is counted    *)
(* exactly once, as succeeded, stale or failed.                             *)
OutcomeAccountsForBatch ==
  outcome.status = "ok" =>
    outcome.succeeded + outcome.stale + outcome.failed = outcome.size

(* The ledger and the index hold t, or every transaction, at the same       *)
(* version and digest.                                                      *)
AtIndex(t) ==
  /\ ledger[t].version = index[t].version
  /\ CurrentDigest(t) = LastDigest(index[t].history)

InStep == \A t \in Tx : AtIndex(t)

(* As long as no caller's context ended during a round, the ledger and the  *)
(* index are in step between calls, whatever was stale, failed or was       *)
(* submitted twice: no round is refused and none is applied by half.        *)
AgreeUnlessAbandoned == cancels = 0 /\ pc = "idle" => InStep

(* Between calls they always are, which is what audit.go expects ("must     *)
(* agree on the version before anything is verified against it").  Not true *)
(* of the code when a context ends between two adaptations.                 *)
LedgerIndexAgree == pc = "idle" => InStep

(* A transaction an abandoned round left ahead of its history never gets    *)
(* back in step: whatever is submitted later, no round commits a redaction  *)
(* of it, because checkContinuity refuses every record that could.          *)
Stranded(t, v) == pc = "idle" /\ index[t].version = v /\ ledger[t].version > v

StrandedForever ==
  \A t \in Tx, v \in 0 .. MaxVersion :
    [](Stranded(t, v) => [](index[t].version = v /\ ledger[t].version > v))

(* A round that reached the index also reaches the chain: its anchor block  *)
(* is appended, and Run returns.                                            *)
AnchorsReachChain ==
  /\ \A r \in 1 .. MaxVersion : (round >= r) ~> (Len(chain) >= r)
  /\ (pc # "idle") ~> (pc = "idle")

-----------------------------------------------------------------------------
(* The inductive invariant, in named parts.                                 *)

(* t was once at this version, and then had this digest; if it still is, it *)
(* still has.  Stable, because Adapt only ever moves a version forward.     *)
Behind(t, version, digest) ==
  /\ version <= ledger[t].version
  /\ version = ledger[t].version => digest = CurrentDigest(t)

(* h is a replayable history of t: one record per version, each from where  *)
(* the one before it ended, each in the record root of its own round, and   *)
(* each with the evidence it commits to still stored under its DID.         *)
SoundHistory(t, h) ==
  /\ \A k \in 1 .. Len(h) :
       /\ h[k].tx = t /\ h[k].from = k - 1 /\ h[k].to = k
       /\ h[k].did[1] = t /\ h[k].did[2] = k - 1
       /\ h[k].round \in 1 .. round
       /\ h[k] \in anchors[h[k].round].records
       /\ evidence[h[k].did] = h[k].auth
       /\ h[k].old = IF k = 1 THEN InitialDigest ELSE h[k - 1].new
  /\ \A j, k \in 1 .. Len(h) : j < k => h[j].round < h[k].round
  /\ Behind(t, Len(h), LastDigest(h))

IndexSound ==
  \A t \in Tx : /\ index[t].version = Len(index[t].history)
                /\ SoundHistory(t, index[t].history)

(* The records of the open round: at most one per transaction, because the  *)
(* requests still pending were all authorized at the version the batch was  *)
(* revalidated against.                                                     *)
StagedSound ==
  /\ IsFiniteSet(staged)
  /\ \A r \in staged :
       /\ r.to = r.from + 1 /\ r.new[1] = r.to
       /\ r.did[1] = r.tx /\ r.did[2] = r.from
       /\ r.round = execRound + 1
       /\ evidence[r.did] = r.auth
       /\ Behind(r.tx, r.to, r.new)
  /\ \A r, s \in staged : r.tx = s.tx => r = s
  /\ \A r \in staged, i \in pending : r.tx = batch[i].tx => r.from = batch[i].from
  /\ \A i, j \in pending : batch[i].tx = batch[j].tx => batch[i].from = batch[j].from
  /\ \A i \in pending : batch[i].proof # NoProof
  /\ pc = "idle" => staged = {} /\ pending = {}

(* What an auditor holds between its two reads is still sound.              *)
SoundEvidence(ev) ==
  /\ ev.version = Len(ev.history)
  /\ SoundHistory(ev.tx, ev.history)
  /\ ev.round \in 0 .. round
  /\ VerifyEntry(ev)
  /\ Len(ev.proofs) = Len(ev.history)
  /\ \A k \in 1 .. Len(ev.history) : ev.proofs[k] = ev.history[k].auth

AuditSound ==
  \A a \in Auditors : audit[a].stage = "retrieved" => SoundEvidence(audit[a])

(* Every part at once: what the proofs show to be inductive. *)
IInv ==
  /\ TypeOK
  /\ AnchorChainIntact
  /\ IndexSound
  /\ StagedSound
  /\ AuditSound
  /\ AuditNeverAccuses

(* While no context ended: the ledger is ahead of the index only by the     *)
(* records of the open round, one step each, and each starts at the index.  *)
Ahead(t, r) ==
  /\ r.from = index[t].version
  /\ r.old = LastDigest(index[t].history)
  /\ ledger[t].version = r.to
  /\ CurrentDigest(t) = r.new

Lockstep ==
  cancels = 0 =>
    \A t \in Tx :
      IF pc = "adapting" /\ Moves(t) # {}
      THEN \E r \in Moves(t) : Ahead(t, r)
      ELSE AtIndex(t)

(* While a round is open, every request of its batch is pending, adapted or *)
(* counted as stale or failed.                                              *)
Tallied ==
  /\ pc # "idle" =>
       outcome.stale + outcome.failed + Cardinality(pending) + Cardinality(staged)
         = outcome.size
  /\ pc # "idle" => outcome.status = "running" /\ outcome.succeeded = 0
  /\ pc = "anchoring" => pending = {}
  /\ OutcomeAccountsForBatch

-----------------------------------------------------------------------------
(* The index implements the abstract history, whatever happens to the       *)
(* rounds: the version of a transaction counts its redactions, and Commit   *)
(* is the only step that shows.                                             *)
Shown ==
  [t \in Tx |-> [k \in 1 .. Len(index[t].history) |->
                  [round |-> index[t].history[k].round,
                   old   |-> index[t].history[k].old,
                   new   |-> index[t].history[k].new]]]

Abstract == INSTANCE ProvenanceHistory WITH
  Initial <- Original,
  rounds  <- round,
  history <- Shown

(* Index.Commit is atomic and append only: a refused or abandoned round     *)
(* leaves no trace in any history (index.go, "ATOMIC").                     *)
ImplementsHistory == Abstract!Spec

=============================================================================
