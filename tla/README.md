# A TLA+ model of VeRedact

VeRedact is a research implementation of ZK-Redact, a scheme for redacting
transactions of a permissioned blockchain with private authorization and public
audit, together with three baseline schemes and the harness that compares them.
This directory holds TLA+ models of its concurrent and stateful parts, the TLC
runs that check them on small instances, and theorems about them that TLAPS
proves for every instance.

## 1. Inventory

ZK-Redact runs in six phases. `Setup` builds everything; `Authorize` admits a
request at the gateway and verifies its proof in the verification layer; `Redact`
executes a batch of authorizations as one round against the ledger and the
provenance index; `Audit` reads index and ledger and verifies.

    requester --Authorize--> gateway.Admit --> pvl.Service.Submit --> shard worker
                                 ^  |release                              |verdict
                                 |  +-------------------------------------+
    batcher ----Redact---> executor.Run --> ledger.Adapt, index.StoreEvidence
                                 |          index.Commit, ledger.AppendAnchor
                                 +--------> gateway.AdvanceTx
    auditor ----Audit----> AuditorRegistry.Authorize, index.Retrieve,
                           ledger.State, pai.Verify

| Component | State | Operations | Hard behaviour | Correct when |
|---|---|---|---|---|
| Redaction executor `internal/redactor/executor.go` | round counter under a mutex | `Run` | context ends mid-round, a round refused by the index, two requests for one transaction in a batch | one redaction per transaction and round, every request accounted for, rounds counted alike everywhere |
| Redactable ledger `internal/redactor/ledger.go` | transactions with version and content, anchor blocks | `Adapt`, `AppendAnchor`, `Version(s)`, `State`, `InitialDigest` | reads interleaved with rounds | agrees with the index between rounds |
| Provenance index `internal/pai/index.go`, `record.go`, `hashing.go` | entries with histories, anchors by round, evidence by DID | `StoreEvidence`, `Commit`, `Retrieve`, `PolicyIDs` | validation before application, one bad record refuses the round | append-only replayable histories, one chain of anchors |
| Audit `zkredact/audit.go`, `internal/pai/verify.go` | none | `Audit`, `Verify` | reads index and ledger at two times | never accuses an honest history |
| Auditor registry `internal/pai/auth.go` | auditors, used nonces | `Authorize` | replay, scope checked against an earlier read of the history | no nonce twice, nothing outside the scope |
| Gateway `internal/gateway/gateway.go` | pending DIDs, attribution, transaction versions | `Admit`, `Release`, `AdvanceTx`, `Attribute` | two critical sections in `Admit`, replaced by `PrepareTrace` | a DID has one holder, granted redactions stay attributable |
| Verification layer `internal/pvl/pvl.go`, `service.go` | configuration, statistics, a queue and a worker per shard | `Submit`, `Stop`, `Reshard`, `SetBatchSize`, worker loop | full queues, timeouts, stop racing submission, reconfiguration | every submitter gets the verdict of its own proof |
| Scheme wiring `internal/schemes/zkredact` | current gateway, service, prepared requests | `Setup`, `PrepareTrace`, `Authorize`, `Redact`, `Reshard`, `Rebatch`, `Teardown` | snapshots taken under a lock and used after it | composition of the above |
| Exp 2 batcher `experiments/exp2_redaction/batcher.go` | open batch, queue, statistics | `submit`, `run`, `execute`, `finish` | final partial batch, failing rounds | terminates, answers every submitter |
| Redaction chaincode `network/chaincode/redaction/contract.go` | node set, policy, ballots, results on the ledger | `Vote`, `Close`, `RegisterNodes`, `RegisterRoundPolicy` | read-set conflicts, retries | one vote per member, threshold of one certificate |
| Ref[10] voting client `internal/schemes/ref10/{voting,fabric*}.go` | sessions | `Collect`, `runVoteRound`, `Retransport` | members that fail, late commits | grants only on a threshold |
| Ref[10] ledger `internal/schemes/ref10/{emt,scheme,committee}.go` | blocks, locations, rounds | `Redact`, `Audit` | redaction in two locked steps | audits verify honest records |
| Ref[13] tree `internal/schemes/ref13` | commitments, versions | `Bind`, `Redact`, `Audit` | tree arithmetic, partial failure | root binds every block |
| Ref[22] chain `internal/schemes/ref22` | blocks, accumulator, witnesses | `Append`, `Modify`, `Delete`, validations | positions used as sequence numbers after a deletion | chain validates after any sequence |
| Harness `experiments/*`, `cmd/*` | results | sweeps, merging, plotting | sharding of arms over hosts | every arm measured once |
| Libraries `pkg/*` | none or caches | cryptography, statistics, configuration | cryptographic soundness | outside TLC and TLAPS |

## 2. Modules

| Module | Models | State | Steps |
|---|---|---|---|
| `RedactionRounds` | `Executor.Run`, `Ledger`, `Index`, `Audit`, `pai.Verify` | `ledger`, `chain` (blocks); `index`, `round`, `anchors`, `evidence` (index); `execRound`, `pc`, `batch`, `pending`, `staged`, `outcome`, `cancels` (the round under way); `audit` | one per stretch of code between two acquisitions of the ledger's or the index's lock |
| `ProvenanceHistory` | what the index promises: per transaction an append-only history, one round at a time | `rounds`, `history` | `Commit` |
| `ProofService` | `pvl.Service`, `pvl.PVL`, and `Authorize`, `Reshard`, `Rebatch`, `SetNativeBatchVerify`, `Setup`, `Teardown` of the scheme as its clients | layers, services, the current one, the write lock; queues, open batches, workers; callers | one per channel operation, lock or unguarded read |
| `VerdictService` | what the layer promises: the verdict of one's own proof, or nothing | `asking`, `question`, `answer` | `Ask`, `Answer`, `GiveUp` |
| `Admission` | `gateway.Gateway`, `PrepareTrace`, `Authorize` around the verification, `Redact` around the round | ledger versions, every gateway made, prepared statements, calls, authorizations, redactors | one per critical section |
| `RedactionBatcher` | the batcher of Exp 2, its submitters and its feeder | the channel, the queue, the open batch, the statistics | one per channel operation |
| `VoteRounds` | the voting client of Ref[10] (`voting.go`, `fabric*.go`) and the chaincode (`contract.go`) with the ordering service between them | the world state with versions, transactions endorsed and not yet ordered, each client's round, its members' threads and its retries | one per endorsement, per transaction of a block, and per decision of the client |
| `VoteQuorum` | what one contract instance promises: a node votes once, and at most one result is decided, from a threshold of votes for one certificate | `vote`, `result` | `Cast`, `Decide` |
| `PrunedLedger` | the ledger of Ref[10] (`emt.go`, `scheme.go`) | blocks with their trees, locations, approvals, the redactions and audits under way | one per acquisition of the ledger's lock |
| `PolicyLanguage` | the policies of Ref[10] (`committee.go`: tokens, parser, evaluator) against their grammar | the tokens written so far | one more token |
| `BindingTree` | Ref[13] (`bat.go`, `wiring.go`, `verify.go`, `audit.go`) | the tree of commitments, the chain, the chameleon randomness, a light node's last answer | `Setup`, `Redact`, `Query`, sampled audits |
| `SequenceChain` | Ref[22] (`ledger.go`, `wiring.go`) | blocks, the accumulated set, the witnesses of a state, versions, the last deletion proof | `Setup`, `Redact`, `Delete`, audits and validations |
| `MerkleTree`, `MerkleUpdates` | `pkg/merkle`: build, update, proof and verification over a symbolic hash | leaves and tree | update of any leaf |
| `VerificationSweep` | Exp 1 (`exp1_verification/runner.go`) with the `-levels` of `run-experiment` | the cells left, the configuration in force, cursor and tally of the workers, the contract rounds opened, whether the caller's context has ended | one per cell, request and answer |
| `ArmSweeps` | the arms of Exp 2 and Exp 3 over hosts (`-arms`), their replays, and Exp 3's scaling verdict | the next arm, the host, the points | one per host: its arms, measured in order |
| `ResultMerge` | `merge-results` | the shards read so far, the pooled document | one per shard, and writing the result |
| `MC*` | small instances | | |
| `RedactionRoundsProofs`, `ProofServiceProofs`, `VoteRoundsProofs`, `AdmissionProofs`, `RedactionBatcherProofs`, `BindingTreeProofs`, `SequenceChainProofs` | theorems about the module they are named after, section 4 | | |
| `EvaluationProofs` | the compared ledgers, their structures and the harness put side by side (`EvaluationSpec`), and theorems about `PrunedLedger`, `MerkleUpdates`, `PolicyLanguage`, `VerificationSweep`, `ArmSweeps` and `ResultMerge`, section 4 | those of the parts, and which part moves | those of the part |

Every state variable carries, at its declaration, the field or the local it stands
for. Operators named "Faulty variant of ..." are plausible mistakes: exchanging the
operator they are a variant of for them breaks a property of a run. No behaviour
of the models uses them.

What stands for what:

- **Rounds.** `Revalidate` is the freshness pass over the batch at the head of
  `Executor.Run`. Each item of the loop is one step: `ExcludeStale` (the second
  freshness check), `AdaptFails` or `Transition` (evidence stored, entry adapted,
  record staged). `Cancel` is the context check before an item; `Commit` and
  `CommitRefused` are `Index.Commit`; `AppendAnchor` is a step of its own, so an
  audit may fall between commit and block. `Retrieve` and `Conclude` are the two
  reads of `Scheme.Audit`. A digest is abstracted to what it binds, a record root to
  the set of its records.
- **Admission.** `Gateway.Admit` locks twice, and so do the model's calls
  (`CheckVersion`, then `Admit`). `PrepareTrace` replaces the gateway and prepares
  one request per step under the scheme's lock. An identifier (`DedupID`)
  names transaction, version and modification, and not the requester. A round
  shows here by the versions it advances; its inside is `RedactionRounds`.
- **Verification layer.** A worker is a pair of service and shard. A nil service and
  a shard without a queue leave the caller where the code would panic:
  `QueueExists` is about that. `TimesOut` may happen as soon as a batch is open,
  which covers every `BatchWait`; the configuration file may set it to zero.
- **Batcher.** Requests are numbered in the order in which they are offered. The
  final batch counts as short although it may be full, as in the code.
- **Votes.** A chaincode call is an endorsement (it reads keys and their versions and
  prepares writes) and a commit (the reads are still current, or it is invalid).
  Between the two anything else may commit; a submitter may give up in between and
  its transaction commit all the same. The in-process transport votes and tallies in
  one address space; its loop over the members is modelled without an order.
- **Compared ledgers.** Hashes and commitments are the values they bind, an
  accumulator is the set it accumulates, a witness is good for the set it was made
  for, a chameleon value opens to the content it was last adapted to. With that,
  positions, paths, sequence numbers, caches and orders of updates are as in the code.
- **Merkle trees.** A tree is the sequence of its levels, as in `Tree.levels`. `Widths`
  counts the nodes of each level and `Path` names the node above a leaf on each. A proof
  has one entry per level below the root, empty where the node was promoted and `Proof`
  appends nothing, so that entry and level have one number.
- **Harness.** Rates and costs are small numbers, a request identifier is a tag, a
  point is the configuration it is labelled with and what was measured under it.
  `Interrupt` is Ctrl-C or SIGTERM: it ends the context of `run-experiment`, and
  workers then leave as they do at the end of the trace. A point keeps whether
  that had happened, which the code's does not.
  Errors and denials inside `authorizeAll` and `runOne` of Exp 2 are in
  `RedactionBatcher`, not in `ArmSweeps`.

## 3. Runs

| Run | Question | Outcome |
|---|---|---|
| `rounds` | with conflicting, stale and unproved requests, one abandoned round and audits overlapping everything: does any audit accuse an honest history, do anchors and counters stay aligned, does the index keep an append-only history, do rounds return and reach the chain | holds |
| `rounds_cancel` | do ledger and index always agree between calls, as `audit.go` expects | no: a context that ends between two adaptations leaves the ledger ahead |
| `service_quiet` | reconfigured between calls only: does a stopped worker leave anyone behind, is the service what the layer says, do the statistics account for every request, is every caller answered | holds |
| `service_any` | reconfigured at any time, refused and failing changes included: does anyone get another's verdict, does every reconfiguration give the lock up | holds |
| `service_refused` | is every request answered | no: a refused `Reshard` or `Rebatch` has already stopped the service that stays in place |
| `admission_overlap` | with everything overlapping: is evidence ever stored under another version's identifier, has an identifier ever two holders, is what a gateway granted attributable | holds |
| `admission_follow` | does the gateway in force follow the ledger | no: notices overtake each other, or go to a gateway that was replaced |
| `batcher_faults` | with and without a wait bound, rounds fail, the context ends: is anything executed twice or lost, is a point without error complete, does the run end | holds, the last without a wait bound only while no round fails |
| `votes` | two clients race on a round or follow one another on a network, members fail, ballots commit late, rounds are retried and registrations change: do ballots invalidate one another, is every grant recorded, did a threshold of a certified committee vote for what the contract decided | holds |
| `evaluation` | the compared ledgers, their data structures and the harness, each by itself: see below | holds |
| `sample` | does an audit of Ref[13] challenge as many blocks as are configured | no: the deepest level may hold fewer |
| `scaling` | is Exp 3's scaling verdict made of one configuration | no: it pools all of them |

The five "no" are recorded as findings in `PROJECT.json`, each with the line it
contradicts. `rounds` states the same agreement as `rounds_cancel` under the
condition that makes it true (`AgreeUnlessAbandoned`), and shows the consequence of the
other case (`StrandedForever`: nothing commits such a transaction again).

`evaluation` checks parts that share no state. `EvaluationSpec` of `EvaluationProofs` chooses one
part and moves it while the rest stands still, so its states are the sum of those of the parts
and not their product; `MCEvaluation` gives its constants their values. The theorems about the parts are
about these instances: the run and the proof speak of one formula. Its properties:

- Ref[10]: an audit refuses a record only while a redaction of its transaction is
  between its two locked steps (`AuditRejectsOnlyMidway`); the redactions found are all
  those completed (`HistoryComplete`); a policy means what its grammar says, or is refused
  (`ParsesAsGrammar`).
- Ref[13]: after any redactions every block and sample is accepted, and a light node
  that holds the current root accepts only what the chain holds (`TreeFollowsChain`).
- Ref[22]: the chain, every redaction and the deletion validate (`ChainVerifies`), with
  witnesses that may be cached; nothing superseded stays accumulated
  (`OnlyCurrentAccumulated`).
- Merkle: a tree updated in place is the tree built anew, and roots differ when
  leaves do (`UpdateMatchesRebuild`).
- All of them keep their types (`PartsTyped`).
- Harness: no measurement lives off an earlier one and each point is of the
  configuration it names, in Exp 1 with an answer to every request of the trace
  unless the caller's context had ended (`MeasuredAfresh`); hosts cover every arm once
  (`ArmsMeasuredOnce`); a claim broken on a host is broken in the pooled document
  (`BrokenClaimSurvives`).

Observations that no run states:
- An audit whose two reads straddle a round disagrees about the version without a
  defect, which `audit.go:129-131` rules out. `AuditNeverAccuses` allows it.
- A reshard between the service a caller took and its submission makes `Submit`
  index a queue that service lacks. `EveryCallHasAQueue` proves that it cannot
  happen when reconfigurations do not overlap calls, as in the harness.
- Without a wait bound, a run of Exp 2 never ends if there are fewer submitters than a
  batch holds, or if so many have left after failed rounds that the others cannot fill
  one. `RunEnds` assumes neither. The configured bounds are positive.
- An interrupted Exp 1 goes on. Workers leave without an error
  (`exp1 runner.go:415-418`), so the replay under way becomes a point over a part of
  the trace, and of a scheme that prepares no traces every later cell becomes a point
  over none of it: `runOne` refuses a replay that was only denied, not one without
  answers (`runner.go:488`). All of them are written like the others. `MeasuredAfresh`
  excepts points returned after the context had ended, and no others.
- Exp 1's scaling baseline spans the transports of Ref[10].
- `Delete` of Ref[22] removes blocks from a slice whose positions a second deletion or
  `Redact` would take for sequence numbers. No code of the harness deletes; the model
  deletes once and redacts afterwards.
- `merge-results` recomputes a saturation point by a rule that says it mirrors
  `findSaturation` and decides otherwise on a curve that rises late (40, 41, 80).

### Bounds

- `rounds`: two transactions, batches of at most two requests, each transaction
  redacted at most twice, one cancelled context, one auditor. Two requests of
  one batch are needed for a conflict, a refused round needs one stranded and one
  sound transaction, and a second redaction is needed for a chain of records and
  of anchors. A second proof exists for the first redaction of one transaction only
  (`p2`), which is enough for two requests that differ in nothing else. Auditors do
  not affect anything, so a second one adds nothing.
- `service_*`: two callers with two calls each, so that a late reply of an
  abandoned call meets a new one and a batch mixes callers; queue depth 1, so that a
  submitter blocks; two shards, batches of at most two; two or three services, so
  that a reconfiguration meets a service built by another.
- `admission_*`: one transaction, two requesters of one redaction, two callers, two
  redactors, three gateways, two versions. Requests against different transactions
  share nothing in a gateway.
- `batcher_faults`: five requests in batches of two with three submitters, with a wait
  bound or without: a batch cannot hold them all, so one always waits for the next,
  and the last request is alone in a batch that without a timer only the
  count of requests can close.
- `votes`: three members of which two are drawn and both must agree, two clients, two
  attempts, one fault and one closing by a bystander. Two clients are enough for a race on one
  round and for a registration that follows another; one fault is enough for a late
  ballot, a retry meets it. Three pairs of clients: one seed with two certificates, two
  data sets, and one whose certificate grants nothing.
- `evaluation`: Ref[10]: four transactions in blocks of at most three (a full and a
  partial block), two requests against one transaction, three grants and two audits that
  overlap. Ref[13]: arities 2 and 3, four blocks (a level not full), two redactions, two
  set-ups. Ref[22]: four blocks, two redactions, one deletion of any positions, adjacent
  ones included. Merkle: one to seven leaves, so that nodes are promoted once and twice in
  a row. Policies: every string of four tokens, and longer ones that begin with a
  parenthesis. Exp 1: schemes with none, with transports and with shards, batches and
  modes, two levels, two repetitions, traces of two, interrupted at any step or not. Exp 2 and 3: two hosts, two values
  on every axis. Merging: three shards out of those that differ in one stamp, two that saturate
  differently among them.

Counters are bounded in guards only where the code has no bound of its own:
`MaxVersion`, `MaxCancels`, `MaxCalls`, `MaxServices`, `MaxGateways`, `MaxBatch`, `MaxFaults`,
`MaxCloses`, `MaxGrants`, `MaxAudits`, `MaxSetups`, `MaxRedactions`, `MaxDeletes`, `MaxLeaves`, `MaxTokens`,
`MaxDocuments`, `MaxAttempts`. Deadlock is not checked, because at these bounds, and in
the code once its callers are done, the system stops.

### Fairness

A goroutine that can take a step takes it, an armed timer fires, and Go serves
blocked senders of a channel in order; that is all. `RedactionRounds` assumes it of
`Run`, a loop over a finite batch without a wait; `ProofService` of submitting callers,
of workers and of the reconfiguration that holds the lock; `RedactionBatcher` of
submitters, feeder and worker. A caller owes no call, an owner no reconfiguration, and
a context need not end. Weak fairness is enough because calls are finite: a submitter
cannot be overtaken at a full queue for ever.

## 4. Proofs

TLAPS checks every proof, for every value of the constants that satisfies the assumptions the
modules name. They say what the code makes sure of: bounds are positive, requests name a transaction
and a proof, hashes are numbers. Some deserve a word. `CommitteeAssumption` holds because `Setup` of
Ref[10] refuses a threshold that is not a majority. `KeyAssumption` says that a node is not called
like one of the other keys of the world state, as the composite keys of the contract see to.
`RunAssumption` of `RedactionBatcher` has at least one submitter: a concurrency of zero is replaced
by the largest batch size. `RequestAssumption` of `PrunedLedger` says that a request's redaction
transaction has an identifier no transaction of the data set has: the code puts `tx-rdt-` before the
request's. `CarryVerdicts` of `ResultMerge`, under which `ClaimsPooled` is stated and which
`MergeAssumption` checks of the documents of the run, says that documents of Exp 3 carry one scaling
verdict per scheme, which is what Exp 3 writes. `OneDeletion` of `SequenceChain`, which
`ChainAssumption` checks likewise, is met by every caller in the repository. `Auditable` of
`BindingTree` says that an arity is at least two and a sample not empty, as `Setup` of Ref[13] and
the configuration see to. `Tokenized` of `PolicyLanguage` says that tokens that stand for different
words differ. `Sweepable` of `VerificationSweep` and `Spreadable` of `ArmSweeps` describe the axes
of a sweep: there is a level, a depth, a repetition and a host, which the runners demand before they
start (`exp1 runner.go:163`, `exp2 runner.go:260`, `exp3 runner.go:168,171`), and no axis repeats a
value, which `config/experiment.yaml` satisfies and no code checks. With a value twice on an axis a
point would rightly be measured twice, so the theorems would be false. TLC evaluates each of them on
the instance it checks.

Every safety property that a passing run checks is proved: invariants, type invariants and action
properties, of the parts of `evaluation` too, and so are the three refinements. The inductive
invariants of `RedactionRounds`, `ProofService`, `Admission`, `RedactionBatcher` and `VoteRounds`
were checked by TLC on their runs' instances first.

**`RedactionRoundsProofs`.** `Invariance` proves `IInv`; `TypeCorrect`, `AuditSoundness`,
`AnchorsChained`, `RoundRedactsOnce` and `StrandedStays` follow. That an audit never accuses is not
inductive: it needs that what an auditor holds between its reads is sound (`AuditSound`), which
needs that every history in the index is (`IndexSound`) and stays so when a round is added, which
needs that the records of the open round continue their histories at most once per transaction
(`StagedSound`), which rests on the second freshness check. `Behind` is the part that survives
interleaving: a ledger only moves forward, so a version read earlier is either old or still has the
digest it had. Evidence is stored under an identifier that names transaction and version, after
the ledger has left that version (`executor.go:178` and `204`); so it is stored once, and what
`SoundHistory` says of a committed history cannot be undone by a round that is abandoned later.

Its second part relates a round to what it leaves behind.
- `InStepUnlessAbandoned`: as long as no round was abandoned, ledger and index agree between calls.
  Within a round they do not, and `Lockstep` says how they differ: exactly the transactions with a
  staged record are `Ahead`, by that one record, and everything else is where its index is. So
  `RefusedOnlyAfterAbandoned`: the continuity checks of `Index.Commit` reject nothing before a round
  was abandoned.
- `BatchAccountedFor` proves `Tallied`: at every step of a round, the requests that are pending,
  staged, stale and failed add up to the batch.
- `ImplementsProvenanceHistory` is the refinement of `ProvenanceHistory` under the mapping `Shown`,
  the round, old and new digest of each entry. `Commit` appends for exactly the transactions staged,
  which is a step of the abstract history because the staged set is not empty and each record
  continues the history of its transaction; the rest stutters.

**`ProofServiceProofs`.**
- `TypeCorrect` includes the bounds that make indices valid: a queue is never longer than its
  channel is deep, no batch waits that should have closed.
- `RepliesAreVerdicts` proves `VerdictInv`: a job of the caller's present call carries its present
  query. Older jobs may be anywhere, which is why a job carries a call number as a Go call has its
  own reply channel.
- `VerdictsKept` proves `Spec => ImplementsVerdicts` step by step: `Authorize` asks, `Take` answers,
  a context that ends gives up, everything else stutters. It holds whatever is reconfigured at
  whatever moment.
- `QuietKept` proves `QuietInv` for a scheme that is reconfigured between calls only, with arguments
  the layer accepts and a `Setup` that succeeds (`Tuned`). `StopAbandonsNobody`,
  `ServesAsConfigured` and `EveryCallHasAQueue` follow. Without `~Overlap` a reshard may fall
  between a caller's snapshot and its submission, without accepted arguments `service_refused`
  starts from one, and a `Setup` that fails leaves a ready scheme without a service. The parts of
  `QuietInv` that are not conclusions say who may be where: a call in flight excludes a
  reconfiguration and uses the service in force, and a worker drains only after its service was
  stopped.

- `StatisticsConserved` proves `StatsConserved`, under `Tuned`. The requests under way are a set of
  places (a worker, one of its two sequences, a position), so that a sum over workers is one
  cardinality. `StatsInv` says that only workers of the service in force hold any, hence that all
  are of the newest layer, and that the other layers' books are closed. `HeldChanges` is the lemma
  every step of a worker and of a submitter uses: when one worker's sequences change, the count
  changes by the difference of their lengths. A reconfiguration finds nothing held
  (`StoppedService`), because it waited for workers that drain; that is why `Reshard` may reset the
  figures.

**`VoteRoundsProofs`.** `Inductive` proves `IInv`. `WorldOK` types the world state; `PoolOK` says
that every transaction not yet ordered is a registration, a ballot or a closing, with the read set
its kind has; `VotesOnLedger` says what a client may believe of the ledger at each stage of its
round. `BallotsNeverConflict` follows from the read set of a ballot, which names its own key and
registrations only. `GrantsRecorded` needs that an answer `cast` is given only for a ballot on the
ledger, which nobody overwrites: a ballot reads its own key as absent. `DecidedByTheCommittee` is an
action property: the read set of a closing contains the registration it counted under, so if it
commits that registration is in force. `ImplementsVoteQuorum` maps ballots to votes and the result
to the decision.

**`AdmissionProofs`.** `Inductive` proves `IInv`, from which the rest follows. `VersionInv` bounds
what is known of the ledger anywhere (prepared statements, calls, grants, rounds, every gateway) by
the ledger, which only grows; `DidsNameRedactions` needs the strict case, for a round in progress.
`HolderInv` states `OneHolder` without cardinalities: an identifier seen has a holder and no second
one, be it a call or a grant, also in gateways that were replaced while calls still use them.

**`RedactionBatcherProofs`.** `Inductive` proves `IInv`. `OnceInv`: the requests queued, accumulated
and executed are disjoint, and those waited for are among them. `LastInv`: while no round fails and
the context lasts no request offered is lost, and the worker is stopped only when all submitters
have left. `CountInv` relates the worker's counter to what it took, so that the request that fills
the count closes the last batch, and only that close is short without a timeout: both are what
`PointsAreComplete` needs.

**`EvaluationProofs`: Merkle trees.** The tree is built by recursive functions, and what they
compute is proved by an induction that takes a set and not a predicate: `SetInduction` says that a
set which contains 0 and the successor of each of its numbers contains them all, because strict
inclusion is well-founded on finite sets of numbers. With it each recursive function of the model
exists and satisfies its definition (`WidthsDefined`, `PathDefined`, `LevelsDefined` of
`LevelsOver`, `ClimbedDefined`), widths shrink to one within as many levels as there are leaves
(`WidthFacts`, `DepthFacts`), and a path stays inside its levels (`PathFacts`).
- `LeavesProved`: climbing from a leaf by its proof gives, level by level, the node on its path
  (`ParentIs` is the step, promoted nodes included), so the last is the root.
- `ProofBinds`: a step of the climb is injective, hence so is the climb.
- `UpdateIsRebuild`: above a level with one node written, one node is written (`NextOfWritten`),
  which is what `update.go` says of promotion; so the levels written in place are those built anew.
  Only hashes that are equal as terms are equal, as SHA-256 is taken to behave.
- `RootNames`: trees with one root are over the same leaves, also when they have different numbers
  of them. The left edge of a tree is never promoted, so following left children from the root
  counts its levels (`Leftmost`, `Shaped`); two trees with one root are therefore equally deep.
  Level by level downwards the nodes are then the same (`LevelBinds`): an inner node is a pair and a
  leaf hash is not, and if one level had an odd number of nodes and the other one more, the node
  promoted from the one would be a pair in the other (`OddIsNotEven`), deeper than its level allows.
- `UpdatesMatchRebuild` puts these together for a tree under any sequence of updates.

**`EvaluationProofs`: the ledger of Ref[10].** `LedgerInv` says that the chain is one: each block
has the tree of its transactions, and each transaction of the data set is where `txLoc` says.
`InitialChain` establishes it for any order and block size, the last block short.
- `HistoriesComplete`: pruning raises a version and puts its redaction between the two locks,
  appending moves the redaction from there to the chain, and nothing else touches the two sets that
  `Complete` counts. It is inductive together with `LedgerInv`.
- `HonestAuditsPass` needs `SoundInv`. `Referenced` is what survives the gap between the locks: a
  pruned transaction names a request whose redaction transaction is in the chain or about to be
  appended, and in the second case the audit is one that looked midway. `Recording` says that a
  redaction transaction is never itself pruned, carries approvals that verify, and that its
  identifier leads to it or to a later redaction of the same request. The inclusion proofs of both
  halves of a transaction hold by `LeavesProved`, whatever the size of the block.
- `LedgerTyped` is what `TypeOK` needs beside the two: an identifier leads to a transaction of that
  identifier, and what a redaction recorded as old is the hash of a reference.

**`EvaluationProofs`: policies.** `PoliciesParsed` is about policies of any length.
- The parser is a recursive function over rule and position, and calls itself at the same position
  with a tighter rule and further right with any. `Settled` says that a candidate is what the
  definition makes of it at a position; counting positions down, a candidate that is settled behind
  a position (`ParsesBehind`) can be settled at it too, so the function exists and is its
  definition. The grammar, a relation over spans, is defined by the length of the span in the same
  way.
- The grammar may split a chain `x AND y AND z` anywhere, the parser reads it from the left.
  `ChainBegins` and `FirstOperand` rearrange a derivation so that it splits behind its first
  operand.
- `Reads` is the invariant of the descent: from a position the parser finds exactly the spans which
  the grammar derives and which no operator of the rule continues (`Free`). It is proved from the
  last position to the first, at each for a term, then AND, then OR. That a policy has one value at
  most is a consequence.

**`SequenceChainProofs`.** `Inv` says that the chain is linked and its blocks open their hashes
(`IsChain`), that chain and accumulator hold the same versions (`Accumulates`), that a cached
witness is of the accumulator as it is (`CacheSound`), and that the last deletion stands
(`DeletionStands`): no block left has the number of one it took, so a later redaction cannot bring
an element of it back. `ChainBuilt` and `SurvivorsKept` are inductions over the data set and the
chain, by `SetInduction`. The step that needs an argument is `DeleteStep`: a block whose predecessor
went is behind a maximal run (`RunEndingAt`) and takes the hash of the last block before it
(`PredecessorPrecedes`), one whose predecessor stayed keeps a link that is still right
(`OthersStayLinked`). Assumed are `OrderedDataset`, a sequence, and `OneDeletion`: after a deletion
positions and sequence numbers differ, which `Delete` takes for the same (`ledger.go:345`); every
test deletes once from its chain, and the experiments never do. `SupersededGone` proves
`OnlyCurrentAccumulated`, `ChainStaysValid` proves `ChainVerifies`, for any number of redactions
before and after.

`TypeCorrect` needs besides that the versions of the chain are those counted (`Typed`).

**`BindingTreeProofs`.** `IInv` has three parts. `TreeBound`: each node of the tree commits to its
vector, which holds its block and the commitments of its children as they are. A redaction breaks
the link of the block's node to its parent and climbs to the root restoring one link at a time
(`Recommitted`); the path is a recursive function again, and the nodes off it keep their links.
`GrantsKnown`: what was authorized names a block. `AnswerComplete`: what a light node was given
opens the path of every block it was given; without it nothing would follow from an answer that it
accepts, and it is stated of answers from before a redaction too. `AuditsAccepted` and
`AnswersCurrent` follow: an answer accepted against the current root agrees with the tree on every
node of the path, hence on the content.

**`EvaluationProofs`: the sweeps.** `PointsAreFresh` is about the three experiments, whatever their
axes.
- Experiment 1: `RatesInv`. The cells are fixed and each listed once (`SweepFixed`); the scheme is
  in the configuration of the cell under way, although only the knobs that differ are set between
  cells (`InConfiguration`); what was granted, denied, failed and is being asked for adds up to what
  was drawn, and while nothing was cancelled and the caller's context has not ended nobody leaves
  before the trace is drawn (`EveryRequestDrawn`), which is why a point not interrupted has an answer
  to every request; every contract round was opened by a cell that is not behind the present
  one, under its tag (`RoundsNamed`), and tags of different cells of one transport differ, so no
  round is opened twice (`RoundsApart`).
- Experiments 2 and 3: `ArmsInv`. Each host is busy with an arm of its own (`StateOK`), its points
  list exactly the units it has finished, each once (`Counts`), and each point is fresh
  (`FreshPoint`): every target of the workload was redacted, or the audit found the history of its
  label.
- `ArmsOnceBetweenHosts`: an arm belongs to the host that its index gives modulo the number of
  hosts, and the index counts the arms of the whole sweep on every host. Nothing is measured twice
  because names of units are injective (`UnitNameOnce`); that nothing is left out is a bijection
  between the points of all hosts and arms, repetitions and depths.

**`EvaluationProofs`: merging.** `ClaimsPooled`: after each document, what is kept of a scheme is
one of the verdicts read so far, broken if any of them is, and otherwise of the largest ratio. The
order of the documents is arbitrary, the invariant speaks of the set of those read.

**`EvaluationProofs`: the parts together.** `TreeIsFollowed`, `ChainIsValid` and `OldVersionsGone`
carry the theorems of `BindingTreeProofs` and `SequenceChainProofs` over to the instances that the
run checks, and `PartsAreTyped` collects the types of all parts. A step of `EvaluationNext` is a
step of one part and a stutter of the others.

**Model-checked only.** All liveness (`AnchorsReachChain`, `ChangeReturns`, `AnswersEverybody`,
`RunEnds`), which like `ENABLED` is beyond the prover. The runs that find a violation show it on
their instance, which is all that a counterexample needs to do.

## 5. Not modelled

- Cryptography: proofs, chameleon hashes, commitments, accumulators and signatures stand
  for what they attest. `pvl.Verify` without a service, which only tests call.
- The zero-knowledge circuit and its registry, and the predicates it proves.
- Checks of the gateway that fail before it touches its state (signature, time
  stamp, policy), and the failure of `MarshalProof` in `Authorize`, which writes to memory.
- Statistics of an audit (blocks traversed), latencies, saturation of resources, result
  files and their formats, plots, configuration parsing and its validation, deployment scripts.
- Two errors inside a round, which cannot occur there: `AppendAnchor` refuses only a
  missing anchor (`ledger.go:312-314`, the other error is of a tree without leaves), and
  `Commit` has just returned one; `StoreEvidence` refuses a missing statement or proof,
  which the pass at the head of `Run` has excluded, or a missing identifier, which every
  admitted request has.
- `PrepareTrace` drops the attribution of earlier grants together with the gateway; the
  attribution property is about the gateway that granted.
- Fabric itself beyond read-set validation and delivery: one channel, one order, no peers
  that lag. The chaincode's own evaluator of policies.
- A second deletion from a chain of Ref[22], and audits of it that run at once: nothing in
  the repository does either.
- `-levels` that names every configured level, which the code treats as a partial sweep.
- The auditor registry: planned, below.

## 6. Plan

Done: every module of section 2 and the proofs of section 4.

Next, in this order:

1. `AuditorRegistry`: nonces, and policies read before the evidence is.
2. Composition of admission and verification around one `Authorize`.
