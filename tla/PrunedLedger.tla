---------------------------- MODULE PrunedLedger ----------------------------
(***************************************************************************)
(* The ledger of Ref[10] (internal/schemes/ref10: emt.go, scheme.go): each *)
(* block holds a Merkle tree over the core and the redactable hash of its  *)
(* transactions; a redaction prunes the redactable part to a reference and *)
(* then appends, under a second lock, the transaction it refers to.        *)
(*                                                                         *)
(* Redactions and audits run concurrently.  A request may be authorized    *)
(* and redacted again: the experiments replay one trace.                   *)
(***************************************************************************)
EXTENDS Naturals, Sequences, FiniteSets, SequencesExt, MerkleTree

CONSTANTS
    Dataset,            \* The transactions, and Order, a sequence of it
    Order,
    Requests,           \* Request identifiers
    Target,             \* Target[r]: the transaction a request is about
    Nodes,              \* The committee members whose signatures make up Sigma
    BlockSize, Threshold,
    Redactors, Auditors,  \* Goroutines in Redact and in Audit
    MaxGrants,          \* Authorizations granted
    MaxAudits,          \* Audits started
    Genesis, None

ASSUME BoundAssumption ==
    /\ BlockSize \in Nat \ {0} /\ Threshold \in Nat \ {0}
    /\ MaxGrants \in Nat /\ MaxAudits \in Nat

\* Order has every transaction of the dataset.
ASSUME OrderAssumption ==
    Len(Order) > 0 /\ Order \in Seq(Dataset) /\ Dataset \subseteq ToSet(Order)

\* A redaction transaction has an identifier of its own, "tx-rdt-" and the
\* request's; None is no identifier.
ASSUME RequestAssumption ==
    Target \in [Requests -> Dataset] /\ Requests \cap Dataset = {} /\ None \notin Requests

ASSUME RedactorAssumption == IsFiniteSet(Redactors)

VARIABLES
    blocks,             \* ledger.blocks
    txLoc,              \* ledger.txLoc
    rounds,             \* Scheme.rounds: the approvals of each granted request
    granted,            \* Authorizations not yet handed to Redact
    grants, audits,     \* Counters of the bounds
    worker,             \* Each Redact call: the record it makes and how far it is
    auditor             \* Each Audit call

vars == <<blocks, txLoc, rounds, granted, grants, audits, worker, auditor>>

-----------------------------------------------------------------------------
(* Blocks *)

\* hashTx
HashTx(hc, hw) == <<hc, hw>>

\* An original redactable part is None, a pruned one names the request whose
\* redaction transaction it refers to (redactionReference).
Tx(id, kind, core, rdt) ==
    [id |-> id, kind |-> kind, core |-> core, w |-> None,
     hc |-> HashLeaf(core), hw |-> HashLeaf(None),
     htx |-> HashTx(HashLeaf(core), HashLeaf(None)), version |-> 0, rdt |-> rdt]

\* leaves: the core and the redactable hash of each transaction, interleaved.
Leaves(txs) ==
    [i \in 1 .. 2 * Len(txs) |->
        IF i % 2 = 1 THEN txs[(i + 1) \div 2].hc ELSE txs[i \div 2].hw]

\* Faulty variant of Rebuilt: the tree is not recomputed.
NotRebuilt(block) == block

\* rebuild
Rebuilt(block) == [block EXCEPT !.tree = NewFromHashes(Leaves(block.txs))]

NewBlock(txs) == [txs |-> txs, tree |-> NewFromHashes(Leaves(txs))]

Normal(id) == Tx(id, "normal", id, None)

\* newLedger cuts the dataset into blocks of BlockSize, the last one shorter.
Count == (Len(Order) + BlockSize - 1) \div BlockSize

Slice(b) ==
    SubSeq(Order, (b - 1) * BlockSize + 1,
           IF b * BlockSize < Len(Order) THEN b * BlockSize ELSE Len(Order))

OriginalBlock(b) == NewBlock([i \in 1 .. Len(Slice(b)) |-> Normal(Slice(b)[i])])

GenesisBlock == NewBlock(<<Tx(Genesis, "genesis", Genesis, None)>>)

InitialBlocks == <<GenesisBlock>> \o [b \in 1 .. Count |-> OriginalBlock(b)]

Locations(chain) ==
    {l \in (1 .. Len(chain)) \X (1 .. BlockSize) : l[2] <= Len(chain[l[1]].txs)}

\* A position per id; an id that is appended again moves to its new block.
LocationOf(chain, id) ==
    CHOOSE l \in Locations(chain) :
        /\ chain[l[1]].txs[l[2]].id = id
        /\ \A m \in Locations(chain) : chain[m[1]].txs[m[2]].id = id => m[1] <= l[1]

Ids(chain) == {chain[l[1]].txs[l[2]].id : l \in Locations(chain)}

At(l) == blocks[l[1]].txs[l[2]]

\* lookup, of an id that is there
Lookup(id) == At(txLoc[id])

-----------------------------------------------------------------------------
(* Authorize and Redact *)

Sigmas == {s \in SUBSET Nodes : Cardinality(s) >= Threshold}

\* verifySigma: enough distinct members approved.
VerifySigma(sigma) == Cardinality(sigma) >= Threshold

\* Authorize reads the version, collects the votes and remembers the round.
\* Voting is VoteRounds; here it ends with some Sigma.
Authorize(r) ==
    /\ grants < MaxGrants
    /\ \E sigma \in Sigmas :
        /\ rounds' = [rounds EXCEPT ![r] = sigma]
        /\ granted' = granted \cup
            {[request |-> r, version |-> Lookup(Target[r]).version, evidence |-> sigma]}
    /\ grants' = grants + 1
    /\ UNCHANGED <<blocks, txLoc, audits, worker, auditor>>

Idle == [pc |-> "idle", rdt |-> None]

\* The record a redaction will append.
RedactionTx(a, old) ==
    [request |-> a.request, target |-> Target[a.request], old |-> old,
     from |-> a.version, to |-> a.version + 1, evidence |-> a.evidence]

\* Redact re-verifies Sigma and looks up what the target holds.
StartRedact(w, a) ==
    /\ worker[w].pc = "idle"
    /\ a \in granted
    /\ VerifySigma(rounds[a.request])
    /\ granted' = granted \ {a}
    /\ worker' = [worker EXCEPT ![w] =
                    [pc |-> "apply", rdt |-> RedactionTx(a, Lookup(Target[a.request]).hw)]]
    /\ UNCHANGED <<blocks, txLoc, rounds, grants, audits, auditor>>

\* Faulty variant of Pruned: only the first pruning is a new version.
PrunedOnce(tx, r) ==
    [tx EXCEPT !.w = r, !.hw = HashLeaf(r), !.htx = HashTx(tx.hc, HashLeaf(r)), !.version = 1]

\* What pruning does to a transaction.
Pruned(tx, r) ==
    [tx EXCEPT !.w = r, !.hw = HashLeaf(r), !.htx = HashTx(tx.hc, HashLeaf(r)),
               !.version = @ + 1]

\* The block after its transaction i is pruned, its tree recomputed.
PrunedBlock(block, i, r) == Rebuilt([block EXCEPT !.txs = [block.txs EXCEPT ![i] = Pruned(block.txs[i], r)]])

\* Later blocks keep what they have.
Apply(chain, l, r) == [chain EXCEPT ![l[1]] = PrunedBlock(chain[l[1]], l[2], r)]

\* applyRedaction
ApplyRedaction(w) ==
    /\ worker[w].pc = "apply"
    /\ LET rdt == worker[w].rdt
       IN  blocks' = Apply(blocks, txLoc[rdt.target], rdt.request)
    /\ worker' = [worker EXCEPT ![w].pc = "append"]
    /\ UNCHANGED <<txLoc, rounds, granted, grants, audits, auditor>>

Located(loc, id, l) == [k \in DOMAIN loc \cup {id} |-> IF k = id THEN l ELSE loc[k]]

\* appendRedactionTx: a block of its own, under the lock taken a second time.
AppendRedactionTx(w) ==
    /\ worker[w].pc = "append"
    /\ LET rdt == worker[w].rdt
           id == rdt.request
       IN  /\ blocks' = Append(blocks, NewBlock(<<Tx(id, "redaction", rdt, rdt)>>))
           /\ txLoc' = Located(txLoc, id, <<Len(blocks) + 1, 1>>)
    /\ worker' = [worker EXCEPT ![w] = Idle]
    /\ UNCHANGED <<rounds, granted, grants, audits, auditor>>

-----------------------------------------------------------------------------
(* Audit *)

\* scanForRedactions: every redaction transaction that names the target.
Scan(t) ==
    {l \in Locations(blocks) : At(l).kind = "redaction" /\ At(l).rdt.target = t}

\* The reference of a pruned transaction leads to its redaction transaction,
\* and only a redacted transaction has one.
ReferenceHolds(tx) ==
    /\ tx.version > 0 <=> tx.w # None
    /\ tx.w # None =>
        /\ tx.w \in DOMAIN txLoc
        /\ Lookup(tx.w).kind = "redaction"
        /\ Lookup(tx.w).rdt.target = tx.id

\* verifyEMT: hashes recomputed, the reference resolved, both leaves proved.
VerifyEMT(id) ==
    /\ id \in DOMAIN txLoc
    /\ LET l == txLoc[id]
           tx == At(l)
           tree == blocks[l[1]].tree
       IN  /\ HashLeaf(tx.core) = tx.hc /\ HashLeaf(tx.w) = tx.hw
           /\ HashTx(tx.hc, tx.hw) = tx.htx
           /\ ReferenceHolds(tx)
           /\ VerifyHash(Root(tree), tx.hc, Proof(tree, 2 * (l[2] - 1)))
           /\ VerifyHash(Root(tree), tx.hw, Proof(tree, 2 * (l[2] - 1) + 1))

Resting == [pc |-> "idle", target |-> None, found |-> {}, verified |-> TRUE, midway |-> FALSE]

\* A redaction of t has pruned it and not yet appended its transaction.
Midway(t) == \E w \in Redactors : worker[w].pc = "append" /\ worker[w].rdt.target = t

StartAudit(a, t) ==
    /\ auditor[a].pc \in {"idle", "done"}
    /\ audits < MaxAudits
    /\ audits' = audits + 1
    /\ auditor' = [auditor EXCEPT ![a] =
                    [Resting EXCEPT !.pc = "target", !.target = t, !.found = Scan(t)]]
    /\ UNCHANGED <<blocks, txLoc, rounds, granted, grants, worker>>

\* The target first; a failure ends the audit.
VerifyTarget(a) ==
    /\ auditor[a].pc = "target"
    /\ LET t == auditor[a].target
       IN  auditor' = [auditor EXCEPT
                ![a].verified = VerifyEMT(t), ![a].midway = Midway(t),
                ![a].pc = IF VerifyEMT(t) /\ auditor[a].found # {} THEN "records" ELSE "done"]
    /\ UNCHANGED <<blocks, txLoc, rounds, granted, grants, audits, worker>>

\* verifyRedactionRecords: each record's inclusion and its Sigma.
VerifyRecord(a) ==
    /\ auditor[a].pc = "records"
    /\ LET l == CHOOSE m \in auditor[a].found : \A n \in auditor[a].found : m[1] <= n[1]
           good == VerifyEMT(At(l).id) /\ VerifySigma(At(l).rdt.evidence)
           rest == auditor[a].found \ {l}
       IN  auditor' = [auditor EXCEPT
                ![a].verified = good, ![a].found = rest,
                ![a].pc = IF good /\ rest # {} THEN "records" ELSE "done"]
    /\ UNCHANGED <<blocks, txLoc, rounds, granted, grants, audits, worker>>

-----------------------------------------------------------------------------

Init ==
    /\ blocks = InitialBlocks
    /\ txLoc = [id \in Ids(InitialBlocks) |-> LocationOf(InitialBlocks, id)]
    /\ rounds = [r \in Requests |-> {}]
    /\ granted = {}
    /\ grants = 0
    /\ audits = 0
    /\ worker = [w \in Redactors |-> Idle]
    /\ auditor = [a \in Auditors |-> Resting]

Next ==
    \/ \E r \in Requests : Authorize(r)
    \/ \E w \in Redactors : ApplyRedaction(w) \/ AppendRedactionTx(w)
    \/ \E w \in Redactors, a \in granted : StartRedact(w, a)
    \/ \E a \in Auditors : VerifyTarget(a) \/ VerifyRecord(a)
    \/ \E a \in Auditors, t \in Dataset : StartAudit(a, t)

Spec == Init /\ [][Next]_vars

-----------------------------------------------------------------------------
(* Properties *)

Evidence == SUBSET Nodes
Records ==
    [request : Requests, target : Dataset, old : {HashLeaf(w) : w \in Requests \cup {None}},
     from : Nat, to : Nat, evidence : Evidence]

\* Every variable has its type, and an id leads to a transaction of that id
\* (emt.go).
TypeOK ==
    /\ \A l \in Locations(blocks) :
        /\ At(l).kind \in {"genesis", "normal", "redaction"}
        /\ At(l).w \in Requests \cup {None}
        /\ At(l).kind = "redaction" => At(l).rdt \in Records
    /\ \A id \in DOMAIN txLoc : txLoc[id] \in Locations(blocks) /\ Lookup(id).id = id
    /\ rounds \in [Requests -> Evidence]
    /\ \A a \in granted : a.request \in Requests /\ a.evidence \in Sigmas
    /\ \A w \in Redactors : worker[w].pc \in {"idle", "apply", "append"}
    /\ \A w \in Redactors : worker[w].pc # "idle" => worker[w].rdt \in Records
    /\ \A a \in Auditors : auditor[a].pc \in {"idle", "target", "records", "done"}
    /\ grants \in 0 .. MaxGrants /\ audits \in 0 .. MaxAudits

\* No audit rejects a ledger that nobody tampered with, however often a request
\* was redacted, except one that looks at its target between a redaction's two
\* locks (Redact, scheme.go:528-532; verifyEMT, scheme.go:681-684).
AuditRejectsOnlyMidway ==
    \A a \in Auditors : auditor[a].pc = "done" /\ ~auditor[a].verified => auditor[a].midway

\* A transaction's version is the number of redaction transactions the chain
\* holds about it and of those about to be appended: the scan finds its whole
\* history (scanForRedactions, emt.go:404-438; AuditResult.History).
HistoryComplete ==
    \A t \in Dataset :
        Lookup(t).version =
            Cardinality(Scan(t))
              + Cardinality({w \in Redactors : worker[w].pc = "append" /\ worker[w].rdt.target = t})
=============================================================================
