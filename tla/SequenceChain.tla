--------------------------- MODULE SequenceChain ---------------------------
(***************************************************************************)
(* The redactable chain of Ref[22] (internal/schemes/ref22): blocks under  *)
(* a chameleon hash, linked by it, and a universal accumulator over the    *)
(* versions that count.  A redaction finds a collision and exchanges one   *)
(* accumulated version for another; a deletion excises runs of blocks and  *)
(* re-links what follows them.                                             *)
(*                                                                         *)
(* Symbolic: a chameleon hash is named by the block it was made for, its   *)
(* checking string by what it opens the hash to; the accumulator is the    *)
(* set of its elements (the regulator holds the group order), a witness    *)
(* the set without the element.  Positions of the chain start at 0, as in  *)
(* the source.  A deletion is of a set of positions.                       *)
(***************************************************************************)
EXTENDS Naturals, Sequences, FiniteSets, SequencesExt

CONSTANTS
    Order,              \* The transactions of the dataset, one block each
    Payloads,           \* What a redactable part may hold
    Original,
    MaxGrants, MaxRedactions,
    MaxDeletes,         \* Calls of DeleteSet
    Nothing

\* What the theorems assume of the constants: the dataset is a sequence, and
\* there is one deletion at most (behind it positions and sequence numbers
\* differ, which Delete takes for the same).
OrderedDataset == Order \in Seq(ToSet(Order))

OneDeletion == MaxDeletes \in 0 .. 1

\* And, of the types alone: a dataset holds payloads.
TypedConstants == MaxRedactions \in Nat /\ Original \in Payloads

VARIABLES
    ready,
    blocks,             \* ledger.blocks
    accumulated,        \* Accumulator.elements
    current,            \* ledger.current: witnesses, by element
    blockOf, versions,
    lastDeletion,
    grants,             \* Authorizations, which the experiments may replay
    audited,            \* What the last Audit returned
    redactions, deletes, granted    \* Counters of the bounds

vars == <<ready, blocks, accumulated, current, blockOf, versions, lastDeletion,
          grants, audited, redactions, deletes, granted>>

Seqs == 0 .. Len(Order) - 1

-----------------------------------------------------------------------------
(* Blocks *)

\* The string the chameleon hash covers.
Content(b) == [b EXCEPT !.check = Nothing]

\* One element per version of a block.
Element(b) == [seq |-> b.seq, merkle |-> b.merkle, payload |-> b.payload]

\* What the next block's linkage holds: the chameleon hash.
Hash(b) == [link |-> b.hash]

GenesisHash == [link |-> Nothing]

\* HGen and Adapt: the checking string that opens hash to content.
Checking(hash, content) == [hash |-> hash, opens |-> content]

Sealed(b) == [b EXCEPT !.check = Checking(b.hash, Content(b))]

ChameleonVerify(b) == b.check = Checking(b.hash, Content(b))

-----------------------------------------------------------------------------
(* The accumulator *)

\* Add and Delete: an element is in once, and only what is in goes.
AccAdd(set, e) == set \cup {e}

\* Faulty variant of AccDelete: the bookkeeping entry only.
AccDeleteNothing(set, e) == set

AccDelete(set, e) == set \ {e}

\* TrapdoorMembershipWitness, and MembershipWitness without the trapdoor.
MembershipWitness(set, e) == set \ {e}

VerifyMembership(set, witness, e) == e \in set /\ witness = set \ {e}

\* NonMembershipWitness exists, and then verifies.
NonMember(set, e) == e \notin set

NoWitnesses == [e \in {} |-> {}]

\* witnessFor: the cached witness, or a new one.
WitnessFor(e) == IF e \in DOMAIN current THEN current[e] ELSE MembershipWitness(accumulated, e)

-----------------------------------------------------------------------------
(* Setup *)

\* Append, to a chain and its accumulated elements.
AppendBlock(chain, set, tx) ==
    LET b == [prev |-> IF chain = <<>> THEN GenesisHash ELSE Hash(Last(chain)),
              merkle |-> tx, seq |-> Len(chain), payload |-> Original,
              accState |-> {}, witness |-> {}, check |-> Nothing, hash |-> Len(chain)]
        after == AccAdd(set, Element(b))
    IN  [blocks |-> Append(chain, Sealed([b EXCEPT !.accState = after, !.witness = set])),
         set |-> after]

Built ==
    LET built[n \in 0 .. Len(Order)] ==
            IF n = 0 THEN [blocks |-> <<>>, set |-> {}]
            ELSE AppendBlock(built[n - 1].blocks, built[n - 1].set, Order[n])
    IN  built[Len(Order)]

\* Finalize: every block's witness, once.
RegenerateWitnesses(chain, set) ==
    [e \in {Element(chain[i]) : i \in DOMAIN chain} |-> MembershipWitness(set, e)]

Setup ==
    /\ ~ready
    /\ ready' = TRUE
    /\ blocks' = Built.blocks
    /\ accumulated' = Built.set
    /\ current' = RegenerateWitnesses(Built.blocks, Built.set)
    /\ blockOf' = [tx \in ToSet(Order) |-> CHOOSE s \in Seqs : Order[s + 1] = tx]
    /\ versions' = [s \in Seqs |-> 0]
    /\ UNCHANGED <<lastDeletion, grants, audited, redactions, deletes, granted>>

-----------------------------------------------------------------------------
(* Redaction *)

\* Authorize reads the version, under no lock; a target that is not in the
\* chain is denied.
Authorize(tx, payload) ==
    /\ ready
    /\ granted < MaxGrants
    /\ tx \in DOMAIN blockOf
    /\ granted' = granted + 1
    /\ grants' = grants \cup {[tx |-> tx, payload |-> payload, version |-> versions[blockOf[tx]]]}
    /\ UNCHANGED <<ready, blocks, accumulated, current, blockOf, versions, lastDeletion,
                   audited, redactions, deletes>>

Adapted(b, payload) == Sealed([b EXCEPT !.payload = payload])

\* Faulty variant of Invalidated: witnesses outlive the state they are of.
InvalidatedNot(cache) == cache

Invalidated(cache) == NoWitnesses

\* Modify, of the block at a position: CH.Adapt, UA.Del, UA.Add.  When the old
\* version is not accumulated it fails with the block already changed.
Modify(pos, payload) ==
    LET b == blocks[pos + 1]
        new == Adapted(b, payload)
    IN  /\ blocks' = [blocks EXCEPT ![pos + 1] = new]
        /\ IF Element(b) \in accumulated
           THEN /\ accumulated' = AccAdd(AccDelete(accumulated, Element(b)), Element(new))
                /\ current' = Invalidated(current)
                /\ versions' = [versions EXCEPT ![pos] = @ + 1]
           ELSE UNCHANGED <<accumulated, current, versions>>

\* Redact, for one entry of its batch: the batch is worked off under the lock.
\* A stale entry is left out, and one whose position is past the end fails.
Redact(a) ==
    /\ redactions < MaxRedactions
    /\ a \in grants
    /\ a.version = versions[blockOf[a.tx]]
    /\ blockOf[a.tx] < Len(blocks)
    /\ redactions' = redactions + 1
    /\ Modify(blockOf[a.tx], a.payload)
    /\ UNCHANGED <<ready, blockOf, lastDeletion, grants, audited, deletes, granted>>

-----------------------------------------------------------------------------
(* Deletion *)

\* consecutiveRuns, each by its first and last position.
ConsecutiveRuns(positions) ==
    {run \in positions \X positions :
        /\ run[1] <= run[2] /\ run[1] .. run[2] \subseteq positions
        /\ run[2] + 1 \notin positions
        /\ \A p \in positions : p + 1 # run[1]}

\* The blocks left, in their order.
Survivors(removed) ==
    LET kept[n \in 0 .. Len(blocks)] ==
            IF n = 0 THEN <<>>
            ELSE IF blocks[n].seq \in removed THEN kept[n - 1]
            ELSE Append(kept[n - 1], blocks[n])
    IN  kept[Len(blocks)]

\* The last surviving block before a run, whose hash its successor will hold.
PredecessorHash(kept, seq) ==
    LET before == {i \in DOMAIN kept : kept[i].seq < seq}
    IN  IF before = {} THEN GenesisHash
        ELSE Hash(kept[CHOOSE i \in before : \A j \in before : j <= i])

\* Faulty variant of SuccessorOf: the run's own last position.
SuccessorWithin(kept, run) == {i \in DOMAIN kept : kept[i].seq = run[2]}

\* The first surviving block behind a run, if there is one.
SuccessorOf(kept, run) ==
    {i \in DOMAIN kept : kept[i].seq > run[2] /\ \A j \in 1 .. i - 1 : kept[j].seq < run[2]}

\* One adaptation behind each run.
Relinked(kept, runs) ==
    [i \in DOMAIN kept |->
        LET before == {run \in runs : i \in SuccessorOf(kept, run)}
        IN  IF before = {} THEN kept[i]
            ELSE Sealed([kept[i] EXCEPT
                    !.prev = PredecessorHash(kept, (CHOOSE run \in before : TRUE)[1])])]

RecordingElement(kept) == [record |-> Len(kept)]

\* DeleteSet and Delete, of a set of positions.
Delete(positions) ==
    /\ ready
    /\ deletes < MaxDeletes
    /\ positions # {}
    /\ \A p \in positions : p < Len(blocks)
    /\ deletes' = deletes + 1
    /\ LET gone == {Element(blocks[p + 1]) : p \in positions}
           bar == accumulated \ gone
           kept == Survivors(positions)
       IN  /\ blocks' = Relinked(kept, ConsecutiveRuns(positions))
           /\ accumulated' = AccAdd(bar, RecordingElement(kept))
           /\ lastDeletion' = [before |-> accumulated, bar |-> bar, eta1 |-> gone,
                               after |-> AccAdd(bar, RecordingElement(kept)),
                               etaI |-> RecordingElement(kept)]
    /\ current' = Invalidated(current)
    /\ UNCHANGED <<ready, blockOf, versions, grants, audited, redactions, granted>>

\* VerifyDeletion: the recorded states differ by what the proofs are of.
VerifyDeletion(p) == p.before = p.bar \cup p.eta1 /\ p.after = p.bar \cup {p.etaI}

-----------------------------------------------------------------------------
(* Validation *)

\* ValApp: the chameleon hash and the membership.
ValApp(b) ==
    /\ ChameleonVerify(b)
    /\ Element(b) \in accumulated
    /\ VerifyMembership(accumulated, WitnessFor(Element(b)), Element(b))

Linked(i) == blocks[i].prev = IF i = 1 THEN GenesisHash ELSE Hash(blocks[i - 1])

\* ValChain: the blocks visited, the failing one the last of them.
Visited ==
    LET bad == {i \in DOMAIN blocks : ~(Linked(i) /\ ValApp(blocks[i]))}
    IN  IF bad = {} THEN DOMAIN blocks ELSE {i \in DOMAIN blocks : \A j \in bad : i <= j}

ValChain == \A i \in DOMAIN blocks : Linked(i) /\ ValApp(blocks[i])

\* Audit, which caches the witnesses it has computed.
Audit ==
    /\ ready
    /\ audited' = [verified |-> ValChain, traversed |-> Cardinality(Visited)]
    /\ current' =
        [e \in DOMAIN current \cup ({Element(blocks[i]) : i \in Visited} \cap accumulated) |->
            WitnessFor(e)]
    /\ UNCHANGED <<ready, blocks, accumulated, blockOf, versions, lastDeletion, grants,
                   redactions, deletes, granted>>

-----------------------------------------------------------------------------

Init ==
    /\ ready = FALSE
    /\ blocks = <<>>
    /\ accumulated = {}
    /\ current = NoWitnesses
    /\ blockOf = [tx \in {} |-> 0]
    /\ versions = [s \in {} |-> 0]
    /\ lastDeletion = Nothing
    /\ grants = {}
    /\ audited = Nothing
    /\ redactions = 0 /\ deletes = 0 /\ granted = 0

Next ==
    \/ Setup
    \/ \E tx \in ToSet(Order), payload \in Payloads : Authorize(tx, payload)
    \/ \E a \in grants : Redact(a)
    \/ \E positions \in SUBSET Seqs : Delete(positions)
    \/ Audit

Spec == Init /\ [][Next]_vars

-----------------------------------------------------------------------------
(* Properties *)

Elements == [seq : Seqs, merkle : ToSet(Order), payload : Payloads] \cup [record : 0 .. Len(Order)]

\* Every variable has its type (ledger.go, scheme.go).
TypeOK ==
    /\ ready \in BOOLEAN
    /\ \A i \in DOMAIN blocks :
        /\ blocks[i].seq \in Seqs /\ blocks[i].hash \in Seqs
        /\ Element(blocks[i]) \in Elements
    /\ accumulated \subseteq Elements
    /\ DOMAIN current \subseteq Elements
    /\ ready => versions \in [Seqs -> 0 .. MaxRedactions]
    /\ redactions \in 0 .. MaxRedactions /\ deletes \in 0 .. MaxDeletes

\* The whole chain validates after any redactions and a deletion, with whatever
\* witnesses are cached: links, collisions and memberships are of one state
\* (Modify, Delete, witnessFor; ValChain).
ChainVerifies == ready => ValChain

\* Only the versions the chain holds now, and the records of deletions, are
\* accumulated: a superseded or deleted version can be proved gone
\* (ledger.go:222-225, 500-506; ValMod, ValDel), and what the last deletion
\* recorded still verifies.
OnlyCurrentAccumulated ==
    /\ \A e \in accumulated : "seq" \in DOMAIN e => \E i \in DOMAIN blocks : Element(blocks[i]) = e
    /\ lastDeletion # Nothing =>
        VerifyDeletion(lastDeletion) /\ \A e \in lastDeletion.eta1 : NonMember(accumulated, e)
=============================================================================
