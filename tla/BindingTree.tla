---------------------------- MODULE BindingTree ----------------------------
(***************************************************************************)
(* The block authentication tree of Ref[13] (internal/schemes/ref13): a    *)
(* q-ary tree of vector commitments over the digests of a chain of         *)
(* chameleon-hashed blocks.  A redaction finds a collision, so the chain   *)
(* stands, and binds the new digest on the path to the root.               *)
(*                                                                         *)
(* Commitments, hashes and collisions are symbolic: a commitment is the    *)
(* vector it commits to, a chameleon hash is what it was first made from,  *)
(* and randomness is what it opens that hash to.  Nodes are numbered from  *)
(* 0, the root, as in the source; positions of a vector from 1, as there.  *)
(***************************************************************************)
EXTENDS Naturals, Sequences, FiniteSets, SequencesExt

CONSTANTS
    Order,              \* The transactions of the dataset, one block each
    Contents,           \* What a redactable part may hold
    Original,           \* What every one holds at first
    Arities,            \* The values of arity_q of the sweep
    Z,                  \* challenged_blocks
    Optimized,          \* optimized_auditing
    MaxSetups, MaxGrants, MaxRedactions, MaxAudits,
    Nothing

\* What the theorems assume of the constants: a dataset, arities of two and
\* more (bat.go:56), challenges of one block at least (audit.go:89), and that
\* what every block holds at first is a content.
Auditable ==
    /\ Order \in Seq(ToSet(Order))
    /\ Original \in Contents
    /\ MaxRedactions \in Nat
    /\ Arities \subseteq Nat \ {0, 1}
    /\ Z \in Nat \ {0}

VARIABLES
    setups, redactions, audits,     \* Counters of the bounds
    q,                  \* Scheme.arityQ; 0 before Setup
    prevHash,           \* Scheme.prevHash: the hash of the last block
    chain,              \* Scheme.blocks, by sequence number
    version,            \* Scheme.versions
    bat,                \* BAT.nodes, by node number
    authorized,         \* Grants, which the experiments may replay
    light               \* The last audit of a light node: what it was given

vars == <<setups, redactions, audits, q, prevHash, chain, version, bat, authorized, light>>

Blocks == 1 .. Len(Order)

-----------------------------------------------------------------------------
(* The numbering of a q-ary tree *)

Parent(s, arity) == (s - 1) \div arity

\* Path: s, then each ancestor, ending at the root.
Path(s, arity) ==
    LET up[i \in 0 .. s] == IF i = 0 THEN <<0>> ELSE <<i>> \o up[Parent(i, arity)]
    IN  up[s]

Level(s, arity) == Len(Path(s, arity)) - 1

\* Position 1 of a vector is the node's own, its children follow.
ChildPosition(i, arity) == ((i - 1) % arity) + 2

Children(i, arity) == [c \in 1 .. arity |-> arity * i + c]

-----------------------------------------------------------------------------
(* The tree *)

PlaceholderScalar(child) == [placeholder |-> child]
ChildScalar(commitment) == [child |-> commitment]
Unbound == [unbound |-> TRUE]

Commit(vector) == [commits |-> vector]

Node(vector, occupied) == [vector |-> vector, commitment |-> Commit(vector), occupied |-> occupied]

Empty(i, arity) ==
    Node(<<Unbound>> \o [c \in 1 .. arity |-> PlaceholderScalar(Children(i, arity)[c])], FALSE)

\* Faulty variant of Recommit: the vector without its commitment.
RecommitVectorOnly(nodes, i, arity) ==
    [nodes EXCEPT ![Parent(i, arity)].vector[ChildPosition(i, arity)] =
        ChildScalar(nodes[i].commitment)]

\* The parent of i commits to what i now is.
Recommit(nodes, i, arity) ==
    LET p == Parent(i, arity)
        vector == [nodes[p].vector EXCEPT ![ChildPosition(i, arity)] =
                        ChildScalar(nodes[i].commitment)]
    IN  [nodes EXCEPT ![p] = Node(vector, nodes[p].occupied)]

\* Faulty variant of RefreshPath: the parent of s and nothing above it.
RefreshParent(nodes, s, arity) == IF s = 0 THEN nodes ELSE Recommit(nodes, s, arity)

\* refreshPath: every ancestor of s, in order.
RefreshPath(nodes, s, arity) ==
    LET path == Path(s, arity)
        refreshed[k \in 0 .. Len(path)] ==
            IF k = 0 THEN nodes
            ELSE IF path[k] = 0 THEN refreshed[k - 1]
            ELSE Recommit(refreshed[k - 1], path[k], arity)
    IN  refreshed[Len(path)]

\* ensure: node i and every node before it.
Ensure(nodes, i, arity) ==
    LET grown[n \in 0 .. i] ==
            LET before == IF n = 0 THEN nodes ELSE grown[n - 1]
            IN  IF n \in DOMAIN before THEN before
                ELSE RefreshPath([k \in DOMAIN before \cup {n} |->
                                    IF k = n THEN Empty(n, arity) ELSE before[k]], n, arity)
    IN  grown[i]

NewBAT(arity) == Ensure([k \in {} |-> Nothing], 0, arity)

\* Bind: node s commits to m, and every commitment up to the root follows.
Bind(nodes, s, m, arity) ==
    LET tree == Ensure(nodes, s, arity)
        bound == [tree EXCEPT ![s] = Node([tree[s].vector EXCEPT ![1] = m], TRUE)]
    IN  RefreshPath(bound, s, arity)

Root(nodes) == nodes[0].commitment

-----------------------------------------------------------------------------
(* Blocks *)

\* blockDigest: both halves of the content, the core as its transaction.
BlockDigest(seq, content) == <<Order[seq], content>>

BlockContext(seq, prev) == [seq |-> seq, prev |-> prev]

\* The randomness that opens value to digest, in its context.
Opening(ctx, digest, value) == [ctx |-> ctx, digest |-> digest, value |-> value]

\* Faulty variant of Adapt: the randomness of the old message is kept.
AdaptNothing(ctx, old, rnd, new) == rnd

\* EphemeralAdapt: a collision, for whoever has randomness that opened the old.
Adapt(ctx, old, rnd, new) ==
    IF rnd.ctx = ctx /\ rnd.digest = old THEN Opening(ctx, new, rnd.value)
    ELSE [rnd EXCEPT !.digest = Nothing]

ChameleonVerify(ctx, digest, rnd, value) == rnd = Opening(ctx, digest, value)

ChainHash(value) == [hash |-> value]

\* scalarOf: the digest of the content.
ScalarOf(block) == [digest |-> block.digest]

NewBlock(seq, prev) ==
    LET ctx == BlockContext(seq, prev)
        m == BlockDigest(seq, Original)
        value == [of |-> m, after |-> prev]
    IN  [prevHash |-> prev, content |-> Original, digest |-> m,
         randomness |-> Opening(ctx, m, value), value |-> value]

\* build: one block per transaction, each bound as it is appended.  The chain
\* hash goes on from where an earlier Setup of the same scheme left it.
Build(arity, prev) ==
    LET built[n \in 0 .. Len(Order)] ==
            IF n = 0 THEN [blocks |-> <<>>, tree |-> NewBAT(arity), prev |-> prev]
            ELSE LET before == built[n - 1]
                     block == NewBlock(n, before.prev)
                 IN  [blocks |-> Append(before.blocks, block),
                      tree   |-> Bind(before.tree, n, ScalarOf(block), arity),
                      prev   |-> ChainHash(block.value)]
    IN  built[Len(Order)]

\* Setup refuses a sample larger than the dataset.
Setup(arity) ==
    /\ setups < MaxSetups
    /\ Z <= Len(Order)
    /\ setups' = setups + 1
    /\ q' = arity
    /\ LET built == Build(arity, prevHash)
       IN  chain' = built.blocks /\ bat' = built.tree /\ prevHash' = built.prev
    /\ version' = [s \in Blocks |-> 0]
    /\ authorized' = {}
    /\ light' = Nothing
    /\ UNCHANGED <<redactions, audits>>

Authorize(s, content) ==
    /\ q # 0
    /\ Cardinality(authorized) < MaxGrants
    /\ authorized' = authorized \cup {[seq |-> s, version |-> version[s], content |-> content]}
    /\ UNCHANGED <<setups, redactions, audits, q, prevHash, chain, version, bat, light>>

\* Redact, for one entry of its batch: the batch is worked off under the lock.
\* An entry whose version is no longer the block's is left out.
Redact(a) ==
    /\ redactions < MaxRedactions
    /\ a \in authorized
    /\ version[a.seq] = a.version
    /\ redactions' = redactions + 1
    /\ LET b == chain[a.seq]
           ctx == BlockContext(a.seq, b.prevHash)
           m == BlockDigest(a.seq, a.content)
           block == [b EXCEPT !.content = a.content, !.digest = m,
                              !.randomness = Adapt(ctx, b.digest, @, m)]
       IN  /\ chain' = [chain EXCEPT ![a.seq] = block]
           /\ bat' = Bind(bat, a.seq, ScalarOf(block), q)
    /\ version' = [version EXCEPT ![a.seq] = @ + 1]
    /\ UNCHANGED <<setups, audits, q, prevHash, authorized, light>>

-----------------------------------------------------------------------------
(* Audits *)

Occupied == {i \in DOMAIN bat : bat[i].occupied}

\* The blocks a challenge is drawn from.
Pool ==
    IF ~Optimized THEN Occupied
    ELSE {i \in Occupied : \A j \in Occupied : Level(j, q) <= Level(i, q)}

\* SelectChallenged: Z different ones of the pool, or all of it.
Samples ==
    {s \in SUBSET Pool : Cardinality(s) = IF Z <= Cardinality(Pool) THEN Z ELSE Cardinality(Pool)}

\* The openings of the paths of what is challenged, each once.
Union(challenged) ==
    {<<s, 1>> : s \in challenged}
        \cup UNION {{<<Parent(i, q), ChildPosition(i, q)>> :
                        i \in {j \in ToSet(Path(s, q)) : j # 0}} : s \in challenged}

\* ProveAudit
ProveAudit(challenged) ==
    {[node |-> k[1], pos |-> k[2], commitment |-> bat[k[1]].commitment,
      value |-> bat[k[1]].vector[k[2]]] : k \in Union(challenged)}

\* evidenceFor
Evidence(s) ==
    [seq |-> s, prevHash |-> chain[s].prevHash, content |-> chain[s].content,
     randomness |-> chain[s].randomness, value |-> chain[s].value]

\* VerifyAudit: the trusted root, one commitment per node, children linked to
\* their parents, and each opening one of its commitment.
VerifyAudit(root, openings) ==
    /\ \E o \in openings : o.node = 0
    /\ \A o \in openings :
        /\ o.node = 0 => o.commitment = root
        /\ o.commitment.commits[o.pos] = o.value
        /\ \A c \in openings :
            /\ c.node = o.node => c.commitment = o.commitment
            /\ o.pos > 1 /\ c.node = Children(o.node, q)[o.pos - 1]
                => o.value = ChildScalar(c.commitment)

\* verifyBlock: the content hashes to what the openings proved, and to ch.
VerifyBlock(ev, openings) ==
    LET digest == BlockDigest(ev.seq, ev.content)
    IN  /\ \E o \in openings :
            /\ o.node = ev.seq /\ o.pos = 1
            /\ o.value = ScalarOf([digest |-> digest, value |-> ev.value])
        /\ ChameleonVerify(BlockContext(ev.seq, ev.prevHash), digest, ev.randomness, ev.value)

Accepted(root, given) ==
    /\ VerifyAudit(root, given.openings)
    /\ \A ev \in given.evidence : VerifyBlock(ev, given.openings)

Given(challenged) ==
    [openings |-> ProveAudit(challenged), evidence |-> {Evidence(s) : s \in challenged},
     sampled |-> FALSE]

\* A block query.
Query(s) ==
    /\ q # 0
    /\ audits < MaxAudits
    /\ audits' = audits + 1
    /\ light' = Given({s})
    /\ UNCHANGED <<setups, redactions, q, prevHash, chain, version, bat, authorized>>

\* A blockchain audit.
Audit(challenged) ==
    /\ q # 0
    /\ audits < MaxAudits
    /\ audits' = audits + 1
    /\ light' = [Given(challenged) EXCEPT !.sampled = TRUE]
    /\ UNCHANGED <<setups, redactions, q, prevHash, chain, version, bat, authorized>>

-----------------------------------------------------------------------------

Init ==
    /\ setups = 0 /\ redactions = 0 /\ audits = 0
    /\ q = 0
    /\ prevHash = Nothing
    /\ chain = <<>>
    /\ version = [s \in Blocks |-> 0]
    /\ bat = [k \in {} |-> Nothing]
    /\ authorized = {}
    /\ light = Nothing

Next ==
    \/ \E arity \in Arities : Setup(arity)
    \/ \E s \in Blocks : Query(s) \/ \E content \in Contents : Authorize(s, content)
    \/ \E a \in authorized : Redact(a)
    \/ q # 0 /\ \E challenged \in Samples : Audit(challenged)

Spec == Init /\ [][Next]_vars

-----------------------------------------------------------------------------
(* Properties *)

\* Every variable has its type; the tree has a node for each block and the
\* root, and every node's commitment is of its vector.
TypeOK ==
    /\ q \in Arities \cup {0}
    /\ q # 0 => /\ Len(chain) = Len(Order)
                /\ DOMAIN bat = 0 .. Len(Order)
                /\ Occupied = Blocks
    /\ \A i \in DOMAIN bat : Len(bat[i].vector) = q + 1 /\ bat[i].commitment = Commit(bat[i].vector)
    /\ \A s \in DOMAIN chain : chain[s].content \in Contents
    /\ version \in [Blocks -> 0 .. MaxRedactions]

\* Whatever was redacted, in whatever order and however often the scheme was
\* set up again, every block and every sample of blocks passes both equations
\* against the root: a redaction of one block never costs another its proof
\* (redact_sequence_test.go; refreshPath, EphemeralAdapt, VerifyAudit).
AuditAccepts ==
    q # 0 => \A challenged \in {{s} : s \in Blocks} \cup Samples :
                Accepted(Root(bat), Given(challenged))

\* A light node that holds the current root does not accept an answer it was
\* given before a redaction of a block in it: what it accepts is what the
\* chain holds now (wiring.go:196-207).
LightNodeSeesCurrent ==
    light # Nothing /\ Accepted(Root(bat), light) =>
        \A ev \in light.evidence : ev.content = chain[ev.seq].content

\* An audit challenges as many blocks as are configured (scheme.go:151-160).
SampleAsConfigured ==
    light # Nothing /\ light.sampled => Cardinality(light.evidence) = Z
=============================================================================
