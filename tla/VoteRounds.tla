----------------------------- MODULE VoteRounds -----------------------------
(***************************************************************************)
(* One voting round of Ref[10] over Fabric: the redaction chaincode of     *)
(* network/chaincode/redaction under the ordering and the read-set         *)
(* validation of Fabric, and the clients of internal/schemes/ref10 that    *)
(* register their nodes, submit ballots and close the round.               *)
(*                                                                         *)
(* A round is one contract address, which is one request.  Several         *)
(* clients may run it: a process started again after an error, or a second *)
(* host.  A key is a seed: every key of a run is derived from its seed.    *)
(*                                                                         *)
(* A transaction is simulated on the committed state (its endorsement),    *)
(* waits in the pool to be ordered, and commits only if everything it read *)
(* is still what it read.  Its submitter waits for that, or times out,     *)
(* and the transaction may then still commit.                              *)
(***************************************************************************)
EXTENDS Naturals, FiniteSets

CONSTANTS
    Clients,            \* Scheme instances, each with its own Setup
    Nodes,              \* Every identity of every dataset
    Rank,               \* Rank[n]: place of n by H(addr || id), ties by id
    Voters,             \* Nodes with one of the roles {S, R, V} of A_r
    CommitteeSize, Threshold,
    Deployments,        \* Which dataset, seed, certificate and transport each client has
    MaxAttempts,        \* Authorize calls of a client for this request
    MaxFaults,          \* Timeouts and failing members
    MaxCloses,          \* Close transactions submitted by others on the channel
    None

ASSUME CommitteeAssumption ==
    /\ CommitteeSize \in Nat \ {0} /\ Threshold \in 1 .. CommitteeSize
    /\ 2 * Threshold > CommitteeSize
    /\ IsFiniteSet(Nodes) /\ Voters \subseteq Nodes
    /\ Rank \in [Nodes -> Nat] /\ \A m, n \in Nodes : Rank[m] = Rank[n] => m = n
ASSUME DeploymentAssumption ==
    \A d \in Deployments, c \in Clients :
        /\ d[c].ids \subseteq Nodes
        /\ Cardinality(d[c].ids \cap Voters) >= CommitteeSize
        /\ d[c].transport \in {"in_process", "fabric"}
        /\ d[c].granted \in BOOLEAN
        /\ d[c].cert \in Nat
ASSUME BoundAssumption == MaxAttempts \in Nat /\ MaxFaults \in Nat /\ MaxCloses \in Nat

VARIABLES
    deployment,         \* The parameters of Setup, fixed for a behaviour
    state,              \* World state: policy, node set, result, a ballot per node
    pool,               \* Endorsed transactions not yet ordered
    client,             \* Scheme: how far each client is, and its transport
    answer,             \* voteResult of each member goroutine of Collect
    attempts, faults, closes

vars == <<deployment, state, pool, client, answer, attempts, faults, closes>>

-----------------------------------------------------------------------------
(* Data *)

Seeds == {d[c].seed : d \in Deployments, c \in Clients}

\* P_C: what it says (the digest) and whose signature it bears.
CertOf(c) == [digest |-> deployment[c].cert, ca |-> deployment[c].seed]
Digests == {d[c].cert : d \in Deployments, c \in Clients}
Certs == [digest : Digests, ca : Seeds]

\* A key of the world state that is not a node holds something else than a
\* ballot.  Every write writes a value of its own (its author is part of it),
\* so that comparing values compares versions.
Keys == {"policy", "nodes", "rdt"} \cup Nodes

RoundPolicy == [by : Clients, ca : Seeds]
NodeSet == [by : Clients, ids : SUBSET Nodes, seed : Seeds]
Ballot == [by : Clients, cert : Certs, approve : BOOLEAN, key : Seeds]
RedactionTx == [cert : Digests, sigma : SUBSET Nodes]

\* A ballot's key in the world state is none of the others, nor the name under
\* which a Close waits, and nothing that is written is the absence of a value.
ASSUME KeyAssumption == Nodes \cap {"policy", "nodes", "rdt", "closing"} = {}
ASSUME NoneAssumption ==
    /\ None \notin Nodes \cup Clients
    /\ None \notin RoundPolicy \cup NodeSet \cup Ballot \cup RedactionTx

ValuesOf(k) ==
    CASE k = "policy" -> RoundPolicy
      [] k = "nodes"  -> NodeSet
      [] k = "rdt"    -> RedactionTx
      [] OTHER        -> Ballot

Snapshot(keys) == [k \in keys |-> state[k]]

\* Each transaction that writes, writes one key.
Put(key, value) == [k \in {key} |-> value]

\* selectCommittee: the lowest ranked of the eligible nodes.
Lowest(pool_) ==
    {n \in pool_ : Cardinality({m \in pool_ : Rank[m] < Rank[n]}) < CommitteeSize}

-----------------------------------------------------------------------------
(* The chaincode, on the committed state *)

\* satisfies
Satisfying(ids) == ids \cap Voters

\* committeeFor fails when a committee would be smaller than its size.
HasCommittee ==
    /\ state["nodes"] # None
    /\ Cardinality(Satisfying(state["nodes"].ids)) >= CommitteeSize

ContractCommittee == Lowest(Satisfying(state["nodes"].ids))

\* verifyCert: the CA whose key is registered has signed it.
VerifyCert(cert) == state["policy"] # None /\ cert.ca = state["policy"].ca

\* verifyBallot: a signature under the key registered for the node, over the
\* round and the certificate it names.
VerifyBallot(ballot) == ballot.key = state["nodes"].seed

\* Vote accepts a ballot: certificate, committee, membership, one vote and
\* signature.
Accepts(n, ballot) ==
    /\ VerifyCert(ballot.cert)
    /\ HasCommittee
    /\ n \in ContractCommittee
    /\ state[n] = None
    /\ VerifyBallot(ballot)

\* Faulty variant of VoteReads: the tally inside Vote.
VoteReadsAll(n) == {"policy", "nodes"} \cup state["nodes"].ids

\* What Vote reads: no key another ballot writes.
VoteReads(n) == {"policy", "nodes", n}

\* Faulty variant of Group: all approvals together.
AnyGroup(d) == {n \in state["nodes"].ids : state[n] # None /\ state[n].approve}

\* tally: the approving ballots of registered nodes, by certificate.
Group(d) ==
    {n \in state["nodes"].ids :
        state[n] # None /\ state[n].approve /\ state[n].cert.digest = d}

\* The largest group wins, ties go to the smaller digest (digests are numbers).
Winner ==
    CHOOSE d \in Digests :
        \A e \in Digests :
            \/ Cardinality(Group(e)) < Cardinality(Group(d))
            \/ Cardinality(Group(e)) = Cardinality(Group(d)) /\ d <= e

\* Faulty variant of Counted: no look at the membership.
CountedUnchecked(d) == Group(d)

Counted(d) == Group(d) \cap ContractCommittee

ReachesThreshold ==
    /\ Cardinality(Group(Winner)) >= Threshold
    /\ HasCommittee
    /\ Cardinality(Counted(Winner)) >= Threshold

\* Close fails before anything is registered, and when a group large enough
\* has no committee to be checked against.
CloseFails ==
    /\ state["rdt"] = None
    /\ \/ state["policy"] = None \/ state["nodes"] = None
       \/ Cardinality(Group(Winner)) >= Threshold /\ ~HasCommittee

\* A closed round returns what it has; otherwise every registered node's ballot
\* key is read.
CloseReads ==
    IF state["rdt"] # None THEN {"rdt"} ELSE {"rdt", "policy", "nodes"} \cup state["nodes"].ids

CloseWrites ==
    IF state["rdt"] = None /\ ReachesThreshold
    THEN Put("rdt", [cert |-> Winner, sigma |-> Counted(Winner)])
    ELSE [k \in {} |-> None]

-----------------------------------------------------------------------------
(* Fabric *)

Transaction(c, n, reads, writes) ==
    [from |-> c, attempt |-> IF c = None THEN closes ELSE attempts[c], node |-> n,
     reads |-> Snapshot(reads), writes |-> writes]

\* The submitter of a transaction still waits for it.
Awaited(t) ==
    /\ t.from # None
    /\ t.attempt = attempts[t.from]
    /\ IF t.node \in Nodes
       THEN client[t.from].pc = "voting" /\ answer[t.from][t.node] = "submitted"
       ELSE client[t.from].pc = t.node

Valid(t) == \A k \in DOMAIN t.reads : state[k] = t.reads[k]

\* Where a client is after its registration or its Close has been answered.
\* A Setup whose registration fails leaves nothing that could be used; a
\* Retransport that fails leaves the scheme ready.
Proceeds(c, ok) ==
    CASE c.pc = "policy" /\ ok  -> [c EXCEPT !.pc = "register"]
      [] c.pc = "nodes" /\ ok   -> [c EXCEPT !.pc = "ready", !.ready = TRUE]
      [] c.pc = "closing" /\ ok -> [c EXCEPT !.pc = "granted"]
      [] c.pc = "closing" /\ ~ok -> [c EXCEPT !.pc = "failed"]
      [] OTHER -> [c EXCEPT !.pc = IF c.ready THEN "ready" ELSE "broken"]

\* Faulty variant of Answer: a validation code that nobody looks at.
AnswerUnchecked(t, ok) ==
    IF ~Awaited(t) THEN UNCHANGED <<client, answer>>
    ELSE IF t.node \in Nodes
         THEN answer' = [answer EXCEPT ![t.from][t.node] = "cast"] /\ UNCHANGED client
         ELSE client' = [client EXCEPT ![t.from] = Proceeds(@, TRUE)] /\ UNCHANGED answer

\* What an awaited transaction's outcome does to its submitter.
Answer(t, ok) ==
    IF ~Awaited(t) THEN UNCHANGED <<client, answer>>
    ELSE IF t.node \in Nodes
         THEN /\ answer' = [answer EXCEPT ![t.from][t.node] = IF ok THEN "cast" ELSE "error"]
              /\ UNCHANGED client
         ELSE /\ client' = [client EXCEPT ![t.from] = Proceeds(@, ok)]
              /\ UNCHANGED answer

\* A transaction is ordered and validated against what was committed before it.
Commit(t) ==
    /\ t \in pool
    /\ Valid(t)
    /\ pool' = pool \ {t}
    /\ state' = [k \in Keys |-> IF k \in DOMAIN t.writes THEN t.writes[k] ELSE state[k]]
    /\ Answer(t, TRUE)
    /\ UNCHANGED <<deployment, attempts, faults, closes>>

\* MVCC_READ_CONFLICT.
Invalidate(t) ==
    /\ t \in pool
    /\ ~Valid(t)
    /\ pool' = pool \ {t}
    /\ Answer(t, FALSE)
    /\ UNCHANGED <<deployment, state, attempts, faults, closes>>

\* Submit gives up waiting; the transaction stays where it is.
TimesOut(t) ==
    /\ t \in pool
    /\ Awaited(t)
    /\ faults < MaxFaults
    /\ faults' = faults + 1
    /\ Answer(t, FALSE)
    /\ UNCHANGED <<deployment, state, pool, attempts, closes>>

-----------------------------------------------------------------------------
(* The clients *)

NoAnswers == [n \in Nodes |-> "none"]

\* registry.selectCommittee, over the client's own dataset.
LocalCommittee(c) == Lowest(deployment[c].ids \cap Voters)

\* A submission of client c itself: its state while it waits names it.
Submit(c, name, reads, writes) ==
    /\ pool' = pool \cup {Transaction(c, name, reads, writes)}
    /\ client' = [client EXCEPT ![c].pc = name]

PolicyOf(c) == [by |-> c, ca |-> deployment[c].seed]

\* Faulty variant of NodesOf: the round policy under the other key.
NodesMistaken(c) == PolicyOf(c)

NodesOf(c) == [by |-> c, ids |-> deployment[c].ids, seed |-> deployment[c].seed]

\* Setup: only the fabric transport has anything to register.
Setup(c) ==
    /\ client[c].pc = "new"
    /\ IF client[c].transport = "fabric"
       THEN Submit(c, "policy", {}, Put("policy", PolicyOf(c)))
       ELSE client' = [client EXCEPT ![c].pc = "ready", ![c].ready = TRUE] /\ UNCHANGED pool
    /\ UNCHANGED <<deployment, state, answer, attempts, faults, closes>>

\* Retransport to fabric: the transport is exchanged before the registration
\* that may fail.  (Sweeps go from in_process to fabric; to the transport in
\* force it does nothing.)
Retransport(c) ==
    /\ client[c].pc \in {"ready", "granted", "failed"}
    /\ client[c].transport = "in_process"
    /\ pool' = pool \cup {Transaction(c, "policy", {}, Put("policy", PolicyOf(c)))}
    /\ client' = [client EXCEPT ![c].pc = "policy", ![c].transport = "fabric"]
    /\ UNCHANGED <<deployment, state, answer, attempts, faults, closes>>

\* registerNodes, after registerRoundPolicy.
Register(c) ==
    /\ client[c].pc = "register"
    /\ Submit(c, "nodes", {}, Put("nodes", NodesOf(c)))
    /\ UNCHANGED <<deployment, state, answer, attempts, faults, closes>>

\* Authorize: a certificate that grants nothing opens no round.
Deny(c) ==
    /\ client[c].pc = "ready"
    /\ ~deployment[c].granted
    /\ client' = [client EXCEPT ![c].pc = "denied"]
    /\ UNCHANGED <<deployment, state, pool, answer, attempts, faults, closes>>

\* Authorize: every committee member's goroutine is started.
Authorize(c) ==
    /\ client[c].pc \in {"ready", "granted", "failed"}
    /\ deployment[c].granted
    /\ attempts[c] < MaxAttempts
    /\ attempts' = [attempts EXCEPT ![c] = @ + 1]
    /\ client' = [client EXCEPT ![c].pc = "voting"]
    /\ answer' = [answer EXCEPT ![c] =
                    [n \in Nodes |-> IF n \in LocalCommittee(c) THEN "waiting" ELSE "none"]]
    /\ UNCHANGED <<deployment, state, pool, faults, closes>>

Waits(c, n) == client[c].pc = "voting" /\ answer[c][n] = "waiting"

BallotOf(c, n) ==
    [by |-> c, cert |-> CertOf(c), approve |-> deployment[c].granted, key |-> deployment[c].seed]

\* A member's ballot is endorsed and sent to be ordered.
SubmitVote(c, n) ==
    /\ Waits(c, n) /\ client[c].transport = "fabric"
    /\ Accepts(n, BallotOf(c, n))
    /\ pool' = pool \cup {Transaction(c, n, VoteReads(n), Put(n, BallotOf(c, n)))}
    /\ answer' = [answer EXCEPT ![c][n] = "submitted"]
    /\ UNCHANGED <<deployment, state, client, attempts, faults, closes>>

\* The chaincode refuses to endorse it.
VoteRefused(c, n) ==
    /\ Waits(c, n) /\ client[c].transport = "fabric"
    /\ ~Accepts(n, BallotOf(c, n))
    /\ answer' = [answer EXCEPT ![c][n] = "error"]
    /\ UNCHANGED <<deployment, state, pool, client, attempts, faults, closes>>

\* In process a member signs and that is all.
VoteLocally(c, n) ==
    /\ Waits(c, n) /\ client[c].transport = "in_process"
    /\ answer' = [answer EXCEPT ![c][n] = "cast"]
    /\ UNCHANGED <<deployment, state, pool, client, attempts, faults, closes>>

\* The window ends, a session or a signature fails, before anything is sent.
MemberFails(c, n) ==
    /\ Waits(c, n)
    /\ faults < MaxFaults
    /\ faults' = faults + 1
    /\ answer' = [answer EXCEPT ![c][n] = "error"]
    /\ UNCHANGED <<deployment, state, pool, client, attempts, closes>>

\* Collect has heard of every member.
Collected(c) ==
    /\ client[c].pc = "voting"
    /\ \A n \in Nodes : answer[c][n] \notin {"waiting", "submitted"}

Erred(c) == \E n \in Nodes : answer[c][n] = "error"

\* One error is the error of the round, whatever the others voted.
RoundFails(c) ==
    /\ Collected(c)
    /\ Erred(c)
    /\ client' = [client EXCEPT ![c].pc = "failed"]
    /\ answer' = [answer EXCEPT ![c] = NoAnswers]
    /\ UNCHANGED <<deployment, state, pool, attempts, faults, closes>>

\* The approvals reach the threshold: runVoteRound grants in process at once.
GrantLocally(c) ==
    /\ Collected(c) /\ ~Erred(c) /\ client[c].transport = "in_process"
    /\ client' = [client EXCEPT ![c].pc = "granted"]
    /\ answer' = [answer EXCEPT ![c] = NoAnswers]
    /\ UNCHANGED <<deployment, state, pool, attempts, faults, closes>>

\* Over Fabric the first member submits Close, and its answer is not looked at.
SubmitClose(c) ==
    /\ Collected(c) /\ ~Erred(c) /\ client[c].transport = "fabric"
    /\ IF CloseFails
       THEN client' = [client EXCEPT ![c].pc = "failed"] /\ UNCHANGED pool
       ELSE Submit(c, "closing", CloseReads, CloseWrites)
    /\ answer' = [answer EXCEPT ![c] = NoAnswers]
    /\ UNCHANGED <<deployment, state, attempts, faults, closes>>

\* Anyone on the channel may close a round, and try again.
CloseElsewhere ==
    /\ closes < MaxCloses
    /\ ~CloseFails
    /\ closes' = closes + 1
    /\ pool' = pool \cup {Transaction(None, "closing", CloseReads, CloseWrites)}
    /\ UNCHANGED <<deployment, state, client, answer, attempts, faults>>

-----------------------------------------------------------------------------

Init ==
    /\ deployment \in Deployments
    /\ state = [k \in Keys |-> None]
    /\ pool = {}
    /\ client = [c \in Clients |->
                    [pc |-> "new", ready |-> FALSE, transport |-> deployment[c].transport]]
    /\ answer = [c \in Clients |-> NoAnswers]
    /\ attempts = [c \in Clients |-> 0]
    /\ faults = 0
    /\ closes = 0

MemberStep(c, n) == SubmitVote(c, n) \/ VoteRefused(c, n) \/ VoteLocally(c, n)
ClientStep(c) == Register(c) \/ RoundFails(c) \/ GrantLocally(c) \/ SubmitClose(c)
Order(t) == Commit(t) \/ Invalidate(t)

Next ==
    \/ \E c \in Clients : Setup(c) \/ Retransport(c) \/ Deny(c) \/ Authorize(c) \/ ClientStep(c)
    \/ \E c \in Clients, n \in Nodes : MemberStep(c, n) \/ MemberFails(c, n)
    \/ \E t \in pool : Order(t) \/ TimesOut(t)
    \/ CloseElsewhere

Spec == Init /\ [][Next]_vars

-----------------------------------------------------------------------------
(* Properties *)

Pcs == {"new", "policy", "register", "nodes", "ready", "broken", "denied",
        "voting", "closing", "granted", "failed"}

WriteOf(t) == \A k \in DOMAIN t.writes : k \in Keys /\ t.writes[k] \in ValuesOf(k)

\* Every variable has its type: what is written under a key is of that key's
\* kind, and a transaction in the pool names what it read and writes
\* (network/chaincode/redaction/contract.go, fabric.go).
TypeOK ==
    /\ deployment \in Deployments
    /\ DOMAIN state = Keys /\ \A k \in Keys : state[k] # None => state[k] \in ValuesOf(k)
    /\ \A t \in pool : DOMAIN t.reads \subseteq Keys /\ WriteOf(t)
    /\ \A c \in Clients : client[c].pc \in Pcs /\ client[c].ready \in BOOLEAN
    /\ \A c \in Clients : answer[c] \in
            [Nodes -> {"none", "waiting", "submitted", "cast", "error"}]
    /\ attempts \in [Clients -> 0 .. MaxAttempts]
    /\ faults \in 0 .. MaxFaults /\ closes \in 0 .. MaxCloses

\* Ballots may share a block: no ballot that was endorsed is invalidated
\* because another member's ballot committed first, only because the
\* registration changed or its own member has voted meanwhile (Vote,
\* contract.go:479-483).
BallotsIndependent ==
    \A t \in pool :
        t.node \in Nodes /\ ~Valid(t) =>
            \/ \E k \in {"policy", "nodes"} : state[k] # t.reads[k]
            \/ state[t.node] # None

\* What a client takes for a grant stands on the ledger: enough members of its
\* committee have a ballot there for its certificate, whatever was retried,
\* timed out, registered again or committed late (Collect, runVoteRound).
GrantRecorded ==
    \A c \in Clients :
        client[c].pc = "granted" /\ client[c].transport = "fabric" =>
            Cardinality({n \in LocalCommittee(c) :
                state[n] # None /\ state[n].cert = CertOf(c)}) >= Threshold

\* The contract implements a vote that decides once, on a threshold of one
\* certificate, and in which a node votes once, whatever transactions race,
\* time out and are retried (Vote, Close, tally).
Quorum == INSTANCE VoteQuorum WITH
    Certs <- Digests,
    vote <- [n \in Nodes |-> IF state[n] = None THEN None
                ELSE [cert |-> state[n].cert.digest, approve |-> state[n].approve]],
    result <- state["rdt"]
ImplementsQuorum == Quorum!Spec

\* What is decided was voted by the committee of the registration in force at
\* that moment: a ballot of a node that has left is not counted, also when the
\* registration changed between the tally and its commit (tally,
\* contract.go:648-651).
DecidedByCommittee ==
    [][state["rdt"] # state'["rdt"] => state'["rdt"].sigma \subseteq ContractCommittee]_vars
=============================================================================
