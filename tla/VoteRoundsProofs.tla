-------------------------- MODULE VoteRoundsProofs --------------------------
(***************************************************************************)
(* Proofs about VoteRounds, for every set of clients, nodes and            *)
(* deployments, every committee and threshold, and any number of attempts, *)
(* timeouts and closes.                                                    *)
(***************************************************************************)
EXTENDS VoteRounds, FiniteSetTheorems, TLAPS

-----------------------------------------------------------------------------
(* Finite sets: selection by rank, and a largest group.                    *)

(* The nodes of a pool that come before one of them. *)
Before(pool_, n) == {m \in pool_ : Rank[m] < Rank[n]}

LEMMA BeforeFinite ==
  ASSUME NEW P \in SUBSET Nodes, NEW n \in P
  PROVE  /\ IsFiniteSet(P) /\ IsFiniteSet(Before(P, n))
         /\ Cardinality(Before(P, n)) \in Nat
         /\ Cardinality(Before(P, n)) < Cardinality(P)
<1>1. IsFiniteSet(P)
  BY FS_Subset, CommitteeAssumption
<1>2. Before(P, n) \subseteq P \ {n}
  BY CommitteeAssumption DEF Before
<1>3. /\ IsFiniteSet(P \ {n}) /\ Cardinality(P \ {n}) = Cardinality(P) - 1
  BY <1>1, FS_RemoveElement
<1>4. /\ IsFiniteSet(Before(P, n)) /\ Cardinality(Before(P, n)) <= Cardinality(P \ {n})
  BY <1>2, <1>3, FS_Subset
<1>5. Cardinality(Before(P, n)) \in Nat /\ Cardinality(P) \in Nat
  BY <1>1, <1>4, FS_CardinalityType
<1>6. QED
  BY <1>1, <1>3, <1>4, <1>5

LEMMA BeforeIncreases ==
  ASSUME NEW P \in SUBSET Nodes, NEW m \in P, NEW n \in P, Rank[m] < Rank[n]
  PROVE  Cardinality(Before(P, m)) < Cardinality(Before(P, n))
<1>1. /\ IsFiniteSet(Before(P, m)) /\ Cardinality(Before(P, m)) \in Nat
      /\ IsFiniteSet(Before(P, n)) /\ Cardinality(Before(P, n)) \in Nat
  BY BeforeFinite
<1>2. Before(P, m) \subseteq Before(P, n) \ {m} /\ m \in Before(P, n)
  BY CommitteeAssumption DEF Before
<1>3. /\ IsFiniteSet(Before(P, n) \ {m})
      /\ Cardinality(Before(P, n) \ {m}) = Cardinality(Before(P, n)) - 1
  BY <1>1, <1>2, FS_RemoveElement
<1>4. Cardinality(Before(P, m)) <= Cardinality(Before(P, n) \ {m})
  BY <1>2, <1>3, FS_Subset
<1>5. QED
  BY <1>1, <1>3, <1>4

(* The places of a pool are numbered without a gap, so the lowest ranked    *)
(* are as many as the committee has seats when the pool has as many.        *)
LEMMA LowestFills ==
  ASSUME NEW P \in SUBSET Nodes, Cardinality(P) >= CommitteeSize
  PROVE  Lowest(P) \subseteq P /\ Cardinality(Lowest(P)) >= CommitteeSize
<1> DEFINE N == Cardinality(P)
           Place == [n \in P |-> Cardinality(Before(P, n))]
           Seats == 0 .. CommitteeSize - 1
           Seat == [n \in Lowest(P) |-> Cardinality(Before(P, n))]
<1>1. IsFiniteSet(P) /\ N \in Nat
  BY FS_Subset, CommitteeAssumption, FS_CardinalityType
<1>2. Place \in [P -> 0 .. N - 1]
  BY BeforeFinite, <1>1
<1>3. ASSUME NEW m \in P, NEW n \in P, Place[m] = Place[n] PROVE m = n
  <2>1. Cardinality(Before(P, m)) = Cardinality(Before(P, n))
    BY <1>3
  <2>2. Cardinality(Before(P, m)) \in Nat
    BY BeforeFinite
  <2>3. ~(Rank[m] < Rank[n]) /\ ~(Rank[n] < Rank[m])
    BY <2>1, <2>2, BeforeIncreases
  <2>4. QED
    BY <2>3, CommitteeAssumption
<1>4. Place \in Injection(P, 0 .. N - 1)
  BY <1>2, <1>3 DEF Injection, IsInjective
<1>5. IsFiniteSet(0 .. N - 1) /\ Cardinality(0 .. N - 1) = N
  BY <1>1, FS_Interval
<1>6. Place \in Surjection(P, 0 .. N - 1)
  BY <1>4, <1>5, FS_Injection
<1>7. Lowest(P) \subseteq P /\ IsFiniteSet(Lowest(P))
  BY <1>1, FS_Subset DEF Lowest
<1>8. \A n \in P : n \in Lowest(P) <=> Place[n] < CommitteeSize
  BY DEF Lowest, Before
<1>9. Seat \in [Lowest(P) -> Seats]
  BY <1>2, <1>7, <1>8, <1>1, CommitteeAssumption
<1>10. ASSUME NEW k \in Seats PROVE \E n \in Lowest(P) : Seat[n] = k
  <2>1. k \in 0 .. N - 1
    BY <1>1, CommitteeAssumption
  <2>2. PICK n \in P : Place[n] = k
    BY <2>1, <1>6 DEF Surjection
  <2>3. n \in Lowest(P)
    BY <2>2, <1>8, <1>10, CommitteeAssumption
  <2>4. QED
    BY <2>2, <2>3
<1>11. Seat \in Surjection(Lowest(P), Seats)
  BY <1>9, <1>10 DEF Surjection
<1>12. /\ Cardinality(Seats) <= Cardinality(Lowest(P))
  BY <1>7, <1>11, FS_Surjection
<1>13. Cardinality(Seats) = CommitteeSize
  BY CommitteeAssumption, FS_Interval
<1>14. Cardinality(Lowest(P)) \in Nat
  BY <1>7, FS_CardinalityType
<1>15. QED
  BY <1>7, <1>12, <1>13, <1>14, CommitteeAssumption

(* A set of naturals that is not empty has a least element. *)
LEMMA LeastNat ==
  ASSUME NEW S \in SUBSET Nat, S # {}
  PROVE  \E x \in S : \A y \in S : x <= y
<1> DEFINE R == {p \in Nat \X Nat : p[1] < p[2]}
<1>1. IsWellFoundedOn(R, Nat)
  BY NatLessThanWellFounded DEF OpToRel
<1>2. PICK x \in S : \A y \in S : <<y, x>> \notin R
  BY <1>1, WFMin
<1>3. ASSUME NEW y \in S PROVE x <= y
  <2>1. ~(y < x)
    BY <1>2
  <2>2. QED
    BY <2>1
<1>4. QED
  BY <1>3

-----------------------------------------------------------------------------
(* The inductive invariant.                                                *)

Answers == {"none", "waiting", "submitted", "cast", "error"}

ClientState == [pc: Pcs, ready: BOOLEAN, transport: {"in_process", "fabric"}]

ClientsOK ==
  /\ client \in [Clients -> ClientState]
  /\ answer \in [Clients -> [Nodes -> Answers]]
  /\ attempts \in [Clients -> 0 .. MaxAttempts]
  /\ faults \in 0 .. MaxFaults /\ closes \in 0 .. MaxCloses

WorldOK ==
  /\ deployment \in Deployments
  /\ DOMAIN state = Keys
  /\ \A k \in Keys : state[k] # None => state[k] \in ValuesOf(k)

Registration(t) ==
  /\ t.node \in {"policy", "nodes"}
  /\ t.from \in Clients
  /\ DOMAIN t.reads = {}
  /\ DOMAIN t.writes = {t.node}
  /\ t.writes[t.node] \in ValuesOf(t.node)

(* A ballot was endorsed when its member had not voted. *)
BallotTx(t) ==
  /\ t.node \in Nodes
  /\ t.from \in Clients
  /\ DOMAIN t.reads = VoteReads(t.node)
  /\ t.reads[t.node] = None
  /\ DOMAIN t.writes = {t.node}
  /\ t.writes[t.node] = BallotOf(t.from, t.node)

(* A Close that writes a result has read everything the result rests on. *)
Decision(reads, tx) ==
  /\ tx \in RedactionTx
  /\ {"rdt", "nodes"} \cup tx.sigma \subseteq DOMAIN reads
  /\ reads["rdt"] = None
  /\ Cardinality(tx.sigma) >= Threshold
  /\ tx.sigma \subseteq Lowest(Satisfying(reads["nodes"].ids))
  /\ \A n \in tx.sigma :
       reads[n] # None /\ reads[n].approve = TRUE /\ reads[n].cert.digest = tx.cert

CloseTx(t) ==
  /\ t.node = "closing"
  /\ t.from \in Clients \cup {None}
  /\ DOMAIN t.reads \subseteq Keys
  /\ \/ DOMAIN t.writes = {}
     \/ DOMAIN t.writes = {"rdt"} /\ Decision(t.reads, t.writes["rdt"])

PoolOK == \A t \in pool : Registration(t) \/ BallotTx(t) \/ CloseTx(t)

(* The ballot of member n for the certificate of client c is on the ledger. *)
HasBallot(c, n) == state[n] # None /\ state[n].cert = CertOf(c)

(* What a client believes over Fabric is on the ledger: of one member while *)
(* it collects, of its whole committee once it closes.                      *)
Believes(c) ==
  client[c].transport = "fabric" =>
    /\ client[c].pc = "voting" => \A n \in LocalCommittee(c) :
         answer[c][n] # "none" /\ (answer[c][n] = "cast" => HasBallot(c, n))
    /\ client[c].pc \in {"closing", "granted"} => \A n \in LocalCommittee(c) : HasBallot(c, n)

VotesOnLedger == \A c \in Clients : Believes(c)

IInv == WorldOK /\ ClientsOK /\ PoolOK /\ VotesOnLedger

LEMMA DeploymentFacts ==
  ASSUME WorldOK, NEW c \in Clients
  PROVE  /\ CertOf(c) \in Certs /\ deployment[c].cert \in Digests
         /\ deployment[c].seed \in Seeds /\ deployment[c].ids \subseteq Nodes
         /\ deployment[c].granted \in BOOLEAN
         /\ deployment[c].transport \in {"in_process", "fabric"}
         /\ PolicyOf(c) \in RoundPolicy /\ NodesOf(c) \in NodeSet
         /\ \A n : BallotOf(c, n) \in Ballot
<1>1. /\ deployment[c].ids \subseteq Nodes /\ deployment[c].granted \in BOOLEAN
      /\ deployment[c].transport \in {"in_process", "fabric"}
  BY DeploymentAssumption DEF WorldOK
<1>2. deployment[c].cert \in Digests /\ deployment[c].seed \in Seeds
  BY DEF WorldOK, Digests, Seeds
<1>3. CertOf(c) \in Certs
  BY <1>2 DEF CertOf, Certs
<1>4. PolicyOf(c) \in RoundPolicy
  BY <1>2 DEF PolicyOf, RoundPolicy
<1>5. NodesOf(c) \in NodeSet
  BY <1>1, <1>2 DEF NodesOf, NodeSet
<1>6. ASSUME NEW n PROVE BallotOf(c, n) \in Ballot
  BY <1>1, <1>2, <1>3 DEF BallotOf, Ballot
<1>7. QED
  BY <1>1, <1>2, <1>3, <1>4, <1>5, <1>6

LEMMA LocalCommitteeFilled ==
  ASSUME WorldOK, NEW c \in Clients
  PROVE  /\ LocalCommittee(c) \subseteq Nodes
         /\ Cardinality(LocalCommittee(c)) >= CommitteeSize
<1> DEFINE P == deployment[c].ids \cap Voters
<1>1. P \in SUBSET Nodes /\ Cardinality(P) >= CommitteeSize
  BY DeploymentAssumption DEF WorldOK
<1>2. Lowest(P) \subseteq P /\ Cardinality(Lowest(P)) >= CommitteeSize
  BY <1>1, LowestFills
<1>3. QED
  BY <1>1, <1>2 DEF LocalCommittee

LEMMA ValueKinds ==
  /\ ValuesOf("policy") = RoundPolicy /\ ValuesOf("nodes") = NodeSet
  /\ ValuesOf("rdt") = RedactionTx
  /\ \A n \in Nodes : ValuesOf(n) = Ballot /\ n \notin {"policy", "nodes", "rdt", "closing"}
  /\ \A k \in Keys : None \notin ValuesOf(k)
<1>1. \A n \in Nodes : n \notin {"policy", "nodes", "rdt", "closing"}
  BY KeyAssumption
<1>2. /\ ValuesOf("policy") = RoundPolicy /\ ValuesOf("nodes") = NodeSet
      /\ ValuesOf("rdt") = RedactionTx
  BY DEF ValuesOf
<1>3. ASSUME NEW n \in Nodes PROVE ValuesOf(n) = Ballot
  BY <1>1 DEF ValuesOf
<1>4. \A k \in Keys : None \notin ValuesOf(k)
  BY <1>2, <1>3, NoneAssumption DEF Keys
<1>5. QED
  BY <1>1, <1>2, <1>3, <1>4

LEMMA InitInv == Init => IInv
<1> SUFFICES ASSUME Init PROVE IInv
  OBVIOUS
<1>1. WorldOK
  BY DEF Init, WorldOK
<1>2. client \in [Clients -> ClientState]
  BY <1>1, DeploymentFacts DEF Init, ClientState, Pcs
<1>3. answer \in [Clients -> [Nodes -> Answers]]
  BY DEF Init, NoAnswers, Answers
<1>4. ClientsOK
  BY <1>2, <1>3, BoundAssumption DEF Init, ClientsOK
<1>5. PoolOK
  BY DEF Init, PoolOK
<1>6. VotesOnLedger
  BY DEF Init, VotesOnLedger, Believes
<1>7. QED
  BY <1>1, <1>4, <1>5, <1>6 DEF IInv

-----------------------------------------------------------------------------
(* What the parts of a step do to the parts of the invariant.              *)

LEMMA WorldFrame ==
  ASSUME WorldOK, UNCHANGED <<deployment, state>>
  PROVE  WorldOK'
  BY DEF WorldOK

LEMMA PoolFrame ==
  ASSUME PoolOK, UNCHANGED deployment, pool' \subseteq pool
  PROVE  PoolOK'
  BY DEF PoolOK, Registration, BallotTx, CloseTx, BallotOf, CertOf

LEMMA PoolGrows ==
  ASSUME PoolOK, UNCHANGED deployment,
         NEW t, Registration(t) \/ BallotTx(t) \/ CloseTx(t), pool' = pool \cup {t}
  PROVE  PoolOK'
  BY DEF PoolOK, Registration, BallotTx, CloseTx, BallotOf, CertOf

LEMMA BelievesFrame ==
  ASSUME NEW c \in Clients, Believes(c), UNCHANGED <<deployment, state>>,
         client'[c] = client[c], answer'[c] = answer[c]
  PROVE  Believes(c)'
  BY DEF Believes, HasBallot, CertOf, LocalCommittee

LEMMA ClientMoves ==
  ASSUME client \in [Clients -> ClientState], NEW c \in Clients, NEW p \in Pcs,
         client' = [client EXCEPT ![c].pc = p]
  PROVE  /\ client' \in [Clients -> ClientState]
         /\ client'[c].pc = p /\ client'[c].transport = client[c].transport
         /\ \A d \in Clients \ {c} : client'[d] = client[d]
  BY DEF ClientState

LEMMA AnswerSet ==
  ASSUME answer \in [Clients -> [Nodes -> Answers]], NEW c \in Clients, NEW n \in Nodes,
         NEW x \in Answers, answer' = [answer EXCEPT ![c][n] = x]
  PROVE  /\ answer' \in [Clients -> [Nodes -> Answers]]
         /\ answer'[c][n] = x /\ \A m \in Nodes \ {n} : answer'[c][m] = answer[c][m]
         /\ \A d \in Clients \ {c} : answer'[d] = answer[d]
  OBVIOUS

LEMMA AnswersReset ==
  ASSUME answer \in [Clients -> [Nodes -> Answers]], NEW c \in Clients,
         NEW f \in [Nodes -> Answers], answer' = [answer EXCEPT ![c] = f]
  PROVE  /\ answer' \in [Clients -> [Nodes -> Answers]]
         /\ answer'[c] = f
         /\ \A d \in Clients \ {c} : answer'[d] = answer[d]
  OBVIOUS

-----------------------------------------------------------------------------
(* What is submitted is sound.                                             *)

LEMMA PolicySound ==
  ASSUME WorldOK, NEW c \in Clients
  PROVE  Registration(Transaction(c, "policy", {}, Put("policy", PolicyOf(c))))
<1>1. PolicyOf(c) \in RoundPolicy
  BY DeploymentFacts
<1>2. QED
  BY <1>1, ValueKinds DEF Registration, Transaction, Snapshot, Put

LEMMA NodesSound ==
  ASSUME WorldOK, NEW c \in Clients
  PROVE  Registration(Transaction(c, "nodes", {}, Put("nodes", NodesOf(c))))
<1>1. NodesOf(c) \in NodeSet
  BY DeploymentFacts
<1>2. QED
  BY <1>1, ValueKinds DEF Registration, Transaction, Snapshot, Put

LEMMA BallotSound ==
  ASSUME NEW c \in Clients, NEW n \in Nodes, Accepts(n, BallotOf(c, n))
  PROVE  BallotTx(Transaction(c, n, VoteReads(n), Put(n, BallotOf(c, n))))
<1> DEFINE t == Transaction(c, n, VoteReads(n), Put(n, BallotOf(c, n)))
<1>1. t.node = n /\ t.from = c /\ t.reads = Snapshot(VoteReads(n)) /\ t.writes = Put(n, BallotOf(c, n))
  BY DEF Transaction
<1>2. DOMAIN t.reads = VoteReads(n) /\ t.reads[n] = state[n]
  BY <1>1 DEF Snapshot, VoteReads
<1>3. state[n] = None
  BY DEF Accepts
<1>4. DOMAIN t.writes = {n} /\ t.writes[n] = BallotOf(c, n)
  BY <1>1 DEF Put
<1>5. QED
  BY <1>1, <1>2, <1>3, <1>4 DEF BallotTx

LEMMA GroupFacts ==
  ASSUME WorldOK, state["nodes"] # None, NEW d
  PROVE  /\ state["nodes"].ids \subseteq Nodes
         /\ Group(d) \subseteq state["nodes"].ids
         /\ Cardinality(Group(d)) \in 0 .. Cardinality(Nodes)
         /\ \A n \in Group(d) : state[n] # None /\ state[n].approve = TRUE
                                /\ state[n].cert.digest = d
<1>1. state["nodes"] \in NodeSet
  BY ValueKinds DEF WorldOK, Keys
<1>2. state["nodes"].ids \subseteq Nodes
  BY <1>1 DEF NodeSet
<1>3. Group(d) \subseteq state["nodes"].ids
  BY DEF Group
<1>4. /\ IsFiniteSet(Group(d)) /\ Cardinality(Group(d)) <= Cardinality(Nodes)
      /\ Cardinality(Nodes) \in Nat /\ Cardinality(Group(d)) \in Nat
  <2>1. Group(d) \in SUBSET Nodes
    BY <1>2, <1>3
  <2>2. IsFiniteSet(Group(d)) /\ Cardinality(Group(d)) <= Cardinality(Nodes)
    BY <2>1, CommitteeAssumption, FS_Subset
  <2>3. QED
    BY <2>2, CommitteeAssumption, FS_CardinalityType
<1>5. ASSUME NEW n \in Group(d)
      PROVE  state[n] # None /\ state[n].approve = TRUE /\ state[n].cert.digest = d
  <2>1. n \in Nodes /\ state[n] # None /\ state[n].approve /\ state[n].cert.digest = d
    BY <1>2 DEF Group
  <2>2. state[n] \in Ballot
    BY <2>1, ValueKinds DEF WorldOK, Keys
  <2>3. state[n].approve \in BOOLEAN
    BY <2>2 DEF Ballot
  <2>4. QED
    BY <2>1, <2>3
<1>6. Cardinality(Group(d)) \in 0 .. Cardinality(Nodes)
  BY <1>4
<1>7. QED
  BY <1>2, <1>3, <1>5, <1>6

(* One of the certificates has a largest group, and of those the least      *)
(* digest.                                                                  *)
LEMMA WinnerExists ==
  ASSUME WorldOK, state["nodes"] # None
  PROVE  Winner \in Digests
<1> DEFINE Size(d) == Cardinality(Group(d))
           Short == {Cardinality(Nodes) - Size(d) : d \in Digests}
<1>1. \A d \in Digests : Size(d) \in 0 .. Cardinality(Nodes)
  BY GroupFacts
<1>2. Cardinality(Nodes) \in Nat
  BY CommitteeAssumption, FS_CardinalityType
<1>3. Digests \subseteq Nat
  <2>1. \A d \in Deployments, c \in Clients : d[c].cert \in Nat
    BY DeploymentAssumption
  <2>2. QED
    BY <2>1 DEF Digests
<1>4. Digests # {}
  <2>1. state["nodes"].by \in Clients
    BY ValueKinds DEF WorldOK, Keys, NodeSet
  <2>2. deployment[state["nodes"].by].cert \in Digests
    BY <2>1, DeploymentFacts
  <2>3. QED
    BY <2>2
<1>5. PICK s \in Short : \A r \in Short : s <= r
  <2>1. Short \subseteq Nat /\ Short # {}
    BY <1>1, <1>2, <1>4
  <2>2. QED
    BY <2>1, LeastNat
<1>6. PICK most \in Digests : \A e \in Digests : Size(e) <= Size(most)
  <2>1. PICK d \in Digests : s = Cardinality(Nodes) - Size(d)
    OBVIOUS
  <2>2. ASSUME NEW e \in Digests PROVE Size(e) <= Size(d)
    <3>1. s <= Cardinality(Nodes) - Size(e)
      BY <1>5
    <3>2. Size(e) \in Nat /\ Size(d) \in Nat
      BY <1>1, <1>2
    <3>3. QED
      BY <2>1, <3>1, <3>2, <1>2
  <2>3. QED
    BY <2>2
<1> DEFINE Tied == {d \in Digests : Size(d) = Size(most)}
<1>7. PICK d \in Tied : \A e \in Tied : d <= e
  <2>1. Tied \subseteq Nat /\ Tied # {}
    BY <1>3
  <2>2. QED
    BY <2>1, LeastNat
<1>8. ASSUME NEW e \in Digests
      PROVE  Size(e) < Size(d) \/ (Size(e) = Size(d) /\ d <= e)
  <2>1. Size(e) <= Size(most) /\ Size(d) = Size(most)
    BY <1>6, <1>7
  <2>2. Size(e) \in Nat /\ Size(d) \in Nat
    BY <1>1, <1>2, <1>7
  <2>3. CASE Size(e) = Size(most)
    <3>1. e \in Tied
      BY <2>3
    <3>2. d <= e
      BY <3>1, <1>7
    <3>3. QED
      BY <3>2, <2>1, <2>3
  <2>4. CASE Size(e) # Size(most)
    <3>1. \A i, j \in Nat : i <= j /\ i # j => i < j
      OBVIOUS
    <3>2. Size(e) < Size(d)
      BY <2>1, <2>2, <2>4, <3>1
    <3>3. QED
      BY <3>2
  <2>5. QED
    BY <2>3, <2>4
<1>9. \E w \in Digests : \A e \in Digests :
        \/ Cardinality(Group(e)) < Cardinality(Group(w))
        \/ Cardinality(Group(e)) = Cardinality(Group(w)) /\ w <= e
  <2>1. d \in Digests
    BY <1>7
  <2>2. QED
    BY <1>8, <2>1
<1>10. QED
  BY <1>9 DEF Winner

LEMMA DecisionSound ==
  ASSUME WorldOK, ~CloseFails, state["rdt"] = None, ReachesThreshold
  PROVE  Decision(Snapshot(CloseReads), [cert |-> Winner, sigma |-> Counted(Winner)])
<1> DEFINE reads == Snapshot(CloseReads)
           sigma == Counted(Winner)
<1>1. state["nodes"] # None /\ state["policy"] # None
  BY DEF CloseFails
<1>2. Winner \in Digests
  BY <1>1, WinnerExists
<1>3. /\ state["nodes"].ids \subseteq Nodes /\ sigma \subseteq state["nodes"].ids
      /\ \A n \in sigma : state[n] # None /\ state[n].approve = TRUE
                         /\ state[n].cert.digest = Winner
  BY <1>1, GroupFacts DEF Counted
<1>4. CloseReads = {"rdt", "policy", "nodes"} \cup state["nodes"].ids
  BY DEF CloseReads
<1>5. DOMAIN reads = CloseReads /\ \A k \in CloseReads : reads[k] = state[k]
  BY DEF Snapshot
<1>6. [cert |-> Winner, sigma |-> sigma] \in RedactionTx
  BY <1>2, <1>3 DEF RedactionTx
<1>7. Cardinality(sigma) >= Threshold
  BY DEF ReachesThreshold
<1>8. sigma \subseteq Lowest(Satisfying(reads["nodes"].ids))
  BY <1>4, <1>5 DEF Counted, ContractCommittee
<1>9. /\ {"rdt", "nodes"} \cup sigma \subseteq DOMAIN reads
      /\ \A n \in sigma : reads[n] = state[n]
  BY <1>3, <1>4, <1>5
<1>10. reads["rdt"] = None
  BY <1>4, <1>5
<1>11. \A n \in sigma : reads[n] # None /\ reads[n].approve = TRUE /\ reads[n].cert.digest = Winner
  BY <1>3, <1>9
<1> HIDE DEF reads, sigma
<1>12. Decision(reads, [cert |-> Winner, sigma |-> sigma])
  BY <1>6, <1>7, <1>8, <1>9, <1>10, <1>11 DEF Decision
<1>13. QED
  BY <1>12 DEF reads, sigma

LEMMA CloseSound ==
  ASSUME WorldOK, ~CloseFails, NEW c \in Clients \cup {None}
  PROVE  CloseTx(Transaction(c, "closing", CloseReads, CloseWrites))
<1> DEFINE t == Transaction(c, "closing", CloseReads, CloseWrites)
<1>1. t.node = "closing" /\ t.from = c /\ t.reads = Snapshot(CloseReads) /\ t.writes = CloseWrites
  BY DEF Transaction
<1>2. CloseReads \subseteq Keys
  <2>1. CASE state["rdt"] # None
    BY <2>1 DEF CloseReads, Keys
  <2>2. CASE state["rdt"] = None
    <3>1. state["nodes"] # None
      BY <2>2 DEF CloseFails
    <3>2. state["nodes"].ids \subseteq Nodes
      BY <3>1, GroupFacts
    <3>3. QED
      BY <2>2, <3>2 DEF CloseReads, Keys
  <2>3. QED
    BY <2>1, <2>2
<1>3. DOMAIN t.reads \subseteq Keys
  BY <1>1, <1>2 DEF Snapshot
<1>4. CASE state["rdt"] = None /\ ReachesThreshold
  <2>1. CloseWrites = Put("rdt", [cert |-> Winner, sigma |-> Counted(Winner)])
    BY <1>4 DEF CloseWrites
  <2>2. DOMAIN t.writes = {"rdt"} /\ t.writes["rdt"] = [cert |-> Winner, sigma |-> Counted(Winner)]
    BY <1>1, <2>1 DEF Put
  <2>3. Decision(t.reads, t.writes["rdt"])
    BY <1>1, <1>4, <2>2, DecisionSound
  <2>4. QED
    BY <1>1, <1>3, <2>2, <2>3 DEF CloseTx
<1>5. CASE ~(state["rdt"] = None /\ ReachesThreshold)
  <2>1. CloseWrites = [k \in {} |-> None]
    BY <1>5 DEF CloseWrites
  <2>2. DOMAIN t.writes = {}
    BY <1>1, <2>1
  <2>3. QED
    BY <1>1, <1>3, <2>2 DEF CloseTx
<1>6. QED
  BY <1>4, <1>5

-----------------------------------------------------------------------------
(* The outcome of a transaction.                                           *)

LEMMA ProceedsFacts ==
  ASSUME NEW c \in ClientState, NEW ok \in BOOLEAN
  PROVE  /\ Proceeds(c, ok) \in ClientState
         /\ Proceeds(c, ok).transport = c.transport
         /\ Proceeds(c, ok).pc \notin {"voting", "closing"}
         /\ Proceeds(c, ok).pc = "granted" => c.pc = "closing"
<1>1. \/ Proceeds(c, ok) = [c EXCEPT !.pc = "register"]
      \/ Proceeds(c, ok) = [c EXCEPT !.pc = "ready", !.ready = TRUE]
      \/ Proceeds(c, ok) = [c EXCEPT !.pc = "granted"] /\ c.pc = "closing"
      \/ Proceeds(c, ok) = [c EXCEPT !.pc = "failed"]
      \/ Proceeds(c, ok) = [c EXCEPT !.pc = "ready"]
      \/ Proceeds(c, ok) = [c EXCEPT !.pc = "broken"]
  BY DEF Proceeds
<1>2. QED
  BY <1>1 DEF ClientState, Pcs

LEMMA AnswerCases ==
  ASSUME ClientsOK, NEW t, t.from \in Clients \cup {None}, NEW ok \in BOOLEAN, Answer(t, ok)
  PROVE  \/ UNCHANGED <<client, answer>>
         \/ /\ t.from \in Clients /\ t.node \in Nodes
            /\ answer' = [answer EXCEPT ![t.from][t.node] = IF ok THEN "cast" ELSE "error"]
            /\ UNCHANGED client
         \/ /\ t.from \in Clients /\ t.node \notin Nodes
            /\ client' = [client EXCEPT ![t.from] = Proceeds(client[t.from], ok)]
            /\ UNCHANGED answer
<1>1. CASE ~Awaited(t)
  BY <1>1 DEF Answer
<1>2. CASE Awaited(t)
  <2>1. t.from \in Clients
    BY <1>2 DEF Awaited
  <2>2. client \in [Clients -> ClientState]
    BY DEF ClientsOK
  <2>3. QED
    BY <1>2, <2>1, <2>2 DEF Answer
<1>3. QED
  BY <1>1, <1>2

LEMMA AnswerOK ==
  ASSUME ClientsOK, NEW t, t.from \in Clients \cup {None}, NEW ok \in BOOLEAN, Answer(t, ok),
         UNCHANGED <<attempts, closes>>, faults' \in 0 .. MaxFaults
  PROVE  ClientsOK'
<1> DEFINE x == IF ok THEN "cast" ELSE "error"
<1>1. x \in Answers
  BY DEF Answers
<1>2. CASE UNCHANGED <<client, answer>>
  BY <1>2 DEF ClientsOK
<1>3. CASE /\ t.from \in Clients /\ t.node \in Nodes
           /\ answer' = [answer EXCEPT ![t.from][t.node] = x]
           /\ UNCHANGED client
  <2>1. answer' \in [Clients -> [Nodes -> Answers]]
    BY <1>1, <1>3, AnswerSet DEF ClientsOK
  <2>2. QED
    BY <1>3, <2>1 DEF ClientsOK
<1>4. CASE /\ t.from \in Clients /\ t.node \notin Nodes
           /\ client' = [client EXCEPT ![t.from] = Proceeds(client[t.from], ok)]
           /\ UNCHANGED answer
  <2>1. client[t.from] \in ClientState
    BY <1>4 DEF ClientsOK
  <2>2. Proceeds(client[t.from], ok) \in ClientState
    BY <2>1, ProceedsFacts
  <2>3. client' \in [Clients -> ClientState]
    BY <1>4, <2>2 DEF ClientsOK
  <2>4. QED
    BY <1>4, <2>3 DEF ClientsOK
<1>5. QED
  BY <1>2, <1>3, <1>4, AnswerCases

LEMMA AnswerBelieves ==
  ASSUME ClientsOK, VotesOnLedger, NEW t, t.from \in Clients \cup {None},
         NEW ok \in BOOLEAN, Answer(t, ok), WorldOK, UNCHANGED deployment,
         \A c \in Clients, n \in Nodes : HasBallot(c, n) => HasBallot(c, n)',
         ok /\ t.from \in Clients /\ t.node \in Nodes => HasBallot(t.from, t.node)'
  PROVE  VotesOnLedger'
<1> SUFFICES ASSUME NEW c \in Clients PROVE Believes(c)'
  BY DEF VotesOnLedger
<1>1. Believes(c)
  BY DEF VotesOnLedger
<1>2. LocalCommittee(c)' = LocalCommittee(c) /\ LocalCommittee(c) \subseteq Nodes
  BY LocalCommitteeFilled DEF LocalCommittee
<1>3. CASE client'[c] = client[c] /\ answer'[c] = answer[c]
  BY <1>1, <1>2, <1>3 DEF Believes
<1>4. CASE /\ c = t.from /\ t.node \in Nodes
           /\ answer' = [answer EXCEPT ![t.from][t.node] = IF ok THEN "cast" ELSE "error"]
           /\ UNCHANGED client
  <2>1. /\ answer'[c][t.node] = (IF ok THEN "cast" ELSE "error")
        /\ \A m \in Nodes \ {t.node} : answer'[c][m] = answer[c][m]
    BY <1>4, AnswerSet DEF ClientsOK, Answers
  <2>2. ASSUME client[c].transport = "fabric", client[c].pc = "voting", NEW n \in LocalCommittee(c)
        PROVE  answer'[c][n] # "none" /\ (answer'[c][n] = "cast" => HasBallot(c, n)')
    <3>1. CASE n = t.node
      BY <1>4, <2>1, <3>1
    <3>2. CASE n # t.node
      <4>1. answer'[c][n] = answer[c][n] /\ n \in Nodes
        BY <1>2, <2>1, <3>2
      <4>2. QED
        BY <1>1, <2>2, <4>1 DEF Believes
    <3>3. QED
      BY <3>1, <3>2
  <2>3. ASSUME client[c].transport = "fabric", client[c].pc \in {"closing", "granted"},
               NEW n \in LocalCommittee(c)
        PROVE  HasBallot(c, n)'
    <3>1. HasBallot(c, n) /\ n \in Nodes
      BY <1>1, <1>2, <2>3 DEF Believes
    <3>2. QED
      BY <3>1
  <2>4. QED
    BY <1>2, <1>4, <2>2, <2>3 DEF Believes
<1>5. CASE /\ c = t.from /\ t.node \notin Nodes
           /\ client' = [client EXCEPT ![t.from] = Proceeds(client[t.from], ok)]
           /\ UNCHANGED answer
  <2>1. client[c] \in ClientState /\ client'[c] = Proceeds(client[c], ok)
    BY <1>5 DEF ClientsOK
  <2>2. /\ client'[c].transport = client[c].transport /\ client'[c].pc \notin {"voting", "closing"}
        /\ client'[c].pc = "granted" => client[c].pc = "closing"
    BY <2>1, ProceedsFacts
  <2>3. ASSUME client'[c].transport = "fabric", client'[c].pc = "granted", NEW n \in LocalCommittee(c)
        PROVE  HasBallot(c, n)'
    <3>1. HasBallot(c, n) /\ n \in Nodes
      BY <1>1, <1>2, <2>2, <2>3 DEF Believes
    <3>2. QED
      BY <3>1
  <2>4. QED
    BY <1>2, <2>2, <2>3 DEF Believes
<1>6. QED
  <2>1. c # t.from /\ client' = [client EXCEPT ![t.from] = Proceeds(client[t.from], ok)]
          => client'[c] = client[c]
    BY DEF ClientsOK
  <2>2. c # t.from /\ answer' = [answer EXCEPT ![t.from][t.node] = IF ok THEN "cast" ELSE "error"]
          => answer'[c] = answer[c]
    BY DEF ClientsOK
  <2>3. QED
    BY <1>3, <1>4, <1>5, <2>1, <2>2, AnswerCases

LEMMA PoolFrom ==
  ASSUME PoolOK, NEW t \in pool
  PROVE  t.from \in Clients \cup {None}
  BY DEF PoolOK, Registration, BallotTx, CloseTx

(* A commit writes what the kind of the transaction says, and a ballot only *)
(* where there was none.                                                    *)
LEMMA CommitCases ==
  ASSUME IInv, NEW t \in pool, Commit(t)
  PROVE  /\ DOMAIN state' = Keys
         /\ \/ /\ Registration(t)
               /\ \A k \in Keys \ {t.node} : state'[k] = state[k]
               /\ state'[t.node] = t.writes[t.node]
            \/ /\ BallotTx(t) /\ state[t.node] = None
               /\ \A k \in Keys \ {t.node} : state'[k] = state[k]
               /\ state'[t.node] = BallotOf(t.from, t.node)
            \/ /\ CloseTx(t) /\ \A k \in Keys : state'[k] = state[k]
            \/ /\ CloseTx(t) /\ Decision(t.reads, t.writes["rdt"])
               /\ \A k \in DOMAIN t.reads : state[k] = t.reads[k]
               /\ \A k \in Keys \ {"rdt"} : state'[k] = state[k]
               /\ state'["rdt"] = t.writes["rdt"]
<1>1. state' = [k \in Keys |-> IF k \in DOMAIN t.writes THEN t.writes[k] ELSE state[k]]
  BY DEF Commit
<1>2. \A k \in DOMAIN t.reads : state[k] = t.reads[k]
  BY DEF Commit, Valid
<1>3. CASE Registration(t)
  BY <1>1, <1>3 DEF Registration, Keys
<1>4. CASE BallotTx(t)
  <2>1. state[t.node] = None
    BY <1>2, <1>4 DEF BallotTx, VoteReads
  <2>2. QED
    BY <1>1, <1>4, <2>1 DEF BallotTx, Keys
<1>5. CASE CloseTx(t)
  <2>1. CASE DOMAIN t.writes = {}
    BY <1>1, <1>5, <2>1
  <2>2. CASE DOMAIN t.writes = {"rdt"} /\ Decision(t.reads, t.writes["rdt"])
    BY <1>1, <1>2, <1>5, <2>2 DEF Keys
  <2>3. QED
    BY <1>5, <2>1, <2>2 DEF CloseTx
<1>6. QED
  BY <1>3, <1>4, <1>5 DEF IInv, PoolOK

(* Ballots that are on the ledger stay there. *)
LEMMA CommitKeepsBallots ==
  ASSUME IInv, NEW t \in pool, Commit(t), NEW c \in Clients, NEW n \in Nodes, HasBallot(c, n)
  PROVE  HasBallot(c, n)'
<1>1. n \in Keys /\ n \notin {"policy", "nodes", "rdt"}
  BY ValueKinds DEF Keys
<1>2. state'[n] = state[n]
  <2>1. CASE BallotTx(t) /\ state[t.node] = None
    <3>1. n # t.node
      BY <2>1 DEF HasBallot
    <3>2. \A k \in Keys \ {t.node} : state'[k] = state[k]
      BY CommitCases, <2>1, ValueKinds DEF BallotTx, Registration, CloseTx
    <3>3. QED
      BY <1>1, <3>1, <3>2
  <2>2. CASE Registration(t)
    BY CommitCases, <1>1, <2>2, ValueKinds DEF BallotTx, Registration, CloseTx
  <2>3. CASE CloseTx(t)
    BY CommitCases, <1>1, <2>3, ValueKinds DEF BallotTx, Registration, CloseTx
  <2>4. QED
    BY CommitCases, <2>1, <2>2, <2>3
<1>3. UNCHANGED deployment
  BY DEF Commit
<1>4. QED
  BY <1>2, <1>3 DEF HasBallot, CertOf

LEMMA CommitWorld ==
  ASSUME IInv, NEW t \in pool, Commit(t)
  PROVE  WorldOK'
<1>1. WorldOK /\ UNCHANGED deployment
  BY DEF IInv, Commit
<1>2. DOMAIN state' = Keys
  BY CommitCases
<1>3. ASSUME NEW k \in Keys PROVE state'[k] # None => state'[k] \in ValuesOf(k)
  <2>1. CASE state'[k] = state[k]
    BY <1>1, <2>1 DEF WorldOK
  <2>2. CASE Registration(t) /\ k = t.node /\ state'[k] = t.writes[k]
    BY <2>2 DEF Registration
  <2>3. CASE BallotTx(t) /\ k = t.node /\ state'[k] = BallotOf(t.from, k)
    <3>1. k \in Nodes /\ t.from \in Clients
      BY <2>3 DEF BallotTx
    <3>2. QED
      BY <1>1, <2>3, <3>1, DeploymentFacts, ValueKinds
  <2>4. CASE Decision(t.reads, t.writes["rdt"]) /\ k = "rdt" /\ state'[k] = t.writes["rdt"]
    BY <2>4, ValueKinds DEF Decision
  <2>5. QED
    BY <2>1, <2>2, <2>3, <2>4, CommitCases
<1>4. QED
  BY <1>1, <1>2, <1>3 DEF WorldOK

LEMMA CommitInv ==
  ASSUME IInv, NEW t \in pool, Commit(t)
  PROVE  IInv'
<1>1. WorldOK'
  BY CommitWorld
<1>2. PoolOK'
  BY PoolFrame DEF IInv, Commit
<1>3. t.from \in Clients \cup {None}
  BY PoolFrom DEF IInv
<1>4. ClientsOK'
  BY <1>3, AnswerOK DEF IInv, Commit, ClientsOK
<1>5. t.from \in Clients /\ t.node \in Nodes => HasBallot(t.from, t.node)'
  <2> SUFFICES ASSUME t.from \in Clients, t.node \in Nodes PROVE HasBallot(t.from, t.node)'
    OBVIOUS
  <2>1. state'[t.node] = BallotOf(t.from, t.node)
    BY CommitCases, ValueKinds DEF Registration, CloseTx
  <2>2. BallotOf(t.from, t.node) \in Ballot /\ None \notin Ballot
    BY DeploymentFacts, NoneAssumption DEF IInv
  <2>3. BallotOf(t.from, t.node).cert = CertOf(t.from) /\ UNCHANGED deployment
    BY DEF BallotOf, Commit
  <2>4. QED
    BY <2>1, <2>2, <2>3 DEF HasBallot, CertOf
<1>6. VotesOnLedger'
  <2>1. Answer(t, TRUE) /\ UNCHANGED deployment
    BY DEF Commit
  <2>2. \A c \in Clients, n \in Nodes : HasBallot(c, n) => HasBallot(c, n)'
    BY CommitKeepsBallots
  <2>3. QED
    BY <1>3, <1>5, <2>1, <2>2, AnswerBelieves DEF IInv
<1>7. QED
  BY <1>1, <1>2, <1>4, <1>6 DEF IInv

LEMMA AnswerFails ==
  ASSUME IInv, NEW t \in pool, Answer(t, FALSE), UNCHANGED <<deployment, state, attempts, closes>>,
         pool' \subseteq pool, faults' \in 0 .. MaxFaults
  PROVE  IInv'
<1>1. WorldOK' /\ PoolOK'
  BY WorldFrame, PoolFrame DEF IInv
<1>2. t.from \in Clients \cup {None}
  BY PoolFrom DEF IInv
<1>3. ClientsOK'
  BY <1>2, AnswerOK DEF IInv
<1>4. \A c \in Clients, n \in Nodes : HasBallot(c, n) => HasBallot(c, n)'
  BY DEF HasBallot, CertOf
<1>5. VotesOnLedger'
  BY <1>2, <1>4, AnswerBelieves DEF IInv
<1>6. QED
  BY <1>1, <1>3, <1>5 DEF IInv

LEMMA InvalidateInv ==
  ASSUME IInv, NEW t \in pool, Invalidate(t)
  PROVE  IInv'
<1>1. faults' \in 0 .. MaxFaults
  BY DEF IInv, ClientsOK, Invalidate
<1>2. QED
  BY <1>1, AnswerFails DEF Invalidate

LEMMA TimesOutInv ==
  ASSUME IInv, NEW t \in pool, TimesOut(t)
  PROVE  IInv'
<1>1. faults' \in 0 .. MaxFaults
  BY BoundAssumption DEF IInv, ClientsOK, TimesOut
<1>2. QED
  BY <1>1, AnswerFails DEF TimesOut

-----------------------------------------------------------------------------
(* The steps of a client.                                                  *)

(* One client moves; what it believes then is shown by the caller. *)
LEMMA OneMoves ==
  ASSUME IInv, NEW c \in Clients, UNCHANGED <<deployment, state>>, PoolOK', ClientsOK',
         \A d \in Clients \ {c} : client'[d] = client[d] /\ answer'[d] = answer[d],
         Believes(c)'
  PROVE  IInv'
<1>1. WorldOK'
  BY WorldFrame DEF IInv
<1>2. ASSUME NEW d \in Clients PROVE Believes(d)'
  <2>1. CASE d = c
    BY <2>1
  <2>2. CASE d # c
    BY <2>2, BelievesFrame DEF IInv, VotesOnLedger
  <2>3. QED
    BY <2>1, <2>2
<1>3. QED
  BY <1>1, <1>2 DEF IInv, VotesOnLedger

LEMMA SetupInv ==
  ASSUME IInv, NEW c \in Clients, Setup(c)
  PROVE  IInv'
<1>1. UNCHANGED <<deployment, state, answer, attempts, faults, closes>>
  BY DEF Setup
<1>2. CASE client[c].transport = "fabric"
  <2> DEFINE t == Transaction(c, "policy", {}, Put("policy", PolicyOf(c)))
  <2>1. pool' = pool \cup {t} /\ client' = [client EXCEPT ![c].pc = "policy"]
    BY <1>2 DEF Setup, Submit
  <2>2. Registration(t)
    BY PolicySound DEF IInv
  <2>3. PoolOK'
    BY <1>1, <2>1, <2>2, PoolGrows DEF IInv
  <2>4. /\ client' \in [Clients -> ClientState] /\ client'[c].pc = "policy"
        /\ \A d \in Clients \ {c} : client'[d] = client[d]
    BY <2>1, ClientMoves DEF IInv, ClientsOK, Pcs
  <2>5. ClientsOK' /\ Believes(c)'
    BY <1>1, <2>4 DEF IInv, ClientsOK, Believes
  <2>6. QED
    BY <1>1, <2>3, <2>4, <2>5, OneMoves
<1>3. CASE client[c].transport # "fabric"
  <2>1. client' = [client EXCEPT ![c].pc = "ready", ![c].ready = TRUE] /\ UNCHANGED pool
    BY <1>3 DEF Setup
  <2>2. /\ client' \in [Clients -> ClientState] /\ client'[c].pc = "ready"
        /\ \A d \in Clients \ {c} : client'[d] = client[d]
    BY <2>1 DEF IInv, ClientsOK, ClientState, Pcs
  <2>3. ClientsOK' /\ Believes(c)'
    BY <1>1, <2>2 DEF IInv, ClientsOK, Believes
  <2>4. PoolOK'
    BY <1>1, <2>1, PoolFrame DEF IInv
  <2>5. QED
    BY <1>1, <2>2, <2>3, <2>4, OneMoves
<1>4. QED
  BY <1>2, <1>3

LEMMA RetransportInv ==
  ASSUME IInv, NEW c \in Clients, Retransport(c)
  PROVE  IInv'
<1> DEFINE t == Transaction(c, "policy", {}, Put("policy", PolicyOf(c)))
<1>1. UNCHANGED <<deployment, state, answer, attempts, faults, closes>>
  BY DEF Retransport
<1>2. /\ pool' = pool \cup {t}
      /\ client' = [client EXCEPT ![c].pc = "policy", ![c].transport = "fabric"]
  BY DEF Retransport
<1>3. PoolOK'
  BY <1>1, <1>2, PolicySound, PoolGrows DEF IInv
<1>4. /\ client' \in [Clients -> ClientState] /\ client'[c].pc = "policy"
      /\ \A d \in Clients \ {c} : client'[d] = client[d]
  BY <1>2 DEF IInv, ClientsOK, ClientState, Pcs
<1>5. ClientsOK' /\ Believes(c)'
  BY <1>1, <1>4 DEF IInv, ClientsOK, Believes
<1>6. QED
  BY <1>1, <1>3, <1>4, <1>5, OneMoves

LEMMA RegisterInv ==
  ASSUME IInv, NEW c \in Clients, Register(c)
  PROVE  IInv'
<1> DEFINE t == Transaction(c, "nodes", {}, Put("nodes", NodesOf(c)))
<1>1. UNCHANGED <<deployment, state, answer, attempts, faults, closes>>
  BY DEF Register
<1>2. pool' = pool \cup {t} /\ client' = [client EXCEPT ![c].pc = "nodes"]
  BY DEF Register, Submit
<1>3. PoolOK'
  BY <1>1, <1>2, NodesSound, PoolGrows DEF IInv
<1>4. /\ client' \in [Clients -> ClientState] /\ client'[c].pc = "nodes"
      /\ \A d \in Clients \ {c} : client'[d] = client[d]
  BY <1>2, ClientMoves DEF IInv, ClientsOK, Pcs
<1>5. ClientsOK' /\ Believes(c)'
  BY <1>1, <1>4 DEF IInv, ClientsOK, Believes
<1>6. QED
  BY <1>1, <1>3, <1>4, <1>5, OneMoves

LEMMA DenyInv ==
  ASSUME IInv, NEW c \in Clients, Deny(c)
  PROVE  IInv'
<1>1. UNCHANGED <<deployment, state, pool, answer, attempts, faults, closes>>
  BY DEF Deny
<1>2. client' = [client EXCEPT ![c].pc = "denied"]
  BY DEF Deny
<1>3. PoolOK'
  BY <1>1, PoolFrame DEF IInv
<1>4. /\ client' \in [Clients -> ClientState] /\ client'[c].pc = "denied"
      /\ \A d \in Clients \ {c} : client'[d] = client[d]
  BY <1>2, ClientMoves DEF IInv, ClientsOK, Pcs
<1>5. ClientsOK' /\ Believes(c)'
  BY <1>1, <1>4 DEF IInv, ClientsOK, Believes
<1>6. QED
  BY <1>1, <1>3, <1>4, <1>5, OneMoves

LEMMA AuthorizeInv ==
  ASSUME IInv, NEW c \in Clients, Authorize(c)
  PROVE  IInv'
<1> DEFINE f == [n \in Nodes |-> IF n \in LocalCommittee(c) THEN "waiting" ELSE "none"]
<1>1. UNCHANGED <<deployment, state, pool, faults, closes>>
  BY DEF Authorize
<1>2. /\ client' = [client EXCEPT ![c].pc = "voting"]
      /\ answer' = [answer EXCEPT ![c] = f]
      /\ attempts' = [attempts EXCEPT ![c] = @ + 1] /\ attempts[c] < MaxAttempts
  BY DEF Authorize
<1>3. PoolOK'
  BY <1>1, PoolFrame DEF IInv
<1>4. /\ client' \in [Clients -> ClientState] /\ client'[c].pc = "voting"
      /\ \A d \in Clients \ {c} : client'[d] = client[d]
  BY <1>2, ClientMoves DEF IInv, ClientsOK, Pcs
<1>5. f \in [Nodes -> Answers]
  BY DEF Answers
<1>6. /\ answer' \in [Clients -> [Nodes -> Answers]] /\ answer'[c] = f
      /\ \A d \in Clients \ {c} : answer'[d] = answer[d]
  BY <1>2, <1>5, AnswersReset DEF IInv, ClientsOK
<1>7. attempts' \in [Clients -> 0 .. MaxAttempts]
  BY <1>2, BoundAssumption DEF IInv, ClientsOK
<1>8. ClientsOK'
  BY <1>1, <1>4, <1>6, <1>7 DEF IInv, ClientsOK
<1>9. Believes(c)'
  <2>1. \A n \in LocalCommittee(c) : answer'[c][n] = "waiting"
    BY <1>6, LocalCommitteeFilled DEF IInv
  <2>2. LocalCommittee(c)' = LocalCommittee(c)
    BY <1>1 DEF LocalCommittee
  <2>3. QED
    BY <1>4, <2>1, <2>2 DEF Believes
<1>10. QED
  BY <1>1, <1>3, <1>4, <1>6, <1>8, <1>9, OneMoves

LEMMA NoAnswersOK == NoAnswers \in [Nodes -> Answers]
  BY DEF NoAnswers, Answers

LEMMA RoundFailsInv ==
  ASSUME IInv, NEW c \in Clients, RoundFails(c)
  PROVE  IInv'
<1>1. UNCHANGED <<deployment, state, pool, attempts, faults, closes>>
  BY DEF RoundFails
<1>2. /\ client' = [client EXCEPT ![c].pc = "failed"]
      /\ answer' = [answer EXCEPT ![c] = NoAnswers]
  BY DEF RoundFails
<1>3. PoolOK'
  BY <1>1, PoolFrame DEF IInv
<1>4. /\ client' \in [Clients -> ClientState] /\ client'[c].pc = "failed"
      /\ \A d \in Clients \ {c} : client'[d] = client[d]
  BY <1>2, ClientMoves DEF IInv, ClientsOK, Pcs
<1>5. /\ answer' \in [Clients -> [Nodes -> Answers]]
      /\ \A d \in Clients \ {c} : answer'[d] = answer[d]
  BY <1>2, NoAnswersOK, AnswersReset DEF IInv, ClientsOK
<1>6. ClientsOK' /\ Believes(c)'
  BY <1>1, <1>4, <1>5 DEF IInv, ClientsOK, Believes
<1>7. QED
  BY <1>1, <1>3, <1>4, <1>5, <1>6, OneMoves

LEMMA GrantLocallyInv ==
  ASSUME IInv, NEW c \in Clients, GrantLocally(c)
  PROVE  IInv'
<1>1. UNCHANGED <<deployment, state, pool, attempts, faults, closes>>
  BY DEF GrantLocally
<1>2. /\ client' = [client EXCEPT ![c].pc = "granted"] /\ client[c].transport = "in_process"
      /\ answer' = [answer EXCEPT ![c] = NoAnswers]
  BY DEF GrantLocally
<1>3. PoolOK'
  BY <1>1, PoolFrame DEF IInv
<1>4. /\ client' \in [Clients -> ClientState] /\ client'[c].transport = "in_process"
      /\ \A d \in Clients \ {c} : client'[d] = client[d]
  BY <1>2, ClientMoves DEF IInv, ClientsOK, Pcs
<1>5. /\ answer' \in [Clients -> [Nodes -> Answers]]
      /\ \A d \in Clients \ {c} : answer'[d] = answer[d]
  BY <1>2, NoAnswersOK, AnswersReset DEF IInv, ClientsOK
<1>6. ClientsOK' /\ Believes(c)'
  BY <1>1, <1>4, <1>5 DEF IInv, ClientsOK, Believes
<1>7. QED
  BY <1>1, <1>3, <1>4, <1>5, <1>6, OneMoves

(* A client closes when every member of its committee has cast. *)
LEMMA AllCast ==
  ASSUME IInv, NEW c \in Clients, Collected(c), ~Erred(c), client[c].transport = "fabric",
         NEW n \in LocalCommittee(c)
  PROVE  HasBallot(c, n)
<1>1. Believes(c) /\ n \in Nodes
  BY LocalCommitteeFilled DEF IInv, VotesOnLedger
<1>2. answer[c][n] # "none" /\ (answer[c][n] = "cast" => HasBallot(c, n))
  BY <1>1 DEF Believes, Collected
<1>3. answer[c][n] \in Answers /\ answer[c][n] \notin {"waiting", "submitted", "error"}
  BY <1>1 DEF IInv, ClientsOK, Collected, Erred
<1>4. QED
  BY <1>2, <1>3 DEF Answers

LEMMA SubmitCloseInv ==
  ASSUME IInv, NEW c \in Clients, SubmitClose(c)
  PROVE  IInv'
<1> DEFINE t == Transaction(c, "closing", CloseReads, CloseWrites)
<1>1. /\ UNCHANGED <<deployment, state, attempts, faults, closes>>
      /\ answer' = [answer EXCEPT ![c] = NoAnswers]
  BY DEF SubmitClose
<1>2. /\ answer' \in [Clients -> [Nodes -> Answers]]
      /\ \A d \in Clients \ {c} : answer'[d] = answer[d]
  BY <1>1, NoAnswersOK, AnswersReset DEF IInv, ClientsOK
<1>3. CASE CloseFails
  <2>1. client' = [client EXCEPT ![c].pc = "failed"] /\ UNCHANGED pool
    BY <1>3 DEF SubmitClose
  <2>2. PoolOK'
    BY <1>1, <2>1, PoolFrame DEF IInv
  <2>3. /\ client' \in [Clients -> ClientState] /\ client'[c].pc = "failed"
        /\ \A d \in Clients \ {c} : client'[d] = client[d]
    BY <2>1, ClientMoves DEF IInv, ClientsOK, Pcs
  <2>4. ClientsOK' /\ Believes(c)'
    BY <1>1, <1>2, <2>3 DEF IInv, ClientsOK, Believes
  <2>5. QED
    BY <1>1, <1>2, <2>2, <2>3, <2>4, OneMoves
<1>4. CASE ~CloseFails
  <2>1. pool' = pool \cup {t} /\ client' = [client EXCEPT ![c].pc = "closing"]
    BY <1>4 DEF SubmitClose, Submit
  <2>2. PoolOK'
    <3>1. CloseTx(t)
      BY <1>4, CloseSound DEF IInv
    <3>2. QED
      BY <1>1, <2>1, <3>1, PoolGrows DEF IInv
  <2>3. /\ client' \in [Clients -> ClientState] /\ client'[c].pc = "closing"
        /\ \A d \in Clients \ {c} : client'[d] = client[d]
    BY <2>1, ClientMoves DEF IInv, ClientsOK, Pcs
  <2>4. ClientsOK'
    BY <1>1, <1>2, <2>3 DEF IInv, ClientsOK
  <2>5. \A n \in LocalCommittee(c) : HasBallot(c, n)
    BY AllCast DEF SubmitClose
  <2>6. Believes(c)'
    BY <1>1, <2>3, <2>5 DEF Believes, HasBallot, CertOf, LocalCommittee
  <2>7. QED
    BY <1>1, <1>2, <2>2, <2>3, <2>4, <2>6, OneMoves
<1>5. QED
  BY <1>3, <1>4

LEMMA CloseElsewhereInv ==
  ASSUME IInv, CloseElsewhere
  PROVE  IInv'
<1> DEFINE t == Transaction(None, "closing", CloseReads, CloseWrites)
<1>1. /\ UNCHANGED <<deployment, state, client, answer, attempts, faults>>
      /\ closes' = closes + 1 /\ closes < MaxCloses /\ pool' = pool \cup {t}
  BY DEF CloseElsewhere
<1>2. CloseTx(t)
  BY CloseSound DEF IInv, CloseElsewhere
<1>3. PoolOK'
  BY <1>1, <1>2, PoolGrows DEF IInv
<1>4. ClientsOK' /\ WorldOK'
  BY <1>1, BoundAssumption, WorldFrame DEF IInv, ClientsOK
<1>5. VotesOnLedger'
  BY <1>1, BelievesFrame DEF IInv, VotesOnLedger
<1>6. QED
  BY <1>3, <1>4, <1>5 DEF IInv

-----------------------------------------------------------------------------
(* The steps of a member.                                                  *)

(* A member's answer is in; over Fabric it has not cast by this. *)
LEMMA MemberMoves ==
  ASSUME IInv, NEW c \in Clients, NEW n \in Nodes, NEW x \in Answers \ {"none"},
         UNCHANGED <<deployment, state, client, attempts, closes>>, PoolOK',
         faults' \in 0 .. MaxFaults, Waits(c, n),
         answer' = [answer EXCEPT ![c][n] = x], x = "cast" => client[c].transport # "fabric"
  PROVE  IInv'
<1>1. /\ answer' \in [Clients -> [Nodes -> Answers]]
      /\ answer'[c][n] = x /\ \A m \in Nodes \ {n} : answer'[c][m] = answer[c][m]
      /\ \A d \in Clients \ {c} : answer'[d] = answer[d]
  BY AnswerSet DEF IInv, ClientsOK
<1>2. ClientsOK'
  BY <1>1 DEF IInv, ClientsOK
<1>3. Believes(c)'
  <2>1. client[c].pc = "voting" /\ LocalCommittee(c) \subseteq Nodes
    BY LocalCommitteeFilled DEF Waits, IInv
  <2>2. Believes(c)
    BY DEF IInv, VotesOnLedger
  <2>3. ASSUME client[c].transport = "fabric", NEW m \in LocalCommittee(c)
        PROVE  answer'[c][m] # "none" /\ (answer'[c][m] = "cast" => HasBallot(c, m))
    <3>1. CASE m = n
      BY <1>1, <2>3, <3>1
    <3>2. CASE m # n
      BY <1>1, <2>1, <2>2, <2>3, <3>2 DEF Believes
    <3>3. QED
      BY <3>1, <3>2
  <2>4. QED
    BY <2>1, <2>3 DEF Believes, HasBallot, CertOf, LocalCommittee
<1>4. QED
  BY <1>1, <1>2, <1>3, OneMoves

LEMMA MemberInv ==
  ASSUME IInv, NEW c \in Clients, NEW n \in Nodes, MemberStep(c, n) \/ MemberFails(c, n)
  PROVE  IInv'
<1>1. CASE SubmitVote(c, n)
  <2> DEFINE t == Transaction(c, n, VoteReads(n), Put(n, BallotOf(c, n)))
  <2>1. BallotTx(t)
    BY <1>1, BallotSound DEF SubmitVote
  <2>2. PoolOK'
    BY <1>1, <2>1, PoolGrows DEF IInv, SubmitVote
  <2>3. "submitted" \in Answers \ {"none"} /\ faults' \in 0 .. MaxFaults
    BY <1>1 DEF Answers, SubmitVote, IInv, ClientsOK
  <2>4. QED
    BY <1>1, <2>2, <2>3, MemberMoves DEF SubmitVote
<1>2. CASE VoteRefused(c, n)
  <2>1. "error" \in Answers \ {"none"} /\ faults' \in 0 .. MaxFaults
    BY <1>2 DEF Answers, VoteRefused, IInv, ClientsOK
  <2>2. PoolOK'
    BY <1>2, PoolFrame DEF IInv, VoteRefused
  <2>3. QED
    BY <1>2, <2>1, <2>2, MemberMoves DEF VoteRefused
<1>3. CASE VoteLocally(c, n)
  <2>1. "cast" \in Answers \ {"none"} /\ faults' \in 0 .. MaxFaults
    BY <1>3 DEF Answers, VoteLocally, IInv, ClientsOK
  <2>2. PoolOK'
    BY <1>3, PoolFrame DEF IInv, VoteLocally
  <2>3. QED
    BY <1>3, <2>1, <2>2, MemberMoves DEF VoteLocally
<1>4. CASE MemberFails(c, n)
  <2>1. "error" \in Answers \ {"none"} /\ faults' \in 0 .. MaxFaults
    BY <1>4, BoundAssumption DEF Answers, MemberFails, IInv, ClientsOK
  <2>2. PoolOK'
    BY <1>4, PoolFrame DEF IInv, MemberFails
  <2>3. QED
    BY <1>4, <2>1, <2>2, MemberMoves DEF MemberFails
<1>5. QED
  BY <1>1, <1>2, <1>3, <1>4 DEF MemberStep

LEMMA ClientInv ==
  ASSUME IInv, NEW c \in Clients,
         Setup(c) \/ Retransport(c) \/ Deny(c) \/ Authorize(c) \/ ClientStep(c)
  PROVE  IInv'
  BY SetupInv, RetransportInv, DenyInv, AuthorizeInv, RegisterInv, RoundFailsInv,
     GrantLocallyInv, SubmitCloseInv DEF ClientStep

LEMMA UnchangedInv ==
  ASSUME IInv, UNCHANGED vars
  PROVE  IInv'
<1>1. WorldOK' /\ PoolOK' /\ ClientsOK'
  BY WorldFrame, PoolFrame DEF IInv, vars, ClientsOK
<1>2. VotesOnLedger'
  BY BelievesFrame DEF IInv, vars, VotesOnLedger
<1>3. QED
  BY <1>1, <1>2 DEF IInv

LEMMA StepInv == IInv /\ [Next]_vars => IInv'
<1> SUFFICES ASSUME IInv, [Next]_vars PROVE IInv'
  OBVIOUS
<1>1. ASSUME NEW c \in Clients,
             Setup(c) \/ Retransport(c) \/ Deny(c) \/ Authorize(c) \/ ClientStep(c)
      PROVE  IInv'
  BY <1>1, ClientInv
<1>2. ASSUME NEW c \in Clients, NEW n \in Nodes, MemberStep(c, n) \/ MemberFails(c, n)
      PROVE  IInv'
  BY <1>2, MemberInv
<1>3. ASSUME NEW t \in pool, Order(t) \/ TimesOut(t)
      PROVE  IInv'
  BY <1>3, CommitInv, InvalidateInv, TimesOutInv DEF Order
<1>4. CASE CloseElsewhere
  BY <1>4, CloseElsewhereInv
<1>5. CASE UNCHANGED vars
  BY <1>5, UnchangedInv
<1>6. QED
  BY <1>1, <1>2, <1>3, <1>4, <1>5 DEF Next

(* The inductive invariant holds of every reachable state.                  *)
THEOREM Inductive == Spec => []IInv
  BY InitInv, StepInv, PTL DEF Spec

-----------------------------------------------------------------------------
(* The invariants.                                                         *)

LEMMA PoolTyped ==
  ASSUME IInv, NEW t \in pool
  PROVE  DOMAIN t.reads \subseteq Keys /\ WriteOf(t)
<1>1. CASE Registration(t)
  BY <1>1 DEF Registration, WriteOf, Keys
<1>2. CASE BallotTx(t)
  <2>1. t.node \in Nodes /\ BallotOf(t.from, t.node) \in ValuesOf(t.node)
    BY <1>2, DeploymentFacts, ValueKinds DEF BallotTx, IInv
  <2>2. QED
    BY <1>2, <2>1 DEF BallotTx, WriteOf, VoteReads, Keys
<1>3. CASE CloseTx(t)
  BY <1>3, ValueKinds DEF CloseTx, Decision, WriteOf, Keys
<1>4. QED
  BY <1>1, <1>2, <1>3 DEF IInv, PoolOK

(* Every variable has its type, whatever is committed, retried and timed    *)
(* out: a key of the world state is written with its own kind of value only *)
(* (contract.go; fabric.go).                                                *)
THEOREM TypeCorrect == Spec => []TypeOK
<1>1. IInv => TypeOK
  <2> SUFFICES ASSUME IInv PROVE TypeOK
    OBVIOUS
  <2>1. \A c \in Clients : client[c].pc \in Pcs /\ client[c].ready \in BOOLEAN
    BY DEF IInv, ClientsOK, ClientState
  <2>2. QED
    BY <2>1, PoolTyped DEF IInv, WorldOK, ClientsOK, Answers, TypeOK
<1>2. QED
  BY <1>1, Inductive, PTL

(* Ballots may share a block: no member's ballot is invalidated by another  *)
(* member's (Vote, contract.go:479-483).                                    *)
THEOREM BallotsNeverConflict == Spec => []BallotsIndependent
<1>1. IInv => BallotsIndependent
  <2> SUFFICES ASSUME IInv, NEW t \in pool, t.node \in Nodes, ~Valid(t)
               PROVE  \/ \E k \in {"policy", "nodes"} : state[k] # t.reads[k]
                      \/ state[t.node] # None
    BY DEF BallotsIndependent
  <2>1. BallotTx(t)
    BY ValueKinds DEF IInv, PoolOK, Registration, CloseTx
  <2>2. QED
    BY <2>1 DEF BallotTx, VoteReads, Valid
<1>2. QED
  BY <1>1, Inductive, PTL

(* What a client takes for a grant over Fabric stands on the ledger: its    *)
(* whole committee, which is at least the threshold, has a ballot there for *)
(* its certificate (Collect, runVoteRound).                                 *)
THEOREM GrantsRecorded == Spec => []GrantRecorded
<1>1. IInv => GrantRecorded
  <2> SUFFICES ASSUME IInv, NEW c \in Clients, client[c].pc = "granted",
                      client[c].transport = "fabric"
               PROVE  Cardinality({n \in LocalCommittee(c) :
                        state[n] # None /\ state[n].cert = CertOf(c)}) >= Threshold
    BY DEF GrantRecorded
  <2>1. \A n \in LocalCommittee(c) : HasBallot(c, n)
    BY DEF IInv, VotesOnLedger, Believes
  <2>2. {n \in LocalCommittee(c) : state[n] # None /\ state[n].cert = CertOf(c)} = LocalCommittee(c)
    BY <2>1 DEF HasBallot
  <2>3. /\ LocalCommittee(c) \subseteq Nodes
        /\ Cardinality(LocalCommittee(c)) >= CommitteeSize
    BY LocalCommitteeFilled DEF IInv
  <2>4. Cardinality(LocalCommittee(c)) \in Nat
    BY <2>3, CommitteeAssumption, FS_Subset, FS_CardinalityType
  <2>5. Cardinality(LocalCommittee(c)) >= Threshold
    BY <2>3, <2>4, CommitteeAssumption
  <2>6. QED
    BY <2>2, <2>5, Zenon
<1>2. QED
  BY <1>1, Inductive, PTL

-----------------------------------------------------------------------------
(* The steps: what is decided, and the abstract vote.                      *)

(* Only a commit changes the world state. *)
LEMMA WorldChanges ==
  ASSUME [Next]_vars
  PROVE  UNCHANGED state \/ \E t \in pool : Commit(t)
  BY DEF Next, vars, Setup, Retransport, Deny, Authorize, ClientStep, Register, RoundFails,
     GrantLocally, SubmitClose, MemberStep, SubmitVote, VoteRefused, VoteLocally, MemberFails,
     Order, Invalidate, TimesOut, CloseElsewhere

(* A result that is committed rests on the world state it is committed to.  *)
LEMMA ResultCommitted ==
  ASSUME IInv, NEW t \in pool, Commit(t), state'["rdt"] # state["rdt"]
  PROVE  /\ state["rdt"] = None /\ state'["rdt"] \in RedactionTx
         /\ Cardinality(state'["rdt"].sigma) >= Threshold
         /\ state'["rdt"].sigma \subseteq ContractCommittee
         /\ \A n \in state'["rdt"].sigma :
              state[n] # None /\ state[n].approve = TRUE /\ state[n].cert.digest = state'["rdt"].cert
         /\ \A n \in Nodes : state'[n] = state[n]
<1>1. "rdt" \in Keys /\ Nodes \subseteq Keys /\ "rdt" \notin Nodes
  BY ValueKinds DEF Keys
<1>2. /\ Decision(t.reads, t.writes["rdt"])
      /\ \A k \in DOMAIN t.reads : state[k] = t.reads[k]
      /\ \A k \in Keys \ {"rdt"} : state'[k] = state[k]
      /\ state'["rdt"] = t.writes["rdt"]
  BY <1>1, CommitCases DEF Registration, BallotTx
<1>3. QED
  BY <1>1, <1>2 DEF Decision, ContractCommittee

(* What is decided was voted by the committee of the registration in force  *)
(* at that moment (tally, contract.go:648-651).                             *)
THEOREM DecidedByTheCommittee == Spec => DecidedByCommittee
<1>1. IInv /\ [Next]_vars =>
        [state["rdt"] # state'["rdt"] => state'["rdt"].sigma \subseteq ContractCommittee]_vars
  <2> SUFFICES ASSUME IInv, [Next]_vars, state["rdt"] # state'["rdt"]
               PROVE  state'["rdt"].sigma \subseteq ContractCommittee
    OBVIOUS
  <2>1. PICK t \in pool : Commit(t)
    BY WorldChanges
  <2>2. QED
    BY <2>1, ResultCommitted
<1>2. QED
  BY <1>1, Inductive, PTL DEF Spec, DecidedByCommittee

LEMMA QuorumCardinality ==
  ASSUME NEW S
  PROVE  Quorum!Cardinality(S) = Cardinality(S)
  BY DEF Quorum!Cardinality, Cardinality

(* The contract implements a vote that decides once, on a threshold of one  *)
(* certificate, and in which a node votes once (Vote, Close, tally).        *)
THEOREM ImplementsVoteQuorum == Spec => ImplementsQuorum
<1>1. Init => Quorum!Init
  BY DEF Init, Quorum!Init, Keys
<1>2. IInv /\ [Next]_vars => [Quorum!Next]_(Quorum!vars)
  <2> SUFFICES ASSUME IInv, [Next]_vars PROVE Quorum!Next \/ UNCHANGED Quorum!vars
    OBVIOUS
  <2>1. CASE UNCHANGED state
    BY <2>1 DEF Quorum!vars
  <2>2. ASSUME NEW t \in pool, Commit(t), state'["rdt"] # state["rdt"]
        PROVE  Quorum!Next
    <3> DEFINE tx == state'["rdt"]
    <3>1. /\ state["rdt"] = None /\ tx \in RedactionTx /\ Cardinality(tx.sigma) >= Threshold
          /\ \A n \in tx.sigma : state[n] # None /\ state[n].approve = TRUE
                                /\ state[n].cert.digest = tx.cert
          /\ \A n \in Nodes : state'[n] = state[n]
      BY <2>2, ResultCommitted
    <3>2. tx.cert \in Digests /\ tx.sigma \in SUBSET Nodes /\ tx = [cert |-> tx.cert, sigma |-> tx.sigma]
      BY <3>1 DEF RedactionTx
    <3> DEFINE V == [n \in Nodes |-> IF state[n] = None THEN None
                      ELSE [cert |-> state[n].cert.digest, approve |-> state[n].approve]]
    <3>3. \A n \in tx.sigma : V[n] = [cert |-> tx.cert, approve |-> TRUE]
      BY <3>1, <3>2
    <3>4. V' = V
      BY <3>1
    <3>5. Quorum!Cardinality(tx.sigma) >= Threshold
      BY <3>1, QuorumCardinality
    <3>6. Quorum!Decide(tx.cert, tx.sigma)
      BY <3>1, <3>2, <3>3, <3>4, <3>5 DEF Quorum!Decide
    <3>7. QED
      BY <3>2, <3>6 DEF Quorum!Next
  <2>3. ASSUME NEW t \in pool, Commit(t), state'["rdt"] = state["rdt"]
        PROVE  Quorum!Next \/ UNCHANGED Quorum!vars
    <3>1. CASE /\ BallotTx(t) /\ state[t.node] = None
               /\ \A k \in Keys \ {t.node} : state'[k] = state[k]
               /\ state'[t.node] = BallotOf(t.from, t.node)
      <4> DEFINE b == BallotOf(t.from, t.node)
                 v == [cert |-> b.cert.digest, approve |-> b.approve]
      <4>1. t.node \in Nodes /\ b \in Ballot /\ b # None
        BY <3>1, DeploymentFacts, NoneAssumption DEF BallotTx, IInv
      <4>2. v \in Quorum!Votes
        BY <4>1 DEF Ballot, Certs, Quorum!Votes
      <4>3. \A n \in Nodes \ {t.node} : state'[n] = state[n]
        BY <3>1 DEF Keys
      <4> DEFINE V == [n \in Nodes |-> IF state[n] = None THEN None
                        ELSE [cert |-> state[n].cert.digest, approve |-> state[n].approve]]
      <4>4. state'[t.node] # None /\ V[t.node] = None
        BY <3>1, <4>1
      <4>5. V' = [V EXCEPT ![t.node] = v]
        BY <3>1, <4>1, <4>3, <4>4
      <4>6. PICK n \in Nodes, w \in Quorum!Votes : n = t.node /\ w = v
        BY <4>1, <4>2
      <4>7. Quorum!Cast(n, w)
        BY <2>3, <4>4, <4>5, <4>6 DEF Quorum!Cast
      <4>8. QED
        BY <4>7 DEF Quorum!Next
    <3>2. CASE \A n \in Nodes : state'[n] = state[n]
      BY <2>3, <3>2 DEF Quorum!vars
    <3>3. QED
      BY <2>3, <3>1, <3>2, CommitCases, ValueKinds DEF Registration, Keys
  <2>4. QED
    BY <2>1, <2>2, <2>3, WorldChanges
<1>3. QED
  BY <1>1, <1>2, Inductive, PTL DEF Spec, ImplementsQuorum, Quorum!Spec
=============================================================================
